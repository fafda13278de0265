---------------------------- MODULE ActionCards ----------------------------
(***************************************************************************)
(* Proposals waiting for the employee's answer in one Telegram chat.       *)
(*                                                                         *)
(* A chat turn may leave pending actions in the confirmation ledgers.  The *)
(* shell shows them as a card: one action by itself, or several as a group *)
(* stored with the items still undecided.  The employee answers by a       *)
(* button of the card or in words.  What the shell remembers (the active   *)
(* card, the action words refer to, the taps being worked on) is lost on a *)
(* restart; groups, ledgers and the leased claims of tapped cards are      *)
(* PostgreSQL rows.  Proactive deliveries of the scheduler do not wait for *)
(* the handler the chat is busy with.                                      *)
(*                                                                         *)
(* Every handler is a sequence of awaits; a step ends where one begins.    *)
(***************************************************************************)
EXTENDS Naturals, FiniteSets

CONSTANTS
    Actions,      \* proposals, numbered in the order a card lists them
    Handlers,     \* invocations of the shell's handlers at one time
    MaxCards,     \* bound: messages with buttons
    MaxAnswers,   \* bound: taps and texts
    MaxEvents,    \* bound: messages with buttons, taps and texts together
    MaxFaults     \* bound: failing calls, except those to send a card, and restarts

ASSUME BoundsAssumption ==
    /\ Actions \subseteq Nat \ {0} /\ IsFiniteSet(Actions)
    /\ 0 \notin Handlers /\ IsFiniteSet(Handlers)
    /\ MaxCards \in Nat /\ MaxAnswers \in Nat /\ MaxEvents \in Nat /\ MaxFaults \in Nat

VARIABLES
    ledger,      \* state of each action in its confirmation ledger
    late,        \* actions whose confirmation has expired
    groups,      \* telegram_pending_action_groups, by their first action
    cards,       \* messages with buttons the chat has received
    claims,      \* telegram_action_messages
    active,      \* activeActionMessageIds of the chat (0: none)
    spoken,      \* activePendingActions: the card words refer to (0: none)
    working,     \* inFlightActionMessages: the handler registered for a card
    inflight,    \* handlers the chat is busy with
    callbackKey, \* callbackActionKeys of the chat (0: none)
    handlers,    \* what each handler is doing
    answers,     \* taps and texts so far
    faults       \* failed calls and restarts so far

shell == <<active, spoken>>
chat == <<inflight, callbackKey>>
stores == <<ledger, groups, claims>>
counts == <<answers, faults>>
vars == <<ledger, late, groups, cards, claims, active, spoken, working, inflight,
          callbackKey, handlers, answers, faults>>

-----------------------------------------------------------------------------
(* Records                                                                 *)

Messages == 1..MaxCards
Min(S) == CHOOSE a \in S : \A b \in S : a <= b

\* A group is named by its first action; 0 is a card of one action.
Card == [shown: SUBSET Actions, group: Actions \cup {0}]
NoCard == [shown |-> {}, group |-> 0]

\* created orders the groups as created_at does; "purged" is a deleted row.
Group == [state: {"absent", "preparing", "delivered", "completed", "cancelled", "purged"},
          items: SUBSET Actions, pending: SUBSET Actions,
          message: 0..MaxCards, created: Nat]
NoGroup == [state |-> "absent", items |-> {}, pending |-> {}, message |-> 0, created |-> 0]

\* "stale": the lease of the holder has passed.
Claim == [state: {"free", "held", "stale", "done"}, holder: Handlers \cup {0}]
NoClaim == [state |-> "free", holder |-> 0]

\* captured is the set of items the handler read as pending; asked the actions of the
\* last card when the words were written; retry: some item failed; lapsed: the lease of
\* the claim passed while the handler worked.
Handler ==
    [kind: {"none", "text", "tap", "turn"},
     pc: {"idle", "reading", "binding", "checking", "waiting", "registering", "repeated",
          "claiming", "deciding", "settling", "marking", "completing",
          "removing", "creating", "sending", "retrying", "withdrawing", "cancelling"},
     card: 0..MaxCards, group: Actions \cup {0}, shown: SUBSET Actions,
     confirm: SUBSET Actions, todo: SUBSET Actions, captured: SUBSET Actions,
     resolved: SUBSET Actions, retry: BOOLEAN, waits: Handlers \cup {0},
     asked: SUBSET Actions, lapsed: BOOLEAN]
Idle == [kind |-> "none", pc |-> "idle", card |-> 0, group |-> 0, shown |-> {},
         confirm |-> {}, todo |-> {}, captured |-> {}, resolved |-> {}, retry |-> FALSE,
         waits |-> 0, asked |-> {}, lapsed |-> FALSE]

Sent == {m \in Messages : cards[m].shown # {}}
LastCard == IF Sent = {} THEN NoCard ELSE cards[Cardinality(Sent)]

\* A group expires with its last item.
Live(g) == ~ groups[g].items \subseteq late

\* getLatestDelivered
Delivered == {g \in Actions : groups[g].state = "delivered" /\ Live(g)}
IsLatest(g) == g \in Delivered /\ \A f \in Delivered : groups[f].created <= groups[g].created

-----------------------------------------------------------------------------
(* The ledgers of the proposals                                            *)

\* confirm and reject decide a pending row that has not expired; else they replay.
Decided(a, d) == [ledger EXCEPT ![a] = IF @ = "pending" /\ a \notin late THEN d ELSE @]

\* Bounds: taps and texts, alone and with the messages there are.
Answering ==
    /\ answers < MaxAnswers /\ answers + Cardinality(Sent) < MaxEvents
    /\ answers' = answers + 1

Fault == faults < MaxFaults /\ faults' = faults + 1

-----------------------------------------------------------------------------
(* Handlers                                                                *)

Init ==
    /\ ledger = [a \in Actions |-> "unproposed"] /\ late = {}
    /\ groups = [g \in Actions |-> NoGroup]
    /\ cards = [m \in Messages |-> NoCard]
    /\ claims = [m \in Messages |-> NoClaim]
    /\ active = 0 /\ spoken = 0
    /\ working = [m \in Messages |-> 0]
    /\ inflight = {} /\ callbackKey = 0
    /\ handlers = [h \in Handlers |-> Idle]
    /\ answers = 0 /\ faults = 0

\* h goes on to a step that needs no more than its card and group.
Onward(h, pc) == [Idle EXCEPT !.kind = handlers[h].kind, !.pc = pc,
                              !.card = handlers[h].card, !.group = handlers[h].group]
Marking(h) == [Onward(h, "marking") EXCEPT !.captured = handlers[h].captured,
                                           !.resolved = handlers[h].resolved]

Goes(h, pc) == handlers' = [handlers EXCEPT ![h].pc = pc]

\* leaveChat, and the key of the taps when the last of them leaves.
Leave(h) ==
    /\ inflight' = inflight \ {h}
    /\ callbackKey' = IF inflight = {h} /\ handlers[h].kind = "tap"
                         /\ callbackKey = handlers[h].card
                      THEN 0 ELSE callbackKey

Ends(h) == handlers' = [handlers EXCEPT ![h] = Idle] /\ Leave(h)

\* removeReplyMarkup: when the edit fails the shell forgets nothing.
Removed(m) ==
    \/ /\ active' = IF active = m THEN 0 ELSE active
       /\ spoken' = IF spoken = m THEN 0 ELSE spoken
    \/ UNCHANGED shell

-----------------------------------------------------------------------------
(* Turns and the delivery of their proposals                               *)

\* Bound: every handler on its way to a card finds messages left for both its attempts.
Sending == {h \in Handlers : handlers[h].pc \in {"removing", "creating", "sending", "retrying"}}
CardsToCome == Cardinality(Sent) + 2 * Cardinality(Sending)
RoomForCard == CardsToCome + 2 <= MaxCards /\ CardsToCome + 1 + answers <= MaxEvents

\* The turn saves its proposals and hands them to sendChatResult; a long card leaves the
\* last ones out.
Proposing(h, A, handler) ==
    /\ RoomForCard
    /\ A # {} /\ \A a \in A : ledger[a] = "unproposed"
    /\ \A a \in A, b \in Actions : ledger[b] # "unproposed" => b < a
    /\ ledger' = [a \in Actions |-> IF a \in A THEN "pending" ELSE ledger[a]]
    /\ \E k \in A :
          handlers' = [handlers EXCEPT ![h] =
             [handler EXCEPT !.pc = "removing", !.shown = {a \in A : a <= k},
                             !.group = IF Cardinality(A) > 1 THEN Min(A) ELSE 0]]

\* deliverProactive: nothing asks whether the chat is busy.
ProactiveTurn(h, A) ==
    /\ handlers[h] = Idle
    /\ Proposing(h, A, [Idle EXCEPT !.kind = "turn"])
    /\ UNCHANGED <<late, groups, cards, claims, shell, working, chat, counts>>

\* removeActiveReplyMarkup
RemoveActive(h) ==
    /\ handlers[h].pc = "removing"
    /\ IF active = 0 THEN UNCHANGED shell ELSE Removed(active)
    /\ Goes(h, IF handlers[h].group = 0 THEN "sending" ELSE "creating")
    /\ UNCHANGED <<stores, late, cards, working, chat, counts>>

Created(h) ==
    LET row == [state |-> "preparing", items |-> handlers[h].shown,
                pending |-> handlers[h].shown, message |-> 0,
                created |-> Cardinality({g \in Actions : groups[g].state # "absent"}) + 1]
    IN  [groups EXCEPT ![handlers[h].group] = row]

CreateGroup(h) ==
    /\ handlers[h].pc = "creating"
    /\ groups' = Created(h)
    /\ Goes(h, "sending")
    /\ UNCHANGED <<ledger, late, cards, claims, shell, working, chat, counts>>

\* One of the two attempts; the card may be there although the call failed.
Send(h) ==
    /\ handlers[h].pc \in {"sending", "retrying"}
    /\ LET m == Cardinality(Sent) + 1
           shows == cards' = [cards EXCEPT ![m] = [shown |-> handlers[h].shown,
                                                   group |-> handlers[h].group]]
       IN  \/ /\ shows
              /\ IF handlers[h].group = 0
                 THEN active' = m /\ spoken' = m /\ Ends(h)
                 ELSE /\ active' = m
                      /\ handlers' = [handlers EXCEPT ![h].pc = "binding", ![h].card = m]
                      /\ UNCHANGED <<spoken, chat>>
           \/ /\ shows \/ UNCHANGED cards
              /\ handlers' = [handlers EXCEPT
                     ![h].pc = IF @ = "sending" THEN "retrying" ELSE "withdrawing",
                     ![h].todo = handlers[h].shown]
              /\ UNCHANGED <<shell, chat>>
    /\ UNCHANGED <<stores, late, working, counts>>

\* markDelivered: UPDATE ... WHERE state, expiry and binding still allow it.
Bindable(g, m) ==
    /\ groups[g].state \in {"preparing", "delivered"} /\ Live(g)
    /\ groups[g].message \in {0, m}

\* Fault: the state is written without the message.
BoundNowhere(h) ==
    IF Bindable(handlers[h].group, handlers[h].card)
    THEN [groups EXCEPT ![handlers[h].group].state = "delivered"] ELSE groups

Bound(h) ==
    LET g == handlers[h].group
        m == handlers[h].card
    IN  IF Bindable(g, m)
        THEN [groups EXCEPT ![g].state = "delivered", ![g].message = m] ELSE groups

BindSent(h) ==
    /\ handlers[h].kind # "tap" /\ handlers[h].pc = "binding"
    /\ groups' = Bound(h)
    /\ Ends(h)
    /\ UNCHANGED <<ledger, late, cards, claims, shell, working, counts>>

\* Nothing could be sent: rejectPendingActions rejects what would have been shown; an
\* item that is not rejected now leaves the outcome unknown.
Withdraw(h) ==
    /\ handlers[h].pc = "withdrawing" /\ handlers[h].todo # {}
    /\ \E a \in handlers[h].todo :
          \/ /\ ledger' = Decided(a, "rejected")
             /\ handlers' = [handlers EXCEPT ![h].todo = @ \ {a},
                    ![h].retry = @ \/ Decided(a, "rejected")[a] # "rejected"]
             /\ UNCHANGED faults
          \/ /\ ledger' \in {ledger, Decided(a, "rejected")}
             /\ Fault
             /\ handlers' = [handlers EXCEPT ![h].todo = @ \ {a}, ![h].retry = TRUE]
    /\ UNCHANGED <<late, groups, cards, claims, shell, working, chat, answers>>

\* Fault: the group is cancelled although an item may have been confirmed.
CancelsAnyway(h) == TRUE

Cancels(h) == ~handlers[h].retry

Withdrawn(h) ==
    /\ handlers[h].pc = "withdrawing" /\ handlers[h].todo = {}
    /\ IF Cancels(h) /\ handlers[h].group # 0
       THEN handlers' = [handlers EXCEPT ![h] = Onward(h, "cancelling")] /\ UNCHANGED chat
       ELSE Ends(h)
    /\ UNCHANGED <<stores, late, cards, shell, working, counts>>

Cancelled(h) ==
    [groups EXCEPT ![handlers[h].group].state =
        IF @ \in {"completed", "purged"} THEN @ ELSE "cancelled"]

Cancel(h) ==
    /\ handlers[h].pc = "cancelling"
    /\ groups' = Cancelled(h)
    /\ Ends(h)
    /\ UNCHANGED <<ledger, late, cards, claims, shell, working, counts>>

-----------------------------------------------------------------------------
(* Answers in words                                                        *)

\* handleText refuses while the chat is busy; asked is what the employee has in view.
TextArrives(h) ==
    /\ Answering
    /\ handlers[h] = Idle /\ inflight = {}
    /\ inflight' = {h}
    /\ handlers' = [handlers EXCEPT ![h] =
           [Idle EXCEPT !.kind = "text", !.pc = "reading", !.asked = LastCard.shown]]
    /\ UNCHANGED <<stores, late, cards, shell, working, callbackKey, faults>>

\* A group in delivery order first; else the single action; the words may name some
\* items only, or be no answer at all.
ReadAnswer(h) ==
    /\ handlers[h].kind = "text" /\ handlers[h].pc = "reading"
    /\ \/ \E g \in Actions : IsLatest(g) /\ \E confirm, reject \in SUBSET groups[g].items :
             /\ confirm \cap reject = {} /\ confirm \cup reject # {}
             /\ handlers' = [handlers EXCEPT ![h] = [@ EXCEPT
                    !.pc = "deciding", !.card = groups[g].message, !.group = g,
                    !.confirm = confirm \cap groups[g].pending, !.captured = groups[g].pending,
                    !.todo = (confirm \cup reject) \cap groups[g].pending]]
       \/ /\ Delivered = {} /\ spoken # 0
          /\ \E confirm \in {{}, cards[spoken].shown} :
             handlers' = [handlers EXCEPT ![h] = [@ EXCEPT
                    !.pc = "deciding", !.card = spoken, !.confirm = confirm,
                    !.todo = cards[spoken].shown]]
    /\ UNCHANGED <<stores, late, cards, shell, working, chat, counts>>

\* No answer: a chat turn, which may propose something or only reply; the buttons of a
\* card words do not refer to are taken away first.
TextTurn(h) ==
    /\ handlers[h].kind = "text" /\ handlers[h].pc = "reading"
    /\ IF spoken = 0 /\ Delivered = {} /\ active # 0 THEN Removed(active)
       ELSE UNCHANGED shell
    /\ \/ \E A \in SUBSET Actions : Proposing(h, A, handlers[h]) /\ UNCHANGED chat
       \/ Ends(h) /\ UNCHANGED ledger
    /\ UNCHANGED <<late, groups, cards, claims, working, counts>>

-----------------------------------------------------------------------------
(* Taps                                                                    *)

\* handleCallback lets a tap in when the chat is free or busy with the same card.
Tap(h, m, confirms) ==
    /\ Answering
    /\ handlers[h] = Idle /\ m \in Sent
    /\ inflight = {} \/ callbackKey = m
    /\ inflight' = inflight \cup {h} /\ callbackKey' = m
    /\ LET started == [Idle EXCEPT !.kind = "tap", !.card = m, !.group = cards[m].group,
                                   !.confirm = IF confirms THEN Actions ELSE {}]
       IN  handlers' = [handlers EXCEPT ![h] =
              IF cards[m].group # 0 THEN [started EXCEPT !.pc = "reading"]
              ELSE [started EXCEPT !.pc = "checking", !.todo = cards[m].shown]]
    /\ UNCHANGED <<stores, late, cards, shell, working, faults>>

\* The group of the card: gone, to be bound by this tap, or as stored.
ReadGroup(h) ==
    /\ handlers[h].kind = "tap" /\ handlers[h].pc = "reading"
    /\ LET g == groups[handlers[h].group]
           m == handlers[h].card
       IN  IF g.state = "preparing" THEN Goes(h, "binding") /\ UNCHANGED <<shell, chat>>
           ELSE IF g.state = "delivered" /\ g.message = m
           THEN /\ handlers' = [handlers EXCEPT ![h].pc = "checking",
                                  ![h].captured = g.pending, ![h].todo = g.pending]
                /\ UNCHANGED <<shell, chat>>
           ELSE /\ Ends(h)
                /\ IF g.state = "completed" /\ g.message = m THEN Removed(m)
                   ELSE UNCHANGED shell
    /\ UNCHANGED <<stores, late, cards, working, counts>>

BindTapped(h) ==
    /\ handlers[h].kind = "tap" /\ handlers[h].pc = "binding"
    /\ LET g == handlers[h].group
           m == handlers[h].card
       IN  /\ groups' = Bound(h)
           /\ IF Bindable(g, m)
              THEN /\ handlers' = [handlers EXCEPT ![h].pc = "checking",
                         ![h].captured = groups[g].pending, ![h].todo = groups[g].pending]
                   /\ UNCHANGED chat
              ELSE Ends(h)
    /\ UNCHANGED <<ledger, late, cards, claims, shell, working, counts>>

\* runCallbackAction: wait for the handler registered for the card, or register.
CheckWorking(h) ==
    /\ handlers[h].pc = "checking"
    /\ LET m == handlers[h].card
       IN  IF working[m] # 0
           THEN /\ handlers' = [handlers EXCEPT ![h].pc = "waiting", ![h].waits = working[m]]
                /\ UNCHANGED working
           ELSE Goes(h, "claiming") /\ working' = [working EXCEPT ![m] = h]
    /\ UNCHANGED <<stores, late, cards, shell, chat, counts>>

\* After a failure everybody who waited registers, over each other.
Register(h) ==
    /\ handlers[h].pc = "registering"
    /\ working' = [working EXCEPT ![handlers[h].card] = h]
    /\ Goes(h, "claiming")
    /\ UNCHANGED <<stores, late, cards, shell, chat, counts>>

\* Fault: the promise of the run is never settled.
SettledSilently(h, completed, next) ==
    /\ handlers' = [handlers EXCEPT ![h] = next]
    /\ working' = [m \in Messages |-> IF working[m] = h THEN 0 ELSE working[m]]

\* settleCompletion and the deletion of the entry: state of the handlers and the map
\* when h ends its run as next.
Settled(h, completed, next) ==
    /\ handlers' = [k \in Handlers |->
           IF k = h THEN next
           ELSE IF handlers[k].pc = "waiting" /\ handlers[k].waits = h
           THEN [handlers[k] EXCEPT !.pc = IF completed THEN "repeated" ELSE "registering",
                                    !.waits = 0]
           ELSE handlers[k]]
    /\ working' = [m \in Messages |-> IF working[m] = h THEN 0 ELSE working[m]]

\* Fault: a held claim is taken over before its lease has passed.
ClaimableEarly(m) == claims[m].state \in {"free", "held", "stale"}

\* INSERT ... ON CONFLICT DO UPDATE ... WHERE the claim is open and its lease has passed.
Claimable(m) == claims[m].state \in {"free", "stale"}

ClaimCard(h) ==
    /\ handlers[h].pc = "claiming"
    /\ LET m == handlers[h].card
       IN  IF Claimable(m)
           THEN /\ claims' = [claims EXCEPT ![m] = [state |-> "held", holder |-> h]]
                /\ Goes(h, "deciding")
                /\ UNCHANGED <<shell, working, chat>>
           ELSE /\ Settled(h, TRUE, Idle) /\ Leave(h)
                /\ Removed(m)
                /\ UNCHANGED claims
    /\ UNCHANGED <<ledger, late, groups, cards, counts>>

ClaimFails(h) ==
    /\ handlers[h].pc = "claiming" /\ Fault
    /\ claims' \in {claims} \cup IF ~Claimable(handlers[h].card) THEN {}
          ELSE {[claims EXCEPT ![handlers[h].card] = [state |-> "held", holder |-> 0]]}
    /\ Settled(h, FALSE, Idle) /\ Leave(h)
    /\ UNCHANGED <<ledger, late, groups, cards, shell, answers>>

Repeated(h) ==
    /\ handlers[h].pc = "repeated"
    /\ Removed(handlers[h].card)
    /\ Ends(h)
    /\ UNCHANGED <<stores, late, cards, working, counts>>

-----------------------------------------------------------------------------
(* Deciding                                                                *)

Verdict(h, a) == IF a \in handlers[h].confirm THEN "confirmed" ELSE "rejected"

\* applyGroupSelection, or the single decision: items in their order.
Decide(h) ==
    /\ handlers[h].pc = "deciding" /\ handlers[h].todo # {}
    /\ LET a == Min(handlers[h].todo)
       IN  /\ ledger' = Decided(a, Verdict(h, a))
           /\ handlers' = [handlers EXCEPT ![h].todo = @ \ {a}, ![h].resolved = @ \cup {a}]
    /\ UNCHANGED <<late, groups, cards, claims, shell, working, chat, counts>>

\* The item stays retryable and the next one is tried.
FailedItem(handler, a) == [handler EXCEPT !.todo = @ \ {a}, !.retry = TRUE]

\* The call fails, with the decision committed or not.
DecideFails(h) ==
    /\ handlers[h].pc = "deciding" /\ handlers[h].todo # {} /\ Fault
    /\ LET a == Min(handlers[h].todo)
       IN  /\ ledger' \in {ledger, Decided(a, Verdict(h, a))}
           /\ handlers' = [handlers EXCEPT ![h] = FailedItem(@, a)]
    /\ UNCHANGED <<late, groups, cards, claims, shell, working, chat, answers>>

Through(h) == handlers[h].pc = "deciding" /\ handlers[h].todo = {}

\* Words hold no claim: the group is marked, the single card loses its buttons.
AnsweredInWords(h) ==
    /\ Through(h) /\ handlers[h].kind = "text"
    /\ IF handlers[h].group # 0
       THEN handlers' = [handlers EXCEPT ![h] = Marking(h)] /\ UNCHANGED <<shell, chat>>
       ELSE /\ Ends(h)
            /\ IF handlers[h].retry THEN UNCHANGED shell ELSE Removed(handlers[h].card)
    /\ UNCHANGED <<stores, late, cards, working, counts>>

\* completeActionMessage or releaseActionMessage, for the holder of the claim only.
Closed(h, state) ==
    IF claims[handlers[h].card] \in {[state |-> s, holder |-> h] : s \in {"held", "stale"}}
    THEN [claims EXCEPT ![handlers[h].card] = [state |-> state, holder |-> 0]]
    ELSE claims

\* Fault: a run that ended without an error counts as complete.
AlwaysComplete(h) == TRUE

\* isCompleted: every item was resolved.
AllResolved(h) == ~handlers[h].retry

\* The claim is completed when every item was resolved and released otherwise; a failed
\* single action ends here, a group goes on to mark what it resolved.
CloseClaim(h) ==
    /\ Through(h) /\ handlers[h].kind = "tap"
    /\ LET ok == AllResolved(h)
           marks == handlers[h].group # 0
       IN  /\ claims' = Closed(h, IF ok THEN "done" ELSE "free")
           /\ Settled(h, ok, IF marks THEN Marking(h) ELSE Idle)
           /\ IF marks THEN UNCHANGED chat ELSE Leave(h)
           /\ IF ok /\ ~marks THEN Removed(handlers[h].card) ELSE UNCHANGED shell
    /\ UNCHANGED <<ledger, late, groups, cards, counts>>

\* Completing or releasing fails: the error releases the claim if it can.
CloseClaimFails(h) ==
    /\ Through(h) /\ handlers[h].kind = "tap" /\ Fault
    /\ claims' \in {claims, Closed(h, "free")}
                   \cup IF handlers[h].retry THEN {} ELSE {Closed(h, "done")}
    /\ Settled(h, FALSE, Idle) /\ Leave(h)
    /\ UNCHANGED <<ledger, late, groups, cards, shell, answers>>

\* Fault: whatever the handler read as pending counts as resolved.
LeftUntouched(h) == groups[handlers[h].group].pending \ handlers[h].captured

\* UPDATE ... SET items: the stored items of now.
Left(h) == groups[handlers[h].group].pending \ handlers[h].resolved

IsOpen(h) == groups[handlers[h].group].state = "delivered"
Marked(h) == IF IsOpen(h) THEN [groups EXCEPT ![handlers[h].group].pending = Left(h)]
             ELSE groups

\* markItemsResolved: a group that is no longer delivered is left alone and the captured
\* items count as remaining.
MarkResolved(h) ==
    /\ handlers[h].pc = "marking"
    /\ groups' = Marked(h)
    /\ IF (IF IsOpen(h) THEN Left(h) ELSE handlers[h].captured) = {}
       THEN handlers' = [handlers EXCEPT ![h] = Onward(h, "completing")] /\ UNCHANGED chat
       ELSE Ends(h)
    /\ UNCHANGED <<ledger, late, cards, claims, shell, working, counts>>

Completed(h) ==
    [groups EXCEPT ![handlers[h].group].state =
        IF @ \in {"cancelled", "purged"} THEN @ ELSE "completed"]

Complete(h) ==
    /\ handlers[h].pc = "completing"
    /\ groups' = Completed(h)
    /\ Removed(handlers[h].card)
    /\ Ends(h)
    /\ UNCHANGED <<ledger, late, cards, claims, working, counts>>

\* A query on the groups fails, before or after it took effect: the handler gives up.
QueryFails(h) ==
    /\ Fault /\ Ends(h)
    /\ \/ handlers[h].pc = "reading" /\ UNCHANGED groups
       \/ handlers[h].pc = "creating" /\ groups' \in {groups, Created(h)}
       \/ handlers[h].pc = "binding" /\ groups' \in {groups, Bound(h)}
       \/ handlers[h].pc = "marking" /\ groups' \in {groups, Marked(h)}
       \/ handlers[h].pc = "completing" /\ groups' \in {groups, Completed(h)}
       \/ handlers[h].pc = "cancelling" /\ groups' \in {groups, Cancelled(h)}
    /\ UNCHANGED <<ledger, late, cards, claims, shell, working, answers>>

-----------------------------------------------------------------------------
(* Time and restarts                                                       *)

\* Confirmations of every kind live for 15 minutes: they expire in the order of proposal.
Expire(a) ==
    /\ ledger[a] # "unproposed" /\ a \notin late
    /\ {b \in Actions : b < a} \subseteq late
    /\ late' = late \cup {a}
    /\ UNCHANGED <<stores, cards, shell, working, chat, handlers, counts>>

LeasePasses(m) ==
    /\ claims[m].state = "held"
    /\ claims' = [claims EXCEPT ![m].state = "stale"]
    /\ handlers' = [h \in Handlers |-> IF h = claims[m].holder
                     THEN [handlers[h] EXCEPT !.lapsed = TRUE] ELSE handlers[h]]
    /\ UNCHANGED <<ledger, late, groups, cards, shell, working, chat, counts>>

\* purgeExpired of the hourly cleanup.
PurgeGroup(g) ==
    /\ groups[g].state # "absent" /\ ~Live(g)
    /\ groups' = [groups EXCEPT ![g].state = "purged"]
    /\ UNCHANGED <<ledger, late, cards, claims, shell, working, chat, handlers, counts>>

\* The process restarts; who held a claim is gone but its lease is not.
Restart ==
    /\ Fault
    /\ active' = 0 /\ spoken' = 0
    /\ working' = [m \in Messages |-> 0]
    /\ inflight' = {} /\ callbackKey' = 0
    /\ handlers' = [h \in Handlers |-> Idle]
    /\ claims' = [m \in Messages |-> [claims[m] EXCEPT !.holder = 0]]
    /\ UNCHANGED <<ledger, late, groups, cards, answers>>

Step(h) ==
    \/ RemoveActive(h) \/ CreateGroup(h) \/ Send(h) \/ BindSent(h)
    \/ Withdraw(h) \/ Withdrawn(h) \/ Cancel(h)
    \/ ReadAnswer(h) \/ TextTurn(h)
    \/ ReadGroup(h) \/ BindTapped(h) \/ CheckWorking(h) \/ Register(h)
    \/ ClaimCard(h) \/ ClaimFails(h) \/ Repeated(h)
    \/ Decide(h) \/ DecideFails(h) \/ AnsweredInWords(h)
    \/ CloseClaim(h) \/ CloseClaimFails(h) \/ MarkResolved(h) \/ Complete(h)
    \/ QueryFails(h)

Next ==
    \/ \E h \in Handlers :
          \/ Step(h) \/ TextArrives(h)
          \/ \E A \in SUBSET Actions : ProactiveTurn(h, A)
          \/ \E m \in Messages, confirms \in BOOLEAN : Tap(h, m, confirms)
    \/ \E a \in Actions : Expire(a) \/ PurgeGroup(a)
    \/ \E m \in Messages : LeasePasses(m)
    \/ Restart

Spec == Init /\ [][Next]_vars

-----------------------------------------------------------------------------
(* Properties                                                              *)

TypeOK ==
    /\ ledger \in [Actions -> {"unproposed", "pending", "confirmed", "rejected"}]
    /\ late \subseteq Actions
    /\ groups \in [Actions -> Group]
    /\ \A g \in Actions : groups[g].state \in {"delivered", "completed"} => groups[g].message # 0
    /\ cards \in [Messages -> Card]
    /\ claims \in [Messages -> Claim]
    /\ active \in 0..MaxCards /\ spoken \in 0..MaxCards
    /\ working \in [Messages -> Handlers \cup {0}]
    /\ inflight \subseteq Handlers /\ callbackKey \in 0..MaxCards
    /\ handlers \in [Handlers -> Handler]
    /\ answers \in 0..MaxAnswers /\ faults \in 0..MaxFaults

Settles(a) == ledger[a] \in {"confirmed", "rejected"} \/ a \in late

\* An item the group no longer offers is decided in its ledger, or expired: whatever
\* fails between the two stores, no open proposal is hidden behind a resolved item.
ResolvedIsDecided == \A g \in Actions :
    \A a \in groups[g].items \ groups[g].pending : Settles(a)

\* A card answered for good ("already processed" from now on) leaves nothing undecided,
\* with leases taken over and calls failing half way.
DoneCardIsDecided == \A m \in Messages :
    claims[m].state = "done" => \A a \in cards[m].shown : Settles(a)

\* A group reported as cancelled had none of its items applied, also when its card got
\* through and was tapped meanwhile.
CancelledAppliedNothing == \A g \in Actions :
    groups[g].state = "cancelled" => \A a \in groups[g].items : ledger[a] # "confirmed"

\* What a card and its group say at the end is what became of their items.
EndsAreTrue == DoneCardIsDecided /\ CancelledAppliedNothing

\* A completed group offers nothing, whatever the handlers that crossed it had read.
CompletedIsEmpty == \A g \in Actions :
    groups[g].state = "completed" => groups[g].pending = {}

\* What a group row says of its items is what their ledgers say, whatever fails between the
\* two stores and however handlers cross.
GroupsFollowLedgers == ResolvedIsDecided /\ CompletedIsEmpty

\* Two taps never decide the same proposal at the same time, however many register for
\* its card after a failure and however many cards of it got through, unless the lease of
\* one of them ran out.
Deciding(a) == {h \in Handlers :
    /\ handlers[h].kind = "tap" /\ handlers[h].pc = "deciding"
    /\ a \in cards[handlers[h].card].shown}
OneTapAtATime == \A a \in Actions : \A h, k \in Deciding(a) :
    h = k \/ handlers[h].lapsed \/ handlers[k].lapsed

\* A tap waits only for a handler that still works on its card, and the chat is busy with
\* exactly the texts and taps in work: nobody waits for one who is gone, and no failure or
\* crossing of the two leaves the chat refusing the employee for ever.
NobodyIsStuck ==
    /\ \A h \in Handlers : handlers[h].pc = "waiting" =>
           LET k == handlers[h].waits IN
           /\ handlers[k].kind = "tap" /\ handlers[k].card = handlers[h].card
           /\ handlers[k].pc \in {"claiming", "deciding"}
    /\ inflight = {h \in Handlers : handlers[h].kind \in {"text", "tap"}}
    /\ inflight = {} => callbackKey = 0

\* "The next short explicit consent of the owner resolves the same confirm" that was
\* asked (docs/architecture/rfc-personal-assistant-architecture.md:343), and the card of a
\* single action asks to say "yes": words written under a card decide what it showed.
WordsAnswerLastCard == [][\A h \in Handlers, a \in Actions :
    (/\ Decide(h) /\ handlers[h].kind = "text" /\ handlers[h].asked # {}
     /\ ledger'[a] # ledger[a]) => a \in handlers[h].asked]_vars

=============================================================================
