----------------------------- MODULE SessionStores -----------------------------
(***************************************************************************)
(* The two stores of Telegram sessions: one entry per chat in memory, with *)
(* the claims of its messages inside, and telegram_sessions with           *)
(* telegram_action_messages beside it.  Every call goes to both, one call  *)
(* after the other; claims that race are the subject of ActionCards and    *)
(* Enrolment.  Left out are the privacy version of a session, which the    *)
(* table joins from the consents, and the times of its changes.            *)
(***************************************************************************)
EXTENDS Integers, FiniteSets

CONSTANTS
    Chats, Users, Employees, Threads, Drafts, MessageIds,   \* numbers, none of them 0
    MaxClock                                                \* bound

VARIABLES
    memory,     \* the entries by chat
    table,      \* [sessions, messages] by chat_id_digest, and by chat_id_digest and message_id
    clock

sessionVars == <<memory, table, clock>>

Null == 0

Sensible ==
    /\ Chats \cup Users \cup Employees \cup Threads \cup Drafts \cup MessageIds \subseteq Nat \ {0}
    /\ MaxClock \in Nat

\* An identity may come without its user.
Identities == [chat : Chats, user : Users \cup {Null}]

\* A time of 0 is none.
Claim == [draft : Drafts, at : Nat \ {0}]
NoClaim == [draft |-> Null, at |-> 0]
Message == [at : Nat \ {0}, completed : BOOLEAN]
NoMessage == [at |-> 0, completed |-> FALSE]

Row == [user : Users \cup {Null}, employee : Employees, thread : Threads, consent : BOOLEAN,
        linked : BOOLEAN, delivered : Drafts \cup {Null}, claim : Claim \cup {NoClaim}]
NoRow == [user |-> Null, employee |-> Null, thread |-> Null, consent |-> FALSE,
          linked |-> FALSE, delivered |-> Null, claim |-> NoClaim]

New(user, e, thread, linked) ==
    [user |-> user, employee |-> e, thread |-> thread, consent |-> FALSE,
     linked |-> linked, delivered |-> Null, claim |-> NoClaim]

Unclaimed == [id \in MessageIds |-> NoMessage]
Entry(row, messages) == [row |-> row, messages |-> messages]

\* What a call answers: "session_not_found" is an error, "done" is no answer.
Found(row, chat) == [row |-> row, chat |-> chat]

\* A session may be older than the column that keeps the chat it delivers to.
Init ==
    /\ clock = 1
    /\ \E chat \in Chats, user \in Users \cup {Null}, e \in Employees, thread \in Threads, old \in BOOLEAN :
          LET rows == [c \in Chats |-> IF old /\ c = chat THEN New(user, e, thread, FALSE) ELSE NoRow]
          IN  /\ memory = [c \in Chats |-> Entry(rows[c], Unclaimed)]
              /\ table = [sessions |-> rows, messages |-> [k \in Chats \X MessageIds |-> NoMessage]]

-----------------------------------------------------------------------------
(* In memory                                                               *)

MemoryRow(chat) == memory[chat].row

MemoryGetByIdentity(chat, user) ==
    IF user # Null /\ MemoryRow(chat).user # user THEN NoRow ELSE MemoryRow(chat)

ChatsOf(e) == {c \in Chats : MemoryRow(c).employee = e}

MemoryDelivery(e) ==
    IF ChatsOf(e) = {} THEN Found(NoRow, Null)
    ELSE LET chat == CHOOSE c \in ChatsOf(e) : TRUE
         IN  IF MemoryRow(chat).linked THEN Found(MemoryRow(chat), chat) ELSE Found(NoRow, Null)

\* The entry that a call of an employee from a chat is about
MemoryIs(identity, e) ==
    MemoryRow(identity.chat).user = identity.user /\ MemoryRow(identity.chat).employee = e

MemoryClaim(identity, e) ==
    IF MemoryRow(identity.chat) # NoRow THEN "chat_already_linked"
    ELSE IF ChatsOf(e) # {} THEN "employee_already_linked" ELSE "claimed"

MemoryClaimDelivery(identity, e, draft, staleBefore) ==
    LET row == MemoryRow(identity.chat)
    IN  IF ~MemoryIs(identity, e) THEN "session_not_found"
        ELSE IF row.delivered = draft THEN "already_claimed"
        ELSE IF row.claim # NoClaim /\ row.claim.at >= staleBefore THEN "already_claimed" ELSE "claimed"

MemoryHolds(identity, e, draft, at) ==
    MemoryIs(identity, e) /\ MemoryRow(identity.chat).claim = [draft |-> draft, at |-> at]

MemoryClaimMessage(identity, e, id, staleBefore) ==
    LET existing == memory[identity.chat].messages[id]
    IN  IF ~MemoryIs(identity, e) THEN "session_not_found"
        ELSE IF existing.completed \/ (existing # NoMessage /\ existing.at >= staleBefore)
        THEN "already_claimed" ELSE "claimed"

MemoryHoldsMessage(identity, e, id, at) ==
    LET existing == memory[identity.chat].messages[id]
    IN  MemoryIs(identity, e) /\ existing.at = at /\ ~existing.completed

MemoryOld(before) ==
    {k \in Chats \X MessageIds : /\ memory[k[1]].messages[k[2]] # NoMessage
                                 /\ memory[k[1]].messages[k[2]].at < before}

-----------------------------------------------------------------------------
(* telegram_sessions and telegram_action_messages                          *)

RowGetByIdentity(chat, user) ==
    IF user = Null \/ table.sessions[chat].user = user THEN table.sessions[chat] ELSE NoRow

\* UNIQUE (employee_id)
RowDelivery(e) ==
    LET targets == {c \in Chats : table.sessions[c].employee = e /\ table.sessions[c].linked}
    IN  IF targets = {} THEN Found(NoRow, Null)
        ELSE Found(table.sessions[CHOOSE c \in targets : TRUE], CHOOSE c \in targets : TRUE)

\* WHERE chat_id_digest = .. AND user_id_digest IS NOT DISTINCT FROM .. AND employee_id = ..
RowIs(identity, e) ==
    table.sessions[identity.chat].user = identity.user /\ table.sessions[identity.chat].employee = e

\* ON CONFLICT DO NOTHING, else why it conflicts
RowClaim(identity, e) ==
    LET others == {c \in Chats : table.sessions[c].employee = e}
    IN  IF table.sessions[identity.chat] = NoRow /\ others = {} THEN "claimed"
        ELSE IF table.sessions[identity.chat] # NoRow THEN "chat_already_linked"
        ELSE "employee_already_linked"

\* UPDATE ... WHERE the draft is another one and no claim, or a stale one, is held
RowClaimDelivery(identity, e, draft, staleBefore) ==
    LET row == table.sessions[identity.chat]
    IN  IF RowIs(identity, e) /\ row.delivered # draft /\ (row.claim.at = 0 \/ row.claim.at < staleBefore)
        THEN "claimed"
        ELSE IF RowIs(identity, e) THEN "already_claimed" ELSE "session_not_found"

RowHolds(identity, e, draft, at) ==
    LET row == table.sessions[identity.chat]
    IN  RowIs(identity, e) /\ row.claim.draft = draft /\ row.claim.at = at

\* INSERT ... SELECT of the session, ON CONFLICT DO UPDATE of a stale claim that is not completed
RowClaimMessage(identity, e, id, staleBefore) ==
    LET row == table.messages[<<identity.chat, id>>]
    IN  IF ~RowIs(identity, e) THEN "session_not_found"
        ELSE IF row = NoMessage \/ (~row.completed /\ row.at < staleBefore) THEN "claimed"
        ELSE "already_claimed"

RowHoldsMessage(identity, e, id, at) ==
    LET row == table.messages[<<identity.chat, id>>]
    IN  RowIs(identity, e) /\ row.at = at /\ ~row.completed

RowOld(before) ==
    {k \in Chats \X MessageIds : table.messages[k] # NoMessage /\ table.messages[k].at < before}

-----------------------------------------------------------------------------
(* The calls                                                               *)

InMemory(c, row) == memory' = [memory EXCEPT ![c] = Entry(row, memory[c].messages)]
InTable(c, row) == table' = [table EXCEPT !.sessions = [table.sessions EXCEPT ![c] = row]]

\* Each writes where its condition holds; where neither does the call changes nothing.
Set(c, inMemory, inTable, Changed(_)) ==
    /\ inMemory \/ inTable
    /\ IF inMemory THEN InMemory(c, Changed(MemoryRow(c))) ELSE UNCHANGED memory
    /\ IF inTable THEN InTable(c, Changed(table.sessions[c])) ELSE UNCHANGED table
    /\ UNCHANGED clock

ClaimSession(identity, e, thread) ==
    /\ memory' = IF MemoryClaim(identity, e) # "claimed" THEN memory
                 ELSE [memory EXCEPT ![identity.chat] = Entry(New(identity.user, e, thread, TRUE), Unclaimed)]
    /\ IF RowClaim(identity, e) = "claimed" THEN InTable(identity.chat, New(identity.user, e, thread, TRUE))
       ELSE UNCHANGED table
    /\ UNCHANGED clock

\* A target that is linked already stays.
LinkDeliveryTarget(identity, e) ==
    LET Changed(row) == [row EXCEPT !.linked = TRUE]
    IN  Set(identity.chat, MemoryIs(identity, e) /\ ~MemoryRow(identity.chat).linked,
            RowIs(identity, e) /\ ~table.sessions[identity.chat].linked, Changed)

RotateThread(e, next) ==
    LET Rotated(row) == [row EXCEPT !.thread = next]
    IN  /\ memory' = IF ChatsOf(e) = {} THEN memory
                     ELSE LET chat == CHOOSE c \in ChatsOf(e) : TRUE
                          IN  [memory EXCEPT ![chat] = Entry(Rotated(memory[chat].row), memory[chat].messages)]
        /\ table' = [table EXCEPT !.sessions = [c \in Chats |->
                        IF table.sessions[c].employee = e THEN Rotated(table.sessions[c])
                        ELSE table.sessions[c]]]
        /\ UNCHANGED clock

\* ON DELETE CASCADE
DeleteByEmployee(e) ==
    /\ memory' = [c \in Chats |-> IF MemoryRow(c).employee = e THEN Entry(NoRow, Unclaimed) ELSE memory[c]]
    /\ table' = [sessions |-> [c \in Chats |-> IF table.sessions[c].employee = e THEN NoRow
                                               ELSE table.sessions[c]],
                 messages |-> [k \in Chats \X MessageIds |->
                                  IF table.sessions[k[1]].employee = e THEN NoMessage ELSE table.messages[k]]]
    /\ UNCHANGED clock

MarkConsentAccepted(identity, e) ==
    LET Changed(row) == [row EXCEPT !.consent = TRUE]
    IN  Set(identity.chat, MemoryIs(identity, e), RowIs(identity, e), Changed)

ClaimOnboardingConfirmationDelivery(identity, e, draft, staleBefore) ==
    LET Changed(row) == [row EXCEPT !.claim = [draft |-> draft, at |-> clock]]
    IN  Set(identity.chat, MemoryClaimDelivery(identity, e, draft, staleBefore) = "claimed",
            RowClaimDelivery(identity, e, draft, staleBefore) = "claimed", Changed)

CompleteOnboardingConfirmationDelivery(identity, e, draft, at) ==
    LET Changed(row) == [row EXCEPT !.delivered = draft, !.claim = NoClaim]
    IN  Set(identity.chat, MemoryHolds(identity, e, draft, at), RowHolds(identity, e, draft, at), Changed)

ReleaseOnboardingConfirmationDelivery(identity, e, draft, at) ==
    LET Changed(row) == [row EXCEPT !.claim = NoClaim]
    IN  Set(identity.chat, MemoryHolds(identity, e, draft, at), RowHolds(identity, e, draft, at), Changed)

SetMessage(c, id, inMemory, inTable, message) ==
    /\ inMemory \/ inTable
    /\ memory' = IF ~inMemory THEN memory
                 ELSE [memory EXCEPT ![c] = Entry(memory[c].row, [memory[c].messages EXCEPT ![id] = message])]
    /\ table' = IF ~inTable THEN table
                ELSE [table EXCEPT !.messages = [table.messages EXCEPT ![<<c, id>>] = message]]
    /\ UNCHANGED clock

ClaimActionMessage(identity, e, id, staleBefore) ==
    SetMessage(identity.chat, id, MemoryClaimMessage(identity, e, id, staleBefore) = "claimed",
               RowClaimMessage(identity, e, id, staleBefore) = "claimed",
               [at |-> clock, completed |-> FALSE])

CompleteActionMessage(identity, e, id, at) ==
    SetMessage(identity.chat, id, MemoryHoldsMessage(identity, e, id, at),
               RowHoldsMessage(identity, e, id, at), [at |-> at, completed |-> TRUE])

ReleaseActionMessage(identity, e, id, at) ==
    SetMessage(identity.chat, id, MemoryHoldsMessage(identity, e, id, at),
               RowHoldsMessage(identity, e, id, at), NoMessage)

PurgeActionMessages(before) ==
    /\ memory' = [c \in Chats |-> Entry(memory[c].row,
                     [id \in MessageIds |-> IF <<c, id>> \in MemoryOld(before) THEN NoMessage
                                            ELSE memory[c].messages[id]])]
    /\ table' = [table EXCEPT !.messages = [k \in Chats \X MessageIds |->
                     IF k \in RowOld(before) THEN NoMessage ELSE table.messages[k]]]
    /\ UNCHANGED clock

Tick == clock < MaxClock /\ clock' = clock + 1 /\ UNCHANGED <<memory, table>>

Next ==
    \/ \E identity \in Identities, e \in Employees :
          \/ \E thread \in Threads : ClaimSession(identity, e, thread)
          \/ LinkDeliveryTarget(identity, e) \/ MarkConsentAccepted(identity, e)
          \/ \E draft \in Drafts, at \in 1 .. clock :
                \/ ClaimOnboardingConfirmationDelivery(identity, e, draft, at)
                \/ CompleteOnboardingConfirmationDelivery(identity, e, draft, at)
                \/ ReleaseOnboardingConfirmationDelivery(identity, e, draft, at)
          \/ \E id \in MessageIds, at \in 1 .. clock :
                \/ ClaimActionMessage(identity, e, id, at)
                \/ CompleteActionMessage(identity, e, id, at) \/ ReleaseActionMessage(identity, e, id, at)
    \/ \E e \in Employees : DeleteByEmployee(e) \/ \E next \in Threads : RotateThread(e, next)
    \/ \E before \in 1 .. clock : PurgeActionMessages(before)
    \/ Tick

Spec == Init /\ [][Next]_sessionVars

-----------------------------------------------------------------------------

TypeOK ==
    /\ memory \in [Chats -> [row : Row \cup {NoRow}, messages : [MessageIds -> Message \cup {NoMessage}]]]
    /\ table \in [sessions : [Chats -> Row \cup {NoRow}],
                  messages : [Chats \X MessageIds -> Message \cup {NoMessage}]]
    /\ clock \in Nat \ {0}

\* After any calls every further call is answered alike by the entries and by the tables.
Agree ==
    /\ \A chat \in Chats, user \in Users \cup {Null} :
          MemoryGetByIdentity(chat, user) = RowGetByIdentity(chat, user)
    /\ \A e \in Employees : MemoryDelivery(e) = RowDelivery(e)
    /\ \A identity \in Identities, e \in Employees :
          /\ MemoryClaim(identity, e) = RowClaim(identity, e)
          /\ MemoryIs(identity, e) = RowIs(identity, e)
          /\ \A at \in 1 .. clock :
                /\ \A draft \in Drafts :
                      /\ MemoryClaimDelivery(identity, e, draft, at) = RowClaimDelivery(identity, e, draft, at)
                      /\ MemoryHolds(identity, e, draft, at) = RowHolds(identity, e, draft, at)
                /\ \A id \in MessageIds :
                      /\ MemoryClaimMessage(identity, e, id, at) = RowClaimMessage(identity, e, id, at)
                      /\ MemoryHoldsMessage(identity, e, id, at) = RowHoldsMessage(identity, e, id, at)
    /\ \A before \in 1 .. clock : MemoryOld(before) = RowOld(before)

=============================================================================
