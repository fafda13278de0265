------------------------------ MODULE Enrolment ------------------------------
(***************************************************************************)
(* How an employee joins and leaves the programme: the invite, the link    *)
(* between a Telegram chat and the employee, the consent, the move to      *)
(* another group, the revocation of an unused invite and the deletion of   *)
(* everything kept about a person.  Each transaction locks the row of the  *)
(* participant, or is kept out by a unique or foreign key, and is one step *)
(* here; what a command reads before its transaction is a step of its own. *)
(*                                                                         *)
(* Files and derived corpora live in another store, without a key to the   *)
(* participant.  The runbooks of deletion and of moves keep the employee's *)
(* requests out meanwhile, and so do the guards named Quiet.               *)
(***************************************************************************)
EXTENDS Naturals, FiniteSets

CONSTANTS
    Employees, Chats,
    Codes,       \* invite codes
    Commands     \* operator commands running at one time

VARIABLES
    people,      \* minutka_private.participants with profiles and consents
    sessions,    \* minutka_private.telegram_sessions
    moved,       \* minutka_private.participation_transitions
    kept,        \* what the object store holds for each employee
    commands     \* operator commands in flight

enrolmentVars == <<people, sessions, moved, kept, commands>>

-----------------------------------------------------------------------------

Statuses == {"invite_issued", "invite_opened", "consent_accepted", "profile_completed"}

\* code "revoked" is a digest of random bytes.
Participant == [status : Statuses, code : Codes \cup {"revoked"}, consented : BOOLEAN]
Nobody == [status |-> "none", code |-> "revoked", consented |-> FALSE]

Session == [employee : Employees, consented : BOOLEAN]
Unlinked == [employee |-> "none", consented |-> FALSE]

\* derived: the retrospective's corpora; objects: files under the employee's prefix.
Kinds == {"derived", "objects"}

Command == [phase : {"idle", "revoking", "derived", "objects", "erasing"}, employee : Employees \cup {"none"}]
Idle == [phase |-> "idle", employee |-> "none"]

Known(e) == people[e] # Nobody
LinkedTo(e) == {c \in Chats : sessions[c].employee = e}
Invited(code) == {e \in Employees : Known(e) /\ people[e].code = code}
Quiet(e) == \A o \in Commands : commands[o].employee = e => commands[o].phase = "revoking"

Goes(o, phase, e) == commands' = [commands EXCEPT ![o] = [phase |-> phase, employee |-> e]]
Ends(o) == commands' = [commands EXCEPT ![o] = Idle]

Init ==
    /\ people = [e \in Employees |-> Nobody]
    /\ sessions = [c \in Chats |-> Unlinked]
    /\ moved = {}
    /\ kept = [e \in Employees |-> {}]
    /\ commands = [o \in Commands |-> Idle]

-----------------------------------------------------------------------------
(* Joining                                                                 *)

\* INSERT ... ON CONFLICT DO NOTHING: neither the employee nor the code may be there.
IssueInvite(e, code) ==
    /\ ~Known(e) /\ Invited(code) = {}
    /\ people' = [people EXCEPT ![e] = [status |-> "invite_issued", code |-> code, consented |-> FALSE]]
    /\ UNCHANGED <<sessions, moved, kept, commands>>

Opened(e) == IF people[e].status = "invite_issued" THEN [people[e] EXCEPT !.status = "invite_opened"]
             ELSE people[e]

OpenInvite(code) ==
    \E e \in Invited(code) :
        /\ people' = [people EXCEPT ![e] = Opened(e)]
        /\ UNCHANGED <<sessions, moved, kept, commands>>

\* Fault: the session's key is the chat only.
FreeChat(c, e) == sessions[c] = Unlinked

\* chat_already_linked, employee_already_linked
Free(c, e) == sessions[c] = Unlinked /\ LinkedTo(e) = {}

RedeemInvite(code, c) ==
    \E e \in Invited(code) :
        /\ Free(c, e)
        /\ sessions' = [sessions EXCEPT ![c] = [employee |-> e, consented |-> FALSE]]
        /\ people' = [people EXCEPT ![e] = Opened(e)]
        /\ UNCHANGED <<moved, kept, commands>>

Consenting(e) ==
    IF people[e].consented THEN people[e]
    ELSE [people[e] EXCEPT !.consented = TRUE,
             !.status = IF @ = "profile_completed" THEN @ ELSE "consent_accepted"]

\* By HTTP, or from a chat, which must be the employee's.
AcceptConsent(e) ==
    /\ Known(e) /\ Quiet(e)
    /\ people' = [people EXCEPT ![e] = Consenting(e)]
    /\ \/ sessions' = sessions
       \/ \E c \in LinkedTo(e) : sessions' = [sessions EXCEPT ![c].consented = TRUE]
    /\ UNCHANGED <<moved, kept, commands>>

CompleteProfile(e) ==
    /\ Known(e) /\ people[e].consented /\ Quiet(e)
    /\ people' = [people EXCEPT ![e].status = "profile_completed"]
    /\ UNCHANGED <<sessions, moved, kept, commands>>

\* The employee, who has given consent, leaves a file or gets a retrospective.
Keep(e, kind) ==
    /\ Known(e) /\ people[e].consented /\ Quiet(e)
    /\ kept' = [kept EXCEPT ![e] = @ \cup {kind}]
    /\ UNCHANGED <<people, sessions, moved, commands>>

-----------------------------------------------------------------------------
(* Moving to another group: one transaction while the server is stopped    *)

Movable(s, t) ==
    /\ Known(s) /\ Known(t) /\ s # t
    /\ LinkedTo(s) # {} /\ LinkedTo(t) = {}
    /\ people[t].status = "invite_issued"
    /\ people[s].status \in {"consent_accepted", "profile_completed"}
    /\ people[s].consented
    /\ \A c \in LinkedTo(s) : sessions[c].consented

\* Fault: the invite of the participation left stays good.
InviteStays(s) == people[s]

\* The invite of the participation left is revoked.
InviteRevoked(s) == [people[s] EXCEPT !.code = "revoked"]

Transition(s, t) ==
    /\ \A o \in Commands : commands[o] = Idle
    /\ Movable(s, t)
    /\ people' = [people EXCEPT ![s] = InviteRevoked(s),
                      ![t] = [@ EXCEPT !.status = people[s].status, !.consented = TRUE]]
    /\ sessions' = [c \in Chats |-> IF c \in LinkedTo(s) THEN [sessions[c] EXCEPT !.employee = t]
                                    ELSE sessions[c]]
    /\ moved' = moved \cup {<<s, t>>}
    /\ UNCHANGED <<kept, commands>>

-----------------------------------------------------------------------------
(* Leaving                                                                 *)

\* DELETE of a participant, with everything that refers to it.
Erased(e) ==
    /\ people' = [people EXCEPT ![e] = Nobody]
    /\ sessions' = [c \in Chats |-> IF c \in LinkedTo(e) THEN Unlinked ELSE sessions[c]]
    /\ moved' = {m \in moved : e \notin {m[1], m[2]}}

ReadForRevoke(o, e) ==
    /\ commands[o] = Idle
    /\ Known(e) /\ people[e].status = "invite_issued"
    /\ Goes(o, "revoking", e)
    /\ UNCHANGED <<people, sessions, moved, kept>>

\* Fault: what the command read is trusted.
RevocableAsRead(e) == Known(e)

\* deleteInvitedParticipant looks again at the row it has locked.
Revocable(e) == Known(e) /\ people[e].status = "invite_issued"

Revoke(o) ==
    /\ commands[o].phase = "revoking"
    /\ IF Revocable(commands[o].employee) THEN Erased(commands[o].employee)
       ELSE UNCHANGED <<people, sessions, moved>>
    /\ Ends(o)
    /\ UNCHANGED kept

\* deleteEmployeeData
StartDeletion(o, e) ==
    /\ commands[o] = Idle
    /\ Known(e)
    /\ Goes(o, "derived", e)
    /\ UNCHANGED <<people, sessions, moved, kept>>

After(phase) == IF phase = "derived" THEN "objects" ELSE "erasing"

\* purge of the retrospective, then deleteByEmployee: another store each, maybe only partly.
Remove(o) ==
    /\ commands[o].phase \in Kinds
    /\ kept' = [kept EXCEPT ![commands[o].employee] = @ \ {commands[o].phase}]
    /\ Goes(o, After(commands[o].phase), commands[o].employee)
    /\ UNCHANGED <<people, sessions, moved>>

\* deleteEmployeePersonalData
Erase(o) ==
    /\ commands[o].phase = "erasing"
    /\ Erased(commands[o].employee)
    /\ Ends(o)
    /\ UNCHANGED kept

\* Any step of a command fails, and the command with it.
Fail(o) ==
    /\ commands[o] # Idle
    /\ Ends(o)
    /\ UNCHANGED <<people, sessions, moved, kept>>

Next ==
    \/ \E e \in Employees, code \in Codes : IssueInvite(e, code)
    \/ \E code \in Codes : OpenInvite(code) \/ \E c \in Chats : RedeemInvite(code, c)
    \/ \E e \in Employees : AcceptConsent(e) \/ CompleteProfile(e) \/ \E kind \in Kinds : Keep(e, kind)
    \/ \E s, t \in Employees : Transition(s, t)
    \/ \E o \in Commands :
           \/ \E e \in Employees : ReadForRevoke(o, e) \/ StartDeletion(o, e)
           \/ Revoke(o) \/ Remove(o) \/ Erase(o) \/ Fail(o)

Spec == Init /\ [][Next]_enrolmentVars

-----------------------------------------------------------------------------
(* Properties                                                              *)

TypeOK ==
    /\ people \in [Employees -> Participant \cup {Nobody}]
    /\ sessions \in [Chats -> Session \cup {Unlinked}]
    /\ moved \subseteq Employees \X Employees
    /\ kept \in [Employees -> SUBSET Kinds]
    /\ commands \in [Commands -> Command]

\* A chat speaks for one employee and an employee for one chat; it is an employee there is, who
\* has consented if the chat says so, and never a participation the person has left.
ChatsAreOwn ==
    \A c \in Chats : sessions[c] # Unlinked =>
        LET e == sessions[c].employee IN
        /\ LinkedTo(e) = {c}
        /\ Known(e) /\ people[e].status # "invite_issued"
        /\ sessions[c].consented => people[e].consented
        /\ \A t \in Employees : <<e, t>> \notin moved

\* Whatever fails or runs at the same time, nothing is kept about somebody no deletion could
\* find any more.
NothingIsOrphaned == \A e \in Employees : kept[e] # {} => Known(e)

=============================================================================
