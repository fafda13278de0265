----------------------------- MODULE ProfileStores -----------------------------
(***************************************************************************)
(* The two stores of participants, consents and profiles: the arrays of    *)
(* the in-memory world with the index of invite codes beside them, and the *)
(* tables, where the digest of the code is a column of the participant.    *)
(* Every call goes to both, one call after the other; joining and leaving  *)
(* at the same time is the subject of Enrolment.  updatedAt, which a new   *)
(* consent of a completed profile sets in the table only, is left out.     *)
(***************************************************************************)
EXTENDS Integers, FiniteSets

CONSTANTS
    Employees, Codes, Groups, Versions, Roles, Words,   \* numbers, none of them 0
    Limits,                                             \* limits of a page
    MaxSent, MaxClock                                   \* bounds

VARIABLES
    memory,     \* [participants, inviteIndex, consents, profiles]
    table,      \* [participants, codes, consents, profiles] by employee_id; codes is the
                \* column invite_code_digest of participants
    clock

profileVars == <<memory, table, clock>>

Null == 0

Sensible ==
    /\ Employees \cup Codes \cup Groups \cup Versions \cup Roles \cup Words \subseteq Nat \ {0}
    /\ Limits \subseteq Nat \ {0} /\ MaxSent \in Nat /\ MaxClock \in Nat \ {0}

Statuses == {"invite_issued", "invite_opened", "consent_accepted", "profile_completed"}

Participant == [employee : Employees, group : Groups, role : Roles \cup {Null}, status : Statuses,
                touch : Nat, sent : Nat, lastSent : Nat, shown : Nat, created : Nat]
NoParticipant == [employee |-> Null, group |-> Null, role |-> Null, status |-> "absent",
                  touch |-> 0, sent |-> 0, lastSent |-> 0, shown |-> 0, created |-> 0]

Consent == [version : Versions, accepted : Nat]
NoConsent == [version |-> Null, accepted |-> 0]

Profile == [employee : Employees, role : Roles, words : Words, created : Nat]
NoProfile == [employee |-> Null, role |-> Null, words |-> Null, created |-> 0]

Invited(e, g) == [NoParticipant EXCEPT !.employee = e, !.group = g,
                      !.status = "invite_issued", !.created = clock]

\* The instants there are, none of them 0: what is 0 has not happened.
Init ==
    /\ memory = [participants |-> [e \in Employees |-> NoParticipant],
                 inviteIndex |-> [c \in Codes |-> Null],
                 consents |-> [e \in Employees |-> NoConsent],
                 profiles |-> [e \in Employees |-> NoProfile]]
    /\ table = [participants |-> [e \in Employees |-> NoParticipant],
                codes |-> [e \in Employees |-> Null],
                consents |-> [e \in Employees |-> NoConsent],
                profiles |-> [e \in Employees |-> NoProfile]]
    /\ clock = 1

Issued(participant, created, matches) ==
    [participant |-> participant, created |-> created, matches |-> matches]
Opened(participant, opened) == [participant |-> participant, opened |-> opened]
Accepted(consent, created) == [consent |-> consent, created |-> created]
Completed(profile, wasCompleted) == [profile |-> profile, wasCompleted |-> wasCompleted]
Deleted(found, deleted, status) == [found |-> found, deleted |-> deleted, status |-> status]

-----------------------------------------------------------------------------
(* In memory                                                               *)

MemoryByCode(c) ==
    IF memory.inviteIndex[c] = Null THEN NoParticipant ELSE memory.participants[memory.inviteIndex[c]]

MemoryIssue(e, c, g) ==
    LET existing == memory.participants[e]
    IN  IF memory.inviteIndex[c] # Null
        THEN Issued(MemoryByCode(c), FALSE, memory.inviteIndex[c] = e)
        ELSE IF existing # NoParticipant THEN Issued(existing, FALSE, FALSE)
        ELSE Issued(Invited(e, g), TRUE, TRUE)

MemoryOpen(c, shown) ==
    LET participant == MemoryByCode(c)
    IN  IF participant = NoParticipant THEN Opened(NoParticipant, FALSE)
        ELSE IF participant.status # "invite_issued" THEN Opened(participant, FALSE)
        ELSE Opened([participant EXCEPT !.status = "invite_opened",
                         !.shown = IF shown THEN clock ELSE participant.shown], TRUE)

MemoryAccept(e, version) ==
    LET existing == memory.consents[e]
    IN  IF existing # NoConsent /\ existing.version = version THEN Accepted(existing, FALSE)
        ELSE Accepted([version |-> version, accepted |-> clock], TRUE)

MemoryConsented(e) ==
    LET participant == memory.participants[e]
    IN  IF participant.status = "profile_completed" THEN participant
        ELSE [participant EXCEPT !.status = "consent_accepted"]

\* No participant is the answer participant_not_found.
MemoryShown(e) ==
    IF memory.participants[e] = NoParticipant THEN NoParticipant
    ELSE [memory.participants[e] EXCEPT !.shown = clock]

MemoryComplete(e, profile, allowUpdate) ==
    LET existing == memory.profiles[e]
        participant == memory.participants[e]
        wasCompleted == existing # NoProfile /\ participant.status = "profile_completed"
    IN  IF participant = NoParticipant THEN Completed(NoProfile, FALSE)
        ELSE IF wasCompleted /\ ~allowUpdate THEN Completed(existing, TRUE)
        ELSE Completed(profile, wasCompleted)

\* latestDate, where 0 is no date
LatestDate(left, right) ==
    IF left = 0 THEN right ELSE IF right = 0 THEN left ELSE IF left < right THEN right ELSE left

MemoryTouched(e, role, on) ==
    LET participant == memory.participants[e]
    IN  [participant EXCEPT !.role = role, !.status = "profile_completed",
             !.touch = LatestDate(participant.touch, on)]

MemoryUpdate(e, words) ==
    IF memory.profiles[e] = NoProfile THEN NoProfile ELSE [memory.profiles[e] EXCEPT !.words = words]

MemoryTouch(e, on) ==
    LET participant == memory.participants[e]
    IN  IF participant = NoParticipant THEN NoParticipant
        ELSE IF participant.touch = 0 \/ participant.touch < on
        THEN [participant EXCEPT !.touch = on] ELSE participant

MemoryCandidates ==
    LET candidates == {e \in Employees :
            /\ memory.participants[e].status = "profile_completed"
            /\ memory.participants[e].touch # 0 /\ memory.profiles[e] # NoProfile}
    IN  {<<memory.participants[e], memory.profiles[e].words>> : e \in candidates}

MemoryReminded(e) ==
    LET participant == memory.participants[e]
    IN  IF participant = NoParticipant THEN NoParticipant
        ELSE [participant EXCEPT !.sent = participant.sent + 1, !.lastSent = clock]

\* The page after a cursor: each participant with the number of those before on the page.
MemoryPage(g, limit, at, after) ==
    LET Before(p, q) == p.created < q.created \/ (p.created = q.created /\ p.employee < q.employee)
        rest == {p \in {memory.participants[e] : e \in Employees} :
                    /\ p.group = g
                    /\ after = Null \/ p.created > at \/ (p.created = at /\ p.employee > after)}
        Place(p) == Cardinality({q \in rest : Before(q, p)})
    IN  {<<Place(p), p>> : p \in {q \in rest : Place(q) < limit}}

MemoryDeleteInvited(e) ==
    LET participant == memory.participants[e]
    IN  IF participant = NoParticipant THEN Deleted(FALSE, FALSE, "absent")
        ELSE Deleted(TRUE, participant.status = "invite_issued", participant.status)

MemoryWithout(e) ==
    [participants |-> [memory.participants EXCEPT ![e] = NoParticipant],
     inviteIndex |-> [c \in Codes |-> IF memory.inviteIndex[c] = e THEN Null ELSE memory.inviteIndex[c]],
     consents |-> [memory.consents EXCEPT ![e] = NoConsent],
     profiles |-> [memory.profiles EXCEPT ![e] = NoProfile]]

-----------------------------------------------------------------------------
(* participants, consents and profiles                                     *)

\* UNIQUE (invite_code_digest)
RowOwner(c) ==
    LET owners == {e \in Employees : table.codes[e] = c}
    IN  IF owners = {} THEN Null ELSE CHOOSE e \in owners : TRUE

RowByCode(c) == IF RowOwner(c) = Null THEN NoParticipant ELSE table.participants[RowOwner(c)]

\* INSERT ... ON CONFLICT DO NOTHING, else the row of the code, else that of the employee
RowIssue(e, c, g) ==
    IF RowOwner(c) = Null /\ table.participants[e] = NoParticipant
    THEN Issued(Invited(e, g), TRUE, TRUE)
    ELSE Issued(IF RowOwner(c) # Null THEN RowByCode(c) ELSE table.participants[e],
                FALSE, RowOwner(c) = e)

\* UPDATE ... WHERE status = 'invite_issued' RETURNING, else the row as it is
RowOpen(c, shown) ==
    LET row == RowByCode(c)
    IN  IF row.status = "invite_issued"
        THEN Opened([row EXCEPT !.status = "invite_opened",
                         !.shown = IF shown THEN clock ELSE row.shown], TRUE)
        ELSE Opened(row, FALSE)

\* ON CONFLICT DO UPDATE ... WHERE privacy_version IS DISTINCT FROM EXCLUDED.privacy_version
RowAccept(e, version) ==
    IF table.consents[e].version # version
    THEN Accepted([version |-> version, accepted |-> clock], TRUE)
    ELSE Accepted(table.consents[e], FALSE)

RowConsented(e) ==
    [table.participants[e] EXCEPT !.status =
        IF table.participants[e].status = "profile_completed" THEN "profile_completed" ELSE "consent_accepted"]

RowShown(e) ==
    IF table.participants[e] = NoParticipant THEN NoParticipant
    ELSE [table.participants[e] EXCEPT !.shown = clock]

RowComplete(e, profile, allowUpdate) ==
    LET wasCompleted == table.participants[e].status = "profile_completed"
    IN  IF table.participants[e] = NoParticipant THEN Completed(NoProfile, FALSE)
        ELSE IF wasCompleted /\ ~allowUpdate THEN Completed(table.profiles[e], TRUE)
        ELSE Completed(profile, wasCompleted)

\* ON CONFLICT (employee_id) DO UPDATE keeps created_at.
RowUpserted(e, profile) ==
    [profile EXCEPT !.created = IF table.profiles[e] = NoProfile THEN profile.created
                                ELSE table.profiles[e].created]

\* GREATEST ignores NULL.
Greatest(a, b) == IF a > b THEN a ELSE b

RowTouched(e, role, on) ==
    LET row == table.participants[e]
    IN  [row EXCEPT !.role = role, !.status = "profile_completed", !.touch = Greatest(row.touch, on)]

RowUpdate(e, words) ==
    IF table.profiles[e] = NoProfile THEN NoProfile ELSE [table.profiles[e] EXCEPT !.words = words]

RowTouch(e, on) ==
    LET row == table.participants[e]
    IN  IF row = NoParticipant THEN NoParticipant ELSE [row EXCEPT !.touch = Greatest(row.touch, on)]

\* participants JOIN profiles
RowCandidates ==
    {<<table.participants[e], table.profiles[e].words>> : e \in
        {d \in Employees : table.profiles[d] # NoProfile /\ table.participants[d].touch # 0
                          /\ table.participants[d].status = "profile_completed"}}

RowReminded(e) ==
    LET row == table.participants[e]
    IN  IF row = NoParticipant THEN NoParticipant
        ELSE [row EXCEPT !.sent = row.sent + 1, !.lastSent = clock]

\* ORDER BY created_at, employee_id, of the rows with (created_at, employee_id) > (at, after)
RowPage(g, limit, at, after) ==
    LET Exceeds(p, created, employee) ==
            IF p.created = created THEN p.employee > employee ELSE p.created > created
        rest == {p \in {table.participants[e] : e \in Employees} :
                    p.group = g /\ (after # Null => Exceeds(p, at, after))}
        Place(p) == Cardinality({q \in rest : Exceeds(p, q.created, q.employee)})
    IN  {<<Place(p), p>> : p \in {q \in rest : Place(q) < limit}}

RowDeleteInvited(e) ==
    LET row == table.participants[e]
    IN  Deleted(row # NoParticipant, row.status = "invite_issued", row.status)

\* ON DELETE CASCADE
RowWithout(e) ==
    [participants |-> [table.participants EXCEPT ![e] = NoParticipant],
     codes |-> [table.codes EXCEPT ![e] = Null],
     consents |-> [table.consents EXCEPT ![e] = NoConsent],
     profiles |-> [table.profiles EXCEPT ![e] = NoProfile]]

-----------------------------------------------------------------------------
(* The calls                                                               *)

InMemory(participants) == memory' = [memory EXCEPT !.participants = participants]
InTable(participants) == table' = [table EXCEPT !.participants = participants]

IssueInvite(e, c, g) ==
    /\ memory' = IF ~MemoryIssue(e, c, g).created THEN memory
                 ELSE [memory EXCEPT !.participants = [memory.participants EXCEPT ![e] = Invited(e, g)],
                                     !.inviteIndex = [memory.inviteIndex EXCEPT ![c] = e]]
    /\ table' = IF ~RowIssue(e, c, g).created THEN table
                ELSE [table EXCEPT !.participants = [table.participants EXCEPT ![e] = Invited(e, g)],
                                   !.codes = [table.codes EXCEPT ![e] = c]]
    /\ UNCHANGED clock

OpenInvite(c, shown) ==
    LET inMemory == MemoryOpen(c, shown)
        row == RowOpen(c, shown)
    IN  /\ IF inMemory.opened
           THEN InMemory([memory.participants EXCEPT ![inMemory.participant.employee] = inMemory.participant])
           ELSE UNCHANGED memory
        /\ IF row.opened THEN InTable([table.participants EXCEPT ![row.participant.employee] = row.participant])
           ELSE UNCHANGED table
        /\ UNCHANGED clock

\* requireParticipant: the participant is there.
AcceptConsent(e, version) ==
    LET inMemory == MemoryAccept(e, version)
        row == RowAccept(e, version)
    IN  /\ memory.participants[e] # NoParticipant /\ table.participants[e] # NoParticipant
        /\ memory' = IF ~inMemory.created THEN memory
                     ELSE [memory EXCEPT !.consents = [memory.consents EXCEPT ![e] = inMemory.consent],
                               !.participants = [memory.participants EXCEPT ![e] = MemoryConsented(e)]]
        /\ table' = IF ~row.created THEN table
                    ELSE [table EXCEPT !.consents = [table.consents EXCEPT ![e] = row.consent],
                              !.participants = [table.participants EXCEPT ![e] = RowConsented(e)]]
        /\ UNCHANGED clock

RecordPrivacyExplanationShown(e) ==
    /\ IF MemoryShown(e) = NoParticipant THEN UNCHANGED memory
       ELSE InMemory([memory.participants EXCEPT ![e] = MemoryShown(e)])
    /\ IF RowShown(e) = NoParticipant THEN UNCHANGED table
       ELSE InTable([table.participants EXCEPT ![e] = RowShown(e)])
    /\ UNCHANGED clock

\* createdAt is that of the profile there is.
CompleteProfile(e, role, words, allowUpdate, on) ==
    LET existing == memory.profiles[e]
        profile == [employee |-> e, role |-> role, words |-> words,
                    created |-> IF existing = NoProfile THEN clock ELSE existing.created]
        Keeps(answer) == answer.profile = NoProfile \/ (answer.wasCompleted /\ ~allowUpdate)
    IN  /\ memory' = IF Keeps(MemoryComplete(e, profile, allowUpdate)) THEN memory
                     ELSE [memory EXCEPT !.profiles = [memory.profiles EXCEPT ![e] = profile],
                               !.participants = [memory.participants EXCEPT ![e] = MemoryTouched(e, role, on)]]
        /\ table' = IF Keeps(RowComplete(e, profile, allowUpdate)) THEN table
                    ELSE [table EXCEPT !.profiles = [table.profiles EXCEPT ![e] = RowUpserted(e, profile)],
                              !.participants = [table.participants EXCEPT ![e] = RowTouched(e, role, on)]]
        /\ UNCHANGED clock

UpdatePersonalContext(e, words) ==
    /\ memory' = IF MemoryUpdate(e, words) = NoProfile THEN memory
                 ELSE [memory EXCEPT !.profiles = [memory.profiles EXCEPT ![e] = MemoryUpdate(e, words)]]
    /\ table' = IF RowUpdate(e, words) = NoProfile THEN table
                ELSE [table EXCEPT !.profiles = [table.profiles EXCEPT ![e] = RowUpdate(e, words)]]
    /\ UNCHANGED clock

RecordParticipantTouch(e, on) ==
    /\ IF MemoryTouch(e, on) = NoParticipant THEN UNCHANGED memory
       ELSE InMemory([memory.participants EXCEPT ![e] = MemoryTouch(e, on)])
    /\ IF RowTouch(e, on) = NoParticipant THEN UNCHANGED table
       ELSE InTable([table.participants EXCEPT ![e] = RowTouch(e, on)])
    /\ UNCHANGED clock

RecordEngagementReminderSent(e) ==
    /\ memory.participants[e].sent < MaxSent
    /\ IF MemoryReminded(e) = NoParticipant THEN UNCHANGED memory
       ELSE InMemory([memory.participants EXCEPT ![e] = MemoryReminded(e)])
    /\ IF RowReminded(e) = NoParticipant THEN UNCHANGED table
       ELSE InTable([table.participants EXCEPT ![e] = RowReminded(e)])
    /\ UNCHANGED clock

DeleteInvitedParticipant(e) ==
    /\ memory' = IF MemoryDeleteInvited(e).deleted THEN MemoryWithout(e) ELSE memory
    /\ table' = IF RowDeleteInvited(e).deleted THEN RowWithout(e) ELSE table
    /\ UNCHANGED clock

DeleteEmployeePersonalData(e) ==
    memory' = MemoryWithout(e) /\ table' = RowWithout(e) /\ UNCHANGED clock

Tick == clock < MaxClock /\ clock' = clock + 1 /\ UNCHANGED <<memory, table>>

Next ==
    \/ \E e \in Employees :
          \/ \E c \in Codes, g \in Groups : IssueInvite(e, c, g)
          \/ \E version \in Versions : AcceptConsent(e, version)
          \/ RecordPrivacyExplanationShown(e)
          \/ \E role \in Roles, words \in Words, allowUpdate \in BOOLEAN, on \in 0 .. clock :
                CompleteProfile(e, role, words, allowUpdate, on)
          \/ \E words \in Words : UpdatePersonalContext(e, words)
          \/ \E on \in 1 .. clock : RecordParticipantTouch(e, on)
          \/ RecordEngagementReminderSent(e)
          \/ DeleteInvitedParticipant(e) \/ DeleteEmployeePersonalData(e)
    \/ \E c \in Codes, shown \in BOOLEAN : OpenInvite(c, shown)
    \/ Tick

Spec == Init /\ [][Next]_profileVars

-----------------------------------------------------------------------------

TypeOK ==
    /\ memory \in [participants : [Employees -> Participant \cup {NoParticipant}],
                   inviteIndex : [Codes -> Employees \cup {Null}],
                   consents : [Employees -> Consent \cup {NoConsent}],
                   profiles : [Employees -> Profile \cup {NoProfile}]]
    /\ table \in [participants : [Employees -> Participant \cup {NoParticipant}],
                  codes : [Employees -> Codes \cup {Null}],
                  consents : [Employees -> Consent \cup {NoConsent}],
                  profiles : [Employees -> Profile \cup {NoProfile}]]
    /\ clock \in 1 .. MaxClock

\* After any calls every further call is answered alike by the arrays and by the tables.
Agree ==
    /\ MemoryCandidates = RowCandidates
    /\ \A c \in Codes :
          /\ MemoryByCode(c) = RowByCode(c)
          /\ \A shown \in BOOLEAN : MemoryOpen(c, shown) = RowOpen(c, shown)
          /\ \A e \in Employees, g \in Groups : MemoryIssue(e, c, g) = RowIssue(e, c, g)
    /\ \A e \in Employees :
          /\ memory.participants[e] = table.participants[e]
          /\ memory.consents[e] = table.consents[e]
          /\ memory.profiles[e] = table.profiles[e]
          /\ MemoryShown(e) = RowShown(e)
          /\ MemoryReminded(e) = RowReminded(e)
          /\ MemoryDeleteInvited(e) = RowDeleteInvited(e)
          /\ \A version \in Versions : MemoryAccept(e, version) = RowAccept(e, version)
          /\ \A words \in Words : MemoryUpdate(e, words) = RowUpdate(e, words)
          /\ \A on \in 1 .. clock : MemoryTouch(e, on) = RowTouch(e, on)
          /\ \A profile \in [employee : {e}, role : Roles, words : Words, created : {clock}],
                 allowUpdate \in BOOLEAN :
                MemoryComplete(e, profile, allowUpdate) = RowComplete(e, profile, allowUpdate)
    /\ \A g \in Groups, limit \in Limits, at \in 1 .. clock, after \in Employees \cup {Null} :
          MemoryPage(g, limit, at, after) = RowPage(g, limit, at, after)

=============================================================================
