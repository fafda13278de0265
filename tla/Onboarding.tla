------------------------------ MODULE Onboarding ------------------------------
(***************************************************************************)
(* The draft profile of one employee who has given consent, the answers    *)
(* that fill it, and the profile it becomes.  An answer may wait for a     *)
(* model while other requests of the employee change the draft, reset it   *)
(* or make it the profile.  A draft is saved by one INSERT ... ON CONFLICT *)
(* that looks at the participant in its snapshot and at the draft when it  *)
(* writes, so the two are separate steps here; the transaction that        *)
(* completes the profile is one step.                                      *)
(*                                                                         *)
(* preferredName and timezone stand for all fields a free text may fill.   *)
(* The instant a draft was created is its generation.                      *)
(***************************************************************************)
EXTENDS Naturals

CONSTANTS
    Requests,      \* requests of the employee served at one time
    Roles, Names, Zones,   \* what the fields may hold
    MaxRevision,   \* bound: revisions of a draft
    MaxDrafts,     \* bound: generations of drafts
    MaxLapses      \* bound: drafts left alone for thirty days, before the last generation

VARIABLES
    draft,       \* the row of minutka_private.onboarding_drafts
    lapsed,      \* its expires_at has passed
    profile,     \* the row of minutka_private.profiles
    requests,    \* requests being served
    drafts,      \* generations so far
    lapses       \* drafts that expired so far

onboardingVars == <<draft, lapsed, profile, requests, drafts, lapses>>

-----------------------------------------------------------------------------

Fields == {"roleId", "preferredName", "timezone"}
FreeFields == Fields \ {"roleId"}
Answers == [roleId : Roles \cup {"none"}, preferredName : Names \cup {"none"},
            timezone : Zones \cup {"none"}]
NoAnswers == [f \in Fields |-> "none"]
Given(answers) == {f \in Fields : answers[f] # "none"}

\* Fault: one of the fields is not asked for.
CompleteButZone(answers) == Given(answers) \cup {"timezone"} = Fields

Complete(answers) == Given(answers) = Fields

Draft == [born : Nat, revision : Nat, fields : Answers]
NoDraft == [born |-> 0, revision |-> 0, fields |-> NoAnswers]
Live == draft # NoDraft /\ ~lapsed

Phases == {"idle", "opening", "creating", "inserting", "meeting", "answering", "saving", "writing",
    "conflicted", "completing", "updating", "discarding", "replacing"}

\* asked is the generation the answer was given to, base the draft it is merged into.
Request == [phase : Phases, asked : Nat, base : Draft, patch : Answers, again : BOOLEAN]
Idle == [phase |-> "idle", asked |-> 0, base |-> NoDraft, patch |-> NoAnswers, again |-> FALSE]

Goes(r, request) == requests' = [requests EXCEPT ![r] = request]
At(r, phase) == Goes(r, [requests[r] EXCEPT !.phase = phase])
Ends(r) == Goes(r, Idle)
Patch(r) == requests[r].patch
Base(r) == requests[r].base

Init ==
    /\ draft = NoDraft /\ lapsed = FALSE /\ profile = NoAnswers
    /\ requests = [r \in Requests |-> Idle]
    /\ drafts = 0 /\ lapses = 0

\* get, purgeExpired: an expired draft is deleted.
Forget ==
    /\ draft' = IF lapsed THEN NoDraft ELSE draft
    /\ lapsed' = FALSE

\* completeProfile and delete
Dropped == draft' = NoDraft /\ lapsed' = FALSE

HasProfile == profile # NoAnswers

-----------------------------------------------------------------------------
(* Opening a draft                                                         *)

Takes(r, found) == Goes(r, [requests[r] EXCEPT !.base = found,
    !.asked = IF requests[r].again THEN @ ELSE found.born,
    !.phase = IF requests[r].again THEN "saving" ELSE "answering"])

\* getOnboardingProgress, submitOnboardingAnswer, getOrCreateOnboardingDraft
Open(r) ==
    /\ requests[r].phase = "idle" => ~HasProfile
    /\ requests[r].phase \in {"idle", "opening", "meeting"}
    /\ Forget
    /\ IF Live THEN Takes(r, draft)
       ELSE IF requests[r].phase = "meeting" THEN Ends(r) ELSE At(r, "creating")
    /\ UNCHANGED <<profile, drafts, lapses>>

\* save of a first revision: the snapshot, and then the row.
BeginInsert(r) ==
    /\ requests[r].phase = "creating"
    /\ At(r, IF HasProfile THEN "meeting" ELSE "inserting")
    /\ UNCHANGED <<draft, lapsed, profile, drafts, lapses>>

Fresh(revision) == [born |-> drafts + 1, revision |-> revision, fields |-> NoAnswers]

Insert(r) ==
    /\ requests[r].phase = "inserting"
    /\ IF draft = NoDraft
       THEN /\ drafts < MaxDrafts
            /\ draft' = Fresh(1) /\ drafts' = drafts + 1
            /\ Takes(r, Fresh(1))
       ELSE /\ At(r, "meeting")
            /\ UNCHANGED <<draft, drafts>>
    /\ UNCHANGED <<lapsed, profile, lapses>>

-----------------------------------------------------------------------------
(* Answering                                                               *)

\* selectOnboardingRole, and what the exact protocol or the extractor made of a text.
Answer(r, patch) ==
    /\ requests[r].phase = "answering"
    /\ IF "roleId" \notin Given(Base(r).fields) THEN Given(patch) = {"roleId"}
       ELSE Given(patch) \subseteq FreeFields
    /\ Goes(r, [requests[r] EXCEPT !.patch = patch, !.phase = "saving"])
    /\ UNCHANGED <<draft, lapsed, profile, drafts, lapses>>

\* mergeOnboardingPatch: only a complete draft is corrected.
Merged(base, patch) == [f \in Fields |->
    IF f \in Given(patch) /\ (Complete(base) \/ base[f] = "none") THEN patch[f] ELSE base[f]]

\* makeOnboardingDraft
Revised(r) ==
    LET fields == Merged(Base(r).fields, Patch(r)) IN
    [Base(r) EXCEPT !.fields = fields, !.revision = IF fields = Base(r).fields THEN @ ELSE @ + 1]

\* A persistence_conflict is met once more, except by the choice of a role.
Conflicts(r) ==
    IF requests[r].again \/ Given(Patch(r)) = {"roleId"} THEN Ends(r)
    ELSE Goes(r, [requests[r] EXCEPT !.phase = "conflicted", !.again = TRUE])

\* Confirmation may have committed while the answer was extracted: a profile, looked for before
\* the save and again by it, stays.
BeginSave(r) ==
    /\ requests[r].phase = "saving"
    /\ IF HasProfile THEN Ends(r) ELSE At(r, "writing")
    /\ UNCHANGED <<draft, lapsed, profile, drafts, lapses>>

\* Fault: the ON CONFLICT lost its comparison of revisions.
MatchesAny(r) == ~lapsed

\* The WHERE of ON CONFLICT.
Matches(r) == draft.revision = Base(r).revision /\ ~lapsed

Save(r) ==
    /\ requests[r].phase = "writing"
    /\ Revised(r).revision <= MaxRevision
    /\ IF draft = NoDraft
       THEN draft' = Revised(r) /\ Ends(r)
       ELSE IF Matches(r)
            THEN draft' = [Revised(r) EXCEPT !.born = draft.born] /\ Ends(r)
            ELSE draft' = draft /\ Conflicts(r)
    /\ UNCHANGED <<lapsed, profile, drafts, lapses>>

\* After a conflict: the answer is merged again, unless the draft was reset.
Refresh(r) ==
    /\ requests[r].phase = "conflicted"
    /\ IF HasProfile THEN Ends(r) /\ UNCHANGED <<draft, lapsed>>
       ELSE /\ Forget
            /\ IF ~Live THEN At(r, "opening")
               ELSE IF draft.born = requests[r].asked
               THEN Goes(r, [requests[r] EXCEPT !.base = draft, !.phase = "saving"])
               ELSE Ends(r)
    /\ UNCHANGED <<profile, drafts, lapses>>

-----------------------------------------------------------------------------
(* Reset                                                                   *)

\* resetOnboardingDraft: the revision of what is there.
ReadForReset(r) ==
    /\ requests[r].phase = "idle" /\ ~HasProfile
    /\ Forget
    /\ Goes(r, [Idle EXCEPT !.phase = "discarding", !.base = IF Live THEN draft ELSE NoDraft])
    /\ UNCHANGED <<profile, drafts, lapses>>

BeginReplace(r) ==
    /\ requests[r].phase = "discarding"
    /\ IF HasProfile THEN Ends(r) ELSE At(r, "replacing")
    /\ UNCHANGED <<draft, lapsed, profile, drafts, lapses>>

\* replace: whatever is there.
Replace(r) ==
    /\ requests[r].phase = "replacing"
    /\ drafts < MaxDrafts /\ Base(r).revision < MaxRevision
    /\ draft' = Fresh(Base(r).revision + 1) /\ drafts' = drafts + 1
    /\ lapsed' = FALSE
    /\ Ends(r)
    /\ UNCHANGED <<profile, lapses>>

-----------------------------------------------------------------------------
(* The profile                                                             *)

\* confirmOnboarding, called or reached by an affirmative answer.
ReadForConfirm(r) ==
    /\ \/ requests[r].phase = "idle"
       \/ requests[r].phase = "answering" /\ Complete(Base(r).fields)
    /\ IF HasProfile THEN Dropped /\ Ends(r)
       ELSE /\ Forget
            /\ IF Live /\ Complete(draft.fields)
               THEN Goes(r, [Idle EXCEPT !.phase = "completing", !.base = draft])
               ELSE Ends(r)
    /\ UNCHANGED <<profile, drafts, lapses>>

\* Fault: a completed participant is not looked at.
NeverCompleted == FALSE

\* The status of the participant, locked.
WasCompleted == HasProfile

\* completeProfile without allowUpdate
CompleteProfile(r) ==
    /\ requests[r].phase = "completing"
    /\ profile' = IF WasCompleted THEN profile ELSE Base(r).fields
    /\ Dropped
    /\ Ends(r)
    /\ UNCHANGED <<drafts, lapses>>

\* completeOnboarding reads the profile, and later writes the whole of it.
AskUpdate(r, input) ==
    /\ requests[r].phase = "idle"
    /\ "roleId" \in Given(input)
    /\ Goes(r, [Idle EXCEPT !.phase = "updating", !.patch = input, !.base.fields = profile])
    /\ UNCHANGED <<draft, lapsed, profile, drafts, lapses>>

Default == [roleId |-> "none", preferredName |-> CHOOSE v \in Names : TRUE,
            timezone |-> CHOOSE v \in Zones : TRUE]

UpdateProfile(r) ==
    /\ requests[r].phase = "updating"
    /\ LET input == [f \in Fields |-> IF f \in Given(Patch(r)) THEN Patch(r)[f]
                                      ELSE IF f \in Given(Base(r).fields) THEN Base(r).fields[f]
                                      ELSE Default[f]]
       IN  profile' = IF input = Base(r).fields THEN profile ELSE input
    /\ Dropped
    /\ Ends(r)
    /\ UNCHANGED <<drafts, lapses>>

\* updatePersonalContext: one transaction that locks the profile.
UpdateContext(f, v) ==
    /\ HasProfile /\ f \in FreeFields
    /\ profile' = [profile EXCEPT ![f] = v] /\ profile' \in Answers
    /\ UNCHANGED <<draft, lapsed, requests, drafts, lapses>>

-----------------------------------------------------------------------------

\* A text that says nothing, a timeout of the extractor, an error, a crash.
GivesUp(r) ==
    /\ requests[r].phase # "idle"
    /\ Ends(r)
    /\ UNCHANGED <<draft, lapsed, profile, drafts, lapses>>

Lapse ==
    /\ Live /\ lapses < MaxLapses /\ drafts < MaxDrafts
    /\ lapsed' = TRUE /\ lapses' = lapses + 1
    /\ UNCHANGED <<draft, profile, requests, drafts>>

PurgeExpired ==
    /\ lapsed
    /\ Forget
    /\ UNCHANGED <<profile, requests, drafts, lapses>>

Next ==
    \/ \E r \in Requests :
           \/ Open(r) \/ BeginInsert(r) \/ Insert(r)
           \/ BeginSave(r) \/ Save(r) \/ Refresh(r)
           \/ ReadForReset(r) \/ BeginReplace(r) \/ Replace(r)
           \/ ReadForConfirm(r) \/ CompleteProfile(r) \/ UpdateProfile(r)
           \/ GivesUp(r)
    \/ \E r \in Requests, patch \in Answers : Answer(r, patch) \/ AskUpdate(r, patch)
    \/ \E f \in FreeFields, v \in Names \cup Zones : UpdateContext(f, v)
    \/ Lapse \/ PurgeExpired

Spec == Init /\ [][Next]_onboardingVars

-----------------------------------------------------------------------------
(* Properties                                                              *)

TypeOK ==
    /\ draft \in Draft /\ draft.revision <= MaxRevision
    /\ lapsed \in BOOLEAN /\ (lapsed => draft # NoDraft)
    /\ profile \in Answers /\ Given(profile) \in {{}, Fields}
    /\ requests \in [Requests -> Request]
    /\ drafts \in 0..MaxDrafts /\ lapses \in 0..MaxLapses

\* Answers that arrive together do not undo each other: one that is saved changes only what it
\* says, and while the draft is collected only what nobody has said before.  (Of a draft that
\* was neither reset nor expired, see ResetWins, and before the profile: two answers that wait
\* for the draft while it is confirmed make a draft that mixes revisions, and nobody uses it.)
KeepsAnswers ==
    \A r \in Requests :
        /\ requests[r].phase = "writing" /\ requests'[r] = Idle
        /\ draft # NoDraft /\ drafts = 1 /\ lapses = 0 /\ ~HasProfile
        => \A f \in Fields : draft'.fields[f] # draft.fields[f] =>
               /\ f \in Given(Patch(r))
               /\ Complete(draft.fields) \/ draft.fields[f] = "none"

\* Of two confirmations of a draft one makes the profile; the other, and an answer that comes
\* late, leave it alone.
ConfirmsOnce ==
    \A r \in Requests : requests[r].phase = "completing" /\ requests'[r] = Idle
        => profile' \in {profile, Base(r).fields} /\ (HasProfile => profile' = profile)

\* minutka-service.ts:536: a reset wins over an answer in flight, whose save never revives what
\* the reset discarded.
ResetWins == [][
    \A r \in Requests : requests[r].phase = "writing" /\ draft # NoDraft /\ draft' # draft
        /\ requests'[r] = Idle /\ Base(r).born # draft.born
        => Given(Base(r).fields) = {}]_onboardingVars

=============================================================================
