------------------------------ MODULE MCAssistant ------------------------------
(***************************************************************************)
(* Small instances of what the requests of one employee work on: a turn of *)
(* the assistant, the activities it records, the ideas it deletes, the     *)
(* documents, the files and the draft of the profile; and of what the      *)
(* operator makes of it all for the client.  They share no state, so a     *)
(* behaviour takes steps of one of them only.                              *)
(***************************************************************************)
EXTENDS AssistantTurn, Sequences, TLC

CONSTANTS a1, a2, a3
CONSTANTS Paths, Contents, Changes, Workers, MaxVersions
CONSTANTS Ideas, Proposals, Ttl, UndoWindow, Retention, MaxTime, MaxEdits
CONSTANTS Ids, EarlierIds, Messages, Values, MaxItems, MaxTickets, MaxFaults
CONSTANTS Roles, Names, Zones, MaxRevision, MaxDrafts, MaxLapses
CONSTANTS OwnerQuota, GlobalQuota, MaxErrors
CONSTANTS Subjects, SignalSubjects, MaxSteps, MaxCommands

VARIABLES about
VARIABLES bucket, history, changes, workers
VARIABLES now, ideas, confirmations, deciders
VARIABLES activities, claims, transactions, tickets, wrote, faults
VARIABLES draft, lapsed, profile, requests, drafts, lapses
VARIABLES bytes, contents, artifacts, saves, purge, torn, errors
VARIABLES evidence, unnamed, held, stored, file, decisions, published, command, steps, issued

D == INSTANCE ContextDocuments
I == INSTANCE IdeaDeletion WITH Requests <- Workers, requests <- deciders, MaxRevision <- MaxEdits

\* Two deliveries of one file, another file, and two versions of recommendations.
File(key, body) == [owner |-> "employee", key |-> key, body |-> body]
Version(key, body) == [owner |-> "research", key |-> key, body |-> body]
Files == {File("k1", "x"), File("k2", "x"), File("k3", "y"), Version("k4", "hers"), Version("k5", "theirs")}

SizeOf(body) == IF body = "x" THEN 2 ELSE 1

F == INSTANCE Artifacts WITH Saves <- Workers, Deliveries <- Files, Research <- "research",
         Personal <- {"hers"}, Size <- SizeOf
R == INSTANCE ReportPublishing WITH commands <- issued
O == INSTANCE Onboarding WITH Requests <- Workers
A == INSTANCE Activities WITH Calls <- Workers, calls <- transactions

docVars == <<bucket, history, changes, workers>>
ideaVars == <<now, ideas, confirmations, deciders>>
activityVars == <<activities, claims, transactions, tickets, wrote, faults>>
draftVars == <<draft, lapsed, profile, requests, drafts, lapses>>
fileVars == <<bytes, contents, artifacts, saves, purge, torn, errors>>
reportVars == <<evidence, unnamed, held, stored, file, decisions, published, command, steps, issued>>
turnVars == vars
all == <<about, turnVars, docVars, ideaVars, activityVars,
         draftVars, fileVars, reportVars>>

\* What a behaviour is not about is absent.
Absent(v) == v = "absent"

AllInit ==
    /\ about \in {"turn", "documents", "ideas", "activities", "draft", "files", "reports"}
    /\ Init
    /\ IF about = "documents" THEN D!Init
       ELSE Absent(bucket) /\ Absent(history) /\ Absent(changes) /\ Absent(workers)
    /\ IF about = "ideas" THEN I!Init
       ELSE Absent(now) /\ Absent(ideas) /\ Absent(confirmations) /\ Absent(deciders)
    /\ IF about = "activities" THEN A!Init
       ELSE /\ Absent(activities) /\ Absent(claims) /\ Absent(transactions)
            /\ Absent(tickets) /\ Absent(wrote) /\ Absent(faults)
    /\ IF about = "draft" THEN O!Init
       ELSE /\ Absent(draft) /\ Absent(lapsed) /\ Absent(profile)
            /\ Absent(requests) /\ Absent(drafts) /\ Absent(lapses)
    /\ IF about = "files" THEN F!Init
       ELSE /\ Absent(bytes) /\ Absent(contents) /\ Absent(artifacts) /\ Absent(saves)
            /\ Absent(purge) /\ Absent(torn) /\ Absent(errors)
    /\ IF about = "reports" THEN R!Init
       ELSE /\ Absent(evidence) /\ Absent(unnamed) /\ Absent(held) /\ Absent(stored)
            /\ Absent(file) /\ Absent(decisions) /\ Absent(published) /\ Absent(command)
            /\ Absent(steps) /\ Absent(issued)

AllNext ==
    \/ /\ about = "turn" /\ Next
       /\ UNCHANGED <<about, docVars, ideaVars, activityVars, draftVars, fileVars, reportVars>>
    \/ /\ about = "documents" /\ D!Next
       /\ UNCHANGED <<about, turnVars, ideaVars, activityVars, draftVars, fileVars, reportVars>>
    \/ /\ about = "ideas" /\ I!Next
       /\ UNCHANGED <<about, turnVars, docVars, activityVars, draftVars, fileVars, reportVars>>
    \/ /\ about = "activities" /\ A!Next
       /\ UNCHANGED <<about, turnVars, docVars, ideaVars, draftVars, fileVars, reportVars>>
    \/ /\ about = "draft" /\ O!Next
       /\ UNCHANGED <<about, turnVars, docVars, ideaVars, activityVars, fileVars, reportVars>>
    \/ /\ about = "files" /\ F!Next
       /\ UNCHANGED <<about, turnVars, docVars, ideaVars, activityVars, draftVars, reportVars>>
    \/ /\ about = "reports" /\ R!Next
       /\ UNCHANGED <<about, turnVars, docVars, ideaVars, activityVars, draftVars, fileVars>>

AllSpec == AllInit /\ [][AllNext]_all

\* There are documents and confirmations, "owner" is nobody's confirmation, and the bound has
\* room for what is stored at first.
DocumentsSensible ==
    /\ Paths # {} /\ Contents # {} /\ Changes # {} /\ "owner" \notin Changes
    /\ MaxVersions \in Nat /\ MaxVersions >= 2

\* There is a name and a time zone to fall back on, and room for a draft.
DraftSensible ==
    /\ Names # {} /\ Zones # {} /\ "none" \notin Roles \cup Names \cup Zones
    /\ MaxRevision \in Nat \ {0} /\ MaxDrafts \in Nat /\ MaxLapses \in Nat

\* Ids are numbers of which none is 0, there is a value, and "none" is nobody's message.
ActivitiesSensible ==
    /\ Ids \subseteq Nat \ {0} /\ EarlierIds \in Nat /\ Values # {} /\ "none" \notin Messages
    /\ MaxItems \in Nat /\ MaxTickets \in Nat /\ MaxFaults \in Nat

ConstantsSensible ==
    I!Sensible /\ F!Sensible /\ DocumentsSensible /\ DraftSensible /\ ActivitiesSensible

ASSUME ConstantsAreSensible == ConstantsSensible

\* The actors of every part are the same values, so that one permutation serves them all.
Symmetry == Permutations(Workers)

\* The variables of the turn and of each of the other modules have their types.
RecordsTypeOK ==
    /\ TypeOK
    /\ about = "documents" => D!TypeOK
    /\ about = "ideas" => I!TypeOK
    /\ about = "activities" => A!TypeOK
    /\ about = "draft" => O!TypeOK
    /\ about = "files" => F!TypeOK
    /\ about = "reports" => R!TypeOK

\* However often a decision about a document is retried or doubled, one request at a time
\* carries it out, an update of a canonical version writes one, and neither an update nor a move
\* writes over what an earlier attempt left; a note that is created never takes the place of a
\* document.  (A move that is retried may leave two copies: ContextDocuments!MoveLeavesOneCopy.)
DocumentsAreSafe ==
    /\ [](about = "documents" => D!ChangesOnce)
    /\ [][about = "documents" => D!NeverOverItsOwn /\ D!CreatesOnlyNew]_docVars

\* Deleting ideas implements the ledger of ideas.
ImplementsLedger ==
    /\ about = "ideas" => I!Ledger!Init
    /\ [][about = "ideas" => UNCHANGED I!Ledger!vars \/ I!Ledger!Next]_ideaVars

\* What a call of the activity transaction is told is what was written.
ToldIsTrue == about = "activities" => A!ToldIsTrue

\* A message of a retrospective is written once, and activities that replace each other leave
\* one that counts.
WorkCountsOnce == about = "activities" => A!LinkedOnce /\ A!WorkIsNotLost

\* Answers that arrive together do not undo each other, and of two confirmations of a draft
\* one makes the profile.
AnswersCount == [][about = "draft" => O!KeepsAnswers /\ O!ConfirmsOnce]_draftVars

\* Files that were saved are there, within the quotas, and go when they are purged.
ArtifactsAreSound == about = "files" => F!ArtifactsAreSound

\* What is published for the client was reviewed, on evidence that stood.
PublishedIsReviewed == about = "reports" => R!PublishedIsReviewed

=============================================================================
