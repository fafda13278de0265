--------------------------- MODULE ReportPublishing ---------------------------
(***************************************************************************)
(* Recommendations and the client report of one group.  The operator has   *)
(* recommendations drafted from what the employees said, reviews and saves *)
(* them, has the report checked, answers the findings and publishes.  Each *)
(* of these commands reads the evidence anew, by several queries, while    *)
(* the employees go on speaking and correcting what they reported.         *)
(*                                                                         *)
(* An employee has one activity and one episode; a candidate is about one  *)
(* employee's episode.  A digest of a report is the report.                *)
(*                                                                         *)
(* start is a ghost: the evidence as it was when the command began.        *)
(***************************************************************************)
EXTENDS Naturals, FiniteSets, FiniteSetsExt

CONSTANTS
    Subjects,       \* employees of the group
    SignalSubjects, \* contributors a routine needs to name a recommendation
    MaxSteps,       \* bound: what the employees say and correct
    MaxCommands     \* bound: commands

VARIABLES
    evidence,       \* episodes and activities of the employees
    unnamed,        \* one of the ten largest routines has no name in the directory
    held,           \* recommendations the operator has in a file
    stored,         \* the versions saved
    file,           \* findings of the last check of the report
    decisions,      \* audit: what the operator decided about findings
    published,      \* audit: reports published, with the findings they had
    command,
    steps, commands

reportVars == <<evidence, unnamed, held, stored, file, decisions, published, command, steps, commands>>

-----------------------------------------------------------------------------

\* link: the revision of the activity the episode refers to; 0: there is none.
Evidence == [there : BOOLEAN, episode : Nat, link : Nat, activity : Nat]
Deleted == [there |-> FALSE, episode |-> 0, link |-> 0, activity |-> 0]

\* What one read of the research corpus returns: episodes first, activities later.
Seen == [Subjects -> [episode : Nat, link : Nat, activity : Nat]]
Unread == [s \in Subjects |-> [episode |-> 0, link |-> 0, activity |-> 0]]

\* deep_dive: rejected when it was drafted, for want of support or completeness.
Statuses == {"none", "draft", "checked", "rejected", "deep_dive", "stale"}
Artifact == [version : Nat, refs : [Subjects -> Nat], candidates : [Subjects -> Statuses],
             contributors : SUBSET Subjects]
NoArtifact == [version |-> 0, refs |-> [s \in Subjects |-> 0],
               candidates |-> [s \in Subjects |-> "none"], contributors |-> {}]

Findings == {"unnamed", "llm"}
Client == [figures : [Subjects -> Nat], latest : Artifact, recommendations : SUBSET Subjects]
NoClient == [figures |-> [s \in Subjects |-> 0], latest |-> NoArtifact, recommendations |-> {}]
NoFile == [client |-> NoClient, findings |-> {}]

Kinds == {"none", "build", "check", "save", "preflight", "resolve", "publish"}
ReportKinds == {"preflight", "resolve", "publish"}
Phases == {"idle", "latest", "episodes", "activities"}
NoCommand == [kind |-> "none", phase |-> "idle", seen |-> Unread, client |-> NoClient,
              unnamed |-> FALSE, start |-> Unread]

Init ==
    /\ evidence = [s \in Subjects |-> [there |-> TRUE, episode |-> 1, link |-> 1, activity |-> 1]]
    /\ unnamed = FALSE /\ held = NoArtifact /\ stored = {} /\ file = NoFile
    /\ decisions = {} /\ published = {} /\ command = NoCommand
    /\ steps = 0 /\ commands = 0

-----------------------------------------------------------------------------
(* The employees                                                           *)

Step == steps < MaxSteps /\ steps' = steps + 1

\* A correction of the activity, without a word in the episode.
Correct(s) ==
    /\ Step /\ evidence[s].activity > 0
    /\ evidence' = [evidence EXCEPT ![s].activity = @ + 1]
    /\ UNCHANGED <<unnamed, held, stored, file, decisions, published, command, commands>>

\* The episode goes on, about the activity as it is or as it was linked.
Speak(s, relinks) ==
    /\ Step /\ evidence[s].episode > 0
    /\ evidence' = [evidence EXCEPT ![s].episode = @ + 1, ![s].link = IF relinks THEN evidence[s].activity ELSE @]
    /\ UNCHANGED <<unnamed, held, stored, file, decisions, published, command, commands>>

\* Reports of work the directory has no routine for.
Mislabel ==
    /\ Step /\ ~unnamed /\ unnamed' = TRUE
    /\ UNCHANGED <<evidence, held, stored, file, decisions, published, command, commands>>

-----------------------------------------------------------------------------
(* Commands                                                                *)

Now == [s \in Subjects |-> [episode |-> evidence[s].episode, link |-> evidence[s].link,
                            activity |-> evidence[s].activity]]

EpisodesNow == [s \in Subjects |-> [Now[s] EXCEPT !.activity = 0]]

\* A command on recommendations reads the episodes first, one on the report the activities of
\* its figures (loadGroupSnapshot).
Start(kind) ==
    /\ command.kind = "none" /\ commands < MaxCommands
    /\ kind \in {"check", "save"} => held # NoArtifact
    /\ commands' = commands + 1
    /\ command' = IF kind \in ReportKinds
         THEN [NoCommand EXCEPT !.kind = kind, !.phase = "latest", !.unnamed = unnamed,
                  !.client.figures = [s \in Subjects |-> evidence[s].activity],
                  !.start = IF kind = "publish" THEN Now ELSE @]
         ELSE [NoCommand EXCEPT !.kind = kind, !.phase = "activities", !.seen = EpisodesNow]
    /\ UNCHANGED <<evidence, unnamed, held, stored, file, decisions, published, steps>>

\* supported: the episode has the revision that was cited, and its activity the one it refers to.
Supported(a, s, seen) ==
    /\ seen[s].episode = a.refs[s] /\ a.refs[s] # 0
    /\ seen[s].activity # 0 /\ seen[s].activity = seen[s].link

\* Every episode the artifact was made from is as it was.
Current(a, seen) == \A s \in Subjects : a.refs[s] # 0 => seen[s].episode = a.refs[s]

\* read: a review does not outlive its evidence.
AsRead(a, seen) ==
    [a EXCEPT !.candidates = [s \in Subjects |->
        IF @[s] = "checked" /\ ~(Current(a, seen) /\ Supported(a, s, seen)) THEN "stale" ELSE @[s]]]

\* currentCheckedRecommendations, and a routine of several contributors to name it.
Publishable(a, s, seen, figures) ==
    /\ a.candidates[s] = "checked" /\ Current(a, seen) /\ Supported(a, s, seen)
    /\ figures[s] # 0 /\ Cardinality({t \in Subjects : figures[t] # 0}) >= SignalSubjects

\* readLatest
Latest == IF stored = {} THEN NoArtifact
          ELSE AsRead(CHOOSE a \in stored : \A b \in stored : a.version >= b.version, Now)

ReadLatest ==
    /\ command.phase = "latest"
    /\ command' = [command EXCEPT !.client.latest = Latest,
                       !.phase = IF Latest = NoArtifact THEN "activities" ELSE "episodes"]
    /\ UNCHANGED <<evidence, unnamed, held, stored, file, decisions, published, steps, commands>>

\* RecommendationResearchRead.read: the episodes
ReadEpisodes ==
    /\ command.phase = "episodes"
    /\ command' = [command EXCEPT !.phase = "activities", !.seen = EpisodesNow]
    /\ UNCHANGED <<evidence, unnamed, held, stored, file, decisions, published, steps, commands>>

\* Its second query is the activities; with it a command has what it needs.
Finishes(kind) == command.kind = kind /\ command.phase = "activities" /\ command' = NoCommand
Seeing == [s \in Subjects |-> IF evidence[s].there
              THEN [command.seen[s] EXCEPT !.activity = evidence[s].activity] ELSE Unread[s]]
Contributors == {s \in Subjects : Seeing[s].episode # 0 \/ Seeing[s].activity # 0}

\* build and recompute; the model proposes what it likes, complete or not.
Build ==
    /\ Finishes("build")
    /\ \E complete \in SUBSET Subjects :
          LET draft == [NoArtifact EXCEPT !.version = held.version + 1,
                            !.refs = [s \in Subjects |-> Seeing[s].episode],
                            !.contributors = Contributors]
          IN  held' = [draft EXCEPT !.candidates = [s \in Subjects |->
                  IF Seeing[s].episode = 0 THEN "none"
                  ELSE IF s \in complete /\ Supported(draft, s, Seeing) THEN "draft" ELSE "deep_dive"]]
    /\ UNCHANGED <<evidence, unnamed, stored, file, decisions, published, steps, commands>>

\* check: the operator accepts some, rejects or leaves the others (rejected); a new version.
Check ==
    /\ Finishes("check")
    /\ \E accepted \in SUBSET Subjects :
          held' = [held EXCEPT !.version = @ + 1, !.candidates = [s \in Subjects |->
              IF @[s] = "none" THEN "none"
              ELSE IF ~(Current(held, Seeing) /\ Supported(held, s, Seeing)) THEN "stale"
              ELSE IF @[s] = "deep_dive" THEN "deep_dive"
              ELSE IF s \in accepted THEN "checked" ELSE "rejected"]]
    /\ UNCHANGED <<evidence, unnamed, stored, file, decisions, published, steps, commands>>

\* Fault: what was checked is not looked at again.
SavesAsChecked == TRUE

\* save: refuses what has become stale.
Saves ==
    /\ Current(held, Seeing)
    /\ \A s \in Subjects : held.candidates[s] = "checked" => Supported(held, s, Seeing)

Save ==
    /\ Finishes("save")
    /\ stored' = IF Saves /\ \A a \in stored : a.version # held.version
                 THEN stored \cup {[held EXCEPT !.contributors = @ \cup Contributors]} ELSE stored
    /\ UNCHANGED <<evidence, unnamed, held, file, decisions, published, steps, commands>>

-----------------------------------------------------------------------------
(* The report                                                              *)

\* buildReport
Client_ == [command.client EXCEPT !.recommendations =
               {s \in Subjects : Publishable(command.client.latest, s, Seeing, command.client.figures)}]

\* buildPreflightFindings: what of it is of high severity; it is not in the client's report.
High == IF command.unnamed THEN {"unnamed"} ELSE {}

\* The findings and the model's own go to a file, with the digest of the report.
Preflight ==
    /\ Finishes("preflight")
    /\ \E llm \in SUBSET {"llm"} : file' = [client |-> Client_, findings |-> High \cup llm]
    /\ UNCHANGED <<evidence, unnamed, held, stored, decisions, published, steps, commands>>

\* resolvePreflightFinding: of the report as it is now.
IsKnown(f) == f \in High \cup (IF file.client = Client_ THEN file.findings ELSE {})

Resolve(f) ==
    /\ Finishes("resolve") /\ IsKnown(f)
    /\ decisions' = decisions \cup {[finding |-> f, client |-> Client_]}
    /\ UNCHANGED <<evidence, unnamed, held, stored, file, published, steps, commands>>

\* ClientReportFindingError
RefuseFinding(f) ==
    /\ Finishes("resolve") /\ ~IsKnown(f)
    /\ UNCHANGED <<evidence, unnamed, held, stored, file, decisions, published, steps, commands>>

\* The decision is about this very report.
Answered(f, client) == [finding |-> f, client |-> client] \in decisions

Unanswered(client, findings) == {f \in findings : ~Answered(f, client)}

\* publishClientReport: findings of another version, or unanswered ones, refuse it.
Publish ==
    LET findings == High \cup file.findings IN
    /\ Finishes("publish")
    /\ published' = IF file # NoFile /\ file.client = Client_
                       /\ Unanswered(Client_, findings) = {}
                    THEN published \cup {[client |-> Client_, findings |-> findings,
                                          start |-> command.start]}
                    ELSE published
    /\ UNCHANGED <<evidence, unnamed, held, stored, file, decisions, steps, commands>>

\* deleteEmployeeData, as far as it is seen here: first what was made of it, then the person.
Delete(s) ==
    /\ Step /\ command.kind = "none" /\ evidence[s].there
    /\ stored' = {a \in stored : s \notin a.contributors}
    /\ evidence' = [evidence EXCEPT ![s] = Deleted]
    /\ UNCHANGED <<unnamed, held, file, decisions, published, command, commands>>

Next ==
    \/ \E s \in Subjects : Correct(s) \/ Delete(s)
    \/ \E s \in Subjects, relinks \in BOOLEAN : Speak(s, relinks)
    \/ Mislabel
    \/ \E kind \in Kinds \ {"none"} : Start(kind)
    \/ ReadLatest \/ ReadEpisodes
    \/ Build \/ Check \/ Save \/ Preflight \/ Publish
    \/ \E f \in Findings : Resolve(f) \/ RefuseFinding(f)

Spec == Init /\ [][Next]_reportVars

-----------------------------------------------------------------------------

TypeOK ==
    /\ evidence \in [Subjects -> Evidence]
    /\ held \in Artifact /\ \A a \in stored : a \in Artifact
    /\ file \in [client : Client, findings : SUBSET Findings]
    /\ \A d \in decisions : d \in [finding : Findings, client : Client]
    /\ \A p \in published : p \in [client : Client, findings : SUBSET Findings, start : Seen]
    /\ command.kind \in Kinds /\ command.phase \in Phases
    /\ command.seen \in Seen /\ command.client \in Client

\* A published recommendation rests on nothing older than the command: neither the episode nor
\* the activity it refers to had changed, and the person was still there, when the command began.
RestsOnEvidence(p) ==
    \A s \in p.client.recommendations :
        LET cited == p.client.latest.refs[s] IN
        /\ p.client.latest.candidates[s] = "checked"
        /\ cited = p.start[s].episode => p.start[s].link = p.start[s].activity
        /\ cited >= p.start[s].episode /\ p.start[s].episode # 0

\* Each finding of high severity was answered for the very report that went out.
IsAnswered(p) == \A f \in p.findings : [finding |-> f, client |-> p.client] \in decisions

\* A recommendation that is saved as checked is about one state of the evidence: a later word or
\* correction is seen when it is read, and a deleted person's is gone.
NothingOfTheDeleted ==
    \A a \in stored : \A s \in Subjects : a.candidates[s] = "checked" => evidence[s].there

\* What is published was reviewed, on evidence that stood.
PublishedIsReviewed ==
    /\ \A p \in published : RestsOnEvidence(p) /\ IsAnswered(p)
    /\ NothingOfTheDeleted

=============================================================================
