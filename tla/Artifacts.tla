------------------------------- MODULE Artifacts -------------------------------
(***************************************************************************)
(* Files and the references to them.  The bytes of an owner are in the     *)
(* bucket under their digest; the database indexes them, and each delivery *)
(* of them is one row.  A save looks, uploads and indexes in that order    *)
(* under a lock of its process; the server saves for employees, the        *)
(* operator's command saves recommendations, and purges them.              *)
(*                                                                         *)
(* torn is a ghost: bytes a purge removed while the index still has them.  *)
(***************************************************************************)
EXTENDS Naturals, FiniteSets, FiniteSetsExt

CONSTANTS
    Deliveries,   \* records of an owner, a key and a body: one key brings one body
    Research,     \* the owner of the recommendations, of whom the operator saves
    Personal,     \* bodies that depend on the person whose data are purged
    Size(_),      \* bytes of a body
    OwnerQuota, GlobalQuota,
    Saves,        \* saves served at one time
    MaxErrors     \* bound: statements that fail, crashes

\* Finitely many files, whose bytes are counted, as errors are.
Sensible ==
    /\ MaxErrors \in Nat /\ OwnerQuota \in Nat /\ GlobalQuota \in Nat
    /\ IsFiniteSet(Deliveries) /\ Deliveries # {} /\ \A d \in Deliveries : Size(d.body) \in Nat

VARIABLES
    bytes,        \* the bucket
    contents,     \* minutka_private.artifact_contents
    artifacts,    \* minutka_private.artifacts
    saves,
    purge,        \* the command that deletes what depends on the person
    torn,
    errors

artifactVars == <<bytes, contents, artifacts, saves, purge, torn, errors>>

-----------------------------------------------------------------------------

Owner(d) == d.owner
Content(d) == <<d.owner, d.body>>
AllContents == {Content(d) : d \in Deliveries}
BytesOf(cs) == MapThenSumSet(LAMBDA c : Size(c[2]), cs)
Owned(o, cs) == {c \in cs : c[1] = o}

NoDelivery == [owner |-> "none", key |-> "none", body |-> "none"]
Phases == {"idle", "waiting", "measuring", "uploading", "looking", "committing"}
Idle == [phase |-> "idle", delivery |-> NoDelivery, existed |-> FALSE]
PurgePhases == {"idle", "next", "rows", "index", "ended"}
NoPurge == [phase |-> "idle", todo |-> {}, at |-> NoDelivery]

Init ==
    /\ bytes = {} /\ contents = {} /\ torn = {}
    /\ artifacts = [d \in Deliveries |-> "none"]
    /\ saves = [s \in Saves |-> Idle]
    /\ purge = NoPurge
    /\ errors = 0

Delivery(s) == saves[s].delivery
Is(s, phase) == saves[s].phase = phase
Goes(s, phase) == saves' = [saves EXCEPT ![s].phase = phase]
Ends(s) == saves' = [saves EXCEPT ![s] = Idle]
Err == errors < MaxErrors /\ errors' = errors + 1

\* capacitySnapshot, evaluateArtifactCapacity
Fits(d, n) ==
    LET more == IF artifacts[d] # "none" THEN 0 ELSE n IN
    more > 0 => /\ BytesOf(Owned(Owner(d), contents)) + more <= OwnerQuota
                /\ BytesOf(contents) + more <= GlobalQuota

\* A body of known size that has no room may still be one that is there already.
MayFit(d) == Fits(d, Size(d.body)) \/ (Size(d.body) > 0 /\ Fits(d, 1))

-----------------------------------------------------------------------------
(* save                                                                    *)

\* The delivery is looked up, the size checked if it is known, the body staged and hashed; a
\* second delivery, no room, and a body too large, too slow or cut off end here.  The operator
\* does one thing at a time.
Start(s, d, sized) ==
    /\ Is(s, "idle")
    /\ Owner(d) = Research => purge.phase \in {"idle", "ended"}
    /\ artifacts[d] = "none" /\ (sized => MayFit(d))
    /\ saves' = [saves EXCEPT ![s] = [Idle EXCEPT !.phase = "waiting", !.delivery = d]]
    /\ purge' = IF Owner(d) = Research THEN NoPurge ELSE purge
    /\ UNCHANGED <<bytes, contents, artifacts, torn, errors>>

SameProcess(s, t) == (Owner(Delivery(s)) = Research) = (Owner(Delivery(t)) = Research)
Inside(s) == saves[s].phase \notin {"idle", "waiting"}

\* withCapacityLock
LockFree(s) == \A t \in Saves \ {s} : Inside(t) => ~SameProcess(s, t)

Stat(s) ==
    /\ Is(s, "waiting") /\ LockFree(s)
    /\ saves' = [saves EXCEPT ![s].phase = "measuring", ![s].existed = Content(Delivery(s)) \in bytes]
    /\ UNCHANGED <<bytes, contents, artifacts, purge, torn, errors>>

Measure(s) ==
    /\ Is(s, "measuring")
    /\ IF Fits(Delivery(s), IF saves[s].existed THEN 0 ELSE Size(Delivery(s).body))
       THEN Goes(s, IF saves[s].existed THEN "looking" ELSE "uploading")
       ELSE Ends(s)
    /\ UNCHANGED <<bytes, contents, artifacts, purge, torn, errors>>

\* contentStore.put, If-None-Match
Upload(s) ==
    /\ Is(s, "uploading")
    /\ bytes' = bytes \cup {Content(Delivery(s))}
    /\ Goes(s, "looking")
    /\ UNCHANGED <<contents, artifacts, purge, torn, errors>>

\* Fault: a failed upload is taken for one that was there.
UploadForgiven(s) == Goes(s, "looking")

\* catch, finally
UploadGivenUp(s) == Ends(s)

\* The upload fails, is aborted or times out, the bytes stored or not.
UploadFails(s) ==
    /\ Is(s, "uploading") /\ Err
    /\ bytes' \in {bytes, bytes \cup {Content(Delivery(s))}}
    /\ UploadGivenUp(s)
    /\ UNCHANGED <<contents, artifacts, purge, torn>>

\* persistReference: what its transaction reads.
Look(s) ==
    LET d == Delivery(s) IN
    /\ Is(s, "looking")
    /\ IF artifacts[d] = "none" /\ Fits(d, IF Content(d) \in contents THEN 0 ELSE Size(d.body))
       THEN Goes(s, "committing") ELSE Ends(s)
    /\ UNCHANGED <<bytes, contents, artifacts, purge, torn, errors>>

\* Both inserts are ON CONFLICT DO NOTHING.
Indexed(d) ==
    /\ contents' = contents \cup {Content(d)}
    /\ artifacts' = [artifacts EXCEPT ![d] = IF @ = "none" THEN "active" ELSE @]

Commit(s) ==
    /\ Is(s, "committing")
    /\ Indexed(Delivery(s)) /\ Ends(s)
    /\ UNCHANGED <<bytes, purge, torn, errors>>

\* A statement fails, or the connection is lost at COMMIT.
CommitFails(s) ==
    /\ saves[s].phase \in {"looking", "committing"} /\ Err
    /\ \/ UNCHANGED <<contents, artifacts>>
       \/ Is(s, "committing") /\ Indexed(Delivery(s))
    /\ Ends(s)
    /\ UNCHANGED <<bytes, purge, torn>>

\* The process of a save dies.
Crash(s) ==
    /\ Inside(s) /\ Err
    /\ saves' = [t \in Saves |-> IF SameProcess(s, t) THEN Idle ELSE saves[t]]
    /\ UNCHANGED <<bytes, contents, artifacts, purge, torn>>

\* The row is marked; bytes and index stay, and keep their room.
Delete(d) ==
    /\ artifacts[d] = "active"
    /\ artifacts' = [artifacts EXCEPT ![d] = "deleted"]
    /\ UNCHANGED <<bytes, contents, saves, purge, torn, errors>>

-----------------------------------------------------------------------------
(* createPostgresRetrospectiveLifecycle.purge                              *)

Rows == {d \in Deliveries : Owner(d) = Research /\ artifacts[d] # "none"}

\* Fault: a reference that cannot be read is passed over.
DependsIfRead(d) == Content(d) \in bytes /\ d.body \in Personal

\* enumerate: a reference whose bytes an interrupted purge removed is listed as well.
Depends(d) == Content(d) \notin bytes \/ d.body \in Personal

PurgeStart ==
    /\ purge.phase \in {"idle", "ended"}
    /\ \A s \in Saves : ~Is(s, "idle") => Owner(Delivery(s)) # Research
    /\ purge' = [NoPurge EXCEPT !.phase = "next", !.todo = {d \in Rows : Depends(d)}]
    /\ UNCHANGED <<bytes, contents, artifacts, saves, torn, errors>>

PurgeBytes(d) ==
    /\ purge.phase = "next" /\ d \in purge.todo
    /\ bytes' = bytes \ {Content(d)}
    /\ torn' = torn \cup {Content(d)}
    /\ purge' = [phase |-> "rows", todo |-> purge.todo \ {d}, at |-> d]
    /\ UNCHANGED <<contents, artifacts, saves, errors>>

PurgeRows ==
    /\ purge.phase = "rows"
    /\ artifacts' = [d \in Deliveries |-> IF Content(d) = Content(purge.at) THEN "none" ELSE artifacts[d]]
    /\ purge' = [purge EXCEPT !.phase = "index"]
    /\ UNCHANGED <<bytes, contents, saves, torn, errors>>

PurgeIndex ==
    /\ purge.phase = "index"
    /\ contents' = contents \ {Content(purge.at)}
    /\ torn' = torn \ {Content(purge.at)}
    /\ purge' = [purge EXCEPT !.phase = "next", !.at = NoDelivery]
    /\ UNCHANGED <<bytes, artifacts, saves, errors>>

PurgeEnds ==
    /\ purge.phase = "next" /\ purge.todo = {}
    /\ purge' = [NoPurge EXCEPT !.phase = "ended"]
    /\ UNCHANGED <<bytes, contents, artifacts, saves, torn, errors>>

\* A request fails or the command is stopped; it is run again.
PurgeFails ==
    /\ purge.phase \in {"next", "rows", "index"} /\ Err
    /\ purge' = NoPurge
    /\ UNCHANGED <<bytes, contents, artifacts, saves, torn>>

Next ==
    \/ \E s \in Saves :
          \/ \E d \in Deliveries, sized \in BOOLEAN : Start(s, d, sized)
          \/ Stat(s) \/ Measure(s) \/ Upload(s) \/ UploadFails(s)
          \/ Look(s) \/ Commit(s) \/ CommitFails(s) \/ Crash(s)
    \/ \E d \in Deliveries : Delete(d) \/ PurgeBytes(d)
    \/ PurgeStart \/ PurgeRows \/ PurgeIndex \/ PurgeEnds \/ PurgeFails

Spec == Init /\ [][Next]_artifactVars

-----------------------------------------------------------------------------

TypeOK ==
    /\ bytes \subseteq AllContents /\ contents \subseteq AllContents /\ torn \subseteq AllContents
    /\ artifacts \in [Deliveries -> {"none", "active", "deleted"}]
    /\ saves \in [Saves -> [phase : Phases, delivery : Deliveries \cup {NoDelivery}, existed : BOOLEAN]]
    /\ purge \in [phase : PurgePhases, todo : SUBSET Deliveries, at : Deliveries \cup {NoDelivery}]
    /\ errors \in 0..MaxErrors

\* No owner exceeds the quota, nor do the employees theirs together.  With the recommendations,
\* which a process with a lock of its own saves, they exceed it by one body at most: the one that
\* either process was saving while the other filled the room.
WithinQuotas ==
    /\ \A c \in contents : BytesOf(Owned(c[1], contents)) <= OwnerQuota
    /\ BytesOf(contents \ Owned(Research, contents)) <= GlobalQuota
    /\ BytesOf(contents) <= GlobalQuota + Max({Size(d.body) : d \in Deliveries})

\* Who asks for a file that was saved gets it, whatever failed before: an indexed body is in the
\* bucket, but for one a purge is removing or was interrupted at.
FilesCanBeRead == contents \subseteq bytes \cup torn

\* A purge that reports success, also after an interrupted one, has left no reference to bytes
\* that depend on the person, and none without bytes.
PurgedIsGone ==
    purge.phase = "ended" =>
        \A d \in Rows : artifacts[d] # "none" => d.body \notin Personal /\ Content(d) \in bytes

\* What is saved is there, stays within the quotas and goes when it is purged.
ArtifactsAreSound == WithinQuotas /\ FilesCanBeRead /\ PurgedIsGone

=============================================================================
