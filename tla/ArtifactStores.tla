---------------------------- MODULE ArtifactStores ----------------------------
(***************************************************************************)
(* The two stores of files: the maps in memory over a content store that   *)
(* is a map as well, and minutka_private.artifacts with artifact_contents  *)
(* over the bucket.  Every call goes to both, one call after the other and *)
(* none of them fails; saves that race, fail or meet a purge are the       *)
(* subject of Artifacts.  A content stands for its digest and its size.    *)
(***************************************************************************)
EXTENDS Integers, FiniteSets, FiniteSetsExt

CONSTANTS
    Owners, Deliveries,         \* numbers, none of them 0
    Contents,                   \* the sizes of the contents there are
    SoftQuota, OwnerQuota, GlobalQuota,
    Limits,                     \* limits of a list, or 0
    MaxClock                    \* bound

VARIABLES
    memory,     \* [references, deliveries, contents, objects]
    table,      \* [artifacts, contents, objects]: the rows, the index and the bucket
    clock       \* the ids that were given; a file is saved at the instant of its id

artifactVars == <<memory, table, clock>>

Null == 0
Ids == 1 .. MaxClock

Sensible ==
    /\ Owners \cup Deliveries \subseteq Nat \ {0} /\ Contents \cup Limits \subseteq Nat
    /\ {SoftQuota, OwnerQuota, GlobalQuota, MaxClock} \subseteq Nat

Reference == [owner : Owners, id : Ids, delivery : Deliveries, content : Contents,
              status : {"active", "deleted"}, deleted : Nat]
NoReference == [owner |-> Null, id |-> Null, delivery |-> Null, content |-> 0,
                status |-> "absent", deleted |-> 0]

\* The id is a new one.
New(u, delivery, content) ==
    [owner |-> u, id |-> clock + 1, delivery |-> delivery, content |-> content,
     status |-> "active", deleted |-> 0]

Init ==
    /\ memory = [references |-> [k \in Owners \X Ids |-> NoReference],
                 deliveries |-> [k \in Owners \X Deliveries |-> Null],
                 contents |-> [k \in Owners \X Contents |-> FALSE],
                 objects |-> {}]
    /\ table = [artifacts |-> {}, contents |-> {}, objects |-> {}]
    /\ clock = 0

\* The bytes of a set of contents of owners
Bytes(keys) == MapThenSumSet(LAMBDA k : k[2], keys)

\* evaluateArtifactCapacity
Capacity(ownerUsage, globalUsage, size, duplicate) ==
    LET more == IF duplicate THEN 0 ELSE size
        Room(quota, usage) == quota - (IF usage < quota THEN usage ELSE quota)
    IN  [outcome |-> IF more > Room(OwnerQuota, ownerUsage) THEN "owner_quota"
                     ELSE IF more > Room(GlobalQuota, globalUsage) THEN "global_capacity" ELSE "fits",
         warning |-> more > 0 /\ ownerUsage + more > SoftQuota, duplicate |-> duplicate]

Saved(outcome, reference, stored, warning) ==
    [outcome |-> outcome, reference |-> reference, stored |-> stored, warning |-> warning]

-----------------------------------------------------------------------------
(* In memory                                                               *)

MemoryUsage(owners) == Bytes({k \in owners \X Contents : memory.contents[k]})

MemoryCheckCapacity(u, delivery, size) ==
    Capacity(MemoryUsage({u}), MemoryUsage(Owners), size, memory.deliveries[<<u, delivery>>] # Null)

\* The quotas are checked before the body is read, if its size is known, and after it is staged; a
\* body with no room may be there already, which only a quota without any room excludes.
MemorySave(u, delivery, content, sized) ==
    LET duplicate == memory.deliveries[<<u, delivery>>]
        Fits(size) == Capacity(MemoryUsage({u}), MemoryUsage(Owners), size, FALSE)
        existing == <<u, content>> \in memory.objects
        capacity == Fits(IF existing THEN 0 ELSE content)
    IN  IF duplicate # Null
        THEN Saved("duplicate", memory.references[<<u, duplicate>>], FALSE, FALSE)
        ELSE IF sized /\ Fits(content).outcome # "fits" /\ Fits(1).outcome # "fits"
        THEN Saved(Fits(1).outcome, NoReference, FALSE, FALSE)
        ELSE IF sized /\ Fits(content).outcome # "fits" /\ content = 0
        THEN Saved(Fits(content).outcome, NoReference, FALSE, FALSE)
        ELSE IF capacity.outcome # "fits" THEN Saved(capacity.outcome, NoReference, FALSE, FALSE)
        ELSE Saved("created", New(u, delivery, content), ~existing, capacity.warning)

MemoryGet(u, id) == memory.references[<<u, id>>]

\* The oldest ones of a status: each with the number of those before.
MemoryList(u, status, limit) ==
    LET own == {r \in {memory.references[k] : k \in Owners \X Ids} : r.owner = u /\ r.status = status}
        Place(r) == Cardinality({s \in own : s.id < r.id})
    IN  {<<Place(r), r>> : r \in {s \in own : limit = 0 \/ Place(s) < limit}}

MemoryDelete(u, id) ==
    LET reference == MemoryGet(u, id)
    IN  IF reference = NoReference THEN NoReference
        ELSE IF reference.status = "active" THEN [reference EXCEPT !.status = "deleted", !.deleted = clock]
        ELSE reference

\* stat of the content store, without which there is no presigned URL either
MemoryStat(u, content) == <<u, content>> \in memory.objects

-----------------------------------------------------------------------------
(* minutka_private.artifacts and artifact_contents, the bucket             *)

\* UNIQUE (user_id, delivery_key), and artifacts JOIN artifact_contents
FindByDelivery(u, delivery) ==
    LET found == {r \in table.artifacts : /\ r.owner = u /\ r.delivery = delivery
                                          /\ <<u, r.content>> \in table.contents}
    IN  IF found = {} THEN NoReference ELSE CHOOSE r \in found : TRUE

CapacitySnapshot(u, delivery, size) ==
    Capacity(Bytes({k \in table.contents : k[1] = u}), Bytes(table.contents), size,
             \E r \in table.artifacts : r.owner = u /\ r.delivery = delivery)

\* The transaction of persistReference: it looks at the index, not at the bucket.
PersistReference(u, delivery, content, existed) ==
    LET indexed == <<u, content>> \in table.contents
        capacity == CapacitySnapshot(u, delivery, IF indexed THEN 0 ELSE content)
    IN  IF capacity.outcome # "fits" THEN Saved(capacity.outcome, NoReference, FALSE, FALSE)
        ELSE Saved("created", New(u, delivery, content), ~existed /\ ~indexed, capacity.warning)

RowSave(u, delivery, content, sized) ==
    LET duplicate == FindByDelivery(u, delivery)
        Snapshot(size) == CapacitySnapshot(u, delivery, size)
        existing == <<u, content>> \in table.objects
        capacity == Snapshot(IF existing THEN 0 ELSE content)
        noRoom == sized /\ Snapshot(content).outcome # "fits"
    IN  IF duplicate # NoReference THEN Saved("duplicate", duplicate, FALSE, FALSE)
        ELSE IF noRoom /\ Snapshot(1).outcome # "fits"
        THEN Saved(Snapshot(1).outcome, NoReference, FALSE, FALSE)
        ELSE IF noRoom /\ content = 0 THEN Saved(Snapshot(content).outcome, NoReference, FALSE, FALSE)
        ELSE IF capacity.outcome # "fits" THEN Saved(capacity.outcome, NoReference, FALSE, FALSE)
        ELSE PersistReference(u, delivery, content, existing)

\* PRIMARY KEY (user_id, artifact_id)
RowGet(u, id) ==
    LET found == {r \in table.artifacts : r.owner = u /\ r.id = id /\ <<u, r.content>> \in table.contents}
    IN  IF found = {} THEN NoReference ELSE CHOOSE r \in found : TRUE

\* ORDER BY created_at, artifact_id
RowList(u, status, limit) ==
    LET own == {r \in table.artifacts : /\ r.owner = u /\ r.status = status
                                        /\ <<u, r.content>> \in table.contents}
        Place(r) == Cardinality({s \in own : s.id < r.id})
    IN  {<<Place(r), r>> : r \in {s \in own : limit = 0 \/ Place(s) < limit}}

RowDelete(u, id) ==
    LET existing == RowGet(u, id)
    IN  IF existing = NoReference \/ existing.status = "deleted" THEN existing
        ELSE [existing EXCEPT !.status = "deleted", !.deleted = clock]

BucketStat(u, content) == <<u, content>> \in table.objects

-----------------------------------------------------------------------------
(* The calls                                                               *)

Save(u, delivery, content, sized) ==
    LET reference == New(u, delivery, content)
        key == <<u, content>>
    IN  /\ clock < MaxClock /\ clock' = clock + 1
        /\ memory' = IF MemorySave(u, delivery, content, sized).outcome # "created" THEN memory
                     ELSE [references |-> [memory.references EXCEPT ![<<u, clock + 1>>] = reference],
                           deliveries |-> [memory.deliveries EXCEPT ![<<u, delivery>>] = clock + 1],
                           contents |-> IF key \in memory.objects THEN memory.contents
                                        ELSE [memory.contents EXCEPT ![key] = TRUE],
                           objects |-> memory.objects \cup {key}]
        /\ table' = IF RowSave(u, delivery, content, sized).outcome # "created" THEN table
                    ELSE [artifacts |-> table.artifacts \cup {reference},
                          contents |-> table.contents \cup {key},
                          objects |-> table.objects \cup {key}]

Delete(u, id) ==
    /\ memory' = IF MemoryGet(u, id).status # "active" THEN memory
                 ELSE [memory EXCEPT !.references = [memory.references EXCEPT ![<<u, id>>] = MemoryDelete(u, id)]]
    /\ table' = IF RowGet(u, id).status # "active" THEN table
                ELSE [table EXCEPT !.artifacts = (table.artifacts \ {RowGet(u, id)}) \cup {RowDelete(u, id)}]
    /\ UNCHANGED clock

Next ==
    \E u \in Owners :
       \/ \E delivery \in Deliveries, content \in Contents, sized \in BOOLEAN :
             Save(u, delivery, content, sized)
       \/ \E id \in Ids : Delete(u, id)

Spec == Init /\ [][Next]_artifactVars

-----------------------------------------------------------------------------

TypeOK ==
    /\ memory \in [references : [Owners \X Ids -> Reference \cup {NoReference}],
                   deliveries : [Owners \X Deliveries -> Ids \cup {Null}],
                   contents : [Owners \X Contents -> BOOLEAN],
                   objects : SUBSET (Owners \X Contents)]
    /\ table \in [artifacts : SUBSET Reference, contents : SUBSET (Owners \X Contents),
                  objects : SUBSET (Owners \X Contents)]
    /\ clock \in 0 .. MaxClock

\* checkCapacity of both
CheckCapacity(u, delivery, size) ==
    MemoryCheckCapacity(u, delivery, size) = CapacitySnapshot(u, delivery, size)

\* After any calls every further call is answered alike by the maps and by the tables.
Agree ==
    \A u \in Owners :
       /\ \A delivery \in Deliveries, content \in Contents :
             /\ CheckCapacity(u, delivery, content)
             /\ \A sized \in BOOLEAN :
                   MemorySave(u, delivery, content, sized) = RowSave(u, delivery, content, sized)
       /\ \A id \in Ids : MemoryGet(u, id) = RowGet(u, id) /\ MemoryDelete(u, id) = RowDelete(u, id)
       /\ \A status \in {"active", "deleted"}, limit \in Limits :
             MemoryList(u, status, limit) = RowList(u, status, limit)
       /\ \A content \in Contents : MemoryStat(u, content) = BucketStat(u, content)

=============================================================================
