---------------------------- MODULE DocumentStores ----------------------------
(***************************************************************************)
(* The two stores of context documents: the maps in memory that the        *)
(* executable specs run on, and the versioned bucket, where a removal is a *)
(* marker and the current version of an object is its latest.  Every call  *)
(* goes to both, one call after the other; concurrent writers are the      *)
(* subject of ContextDocuments.  A document under context/ has an alias    *)
(* under the prefix of the first import.  Versions are the instants of the *)
(* writes, which are never the same; size and time of a version are its    *)
(* content and its number.                                                 *)
(***************************************************************************)
EXTENDS Integers, FiniteSets

CONSTANTS
    Owners, Documents, Contents,    \* numbers, none of them 0
    Aliased,                        \* the documents under context/
    Limits,                         \* limits of a history
    MaxClock                        \* bound of the versions

VARIABLES
    memory,     \* [documents, versions] by owner, document and place
    table,      \* the bucket: for each key the versions and the delete markers
    clock       \* the last version

documentVars == <<memory, table, clock>>

Null == 0
Places == {"canonical", "legacy"}
Keys == Owners \X Documents \X Places

Sensible ==
    /\ Owners \cup Documents \cup Contents \subseteq Nat \ {0}
    /\ Aliased \subseteq Documents /\ Limits \subseteq Nat \ {0} /\ MaxClock \in Nat

Document == [version : Nat \ {0}, content : Contents]
NoDocument == [version |-> Null, content |-> Null]
Object == [version : Nat \ {0}, content : Contents \cup {Null}]
Marker(version) == [version |-> version, content |-> Null]

New(content) == [version |-> clock + 1, content |-> content]
Answer(outcome, document) == [outcome |-> outcome, document |-> document]

\* Imports that are older than the canonical paths
Init ==
    /\ \E imported \in [Owners \X Aliased -> Contents \cup {Null}] :
          LET Was(k) == k[3] = "legacy" /\ k[2] \in Aliased /\ imported[<<k[1], k[2]>>] # Null
              Import(k) == [version |-> 1, content |-> imported[<<k[1], k[2]>>]]
          IN  /\ memory = [documents |-> [k \in Keys |-> IF Was(k) THEN Import(k) ELSE NoDocument],
                           versions |-> [k \in Keys |-> IF Was(k) THEN {Import(k)} ELSE {}]]
              /\ table = [k \in Keys |-> IF Was(k) THEN {Import(k)} ELSE {}]
    /\ clock = 1

\* legacyDocumentPath of what is not under context/ is null.
Storages(u, d) == {<<u, d, "canonical">>} \cup IF d \in Aliased THEN {<<u, d, "legacy">>} ELSE {}

-----------------------------------------------------------------------------
(* In memory                                                               *)

ReadExact(u, d, place) == memory.documents[<<u, d, place>>]

\* currentLogical, get and head: the canonical document before its alias.
CurrentLogical(u, d) ==
    IF ReadExact(u, d, "canonical") # NoDocument THEN ReadExact(u, d, "canonical")
    ELSE IF d \in Aliased THEN ReadExact(u, d, "legacy") ELSE NoDocument

\* get of the version that a list or a head has shown
MemoryPinned(u, d, place, version) ==
    IF ReadExact(u, d, place).version = version THEN ReadExact(u, d, place) ELSE NoDocument

MemoryPutIfAbsent(u, d, content) ==
    IF CurrentLogical(u, d) # NoDocument THEN Answer("there", CurrentLogical(u, d))
    ELSE Answer("written", New(content))

MemoryPutIfVersion(u, d, expected, content) ==
    LET current == CurrentLogical(u, d)
    IN  IF current = NoDocument THEN Answer("not_found", NoDocument)
        ELSE IF current.version # expected THEN Answer("conflict", current)
        ELSE Answer("updated", New(content))

MemoryMove(u, d, to, expected) ==
    LET source == CurrentLogical(u, d)
        destination == CurrentLogical(u, to)
    IN  IF source = NoDocument THEN Answer("not_found", NoDocument)
        ELSE IF source.version # expected THEN Answer("conflict", source)
        ELSE IF destination # NoDocument THEN Answer("destination_conflict", destination)
        ELSE Answer("moved", New(source.content))

MemoryDeleteIf(u, d, expected) ==
    LET current == CurrentLogical(u, d)
    IN  IF current = NoDocument THEN Answer("not_found", NoDocument)
        ELSE IF current.version # expected THEN Answer("conflict", current)
        ELSE Answer("deleted", current)

\* The canonical history is searched before that of the alias.
MemoryRestore(u, d, version) ==
    LET Historical(place) == {v \in memory.versions[<<u, d, place>>] : v.version = version}
        found == IF Historical("canonical") # {} \/ d \notin Aliased THEN Historical("canonical")
                 ELSE Historical("legacy")
    IN  IF found = {} THEN NoDocument ELSE New((CHOOSE v \in found : TRUE).content)

\* The latest versions of a history
Newest(history, limit) ==
    {v \in history : Cardinality({w \in history : w.version > v.version}) < limit}

\* The alias has a history to show only where the canonical path has none.
MemoryVersions(u, d, limit) ==
    LET history == memory.versions[<<u, d, "canonical">>]
    IN  IF history # {} THEN Newest(history, limit)
        ELSE IF d \in Aliased THEN Newest(memory.versions[<<u, d, "legacy">>], limit) ELSE {}

\* list, listMetadata and iterate, of the documents within a prefix
MemoryList(u, within) ==
    LET entries == {k \in Keys : k[1] = u /\ k[2] \in within /\ memory.documents[k] # NoDocument}
        Selected(k) == k[3] = "canonical" \/ memory.documents[<<u, k[2], "canonical">>] = NoDocument
    IN  {<<k[2], memory.documents[k]>> : k \in {e \in entries : Selected(e)}}

MemoryListExact(u, within, place) ==
    {<<k, memory.documents[k]>> : k \in {e \in Keys : /\ e[1] = u /\ e[2] \in within /\ e[3] = place
                                                      /\ memory.documents[e] # NoDocument}}

SaveVersion(documents, u, d, document) ==
    [documents |-> [documents EXCEPT ![<<u, d, "canonical">>] = document],
     versions |-> [memory.versions EXCEPT ![<<u, d, "canonical">>] = @ \cup {document}]]

Forgotten(u, d) == [k \in Keys |-> IF k \in Storages(u, d) THEN NoDocument ELSE memory.documents[k]]

-----------------------------------------------------------------------------
(* The bucket                                                              *)

\* statObject and getObject: the latest version, unless it is a delete marker.
Stat(k) ==
    IF table[k] = {} THEN NoDocument
    ELSE LET latest == CHOOSE o \in table[k] : \A other \in table[k] : other.version <= o.version
         IN  IF latest.content = Null THEN NoDocument ELSE latest

GetExact(u, d, place) == Stat(<<u, d, place>>)

ReadLogical(u, d) ==
    IF GetExact(u, d, "canonical") # NoDocument THEN GetExact(u, d, "canonical")
    ELSE IF d \in Aliased THEN GetExact(u, d, "legacy") ELSE NoDocument

\* getObject with a versionId
Version(k, version) == {o \in table[k] : o.version = version /\ o.content # Null}

BucketPinned(u, d, place, version) ==
    LET found == Version(<<u, d, place>>, version)
    IN  IF found = {} THEN NoDocument ELSE CHOOSE o \in found : TRUE

BucketPutIfAbsent(u, d, content) ==
    IF ReadLogical(u, d) # NoDocument THEN Answer("there", ReadLogical(u, d))
    ELSE Answer("written", New(content))

BucketPutIfVersion(u, d, expected, content) ==
    LET current == ReadLogical(u, d)
    IN  IF current = NoDocument THEN Answer("not_found", NoDocument)
        ELSE IF current.version # expected THEN Answer("conflict", current)
        ELSE Answer("updated", New(content))

BucketMove(u, d, to, expected) ==
    LET source == ReadLogical(u, d)
        destination == ReadLogical(u, to)
    IN  IF source = NoDocument THEN Answer("not_found", NoDocument)
        ELSE IF source.version # expected THEN Answer("conflict", source)
        ELSE IF destination # NoDocument THEN Answer("destination_conflict", destination)
        ELSE Answer("moved", New(source.content))

BucketDeleteIf(u, d, expected) ==
    LET current == ReadLogical(u, d)
    IN  IF current = NoDocument THEN Answer("not_found", NoDocument)
        ELSE IF current.version # expected THEN Answer("conflict", current)
        ELSE Answer("deleted", current)

BucketRestore(u, d, version) ==
    LET canonical == BucketPinned(u, d, "canonical", version)
        legacy == IF d \in Aliased THEN BucketPinned(u, d, "legacy", version) ELSE NoDocument
    IN  IF canonical # NoDocument THEN New(canonical.content)
        ELSE IF legacy # NoDocument THEN New(legacy.content) ELSE NoDocument

\* A delete marker is not a version.
Historical(k) == {o \in table[k] : o.content # Null}

BucketVersions(u, d, limit) ==
    LET canonical == Newest(Historical(<<u, d, "canonical">>), limit)
    IN  IF canonical # {} THEN canonical
        ELSE IF d \in Aliased THEN Newest(Historical(<<u, d, "legacy">>), limit) ELSE {}

\* logicalObjects: what the prefix lists and what the prefix of its alias does
BucketList(u, within) ==
    LET Listed(place) == {k \in Keys : k[1] = u /\ k[2] \in within /\ k[3] = place /\ Stat(k) # NoDocument}
        objects == Listed("canonical") \cup Listed("legacy")
        Selected(k) == k[3] = "canonical" \/ <<u, k[2], "canonical">> \notin objects
    IN  {<<k[2], Stat(k)>> : k \in {o \in objects : Selected(o)}}

BucketListExact(u, within, place) ==
    {<<k, Stat(k)>> : k \in {o \in {u} \X within \X {place} : Stat(o) # NoDocument}}

WriteCanonical(bucket, u, d, document) == [bucket EXCEPT ![<<u, d, "canonical">>] = @ \cup {document}]

RemoveObjects(u, d) ==
    [k \in Keys |-> IF k \in Storages(u, d) THEN table[k] \cup {Marker(clock + 1)} ELSE table[k]]

-----------------------------------------------------------------------------
(* The calls                                                               *)

Advance == clock < MaxClock /\ clock' = clock + 1

Put(u, d, content) ==
    /\ memory' = SaveVersion(memory.documents, u, d, New(content))
    /\ table' = WriteCanonical(table, u, d, New(content))
    /\ Advance

PutIfAbsent(u, d, content) ==
    /\ memory' = IF MemoryPutIfAbsent(u, d, content).outcome # "written" THEN memory
                 ELSE SaveVersion(memory.documents, u, d, New(content))
    /\ table' = IF BucketPutIfAbsent(u, d, content).outcome # "written" THEN table
                ELSE WriteCanonical(table, u, d, New(content))
    /\ Advance

PutIfVersion(u, d, expected, content) ==
    /\ memory' = IF MemoryPutIfVersion(u, d, expected, content).outcome # "updated" THEN memory
                 ELSE SaveVersion(memory.documents, u, d, New(content))
    /\ table' = IF BucketPutIfVersion(u, d, expected, content).outcome # "updated" THEN table
                ELSE WriteCanonical(table, u, d, New(content))
    /\ Advance

MoveIfVersion(u, d, to, expected) ==
    LET inMemory == MemoryMove(u, d, to, expected)
        inBucket == BucketMove(u, d, to, expected)
    IN  /\ memory' = IF inMemory.outcome # "moved" THEN memory
                     ELSE SaveVersion(Forgotten(u, d), u, to, inMemory.document)
        /\ table' = IF inBucket.outcome # "moved" THEN table
                    ELSE WriteCanonical(RemoveObjects(u, d), u, to, inBucket.document)
        /\ Advance

DeleteIfVersion(u, d, expected) ==
    /\ memory' = IF MemoryDeleteIf(u, d, expected).outcome # "deleted" THEN memory
                 ELSE [memory EXCEPT !.documents = Forgotten(u, d)]
    /\ table' = IF BucketDeleteIf(u, d, expected).outcome # "deleted" THEN table
                ELSE RemoveObjects(u, d)
    /\ Advance

RestoreVersion(u, d, version) ==
    /\ memory' = IF MemoryRestore(u, d, version) = NoDocument THEN memory
                 ELSE SaveVersion(memory.documents, u, d, MemoryRestore(u, d, version))
    /\ table' = IF BucketRestore(u, d, version) = NoDocument THEN table
                ELSE WriteCanonical(table, u, d, BucketRestore(u, d, version))
    /\ Advance

Delete(u, d) ==
    /\ memory' = [memory EXCEPT !.documents = Forgotten(u, d)]
    /\ table' = RemoveObjects(u, d)
    /\ Advance

Next ==
    \E u \in Owners, d \in Documents :
       \/ \E content \in Contents : Put(u, d, content) \/ PutIfAbsent(u, d, content)
       \/ \E version \in 1 .. clock :
             \/ \E content \in Contents : PutIfVersion(u, d, version, content)
             \/ \E to \in Documents : MoveIfVersion(u, d, to, version)
             \/ DeleteIfVersion(u, d, version) \/ RestoreVersion(u, d, version)
       \/ Delete(u, d)

Spec == Init /\ [][Next]_documentVars

-----------------------------------------------------------------------------

TypeOK ==
    /\ memory \in [documents : [Keys -> Document \cup {NoDocument}],
                   versions : [Keys -> SUBSET Document]]
    /\ table \in [Keys -> SUBSET Object]
    /\ clock \in Nat \ {0}

\* After any calls every further call is answered alike by the maps and by the bucket, but for the
\* reading of a version that is no longer the current one, which the bucket still knows.
Agree ==
    \A u \in Owners :
       /\ \A d \in Documents, place \in Places :
             /\ ReadExact(u, d, place) = GetExact(u, d, place)
             /\ \A version \in 1 .. clock :
                   MemoryPinned(u, d, place, version) \in {NoDocument, BucketPinned(u, d, place, version)}
       /\ \A d \in Documents :
             /\ CurrentLogical(u, d) = ReadLogical(u, d)
             /\ \A limit \in Limits : MemoryVersions(u, d, limit) = BucketVersions(u, d, limit)
             /\ \A content \in Contents :
                   /\ MemoryPutIfAbsent(u, d, content) = BucketPutIfAbsent(u, d, content)
                   /\ \A version \in 1 .. clock :
                         MemoryPutIfVersion(u, d, version, content) = BucketPutIfVersion(u, d, version, content)
             /\ \A version \in 1 .. clock :
                   /\ \A to \in Documents : MemoryMove(u, d, to, version) = BucketMove(u, d, to, version)
                   /\ MemoryDeleteIf(u, d, version) = BucketDeleteIf(u, d, version)
                   /\ MemoryRestore(u, d, version) = BucketRestore(u, d, version)
       /\ \A within \in SUBSET Documents :
             /\ MemoryList(u, within) = BucketList(u, within)
             /\ \A place \in Places : MemoryListExact(u, within, place) = BucketListExact(u, within, place)

=============================================================================
