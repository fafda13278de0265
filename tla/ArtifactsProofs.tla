---------------------------- MODULE ArtifactsProofs ----------------------------
(***************************************************************************)
(* For every set of deliveries, every number of saves and every size of    *)
(* the quotas: what the index names can be read, but for what a purge is   *)
(* removing, and a purge that ends has left nothing of the person.         *)
(*                                                                         *)
(* The argument follows the bytes of one save from the bucket to the       *)
(* index, and those of one reference from the list of the purge back.      *)
(* Saves and purges of recommendations are commands of one operator and    *)
(* exclude each other; files of employees are other contents.              *)
(***************************************************************************)
EXTENDS Artifacts, FiniteSetTheorems, FunctionTheorems, TLAPS

\* A save that found or stored the bytes has them in the bucket, until it ends.
BytesAreThere ==
    \A s \in Saves :
        \/ saves[s].phase \in {"looking", "committing"}
        \/ saves[s].phase = "measuring" /\ saves[s].existed
        => Content(saves[s].delivery) \in bytes

\* A save that is going on has a delivery, and none is of recommendations while they are purged
\* or since they were.
OperatorIsAlone ==
    \A s \in Saves : saves[s].phase # "idle" =>
        /\ saves[s].delivery \in Deliveries
        /\ purge.phase # "idle" => saves[s].delivery.owner # Research

\* A purge is about recommendations.
PurgeIsOwn ==
    /\ \A d \in purge.todo : d.owner = Research
    /\ purge.phase \in {"rows", "index"} => purge.at \in Deliveries /\ purge.at.owner = Research

\* What a purge has to remove is on its list, or goes with the bytes it has just removed.
PurgeIsComplete ==
    purge.phase \in {"next", "rows", "index", "ended"} =>
        \A d \in Rows : Depends(d) =>
            \/ d \in purge.todo /\ purge.phase # "ended"
            \/ purge.phase = "rows" /\ Content(d) = Content(purge.at)

Inv ==
    /\ TypeOK /\ FilesCanBeRead
    /\ BytesAreThere /\ OperatorIsAlone /\ PurgeIsOwn /\ PurgeIsComplete

-----------------------------------------------------------------------------

LEMMA Constants ==
    /\ Idle \in [phase : Phases, delivery : Deliveries \cup {NoDelivery}, existed : BOOLEAN]
    /\ Idle.phase = "idle" /\ Idle.existed = FALSE
    /\ NoPurge \in [phase : PurgePhases, todo : SUBSET Deliveries, at : Deliveries \cup {NoDelivery}]
    /\ NoPurge.phase = "idle" /\ NoPurge.todo = {}
  <1>1. /\ Idle \in [phase : Phases, delivery : Deliveries \cup {NoDelivery}, existed : BOOLEAN]
        /\ Idle.phase = "idle" /\ Idle.existed = FALSE
    BY DEF Idle, Phases
  <1>2. /\ NoPurge \in [phase : PurgePhases, todo : SUBSET Deliveries, at : Deliveries \cup {NoDelivery}]
        /\ NoPurge.phase = "idle" /\ NoPurge.todo = {}
    BY DEF NoPurge, PurgePhases
  <1> QED BY <1>1, <1>2

LEMMA InitInv ==
    ASSUME Sensible, Init
    PROVE  Inv
  <1>1. /\ saves \in [Saves -> [phase : Phases, delivery : Deliveries \cup {NoDelivery}, existed : BOOLEAN]]
        /\ \A s \in Saves : saves[s].phase = "idle"
    BY Constants DEF Init
  <1>2. TypeOK
    <2>1. artifacts \in [Deliveries -> {"none", "active", "deleted"}]
      BY DEF Init
    <2> QED BY <1>1, <2>1, Constants DEF Sensible, Init, TypeOK
  <1>3. FilesCanBeRead /\ BytesAreThere /\ OperatorIsAlone
    BY <1>1, Constants DEF Init, FilesCanBeRead, BytesAreThere, OperatorIsAlone
  <1>4. PurgeIsOwn /\ PurgeIsComplete
    BY Constants DEF Init, PurgeIsOwn, PurgeIsComplete
  <1> QED BY <1>2, <1>3, <1>4 DEF Inv

\* One save goes on or ends; rows and index may gain what it saved.
LEMMA SaveMoves ==
    ASSUME Inv, NEW s \in Saves,
           NEW next \in [phase : Phases, delivery : Deliveries \cup {NoDelivery}, existed : BOOLEAN],
           saves' = [saves EXCEPT ![s] = next], UNCHANGED <<purge, torn>>,
           bytes \subseteq bytes', bytes' \subseteq AllContents, errors' \in 0..MaxErrors,
           saves[s].phase # "idle",
           next.phase # "idle" => next.delivery = saves[s].delivery,
           \/ next.phase \in {"looking", "committing"}
           \/ next.phase = "measuring" /\ next.existed
           => Content(next.delivery) \in bytes',
           \/ UNCHANGED <<contents, artifacts>>
           \/ saves[s].phase = "committing" /\ Indexed(saves[s].delivery)
    PROVE  Inv'
  <1>1. /\ saves \in [Saves -> [phase : Phases, delivery : Deliveries \cup {NoDelivery}, existed : BOOLEAN]]
        /\ saves'[s] = next /\ \A t \in Saves : t # s => saves'[t] = saves[t]
        /\ saves' \in [Saves -> [phase : Phases, delivery : Deliveries \cup {NoDelivery}, existed : BOOLEAN]]
    BY DEF Inv, TypeOK
  <1>2. saves[s].delivery \in Deliveries
    BY DEF Inv, OperatorIsAlone
  <1>3. /\ artifacts' \in [Deliveries -> {"none", "active", "deleted"}]
        /\ \A d \in Deliveries : artifacts'[d] # "none" =>
               artifacts[d] # "none" \/ (d = saves[s].delivery /\ saves[s].phase = "committing")
        /\ contents' \subseteq AllContents /\ FilesCanBeRead'
    <2>1. CASE UNCHANGED <<contents, artifacts>>
      BY <2>1 DEF Inv, TypeOK, FilesCanBeRead
    <2>2. CASE saves[s].phase = "committing" /\ Indexed(saves[s].delivery)
      <3>1. contents' = contents \cup {Content(saves[s].delivery)}
        BY <2>2 DEF Indexed
      <3>2. Content(saves[s].delivery) \in bytes
        BY <2>2 DEF Inv, BytesAreThere
      <3>3. contents' \subseteq AllContents /\ FilesCanBeRead'
        BY <1>2, <3>1, <3>2 DEF Inv, TypeOK, FilesCanBeRead, AllContents
      <3> DEFINE status == IF artifacts[saves[s].delivery] = "none" THEN "active"
                           ELSE artifacts[saves[s].delivery]
      <3>4. artifacts' = [artifacts EXCEPT ![saves[s].delivery] = status]
        BY <2>2 DEF Indexed
      <3>5. status \in {"none", "active", "deleted"}
        BY <1>2 DEF Inv, TypeOK
      <3> HIDE DEF status
      <3>6. artifacts \in [Deliveries -> {"none", "active", "deleted"}]
        BY DEF Inv, TypeOK
      <3> QED BY <1>2, <2>2, <3>3, <3>4, <3>5, <3>6
    <2> QED BY <2>1, <2>2
  <1>4. TypeOK'
    BY <1>1, <1>3 DEF Inv, TypeOK
  <1>5. BytesAreThere'
    BY <1>1 DEF Inv, BytesAreThere
  <1>6. OperatorIsAlone'
    BY <1>1, <1>2 DEF Inv, OperatorIsAlone
  <1>7. PurgeIsOwn'
    BY DEF Inv, PurgeIsOwn
  <1>8. PurgeIsComplete'
    <2> SUFFICES ASSUME purge.phase \in {"next", "rows", "index", "ended"}, NEW d \in Rows', Depends(d)'
                 PROVE  \/ d \in purge.todo /\ purge.phase # "ended"
                        \/ purge.phase = "rows" /\ Content(d) = Content(purge.at)
      BY DEF PurgeIsComplete
    <2>1. d \in Deliveries /\ d.owner = Research /\ artifacts'[d] # "none"
      BY DEF Rows, Owner
    <2>2. saves[s].delivery.owner # Research
      BY DEF Inv, OperatorIsAlone
    <2>3. d \in Rows
      BY <1>3, <2>1, <2>2 DEF Rows, Owner
    <2>4. Depends(d)
      BY DEF Depends
    <2> QED BY <2>3, <2>4 DEF Inv, PurgeIsComplete
  <1> QED BY <1>3, <1>4, <1>5, <1>6, <1>7, <1>8 DEF Inv

LEMMA ErrBound ==
    ASSUME Sensible, Inv, UNCHANGED errors \/ Err
    PROVE  errors' \in 0..MaxErrors
  BY DEF Sensible, Inv, TypeOK, Err

\* A save that only changes its phase.
LEMMA SavePhases ==
    ASSUME Inv, NEW s \in Saves, NEW phase \in Phases
    PROVE  LET next == [saves[s] EXCEPT !.phase = phase] IN
           /\ next \in [phase : Phases, delivery : Deliveries \cup {NoDelivery}, existed : BOOLEAN]
           /\ next.phase = phase /\ next.delivery = saves[s].delivery /\ next.existed = saves[s].existed
           /\ Goes(s, phase) => saves' = [saves EXCEPT ![s] = next]
  <1>1. saves[s] \in [phase : Phases, delivery : Deliveries \cup {NoDelivery}, existed : BOOLEAN]
    BY DEF Inv, TypeOK
  <1> QED BY <1>1 DEF Goes

LEMMA Given ==
    ASSUME Inv, NEW s \in Saves
    PROVE  /\ saves[s] \in [phase : Phases, delivery : Deliveries \cup {NoDelivery}, existed : BOOLEAN]
           /\ saves[s].phase # "idle" => Content(saves[s].delivery) \in AllContents
           /\ bytes \subseteq AllContents
  BY DEF Inv, TypeOK, OperatorIsAlone, AllContents

\* A save that ends, well or not, with what it may have uploaded or indexed.
LEMMA SaveEnds ==
    ASSUME Inv, NEW s \in Saves, Ends(s), UNCHANGED <<purge, torn>>, saves[s].phase # "idle",
           errors' \in 0..MaxErrors,
           bytes' \in {bytes, bytes \cup {Content(saves[s].delivery)}},
           \/ UNCHANGED <<contents, artifacts>>
           \/ saves[s].phase = "committing" /\ Indexed(saves[s].delivery)
    PROVE  Inv'
  <1>1. saves' = [saves EXCEPT ![s] = Idle]
    BY DEF Ends
  <1>2. bytes \subseteq bytes' /\ bytes' \subseteq AllContents
    BY Given
  <1> QED BY <1>1, <1>2, Constants, SaveMoves

\* A save that goes on, with the bytes in the bucket that it will index.
LEMMA SaveGoesOn ==
    ASSUME Inv, NEW s \in Saves, NEW phase \in Phases, Goes(s, phase),
           UNCHANGED <<contents, artifacts, purge, torn, errors>>, saves[s].phase # "idle",
           bytes' \in {bytes, bytes \cup {Content(saves[s].delivery)}},
           phase # "measuring",
           phase \in {"looking", "committing"} => Content(saves[s].delivery) \in bytes'
    PROVE  Inv'
  <1> DEFINE next == [saves[s] EXCEPT !.phase = phase]
  <1>1. /\ next \in [phase : Phases, delivery : Deliveries \cup {NoDelivery}, existed : BOOLEAN]
        /\ next.phase = phase /\ next.delivery = saves[s].delivery
        /\ saves' = [saves EXCEPT ![s] = next]
    BY SavePhases
  <1> HIDE DEF next
  <1>2. bytes \subseteq bytes' /\ bytes' \subseteq AllContents
    BY Given
  <1>3. errors' \in 0..MaxErrors
    BY DEF Inv, TypeOK
  <1> QED BY <1>1, <1>2, <1>3, SaveMoves

LEMMA SaveSteps ==
    ASSUME Sensible, Inv, NEW s \in Saves,
           \/ Stat(s) \/ Measure(s) \/ Upload(s) \/ UploadFails(s)
           \/ Look(s) \/ Commit(s) \/ CommitFails(s)
    PROVE  Inv'
  <1>1. CASE Stat(s)
    <2> DEFINE found == Content(saves[s].delivery) \in bytes
               next  == [saves[s] EXCEPT !.phase = "measuring", !.existed = found]
    <2>1. saves' = [saves EXCEPT ![s] = next]
      BY <1>1 DEF Stat, Delivery
    <2>2. found \in BOOLEAN
      OBVIOUS
    <2>3. next \in [phase : Phases, delivery : Deliveries \cup {NoDelivery}, existed : BOOLEAN]
      BY <2>2, Given DEF Phases
    <2>4. next.phase = "measuring" /\ next.delivery = saves[s].delivery
      BY Given
    <2>5. next.existed <=> found
      BY Given
    <2> HIDE DEF next
    <2>6. next.existed => Content(next.delivery) \in bytes'
      BY <1>1, <2>4, <2>5 DEF Stat
    <2>7. errors' \in 0..MaxErrors
      BY <1>1, ErrBound DEF Stat
    <2>8. saves[s].phase = "waiting"
      BY <1>1 DEF Stat, Is
    <2>9. bytes \subseteq bytes' /\ bytes' \subseteq AllContents
      BY <1>1, Given DEF Stat
    <2> QED BY <1>1, <2>1, <2>3, <2>4, <2>6, <2>7, <2>8, <2>9, SaveMoves DEF Stat
  <1>2. CASE Measure(s)
    <2>1. saves[s].phase = "measuring" /\ UNCHANGED <<bytes, contents, artifacts, purge, torn, errors>>
      BY <1>2 DEF Measure, Is
    <2>2. CASE Ends(s)
      BY <2>1, <2>2, ErrBound, SaveEnds
    <2>3. CASE saves[s].existed /\ Goes(s, "looking")
      <3>1. Content(saves[s].delivery) \in bytes
        BY <2>1, <2>3 DEF Inv, BytesAreThere
      <3> QED BY <2>1, <2>3, <3>1, SaveGoesOn DEF Phases
    <2>4. CASE Goes(s, "uploading")
      BY <2>1, <2>4, SaveGoesOn DEF Phases
    <2> QED BY <1>2, <2>2, <2>3, <2>4 DEF Measure
  <1>3. CASE Upload(s)
    BY <1>3, SaveGoesOn DEF Upload, Is, Delivery, Phases
  <1>4. CASE UploadFails(s)
    BY <1>4, ErrBound, SaveEnds DEF UploadFails, UploadGivenUp, Is, Delivery
  <1>5. CASE Look(s)
    <2>1. saves[s].phase = "looking" /\ UNCHANGED <<bytes, contents, artifacts, purge, torn, errors>>
      BY <1>5 DEF Look, Is
    <2>2. CASE Ends(s)
      BY <2>1, <2>2, ErrBound, SaveEnds
    <2>3. CASE Goes(s, "committing")
      <3>1. Content(saves[s].delivery) \in bytes
        BY <2>1 DEF Inv, BytesAreThere
      <3> QED BY <2>1, <2>3, <3>1, SaveGoesOn DEF Phases
    <2> QED BY <1>5, <2>2, <2>3 DEF Look
  <1>6. CASE Commit(s)
    BY <1>6, ErrBound, SaveEnds DEF Commit, Is, Delivery
  <1>7. CASE CommitFails(s)
    BY <1>7, ErrBound, SaveEnds DEF CommitFails, Is, Delivery
  <1> QED BY <1>1, <1>2, <1>3, <1>4, <1>5, <1>6, <1>7

LEMMA CrashStep ==
    ASSUME Sensible, Inv, NEW s \in Saves, Crash(s)
    PROVE  Inv'
  <1>1. /\ saves' = [t \in Saves |-> IF SameProcess(s, t) THEN Idle ELSE saves[t]]
        /\ UNCHANGED <<bytes, contents, artifacts, purge, torn>> /\ errors' \in 0..MaxErrors
    BY ErrBound DEF Crash
  <1>2. \A t \in Saves : saves'[t] = Idle \/ saves'[t] = saves[t]
    BY <1>1
  <1>3. saves' \in [Saves -> [phase : Phases, delivery : Deliveries \cup {NoDelivery}, existed : BOOLEAN]]
    BY <1>1, Given, Constants
  <1>4. TypeOK' /\ FilesCanBeRead' /\ PurgeIsOwn'
    BY <1>1, <1>3 DEF Inv, TypeOK, FilesCanBeRead, PurgeIsOwn
  <1>5. BytesAreThere' /\ OperatorIsAlone'
    BY <1>1, <1>2, Constants DEF Inv, BytesAreThere, OperatorIsAlone
  <1>6. PurgeIsComplete'
    BY <1>1 DEF Inv, PurgeIsComplete, Rows, Depends
  <1> QED BY <1>4, <1>5, <1>6 DEF Inv

LEMMA StartStep ==
    ASSUME Inv, NEW s \in Saves, NEW d \in Deliveries, NEW sized \in BOOLEAN, Start(s, d, sized)
    PROVE  Inv'
  <1> DEFINE next == [Idle EXCEPT !.phase = "waiting", !.delivery = d]
  <1>1. /\ saves' = [saves EXCEPT ![s] = next]
        /\ UNCHANGED <<bytes, contents, artifacts, torn, errors>>
        /\ (purge' = purge /\ d.owner # Research) \/ purge' = NoPurge
    BY DEF Start, Owner
  <1>2. /\ next \in [phase : Phases, delivery : Deliveries \cup {NoDelivery}, existed : BOOLEAN]
        /\ next.phase = "waiting" /\ next.delivery = d
    BY Constants DEF Phases, Idle
  <1> HIDE DEF next
  <1>3. /\ saves'[s] = next /\ \A t \in Saves : t # s => saves'[t] = saves[t]
        /\ saves' \in [Saves -> [phase : Phases, delivery : Deliveries \cup {NoDelivery}, existed : BOOLEAN]]
    BY <1>1, <1>2 DEF Inv, TypeOK
  <1>4. TypeOK' /\ FilesCanBeRead' /\ PurgeIsOwn'
    BY <1>1, <1>3, Constants DEF Inv, TypeOK, FilesCanBeRead, PurgeIsOwn
  <1>5. BytesAreThere' /\ OperatorIsAlone'
    BY <1>1, <1>2, <1>3, Constants DEF Inv, BytesAreThere, OperatorIsAlone
  <1>6. PurgeIsComplete'
    BY <1>1, Constants DEF Inv, PurgeIsComplete, Rows, Depends
  <1> QED BY <1>4, <1>5, <1>6 DEF Inv

\* Only the references change.
LEMMA DeleteStep ==
    ASSUME Inv, NEW d \in Deliveries, Delete(d)
    PROVE  Inv'
  <1>1. /\ artifacts' = [artifacts EXCEPT ![d] = "deleted"] /\ artifacts[d] = "active"
        /\ UNCHANGED <<bytes, contents, saves, purge, torn, errors>>
    BY DEF Delete
  <1>2. TypeOK' /\ FilesCanBeRead' /\ PurgeIsOwn' /\ BytesAreThere' /\ OperatorIsAlone'
    BY <1>1 DEF Inv, TypeOK, FilesCanBeRead, PurgeIsOwn, BytesAreThere, OperatorIsAlone
  <1>3. Rows' = Rows
    BY <1>1 DEF Inv, TypeOK, Rows
  <1>4. PurgeIsComplete'
    BY <1>1, <1>3 DEF Inv, PurgeIsComplete, Depends
  <1> QED BY <1>2, <1>4 DEF Inv

-----------------------------------------------------------------------------
(* The purge                                                               *)

\* The saves stay as they are; bytes that go are of recommendations.
LEMMA PurgeMoves ==
    ASSUME Inv,
           NEW next \in [phase : PurgePhases, todo : SUBSET Deliveries, at : Deliveries \cup {NoDelivery}],
           purge' = next, UNCHANGED saves, errors' \in 0..MaxErrors,
           \A s \in Saves : saves[s].phase # "idle" /\ next.phase # "idle" =>
               saves[s].delivery.owner # Research,
           artifacts' \in [Deliveries -> {"none", "active", "deleted"}],
           contents' \subseteq AllContents, torn' \subseteq AllContents,
           bytes' \subseteq bytes, \A c \in bytes \ bytes' : c[1] = Research,
           next.phase \notin {"idle", "ended"} \/ bytes' = bytes,
           FilesCanBeRead', PurgeIsOwn', PurgeIsComplete'
    PROVE  Inv'
  <1>1. TypeOK'
    BY DEF Inv, TypeOK
  <1>2. OperatorIsAlone'
    BY DEF Inv, OperatorIsAlone
  <1>3. BytesAreThere'
    <2> SUFFICES ASSUME NEW s \in Saves,
                        \/ saves[s].phase \in {"looking", "committing"}
                        \/ saves[s].phase = "measuring" /\ saves[s].existed
                 PROVE  Content(saves[s].delivery) \in bytes'
      BY DEF BytesAreThere
    <2>1. Content(saves[s].delivery) \in bytes
      BY DEF Inv, BytesAreThere
    <2>2. CASE bytes' = bytes
      BY <2>1, <2>2
    <2>3. CASE next.phase \notin {"idle", "ended"}
      <3>1. Content(saves[s].delivery)[1] # Research
        BY <2>3 DEF Content
      <3> QED BY <2>1, <3>1
    <2> QED BY <2>2, <2>3
  <1> QED BY <1>1, <1>2, <1>3 DEF Inv

LEMMA PurgeGiven ==
    ASSUME Inv
    PROVE  /\ purge \in [phase : PurgePhases, todo : SUBSET Deliveries, at : Deliveries \cup {NoDelivery}]
           /\ artifacts \in [Deliveries -> {"none", "active", "deleted"}]
           /\ bytes \subseteq AllContents /\ contents \subseteq AllContents /\ torn \subseteq AllContents
           /\ errors \in 0..MaxErrors
           /\ \A s \in Saves : saves[s].phase # "idle" /\ purge.phase # "idle" =>
                  saves[s].delivery.owner # Research
  BY DEF Inv, TypeOK, OperatorIsAlone

LEMMA PurgeStartStep ==
    ASSUME Inv, PurgeStart
    PROVE  Inv'
  <1> DEFINE todo == {d \in Rows : Depends(d)}
             next == [NoPurge EXCEPT !.phase = "next", !.todo = todo]
  <1>1. /\ purge' = next /\ UNCHANGED <<bytes, contents, artifacts, saves, torn, errors>>
        /\ \A s \in Saves : saves[s].phase # "idle" => saves[s].delivery.owner # Research
    BY DEF PurgeStart, Is, Delivery, Owner
  <1>2. todo \in SUBSET Deliveries /\ \A d \in todo : d.owner = Research
    BY DEF Rows, Owner
  <1>3. \A d \in Rows : Depends(d) => d \in todo
    OBVIOUS
  <1> HIDE DEF todo
  <1>4. /\ next \in [phase : PurgePhases, todo : SUBSET Deliveries, at : Deliveries \cup {NoDelivery}]
        /\ next.phase = "next" /\ next.todo = todo
    BY <1>2, Constants DEF PurgePhases, NoPurge
  <1> HIDE DEF next
  <1>5. FilesCanBeRead' /\ PurgeIsOwn'
    BY <1>1, <1>2, <1>4 DEF Inv, FilesCanBeRead, PurgeIsOwn
  <1>6. PurgeIsComplete'
    BY <1>1, <1>3, <1>4 DEF PurgeIsComplete, Rows, Depends
  <1> QED BY <1>1, <1>4, <1>5, <1>6, PurgeGiven, PurgeMoves

LEMMA PurgeBytesStep ==
    ASSUME Inv, NEW d \in Deliveries, PurgeBytes(d)
    PROVE  Inv'
  <1> DEFINE next == [phase |-> "rows", todo |-> purge.todo \ {d}, at |-> d]
  <1>1. /\ purge' = next /\ UNCHANGED <<contents, artifacts, saves, errors>>
        /\ bytes' = bytes \ {Content(d)} /\ torn' = torn \cup {Content(d)}
        /\ purge.phase = "next" /\ d \in purge.todo
    BY DEF PurgeBytes
  <1>2. purge.todo \in SUBSET Deliveries /\ (\A e \in purge.todo : e.owner = Research)
    BY PurgeGiven DEF Inv, PurgeIsOwn
  <1>3. /\ next \in [phase : PurgePhases, todo : SUBSET Deliveries, at : Deliveries \cup {NoDelivery}]
        /\ next.phase = "rows" /\ next.todo = purge.todo \ {d} /\ next.at = d
    BY <1>2 DEF PurgePhases
  <1> HIDE DEF next
  <1>4. FilesCanBeRead' /\ PurgeIsOwn'
    BY <1>1, <1>2, <1>3 DEF Inv, FilesCanBeRead, PurgeIsOwn
  <1>5. PurgeIsComplete'
    <2> SUFFICES ASSUME NEW e \in Rows', Depends(e)'
                 PROVE  e \in next.todo \/ Content(e) = Content(d)
      BY <1>1, <1>3 DEF PurgeIsComplete
    <2>1. e \in Rows /\ (Content(e) # Content(d) => Depends(e))
      BY <1>1 DEF Rows, Depends
    <2>2. Content(e) # Content(d) => e \in purge.todo /\ e # d
      BY <1>1, <2>1 DEF Inv, PurgeIsComplete
    <2> QED BY <1>3, <2>2
  <1>6. Content(d) \in AllContents /\ Content(d)[1] = Research
    BY <1>1, <1>2 DEF AllContents, Content, Owner
  <1>7. \A c \in bytes \ bytes' : c[1] = Research
    BY <1>1, <1>6
  <1>8. bytes' \subseteq bytes /\ torn' \subseteq AllContents
    BY <1>1, <1>6, PurgeGiven
  <1> QED BY <1>1, <1>3, <1>4, <1>5, <1>7, <1>8, PurgeGiven, PurgeMoves

LEMMA PurgeRowsStep ==
    ASSUME Inv, PurgeRows
    PROVE  Inv'
  <1> DEFINE next == [purge EXCEPT !.phase = "index"]
  <1>1. /\ purge' = next /\ UNCHANGED <<bytes, contents, saves, torn, errors>> /\ purge.phase = "rows"
        /\ artifacts' = [d \in Deliveries |-> IF Content(d) = Content(purge.at) THEN "none" ELSE artifacts[d]]
    BY DEF PurgeRows
  <1>2. /\ next \in [phase : PurgePhases, todo : SUBSET Deliveries, at : Deliveries \cup {NoDelivery}]
        /\ next.phase = "index" /\ next.todo = purge.todo /\ next.at = purge.at
    BY PurgeGiven DEF PurgePhases
  <1> HIDE DEF next
  <1>3. FilesCanBeRead' /\ PurgeIsOwn'
    BY <1>1, <1>2 DEF Inv, FilesCanBeRead, PurgeIsOwn
  <1>4. PurgeIsComplete'
    <2> SUFFICES ASSUME NEW e \in Rows', Depends(e)'
                 PROVE  e \in purge.todo
      BY <1>1, <1>2 DEF PurgeIsComplete
    <2>1. e \in Rows /\ Content(e) # Content(purge.at) /\ Depends(e)
      BY <1>1 DEF Rows, Depends
    <2> QED BY <1>1, <2>1 DEF Inv, PurgeIsComplete
  <1>5. artifacts' \in [Deliveries -> {"none", "active", "deleted"}]
    BY <1>1, PurgeGiven
  <1> QED BY <1>1, <1>2, <1>3, <1>4, <1>5, PurgeGiven, PurgeMoves

LEMMA PurgeIndexStep ==
    ASSUME Inv, PurgeIndex
    PROVE  Inv'
  <1> DEFINE next == [purge EXCEPT !.phase = "next", !.at = NoDelivery]
  <1>1. /\ purge' = next /\ UNCHANGED <<bytes, artifacts, saves, errors>> /\ purge.phase = "index"
        /\ contents' = contents \ {Content(purge.at)} /\ torn' = torn \ {Content(purge.at)}
    BY DEF PurgeIndex
  <1>2. /\ next \in [phase : PurgePhases, todo : SUBSET Deliveries, at : Deliveries \cup {NoDelivery}]
        /\ next.phase = "next" /\ next.todo = purge.todo
    BY PurgeGiven DEF PurgePhases
  <1> HIDE DEF next
  <1>3. FilesCanBeRead' /\ PurgeIsOwn'
    BY <1>1, <1>2 DEF Inv, FilesCanBeRead, PurgeIsOwn
  <1>4. PurgeIsComplete'
    BY <1>1, <1>2 DEF Inv, PurgeIsComplete, Rows, Depends
  <1> QED BY <1>1, <1>2, <1>3, <1>4, PurgeGiven, PurgeMoves

LEMMA PurgeStops ==
    ASSUME Sensible, Inv, PurgeEnds \/ PurgeFails
    PROVE  Inv'
  <1> DEFINE next == [NoPurge EXCEPT !.phase = "ended"]
  <1>1. UNCHANGED <<bytes, contents, artifacts, saves, torn>> /\ errors' \in 0..MaxErrors
    BY ErrBound DEF PurgeEnds, PurgeFails
  <1>2. CASE PurgeFails
    <2>1. purge' = NoPurge
      BY <1>2 DEF PurgeFails
    <2>2. FilesCanBeRead' /\ PurgeIsOwn' /\ PurgeIsComplete'
      BY <1>1, <2>1, Constants DEF Inv, FilesCanBeRead, PurgeIsOwn, PurgeIsComplete
    <2> QED BY <1>1, <2>1, <2>2, Constants, PurgeGiven, PurgeMoves
  <1>3. CASE PurgeEnds
    <2>1. purge' = next /\ purge.phase = "next" /\ purge.todo = {}
      BY <1>3 DEF PurgeEnds
    <2>2. /\ next \in [phase : PurgePhases, todo : SUBSET Deliveries, at : Deliveries \cup {NoDelivery}]
          /\ next.phase = "ended" /\ next.todo = {}
      BY Constants DEF PurgePhases, NoPurge
    <2> HIDE DEF next
    <2>3. FilesCanBeRead' /\ PurgeIsOwn' /\ PurgeIsComplete'
      BY <1>1, <2>1, <2>2 DEF Inv, FilesCanBeRead, PurgeIsOwn, PurgeIsComplete, Rows, Depends
    <2> QED BY <1>1, <2>1, <2>2, <2>3, PurgeGiven, PurgeMoves
  <1> QED BY <1>2, <1>3

LEMMA NextInv ==
    ASSUME Sensible, Inv, [Next]_artifactVars
    PROVE  Inv'
  <1>1. CASE UNCHANGED artifactVars
    <2>1. TypeOK' /\ FilesCanBeRead' /\ BytesAreThere' /\ OperatorIsAlone' /\ PurgeIsOwn'
      BY <1>1 DEF artifactVars, Inv, TypeOK, FilesCanBeRead, BytesAreThere, OperatorIsAlone, PurgeIsOwn
    <2>2. PurgeIsComplete'
      BY <1>1 DEF artifactVars, Inv, PurgeIsComplete, Rows, Depends
    <2> QED BY <2>1, <2>2 DEF Inv
  <1>2. CASE Next
    BY <1>2, SaveSteps, CrashStep, StartStep, DeleteStep, PurgeStartStep, PurgeBytesStep, PurgeRowsStep,
       PurgeIndexStep, PurgeStops DEF Next
  <1> QED BY <1>1, <1>2

-----------------------------------------------------------------------------

\* The bucket, the index, the rows, the saves and the purge have their types.
THEOREM TypeCorrect ==
    ASSUME Sensible
    PROVE  Spec => []TypeOK
  <1>1. Inv => TypeOK
    BY DEF Inv
  <1> QED BY <1>1, InitInv, NextInv, PTL DEF Spec

LEMMA InvSuffices ==
    ASSUME Inv
    PROVE  FilesCanBeRead /\ PurgedIsGone
  BY DEF Inv, PurgeIsComplete, PurgedIsGone, Depends

\* Whatever fails, dies or is run again: a file that the index names is in the bucket, but for one
\* a purge is removing, and a purge that reports success has left no reference to bytes that
\* depend on the person, and none without bytes.
THEOREM FilesStay ==
    ASSUME Sensible
    PROVE  Spec => [](FilesCanBeRead /\ PurgedIsGone)
  <1>1. Inv => FilesCanBeRead /\ PurgedIsGone
    BY InvSuffices
  <1> QED BY <1>1, InitInv, NextInv, PTL DEF Spec

-----------------------------------------------------------------------------
(* Induction                                                               *)

\* Induction over the natural numbers, for a set: were a number not in it, adding one would map
\* the finite set of smaller ones that are into itself, and miss zero.
LEMMA Induction ==
  ASSUME NEW N, 0 \in N, \A n \in Nat : n \in N => n + 1 \in N
  PROVE  Nat \subseteq N
  <1> SUFFICES ASSUME NEW m \in Nat, m \notin N PROVE FALSE
    OBVIOUS
  <1> DEFINE B == (0 .. m) \cap N
             f == [x \in B |-> x + 1]
  <1>0. IsFiniteSet(0 .. m)
    BY 0 \in Int, m \in Int, FS_Interval, Zenon
  <1>1. IsFiniteSet(B)
    <2>1. B \subseteq 0 .. m
      OBVIOUS
    <2> QED
      BY <1>0, <2>1, FS_Subset
  <1>2. \A x \in B : x + 1 \in B
    OBVIOUS
  <1>3. f \in [B -> B] /\ (\A x, y \in B : f[x] = f[y] => x = y)
    BY <1>2
  <1>4. f \in Injection(B, B)
    BY <1>3, Zenon DEF Injection, IsInjective
  <1>5. f \in Surjection(B, B)
    <2> HIDE DEF f, B
    <2> QED
      BY <1>1, <1>4, FS_Injection
  <1>6. PICK x \in B : f[x] = 0
    <2>1. 0 \in B
      OBVIOUS
    <2> QED
      BY <1>5, <2>1, Zenon DEF Surjection
  <1> QED
    BY <1>6

-----------------------------------------------------------------------------
(* The bytes of a set of contents                                          *)

\* The recursion that BytesOf unfolds to.
Some(cs) == CHOOSE c \in cs : TRUE
Step(f, cs) == IF cs = {} THEN 0 ELSE Size(Some(cs)[2]) + f[cs \ {Some(cs)}]
Iter(cs) == CHOOSE f : f = [s \in SUBSET cs |-> Step(f, s)]

Sets == SUBSET AllContents
UpTo(n) == {cs \in Sets : Cardinality(cs) <= n}

LEMMA BytesUnfold ==
    ASSUME NEW cs
    PROVE  BytesOf(cs) = Iter(cs)[cs]
  BY DEF BytesOf, MapThenSumSet, MapThenFoldSet, Iter, Some, Step

LEMMA SetsAreFinite ==
    ASSUME Sensible
    PROVE  /\ IsFiniteSet(AllContents)
           /\ \A c \in AllContents : Size(c[2]) \in Nat
           /\ \A cs \in Sets : IsFiniteSet(cs) /\ Cardinality(cs) \in Nat
           /\ \A cs \in Sets : cs # {} => /\ Some(cs) \in cs /\ Some(cs) \in AllContents
                                        /\ cs \ {Some(cs)} \in Sets
           /\ \A cs \in Sets : \A c \in cs :
                  cs \ {c} \in Sets /\ Cardinality(cs \ {c}) = Cardinality(cs) - 1
  <1>1. IsFiniteSet(AllContents)
    <2> DEFINE f == [d \in Deliveries |-> Content(d)]
    <2>1. f \in Surjection(Deliveries, AllContents)
      BY DEF Surjection, AllContents
    <2> HIDE DEF f
    <2> QED BY <2>1, FS_Surjection DEF Sensible
  <1>2. \A c \in AllContents : Size(c[2]) \in Nat
    BY DEF Sensible, AllContents, Content
  <1>3. \A cs \in Sets : IsFiniteSet(cs) /\ Cardinality(cs) \in Nat
    BY <1>1, FS_Subset, FS_CardinalityType, Zenon DEF Sets
  <1>4. \A cs \in Sets : cs # {} => /\ Some(cs) \in cs /\ Some(cs) \in AllContents
                                   /\ cs \ {Some(cs)} \in Sets
    BY DEF Sets, Some
  <1>5. \A cs \in Sets : \A c \in cs :
            cs \ {c} \in Sets /\ Cardinality(cs \ {c}) = Cardinality(cs) - 1
    <2> SUFFICES ASSUME NEW cs \in Sets, NEW c \in cs
                 PROVE  cs \ {c} \in Sets /\ Cardinality(cs \ {c}) = Cardinality(cs) - 1
      OBVIOUS
    <2>1. cs \ {c} \in Sets
      BY DEF Sets
    <2>2. Cardinality(cs \ {c}) = Cardinality(cs) - 1
      BY <1>3, FS_RemoveElement
    <2> QED BY <2>1, <2>2
  <1> QED BY <1>1, <1>2, <1>3, <1>4, <1>5

LEMMA SumExists ==
    ASSUME Sensible
    PROVE  \E f \in [Sets -> Nat] : \A cs \in Sets : f[cs] = Step(f, cs)
  <1> DEFINE N == {n \in Nat : \E f \in [UpTo(n) -> Nat] : \A cs \in UpTo(n) : f[cs] = Step(f, cs)}
  <1>1. 0 \in N
    <2> DEFINE f == [cs \in UpTo(0) |-> 0]
    <2>1. \A cs \in UpTo(0) : cs = {}
      BY SetsAreFinite, FS_EmptySet DEF UpTo
    <2>2. f \in [UpTo(0) -> Nat] /\ \A cs \in UpTo(0) : f[cs] = Step(f, cs)
      BY <2>1 DEF Step
    <2> QED BY <2>2
  <1>2. \A n \in Nat : n \in N => n + 1 \in N
    <2> SUFFICES ASSUME NEW n \in Nat, n \in N
                 PROVE  n + 1 \in N
      OBVIOUS
    <2>1. PICK f \in [UpTo(n) -> Nat] : \A cs \in UpTo(n) : f[cs] = Step(f, cs)
      OBVIOUS
    <2> DEFINE g == [cs \in UpTo(n + 1) |-> Step(f, cs)]
    <2>2. \A cs \in UpTo(n + 1) : cs # {} =>
              cs \ {Some(cs)} \in UpTo(n) /\ cs \ {Some(cs)} \in UpTo(n + 1)
      BY SetsAreFinite DEF UpTo
    <2>3. \A cs \in UpTo(n) : g[cs] = f[cs]
      <3>1. UpTo(n) \subseteq UpTo(n + 1)
        BY SetsAreFinite DEF UpTo
      <3> QED BY <2>1, <3>1
    <2>4. \A cs \in UpTo(n + 1) : g[cs] = Step(g, cs)
      BY <2>2, <2>3 DEF Step
    <2>5. g \in [UpTo(n + 1) -> Nat]
      <3> SUFFICES ASSUME NEW cs \in UpTo(n + 1)
                   PROVE  Step(f, cs) \in Nat
        OBVIOUS
      <3>1. CASE cs = {}
        BY <3>1 DEF Step
      <3>2. CASE cs # {}
        <4>1. f[cs \ {Some(cs)}] \in Nat
          BY <2>2, <3>2
        <4>2. Size(Some(cs)[2]) \in Nat
          BY <3>2, SetsAreFinite DEF UpTo
        <4> QED BY <3>2, <4>1, <4>2 DEF Step
      <3> QED BY <3>1, <3>2
    <2> HIDE DEF g
    <2> QED BY <2>4, <2>5
  <1> HIDE DEF N
  <1>3. Nat \subseteq N
    BY <1>1, <1>2, Induction
  <1> DEFINE n == Cardinality(AllContents)
  <1>4. n \in N
    BY <1>3, SetsAreFinite, FS_CardinalityType
  <1>5. UpTo(n) = Sets
    <2>1. \A cs \in Sets : Cardinality(cs) <= n
      BY SetsAreFinite, FS_Subset DEF Sets
    <2> QED BY <2>1 DEF UpTo
  <1> HIDE DEF n
  <1> QED BY <1>4, <1>5 DEF N

\* Any function that sums the subsets of one set is the same there.
LEMMA SumIsUnique ==
    ASSUME Sensible, NEW f \in [Sets -> Nat], \A cs \in Sets : f[cs] = Step(f, cs),
           NEW all \in Sets, NEW g, \A cs \in SUBSET all : g[cs] = Step(g, cs)
    PROVE  g[all] = f[all]
  <1> DEFINE P(n) == \A cs \in SUBSET all : Cardinality(cs) = n => g[cs] = f[cs]
             N    == {n \in Nat : P(n)}
  <1>0. SUBSET all \subseteq Sets
    BY DEF Sets
  <1>1. P(0)
    <2> SUFFICES ASSUME NEW cs \in SUBSET all, Cardinality(cs) = 0
                 PROVE  g[cs] = f[cs]
      OBVIOUS
    <2>1. cs = {}
      BY <1>0, SetsAreFinite, FS_EmptySet
    <2> QED BY <1>0, <2>1 DEF Step
  <1>2. ASSUME NEW n \in Nat, P(n) PROVE P(n + 1)
    <2> SUFFICES ASSUME NEW cs \in SUBSET all, Cardinality(cs) = n + 1
                 PROVE  g[cs] = f[cs]
      OBVIOUS
    <2>0. cs \in Sets
      BY <1>0
    <2>1. cs # {}
      BY <2>0, SetsAreFinite, FS_EmptySet
    <2>2. cs \ {Some(cs)} \in SUBSET all /\ Cardinality(cs \ {Some(cs)}) = n
      <3>1. Some(cs) \in cs
        BY <2>0, <2>1, SetsAreFinite
      <3>2. Cardinality(cs \ {Some(cs)}) = Cardinality(cs) - 1
        BY <2>0, <3>1, SetsAreFinite
      <3> QED BY <3>2
    <2>3. g[cs \ {Some(cs)}] = f[cs \ {Some(cs)}]
      BY <1>2, <2>2
    <2> QED BY <1>0, <2>1, <2>3 DEF Step
  <1> HIDE DEF P
  <1>3. Nat \subseteq N
    <2>1. 0 \in N /\ \A n \in Nat : n \in N => n + 1 \in N
      BY <1>1, <1>2
    <2> HIDE DEF N
    <2> QED BY <2>1, Induction
  <1>4. P(Cardinality(all))
    BY <1>3, SetsAreFinite
  <1> QED BY <1>4 DEF P

\* BytesOf is a number and follows its recursion.
LEMMA BytesRecursion ==
    ASSUME Sensible
    PROVE  /\ BytesOf({}) = 0
           /\ \A cs \in Sets : BytesOf(cs) \in Nat
           /\ \A cs \in Sets : cs # {} =>
                  BytesOf(cs) = Size(Some(cs)[2]) + BytesOf(cs \ {Some(cs)})
  <1>1. PICK f \in [Sets -> Nat] : \A cs \in Sets : f[cs] = Step(f, cs)
    BY SumExists
  <1>2. ASSUME NEW all \in Sets PROVE BytesOf(all) = f[all]
    <2> DEFINE g == [s \in SUBSET all |-> f[s]]
               h == Iter(all)
    <2>1. SUBSET all \subseteq Sets
      BY DEF Sets
    <2>2. \A s \in SUBSET all : Step(g, s) = Step(f, s)
      BY DEF Step, Some
    <2>3. g = [s \in SUBSET all |-> Step(g, s)]
      BY <1>1, <2>1, <2>2
    <2> HIDE DEF g
    <2>4. h = [s \in SUBSET all |-> Step(h, s)]
      BY <2>3 DEF Iter
    <2> HIDE DEF h
    <2>5. \A s \in SUBSET all : h[s] = Step(h, s)
      BY <2>4
    <2>6. h[all] = f[all]
      BY <1>1, <2>5, SumIsUnique
    <2> QED BY <2>6, BytesUnfold DEF h
  <1>3. {} \in Sets
    BY DEF Sets
  <1> QED BY <1>1, <1>2, <1>3, SetsAreFinite DEF Step

\* Whatever is taken out first, the rest and it make the sum.
LEMMA BytesWithout ==
    ASSUME Sensible
    PROVE  \A cs \in Sets : \A c \in cs : BytesOf(cs) = Size(c[2]) + BytesOf(cs \ {c})
  <1> DEFINE P(n) == \A cs \in Sets : Cardinality(cs) = n =>
                         \A c \in cs : BytesOf(cs) = Size(c[2]) + BytesOf(cs \ {c})
             N    == {n \in Nat : P(n)}
  <1>1. P(0)
    BY SetsAreFinite, FS_EmptySet
  <1>2. ASSUME NEW n \in Nat, P(n) PROVE P(n + 1)
    <2> SUFFICES ASSUME NEW cs \in Sets, Cardinality(cs) = n + 1, NEW c \in cs
                 PROVE  BytesOf(cs) = Size(c[2]) + BytesOf(cs \ {c})
      OBVIOUS
    <2> DEFINE x == Some(cs)
    <2>1. x \in cs /\ BytesOf(cs) = Size(x[2]) + BytesOf(cs \ {x})
      BY SetsAreFinite, BytesRecursion
    <2> HIDE DEF x
    <2>2. CASE c = x
      BY <2>1, <2>2
    <2>3. CASE c # x
      <3>1. /\ cs \ {x} \in Sets /\ Cardinality(cs \ {x}) = n /\ c \in cs \ {x}
            /\ cs \ {c} \in Sets /\ Cardinality(cs \ {c}) = n /\ x \in cs \ {c}
        <4>1. \A e \in cs : cs \ {e} \in Sets /\ Cardinality(cs \ {e}) = Cardinality(cs) - 1
          BY SetsAreFinite
        <4> QED BY <2>1, <2>3, <4>1
      <3>2. /\ BytesOf(cs \ {x}) = Size(c[2]) + BytesOf((cs \ {x}) \ {c})
            /\ BytesOf(cs \ {c}) = Size(x[2]) + BytesOf((cs \ {c}) \ {x})
        BY <1>2, <3>1
      <3>3. (cs \ {x}) \ {c} = (cs \ {c}) \ {x} /\ (cs \ {x}) \ {c} \in Sets
        BY DEF Sets
      <3>4. BytesOf((cs \ {x}) \ {c}) \in Nat /\ Size(c[2]) \in Nat /\ Size(x[2]) \in Nat
        BY <2>1, <3>3, BytesRecursion, SetsAreFinite DEF Sets
      <3> QED BY <2>1, <3>2, <3>3, <3>4
    <2> QED BY <2>2, <2>3
  <1> HIDE DEF P
  <1>3. Nat \subseteq N
    <2>1. 0 \in N /\ \A n \in Nat : n \in N => n + 1 \in N
      BY <1>1, <1>2
    <2> HIDE DEF N
    <2> QED BY <2>1, Induction
  <1>4. \A cs \in Sets : P(Cardinality(cs))
    BY <1>3, SetsAreFinite
  <1> QED BY <1>4 DEF P

\* A larger set has no fewer bytes.
LEMMA BytesGrow ==
    ASSUME Sensible
    PROVE  \A ds \in Sets : \A cs \in SUBSET ds : cs \in Sets /\ BytesOf(cs) <= BytesOf(ds)
  <1> DEFINE P(n) == \A ds \in Sets : Cardinality(ds) = n =>
                         \A cs \in SUBSET ds : BytesOf(cs) <= BytesOf(ds)
             N    == {n \in Nat : P(n)}
  <1>0. \A ds \in Sets : \A cs \in SUBSET ds : cs \in Sets
    BY DEF Sets
  <1>1. P(0)
    <2> SUFFICES ASSUME NEW ds \in Sets, Cardinality(ds) = 0, NEW cs \in SUBSET ds
                 PROVE  BytesOf(cs) <= BytesOf(ds)
      OBVIOUS
    <2>1. ds = {}
      BY SetsAreFinite, FS_EmptySet
    <2>2. cs = ds
      BY <2>1
    <2> QED BY <2>2, BytesRecursion
  <1>2. ASSUME NEW n \in Nat, P(n) PROVE P(n + 1)
    <2> SUFFICES ASSUME NEW ds \in Sets, Cardinality(ds) = n + 1, NEW cs \in SUBSET ds
                 PROVE  BytesOf(cs) <= BytesOf(ds)
      OBVIOUS
    <2>1. CASE cs = ds
      BY <2>1, BytesRecursion
    <2>2. CASE cs # ds
      <3>1. PICK c \in ds : c \notin cs
        BY <2>2
      <3>2. ds \ {c} \in Sets /\ Cardinality(ds \ {c}) = n
        <4>1. ds \ {c} \in Sets /\ Cardinality(ds \ {c}) = Cardinality(ds) - 1
          BY SetsAreFinite
        <4> QED BY <4>1
      <3>3. cs \in SUBSET (ds \ {c})
        BY <3>1
      <3>4. BytesOf(cs) <= BytesOf(ds \ {c})
        BY <1>2, <3>2, <3>3
      <3>5. BytesOf(ds) = Size(c[2]) + BytesOf(ds \ {c})
        BY BytesWithout
      <3>6. Size(c[2]) \in Nat
        BY SetsAreFinite DEF Sets
      <3>7. BytesOf(cs) \in Nat /\ BytesOf(ds \ {c}) \in Nat
        BY <1>0, <3>2, BytesRecursion
      <3> QED BY <3>4, <3>5, <3>6, <3>7
    <2> QED BY <2>1, <2>2
  <1> HIDE DEF P
  <1>3. Nat \subseteq N
    <2>1. 0 \in N /\ \A n \in Nat : n \in N => n + 1 \in N
      BY <1>1, <1>2
    <2> HIDE DEF N
    <2> QED BY <2>1, Induction
  <1>4. \A cs \in Sets : P(Cardinality(cs))
    BY <1>3, SetsAreFinite
  <1> QED BY <1>0, <1>4 DEF P

\* One content more.
LEMMA BytesWith ==
    ASSUME Sensible, NEW cs \in Sets, NEW c \in AllContents
    PROVE  /\ cs \cup {c} \in Sets
           /\ c \in cs => cs \cup {c} = cs
           /\ c \notin cs => BytesOf(cs \cup {c}) = BytesOf(cs) + Size(c[2])
  <1>1. cs \cup {c} \in Sets
    BY DEF Sets
  <1>2. BytesOf(cs) \in Nat /\ Size(c[2]) \in Nat
    BY BytesRecursion, SetsAreFinite
  <1>3. CASE c \in cs
    <2>1. cs \cup {c} = cs
      BY <1>3
    <2> QED BY <1>1, <1>3, <2>1
  <1>4. CASE c \notin cs
    <2> DEFINE more == cs \cup {c}
    <2>1. c \in more /\ more \ {c} = cs
      BY <1>4
    <2>2. more \in Sets
      BY <1>1
    <2> HIDE DEF more
    <2>3. BytesOf(more) = Size(c[2]) + BytesOf(more \ {c})
      BY <2>1, <2>2, BytesWithout
    <2>4. BytesOf(more) = Size(c[2]) + BytesOf(cs)
      BY <2>1, <2>3, Zenon
    <2>5. BytesOf(more) = BytesOf(cs) + Size(c[2])
      BY <1>2, <2>4
    <2> QED BY <1>1, <1>4, <2>5 DEF more
  <1> QED BY <1>3, <1>4

Largest == Max({Size(d.body) : d \in Deliveries})

LEMMA LargestIsLargest ==
    ASSUME Sensible
    PROVE  Largest \in Nat /\ \A d \in Deliveries : Size(d.body) <= Largest
  <1> DEFINE P(n) == \A ds \in SUBSET Deliveries : ds # {} /\ Cardinality(ds) = n =>
                         \E d \in ds : \A e \in ds : Size(d.body) >= Size(e.body)
             N    == {n \in Nat : P(n)}
  <1>0. \A ds \in SUBSET Deliveries : IsFiniteSet(ds) /\ Cardinality(ds) \in Nat
    BY FS_Subset, FS_CardinalityType, Zenon DEF Sensible
  <1>1. P(0)
    BY <1>0, FS_EmptySet
  <1>2. ASSUME NEW n \in Nat, P(n) PROVE P(n + 1)
    <2> SUFFICES ASSUME NEW ds \in SUBSET Deliveries, ds # {}, Cardinality(ds) = n + 1
                 PROVE  \E d \in ds : \A e \in ds : Size(d.body) >= Size(e.body)
      OBVIOUS
    <2>1. PICK d \in ds : TRUE
      OBVIOUS
    <2>2. Cardinality(ds \ {d}) = n
      BY <1>0, FS_RemoveElement
    <2>3. \A e \in ds : Size(e.body) \in Nat
      BY DEF Sensible
    <2>4. CASE ds = {d}
      BY <2>3, <2>4
    <2>5. CASE ds # {d}
      <3>1. PICK e \in ds \ {d} : \A x \in ds \ {d} : Size(e.body) >= Size(x.body)
        <4>1. ds \ {d} \in SUBSET Deliveries /\ ds \ {d} # {}
          BY <2>1, <2>5
        <4> QED BY <1>2, <2>2, <4>1
      <3>2. CASE Size(e.body) >= Size(d.body)
        BY <3>1, <3>2
      <3>3. CASE ~(Size(e.body) >= Size(d.body))
        BY <2>1, <2>3, <3>1, <3>3
      <3> QED BY <3>2, <3>3
    <2> QED BY <2>4, <2>5
  <1> HIDE DEF P
  <1>3. Nat \subseteq N
    <2>1. 0 \in N /\ \A n \in Nat : n \in N => n + 1 \in N
      BY <1>1, <1>2
    <2> HIDE DEF N
    <2> QED BY <2>1, Induction
  <1>4. P(Cardinality(Deliveries))
    BY <1>0, <1>3
  <1>5. PICK d \in Deliveries : \A e \in Deliveries : Size(d.body) >= Size(e.body)
    BY <1>4 DEF P, Sensible
  <1> DEFINE sizes == {Size(e.body) : e \in Deliveries}
  <1>6. Size(d.body) \in sizes /\ \A y \in sizes : Size(d.body) >= y
    BY <1>5
  <1>7. Largest \in sizes /\ \A y \in sizes : Largest >= y
    <2> HIDE DEF sizes
    <2>1. Largest = CHOOSE x \in sizes : \A y \in sizes : x >= y
      BY DEF Largest, Max, sizes
    <2> QED BY <1>6, <2>1
  <1> QED BY <1>7 DEF Sensible

-----------------------------------------------------------------------------
(* The quotas                                                              *)

\* Bytes that the transaction of a save adds to the index.
Need(s) == IF Content(saves[s].delivery) \in contents THEN 0 ELSE Size(saves[s].delivery.body)

Employees(cs) == cs \ Owned(Research, cs)
OfResearch(s) == saves[s].delivery.owner = Research
Committing(s) == saves[s].phase = "committing"

\* Of one process, one save measures, uploads or writes.
OneInside ==
    \A s, t \in Saves : s # t /\ Inside(s) /\ Inside(t) => (OfResearch(s) # OfResearch(t))

\* What is indexed has its room, and so has what a transaction is about to index, unless the
\* other process takes it first.
Room ==
    /\ \A d \in Deliveries : BytesOf(Owned(d.owner, contents)) <= OwnerQuota
    /\ BytesOf(Employees(contents)) <= GlobalQuota
    /\ BytesOf(contents) <= GlobalQuota + Largest
    /\ \A s \in Saves : Committing(s) =>
           /\ BytesOf(Owned(saves[s].delivery.owner, contents)) + Need(s) <= OwnerQuota
           /\ ~OfResearch(s) => BytesOf(Employees(contents)) + Need(s) <= GlobalQuota
           /\ BytesOf(contents) + Need(s) <= GlobalQuota + Largest
    /\ \A s, t \in Saves : s # t /\ Committing(s) /\ Committing(t) =>
           BytesOf(contents) + Need(s) + Need(t) <= GlobalQuota + Largest

QuotaInv == Inv /\ OneInside /\ Room

\* The numbers in it are numbers.
LEMMA Numbers ==
    ASSUME Sensible, Inv
    PROVE  /\ contents \in Sets /\ BytesOf(contents) \in Nat
           /\ OwnerQuota \in Nat /\ GlobalQuota \in Nat /\ Largest \in Nat
           /\ \A d \in Deliveries : BytesOf(Owned(d.owner, contents)) \in Nat
           /\ BytesOf(Employees(contents)) \in Nat
           /\ BytesOf(Employees(contents)) <= BytesOf(contents)
           /\ \A s \in Saves : saves[s].phase # "idle" =>
                  /\ saves[s].delivery \in Deliveries
                  /\ Content(saves[s].delivery) \in AllContents
                  /\ Need(s) \in Nat /\ Need(s) <= Largest
                  /\ Size(saves[s].delivery.body) \in Nat
  <1>1. contents \in Sets
    BY DEF Inv, TypeOK, Sets
  <1>2. \A cs \in SUBSET contents : BytesOf(cs) \in Nat /\ BytesOf(cs) <= BytesOf(contents)
    BY <1>1, BytesGrow, BytesRecursion
  <1>3. /\ \A d \in Deliveries : Owned(d.owner, contents) \in SUBSET contents
        /\ Employees(contents) \in SUBSET contents /\ contents \in SUBSET contents
    BY DEF Owned, Employees
  <1>4. ASSUME NEW s \in Saves, saves[s].phase # "idle"
        PROVE  /\ saves[s].delivery \in Deliveries
               /\ Content(saves[s].delivery) \in AllContents
               /\ Need(s) \in Nat /\ Need(s) <= Largest
               /\ Size(saves[s].delivery.body) \in Nat
    <2>1. saves[s].delivery \in Deliveries /\ Content(saves[s].delivery) \in AllContents
      BY <1>4 DEF Inv, OperatorIsAlone, AllContents
    <2>2. Size(saves[s].delivery.body) \in Nat /\ Size(saves[s].delivery.body) <= Largest
      BY <2>1, LargestIsLargest DEF Sensible
    <2> QED BY <2>1, <2>2, LargestIsLargest DEF Need
  <1> QED BY <1>1, <1>2, <1>3, <1>4, LargestIsLargest DEF Sensible

LEMMA InitRoom ==
    ASSUME Sensible, Init
    PROVE  QuotaInv
  <1>1. Inv
    BY InitInv
  <1>2. \A s \in Saves : saves[s].phase = "idle"
    BY Constants DEF Init
  <1>3. OneInside
    BY <1>2 DEF OneInside, Inside
  <1>4. \A cs \in {Employees(contents)} \cup {Owned(d.owner, contents) : d \in Deliveries} : cs = {}
    BY DEF Init, Employees, Owned
  <1>5. /\ BytesOf(contents) = 0 /\ BytesOf(Employees(contents)) = 0
        /\ \A d \in Deliveries : BytesOf(Owned(d.owner, contents)) = 0
    <2>1. contents = {} /\ Employees(contents) = {} /\ \A d \in Deliveries : Owned(d.owner, contents) = {}
      BY <1>4 DEF Init
    <2> QED BY <2>1, BytesRecursion
  <1>6. OwnerQuota \in Nat /\ GlobalQuota \in Nat /\ Largest \in Nat
    BY LargestIsLargest DEF Sensible
  <1>7. Room
    BY <1>2, <1>5, <1>6 DEF Room, Committing
  <1> QED BY <1>1, <1>3, <1>7 DEF QuotaInv

\* A step in which the index stays, no save begins to write and none enters beside another.
LEMMA RoomStays ==
    ASSUME QuotaInv, Inv', UNCHANGED contents,
           \A t \in Saves : Inside(t)' =>
               saves'[t].delivery = saves[t].delivery /\ (Inside(t) \/ (saves[t].phase = "waiting" /\ LockFree(t))),
           \A s, t \in Saves : s # t /\ Inside(s)' /\ Inside(t)' => Inside(s) \/ Inside(t),
           \A t \in Saves : Committing(t)' => Committing(t)
    PROVE  QuotaInv'
  <1>1. OneInside'
    <2> SUFFICES ASSUME NEW s \in Saves, NEW t \in Saves, s # t, Inside(s)', Inside(t)'
                 PROVE  OfResearch(s)' # OfResearch(t)'
      BY DEF OneInside
    <2>1. OfResearch(s)' = OfResearch(s) /\ OfResearch(t)' = OfResearch(t)
      BY DEF OfResearch
    <2>2. CASE Inside(s) /\ Inside(t)
      BY <2>1, <2>2 DEF QuotaInv, OneInside
    <2>3. CASE Inside(s) /\ LockFree(t)
      BY <2>1, <2>3 DEF LockFree, SameProcess, OfResearch, Delivery, Owner
    <2>4. CASE Inside(t) /\ LockFree(s)
      BY <2>1, <2>4 DEF LockFree, SameProcess, OfResearch, Delivery, Owner
    <2> QED BY <2>2, <2>3, <2>4
  <1>2. \A t \in Saves : Committing(t)' =>
            Committing(t) /\ saves'[t].delivery = saves[t].delivery
    BY DEF Committing, Inside
  <1>3. \A t \in Saves : Committing(t)' => Need(t)' = Need(t) /\ OfResearch(t)' = OfResearch(t)
    BY <1>2 DEF Need, OfResearch
  <1>4. BytesOf(contents)' = BytesOf(contents) /\ BytesOf(Employees(contents))' = BytesOf(Employees(contents))
    OBVIOUS
  <1>5. Room'
    BY <1>2, <1>3, <1>4 DEF QuotaInv, Room
  <1> QED BY <1>1, <1>5 DEF QuotaInv

\* A save looks and goes on to write what has room.
LEMMA RoomFound ==
    ASSUME Sensible, QuotaInv, Inv', NEW s \in Saves, Look(s), Goes(s, "committing")
    PROVE  QuotaInv'
  <1>0. Inv /\ saves[s].phase = "looking" /\ UNCHANGED contents /\ contents' = contents
    BY DEF QuotaInv, Look, Is
  <1>1. saves \in [Saves -> [phase : Phases, delivery : Deliveries \cup {NoDelivery}, existed : BOOLEAN]]
    BY <1>0 DEF Inv, TypeOK
  <1>2. /\ saves'[s].phase = "committing" /\ saves'[s].delivery = saves[s].delivery
        /\ \A t \in Saves : t # s => saves'[t] = saves[t]
    BY <1>1 DEF Goes
  <1>3. \A t \in Saves : Inside(t)' => saves'[t].delivery = saves[t].delivery /\ Inside(t)
    BY <1>0, <1>2 DEF Inside
  <1>4. OneInside'
    BY <1>3 DEF QuotaInv, OneInside, OfResearch
  <1>5. Fits(saves[s].delivery, Need(s)) /\ artifacts[saves[s].delivery] = "none"
    <2>1. Ends(s) => FALSE
      BY <1>1, <1>2, Constants DEF Ends
    <2> QED BY <2>1 DEF Look, Delivery, Need
  <1>6. Need(s) > 0 => /\ BytesOf(Owned(saves[s].delivery.owner, contents)) + Need(s) <= OwnerQuota
                       /\ BytesOf(contents) + Need(s) <= GlobalQuota
    BY <1>5 DEF Fits, Owner
  <1>7. \A t \in Saves : Need(t)' = Need(t) /\ OfResearch(t)' = OfResearch(t)
    <2>1. \A t \in Saves : saves'[t].delivery = saves[t].delivery
      BY <1>2
    <2> QED BY <1>0, <2>1 DEF Need, OfResearch
  <1>8. \A t \in Saves : Committing(t)' => t = s \/ Committing(t)
    BY <1>2 DEF Committing
  <1>9. /\ BytesOf(Owned(saves[s].delivery.owner, contents)) + Need(s) <= OwnerQuota
        /\ ~OfResearch(s) => BytesOf(Employees(contents)) + Need(s) <= GlobalQuota
        /\ BytesOf(contents) + Need(s) <= GlobalQuota + Largest
        /\ \A t \in Saves : Committing(t) => BytesOf(contents) + Need(s) + Need(t) <= GlobalQuota + Largest
    <2>1. saves[s].delivery \in Deliveries /\ Need(s) \in Nat /\ Need(s) <= Largest
      BY <1>0, Numbers
    <2>2. /\ BytesOf(contents) \in Nat /\ OwnerQuota \in Nat /\ GlobalQuota \in Nat /\ Largest \in Nat
          /\ BytesOf(Owned(saves[s].delivery.owner, contents)) \in Nat
          /\ BytesOf(Employees(contents)) \in Nat /\ BytesOf(Employees(contents)) <= BytesOf(contents)
      BY <1>0, <2>1, Numbers
    <2>3. /\ BytesOf(Owned(saves[s].delivery.owner, contents)) <= OwnerQuota
          /\ BytesOf(Employees(contents)) <= GlobalQuota /\ BytesOf(contents) <= GlobalQuota + Largest
      BY <2>1 DEF QuotaInv, Room
    <2>4. ASSUME NEW t \in Saves, Committing(t)
          PROVE  BytesOf(contents) + Need(s) + Need(t) <= GlobalQuota + Largest
      <3>1. Need(t) \in Nat /\ Need(t) <= Largest
        BY <1>0, <2>4, Numbers DEF Committing
      <3>2. BytesOf(contents) + Need(t) <= GlobalQuota + Largest
        BY <2>4 DEF QuotaInv, Room
      <3> QED BY <1>6, <2>1, <2>2, <3>1, <3>2
    <2> QED BY <1>6, <2>1, <2>2, <2>3, <2>4
  <1>10. Room'
    <2>1. /\ \A d \in Deliveries : BytesOf(Owned(d.owner, contents))' <= OwnerQuota
          /\ BytesOf(Employees(contents))' <= GlobalQuota
          /\ BytesOf(contents)' <= GlobalQuota + Largest
      BY <1>0 DEF QuotaInv, Room
    <2>2. ASSUME NEW t \in Saves, Committing(t)'
          PROVE  /\ BytesOf(Owned(saves'[t].delivery.owner, contents')) + Need(t)' <= OwnerQuota
                 /\ ~OfResearch(t)' => BytesOf(Employees(contents))' + Need(t)' <= GlobalQuota
                 /\ BytesOf(contents)' + Need(t)' <= GlobalQuota + Largest
      <3>1. CASE t = s
        BY <1>0, <1>2, <1>7, <1>9, <3>1
      <3>2. CASE t # s
        BY <1>0, <1>2, <1>7, <1>8, <2>2, <3>2 DEF QuotaInv, Room
      <3> QED BY <3>1, <3>2
    <2>3. ASSUME NEW t \in Saves, NEW u \in Saves, t # u, Committing(t)', Committing(u)'
          PROVE  BytesOf(contents)' + Need(t)' + Need(u)' <= GlobalQuota + Largest
      <3>0. BytesOf(contents) \in Nat /\ \A v \in {t, u} : Need(v) \in Nat
        BY <1>0, <1>8, <2>3, Numbers DEF Committing
      <3>1. CASE t = s
        BY <1>0, <1>7, <1>8, <1>9, <2>3, <3>1
      <3>2. CASE u = s
        BY <1>0, <1>7, <1>8, <1>9, <2>3, <3>0, <3>2
      <3>3. CASE t # s /\ u # s
        BY <1>0, <1>7, <1>8, <2>3, <3>3 DEF QuotaInv, Room
      <3> QED BY <3>1, <3>2, <3>3
    <2> QED BY <2>1, <2>2, <2>3 DEF Room
  <1> QED BY <1>4, <1>10 DEF QuotaInv

\* A save writes: what it needed is in the index.
LEMMA RoomTaken ==
    ASSUME Sensible, QuotaInv, Inv', NEW s \in Saves, Committing(s), Indexed(saves[s].delivery), Ends(s)
    PROVE  QuotaInv'
  <1> DEFINE d == saves[s].delivery
             c == Content(d)
  <1>0. /\ Inv /\ contents' = contents \cup {c} /\ d \in Deliveries /\ c \in AllContents
        /\ contents \in Sets /\ Inside(s)
    BY Numbers DEF QuotaInv, Indexed, Committing, Inside
  <1>1. saves \in [Saves -> [phase : Phases, delivery : Deliveries \cup {NoDelivery}, existed : BOOLEAN]]
    BY <1>0 DEF Inv, TypeOK
  <1>2. /\ saves'[s].phase = "idle" /\ \A t \in Saves : t # s => saves'[t] = saves[t]
    BY <1>1, Constants DEF Ends
  <1>3. \A t \in Saves : Inside(t)' => t # s /\ saves'[t] = saves[t] /\ Inside(t)
    BY <1>2 DEF Inside
  <1>4. OneInside'
    BY <1>3 DEF QuotaInv, OneInside, OfResearch
  <1>5. \A t \in Saves : Committing(t)' =>
            t # s /\ saves'[t] = saves[t] /\ Committing(t) /\ OfResearch(t) # OfResearch(s)
    BY <1>0, <1>2 DEF Committing, Inside, QuotaInv, OneInside
  <1>6. \A t, u \in Saves : Committing(t)' /\ Committing(u)' => t = u
    BY <1>4, <1>5 DEF Committing, Inside, OneInside, OfResearch
  <1>7. c[1] = d.owner /\ c[2] = d.body
    BY DEF Content, Owner
  <1>8. \A t \in Saves : Committing(t)' => Need(t)' = Need(t) /\ OfResearch(t)' = OfResearch(t)
    <2> SUFFICES ASSUME NEW t \in Saves, Committing(t)'
                 PROVE  Need(t)' = Need(t) /\ OfResearch(t)' = OfResearch(t)
      OBVIOUS
    <2>1. saves[t].delivery.owner # d.owner /\ saves'[t] = saves[t]
      BY <1>5 DEF OfResearch
    <2>2. Content(saves[t].delivery) # c
      BY <1>7, <2>1 DEF Content, Owner
    <2> QED BY <1>0, <2>1, <2>2 DEF Need, OfResearch
  <1>9. BytesOf(contents') = BytesOf(contents) + Need(s)
    <2>1. BytesOf(contents) \in Nat
      BY <1>0, Numbers
    <2>2. CASE c \in contents
      <3>1. contents' = contents
        BY <1>0, <2>2
      <3>2. Need(s) = 0
        BY <2>2 DEF Need
      <3> QED BY <2>1, <3>1, <3>2
    <2>3. CASE c \notin contents
      <3>1. BytesOf(contents \cup {c}) = BytesOf(contents) + Size(c[2])
        BY <1>0, <2>3, BytesWith
      <3> QED BY <1>0, <1>7, <2>3, <3>1 DEF Need
    <2> QED BY <2>2, <2>3
  <1>10. \A o : BytesOf(Owned(o, contents')) =
                   IF o = d.owner THEN BytesOf(Owned(o, contents)) + Need(s) ELSE BytesOf(Owned(o, contents))
    <2> SUFFICES ASSUME NEW o
                 PROVE  BytesOf(Owned(o, contents')) =
                   IF o = d.owner THEN BytesOf(Owned(o, contents)) + Need(s) ELSE BytesOf(Owned(o, contents))
      OBVIOUS
    <2>1. CASE o # d.owner
      <3>1. Owned(o, contents') = Owned(o, contents)
        BY <1>0, <1>7, <2>1 DEF Owned
      <3> QED BY <2>1, <3>1
    <2>2. CASE o = d.owner
      <3>1. Owned(o, contents') = Owned(o, contents) \cup {c}
        BY <1>0, <1>7, <2>2 DEF Owned
      <3>2. Owned(o, contents) \in Sets
        BY <1>0 DEF Owned, Sets
      <3>3. BytesOf(Owned(o, contents)) \in Nat
        BY <3>2, BytesRecursion
      <3>4. CASE c \in contents
        <4>1. Owned(o, contents') = Owned(o, contents)
          BY <1>0, <3>4
        <4> QED BY <2>2, <3>3, <3>4, <4>1 DEF Need
      <3>5. CASE c \notin contents
        <4>1. c \notin Owned(o, contents)
          BY <3>5 DEF Owned
        <4>2. BytesOf(Owned(o, contents) \cup {c}) = BytesOf(Owned(o, contents)) + Size(c[2])
          BY <1>0, <3>2, <4>1, BytesWith
        <4> QED BY <1>7, <2>2, <3>1, <3>5, <4>2 DEF Need
      <3> QED BY <3>4, <3>5
    <2> QED BY <2>1, <2>2
  <1>11. BytesOf(Employees(contents')) = IF OfResearch(s) THEN BytesOf(Employees(contents))
                                         ELSE BytesOf(Employees(contents)) + Need(s)
    <2>1. CASE OfResearch(s)
      <3>1. Employees(contents') = Employees(contents)
        BY <1>0, <1>7, <2>1 DEF Employees, Owned, OfResearch
      <3> QED BY <2>1, <3>1
    <2>2. CASE ~OfResearch(s)
      <3>1. Employees(contents') = Employees(contents) \cup {c}
        BY <1>0, <1>7, <2>2 DEF Employees, Owned, OfResearch
      <3>2. Employees(contents) \in Sets
        BY <1>0 DEF Employees, Sets
      <3>3. BytesOf(Employees(contents)) \in Nat
        BY <3>2, BytesRecursion
      <3>4. CASE c \in contents
        <4>1. Employees(contents') = Employees(contents)
          <5>1. contents' = contents
            BY <1>0, <3>4
          <5> QED BY <5>1
        <4> QED BY <2>2, <3>3, <3>4, <4>1 DEF Need
      <3>5. CASE c \notin contents
        <4>1. c \notin Employees(contents)
          BY <3>5 DEF Employees
        <4>2. BytesOf(Employees(contents) \cup {c}) = BytesOf(Employees(contents)) + Size(c[2])
          BY <1>0, <3>2, <4>1, BytesWith
        <4> QED BY <1>7, <2>2, <3>1, <3>5, <4>2 DEF Need
      <3> QED BY <3>4, <3>5
    <2> QED BY <2>1, <2>2
  <1>12. Room'
    <2>1. /\ BytesOf(Owned(d.owner, contents)) + Need(s) <= OwnerQuota
          /\ ~OfResearch(s) => BytesOf(Employees(contents)) + Need(s) <= GlobalQuota
          /\ BytesOf(contents) + Need(s) <= GlobalQuota + Largest
      BY DEF QuotaInv, Room
    <2>2. \A e \in Deliveries : BytesOf(Owned(e.owner, contents))' <= OwnerQuota
      BY <1>10, <2>1 DEF QuotaInv, Room
    <2>3. BytesOf(Employees(contents))' <= GlobalQuota /\ BytesOf(contents)' <= GlobalQuota + Largest
      BY <1>9, <1>11, <2>1 DEF QuotaInv, Room
    <2>4. ASSUME NEW t \in Saves, Committing(t)'
          PROVE  /\ BytesOf(Owned(saves'[t].delivery.owner, contents')) + Need(t)' <= OwnerQuota
                 /\ ~OfResearch(t)' => BytesOf(Employees(contents))' + Need(t)' <= GlobalQuota
                 /\ BytesOf(contents)' + Need(t)' <= GlobalQuota + Largest
      <3>1. /\ saves'[t] = saves[t] /\ Committing(t) /\ OfResearch(t) # OfResearch(s) /\ t # s
            /\ Need(t)' = Need(t) /\ OfResearch(t)' = OfResearch(t)
        BY <1>5, <1>8, <2>4
      <3>2. /\ BytesOf(Owned(saves[t].delivery.owner, contents)) + Need(t) <= OwnerQuota
            /\ ~OfResearch(t) => BytesOf(Employees(contents)) + Need(t) <= GlobalQuota
            /\ BytesOf(contents) + Need(s) + Need(t) <= GlobalQuota + Largest
        BY <3>1 DEF QuotaInv, Room
      <3>3. saves[t].delivery.owner # d.owner
        BY <3>1 DEF OfResearch
      <3>4. BytesOf(Owned(saves[t].delivery.owner, contents')) = BytesOf(Owned(saves[t].delivery.owner, contents))
        BY <1>10, <3>3
      <3>5. ~OfResearch(t) => BytesOf(Employees(contents')) = BytesOf(Employees(contents))
        BY <1>11, <3>1 DEF OfResearch
      <3> QED BY <1>9, <3>1, <3>2, <3>4, <3>5
    <2> QED BY <1>6, <2>2, <2>3, <2>4 DEF Room
  <1> QED BY <1>4, <1>12 DEF QuotaInv

\* A purge gives room back, and no save of recommendations is writing.
LEMMA RoomGiven ==
    ASSUME Sensible, QuotaInv, Inv', PurgeIndex
    PROVE  QuotaInv'
  <1> DEFINE c == Content(purge.at)
  <1>0. Inv /\ contents' = contents \ {c} /\ saves' = saves /\ contents \in Sets
    BY Numbers DEF QuotaInv, PurgeIndex
  <1>1. c[1] = Research
    BY <1>0 DEF PurgeIndex, Inv, PurgeIsOwn, Content, Owner
  <1>2. \A t \in Saves : saves[t].phase # "idle" => ~OfResearch(t)
    BY <1>0 DEF PurgeIndex, Inv, OperatorIsAlone, OfResearch
  <1>3. OneInside'
    BY <1>0 DEF QuotaInv, OneInside, Inside, OfResearch
  <1>4. \A t \in Saves : Committing(t)' =>
            Committing(t) /\ Need(t)' = Need(t) /\ OfResearch(t)' = OfResearch(t)
    <2> SUFFICES ASSUME NEW t \in Saves, Committing(t)'
                 PROVE  Committing(t) /\ Need(t)' = Need(t) /\ OfResearch(t)' = OfResearch(t)
      OBVIOUS
    <2>1. Committing(t) /\ ~OfResearch(t)
      BY <1>0, <1>2 DEF Committing
    <2>2. Content(saves[t].delivery) # c
      BY <1>1, <2>1 DEF Content, Owner, OfResearch
    <2> QED BY <1>0, <2>1, <2>2 DEF Need, OfResearch
  <1>5. /\ BytesOf(contents') \in Nat /\ BytesOf(contents') <= BytesOf(contents)
        /\ \A d \in Deliveries : BytesOf(Owned(d.owner, contents')) \in Nat
                               /\ BytesOf(Owned(d.owner, contents')) <= BytesOf(Owned(d.owner, contents))
        /\ BytesOf(Employees(contents')) = BytesOf(Employees(contents))
    <2>1. /\ contents' \in SUBSET contents
          /\ \A d \in Deliveries : Owned(d.owner, contents) \in Sets
                                 /\ Owned(d.owner, contents') \in SUBSET Owned(d.owner, contents)
      BY <1>0 DEF Owned, Sets
    <2>2. Employees(contents') = Employees(contents)
      BY <1>0, <1>1 DEF Employees, Owned
    <2>3. \A ds \in Sets : \A cs \in SUBSET ds : BytesOf(cs) \in Nat /\ BytesOf(cs) <= BytesOf(ds)
      BY BytesGrow, BytesRecursion
    <2>4. BytesOf(contents') \in Nat /\ BytesOf(contents') <= BytesOf(contents)
      BY <1>0, <2>1, <2>3
    <2>5. \A d \in Deliveries : BytesOf(Owned(d.owner, contents')) \in Nat
                              /\ BytesOf(Owned(d.owner, contents')) <= BytesOf(Owned(d.owner, contents))
      BY <2>1, <2>3
    <2>6. BytesOf(Employees(contents')) = BytesOf(Employees(contents))
      BY <2>2, Zenon
    <2> QED BY <2>4, <2>5, <2>6
  <1>6. Room'
    <2>1. \A d \in Deliveries : BytesOf(Owned(d.owner, contents))' <= OwnerQuota
      <3> SUFFICES ASSUME NEW d \in Deliveries
                   PROVE  BytesOf(Owned(d.owner, contents')) <= OwnerQuota
        OBVIOUS
      <3>1. /\ BytesOf(Owned(d.owner, contents)) <= OwnerQuota /\ OwnerQuota \in Nat
            /\ BytesOf(Owned(d.owner, contents)) \in Nat
        BY <1>0, Numbers DEF QuotaInv, Room
      <3>2. /\ BytesOf(Owned(d.owner, contents')) \in Nat
            /\ BytesOf(Owned(d.owner, contents')) <= BytesOf(Owned(d.owner, contents))
        BY <1>5
      <3> QED BY <3>1, <3>2
    <2>2. BytesOf(Employees(contents))' <= GlobalQuota /\ BytesOf(contents)' <= GlobalQuota + Largest
      BY <1>0, <1>5, Numbers DEF QuotaInv, Room
    <2>3. ASSUME NEW t \in Saves, Committing(t)'
          PROVE  /\ BytesOf(Owned(saves'[t].delivery.owner, contents')) + Need(t)' <= OwnerQuota
                 /\ ~OfResearch(t)' => BytesOf(Employees(contents))' + Need(t)' <= GlobalQuota
                 /\ BytesOf(contents)' + Need(t)' <= GlobalQuota + Largest
      <3>1. Committing(t) /\ Need(t)' = Need(t) /\ OfResearch(t)' = OfResearch(t) /\ saves'[t] = saves[t]
        BY <1>0, <1>4, <2>3
      <3>2. saves[t].delivery \in Deliveries /\ Need(t) \in Nat
        BY <1>0, <3>1, Numbers DEF Committing
      <3>3. /\ BytesOf(Owned(saves[t].delivery.owner, contents)) + Need(t) <= OwnerQuota
            /\ ~OfResearch(t) => BytesOf(Employees(contents)) + Need(t) <= GlobalQuota
            /\ BytesOf(contents) + Need(t) <= GlobalQuota + Largest
        BY <3>1 DEF QuotaInv, Room
      <3> DEFINE o == saves[t].delivery.owner
      <3>4. /\ BytesOf(Owned(o, contents')) \in Nat /\ BytesOf(Owned(o, contents)) \in Nat
            /\ BytesOf(Owned(o, contents')) <= BytesOf(Owned(o, contents))
        BY <1>0, <1>5, <3>2, Numbers
      <3>5. BytesOf(contents) \in Nat /\ OwnerQuota \in Nat /\ GlobalQuota + Largest \in Nat
        BY <1>0, Numbers
      <3>6. BytesOf(Owned(o, contents')) + Need(t) <= OwnerQuota
        BY <3>2, <3>3, <3>4, <3>5
      <3>7. BytesOf(contents') + Need(t) <= GlobalQuota + Largest
        BY <1>5, <3>2, <3>3, <3>5
      <3> QED BY <1>5, <3>1, <3>3, <3>6, <3>7
    <2>4. ASSUME NEW t \in Saves, NEW u \in Saves, t # u, Committing(t)', Committing(u)'
          PROVE  FALSE
      BY <1>2, <1>4, <2>4 DEF QuotaInv, OneInside, Committing, Inside, OfResearch
    <2> QED BY <2>1, <2>2, <2>3, <2>4 DEF Room
  <1> QED BY <1>3, <1>6 DEF QuotaInv

\* A save that goes on without writing, or ends.
LEMMA RoomKept ==
    ASSUME Sensible, QuotaInv, Inv', UNCHANGED contents, NEW s \in Saves,
           NEW next, saves' = [saves EXCEPT ![s] = next],
           next.phase \notin {"idle", "waiting"} => next.delivery = saves[s].delivery /\ Inside(s),
           next.phase # "committing"
    PROVE  QuotaInv'
  <1>1. saves'[s] = next /\ \A t \in Saves : t # s => saves'[t] = saves[t]
    BY DEF QuotaInv, Inv, TypeOK
  <1>2. \A t \in Saves : Inside(t)' => saves'[t].delivery = saves[t].delivery /\ Inside(t)
    BY <1>1 DEF Inside
  <1>3. \A t \in Saves : Committing(t)' => Committing(t)
    BY <1>1 DEF Committing
  <1> QED BY <1>2, <1>3, RoomStays

LEMMA RoomOfSaves ==
    ASSUME Sensible, QuotaInv, Inv', NEW s \in Saves,
           \/ Stat(s) \/ Measure(s) \/ Upload(s) \/ UploadFails(s)
           \/ Look(s) \/ Commit(s) \/ CommitFails(s)
    PROVE  QuotaInv'
  <1>0. Inv /\ saves \in [Saves -> [phase : Phases, delivery : Deliveries \cup {NoDelivery}, existed : BOOLEAN]]
    BY DEF QuotaInv, Inv, TypeOK
  <1>1. ASSUME Ends(s), UNCHANGED contents PROVE QuotaInv'
    <2>1. saves' = [saves EXCEPT ![s] = Idle]
      BY <1>1 DEF Ends
    <2> QED BY <1>1, <2>1, Constants, RoomKept
  <1>2. ASSUME Inside(s), UNCHANGED contents, NEW phase \in {"uploading", "looking"}, Goes(s, phase)
        PROVE  QuotaInv'
    <2> DEFINE next == [saves[s] EXCEPT !.phase = phase]
    <2>1. next.phase = phase /\ next.delivery = saves[s].delivery /\ saves' = [saves EXCEPT ![s] = next]
      BY <1>0, <1>2 DEF Goes
    <2> HIDE DEF next
    <2> QED BY <1>2, <2>1, RoomKept
  <1>3. CASE Stat(s)
    <2>1. /\ saves'[s].delivery = saves[s].delivery /\ saves'[s].phase = "measuring"
          /\ \A t \in Saves : t # s => saves'[t] = saves[t]
          /\ saves[s].phase = "waiting" /\ LockFree(s) /\ UNCHANGED contents
      BY <1>0, <1>3 DEF Stat, Is
    <2>2. \A t \in Saves : Inside(t)' =>
              saves'[t].delivery = saves[t].delivery /\ (Inside(t) \/ (saves[t].phase = "waiting" /\ LockFree(t)))
      BY <2>1 DEF Inside
    <2>3. \A t, u \in Saves : t # u /\ Inside(t)' /\ Inside(u)' => Inside(t) \/ Inside(u)
      BY <2>1 DEF Inside
    <2>4. \A t \in Saves : Committing(t)' => Committing(t)
      BY <2>1 DEF Committing
    <2> QED BY <2>1, <2>2, <2>3, <2>4, RoomStays
  <1>4. CASE Measure(s)
    BY <1>1, <1>2, <1>4 DEF Measure, Is, Inside
  <1>5. CASE Upload(s)
    BY <1>2, <1>5 DEF Upload, Is, Inside
  <1>6. CASE UploadFails(s)
    BY <1>1, <1>6 DEF UploadFails, UploadGivenUp
  <1>7. CASE Look(s)
    BY <1>1, <1>7, RoomFound DEF Look
  <1>8. CASE Commit(s)
    BY <1>8, RoomTaken DEF Commit, Is, Delivery, Committing
  <1>9. CASE CommitFails(s)
    BY <1>1, <1>9, RoomTaken DEF CommitFails, Is, Delivery, Committing
  <1> QED BY <1>3, <1>4, <1>5, <1>6, <1>7, <1>8, <1>9

\* No save goes on, and the index stays.
LEMMA RoomUntouched ==
    ASSUME Sensible, QuotaInv, Inv', UNCHANGED contents,
           \A t \in Saves : saves'[t] = saves[t] \/ saves'[t].phase \in {"idle", "waiting"}
    PROVE  QuotaInv'
  <1>1. \A t \in Saves : Inside(t)' => saves'[t].delivery = saves[t].delivery /\ Inside(t)
    BY DEF Inside
  <1>2. \A t \in Saves : Committing(t)' => Committing(t)
    BY DEF Committing
  <1> QED BY <1>1, <1>2, RoomStays

LEMMA NextRoom ==
    ASSUME Sensible, QuotaInv, [Next]_artifactVars
    PROVE  QuotaInv'
  <1>0. Inv /\ Inv' /\ saves \in [Saves -> [phase : Phases, delivery : Deliveries \cup {NoDelivery}, existed : BOOLEAN]]
    BY NextInv DEF QuotaInv, Inv, TypeOK
  <1>1. CASE UNCHANGED <<contents, saves>>
    BY <1>0, <1>1, RoomUntouched
  <1>2. ASSUME NEW s \in Saves, NEW d \in Deliveries, NEW sized \in BOOLEAN, Start(s, d, sized)
        PROVE  QuotaInv'
    <2> DEFINE next == [Idle EXCEPT !.phase = "waiting", !.delivery = d]
    <2>1. saves' = [saves EXCEPT ![s] = next] /\ next.phase = "waiting" /\ UNCHANGED contents
      BY <1>2, Constants DEF Start
    <2> HIDE DEF next
    <2> QED BY <1>0, <2>1, RoomUntouched
  <1>3. ASSUME NEW s \in Saves, Crash(s) PROVE QuotaInv'
    <2>1. UNCHANGED contents /\ \A t \in Saves : saves'[t] = saves[t] \/ saves'[t] = Idle
      BY <1>3 DEF Crash
    <2> QED BY <1>0, <2>1, Constants, RoomUntouched
  <1>4. ASSUME NEW d \in Deliveries, Delete(d) \/ PurgeBytes(d) PROVE QuotaInv'
    BY <1>1, <1>4 DEF Delete, PurgeBytes
  <1>5. CASE PurgeStart \/ PurgeRows \/ PurgeEnds \/ PurgeFails
    BY <1>1, <1>5 DEF PurgeStart, PurgeRows, PurgeEnds, PurgeFails
  <1>6. CASE UNCHANGED artifactVars
    BY <1>1, <1>6 DEF artifactVars
  <1> QED BY <1>0, <1>2, <1>3, <1>4, <1>5, <1>6, RoomOfSaves, RoomGiven DEF Next

LEMMA RoomSuffices ==
    ASSUME QuotaInv
    PROVE  WithinQuotas
  <1>1. \A c \in contents : \E d \in Deliveries : c[1] = d.owner
    BY DEF QuotaInv, Inv, TypeOK, AllContents, Content, Owner
  <1> QED BY <1>1 DEF QuotaInv, Room, WithinQuotas, Employees, Largest

\* Whoever saves at the same time: no owner has more bytes indexed than the quota of an owner,
\* nor the employees together more than that of all; with the recommendations, which another
\* process saves, they exceed it by one body at most.
THEOREM QuotasHold ==
    ASSUME Sensible
    PROVE  Spec => []WithinQuotas
  <1>1. QuotaInv => WithinQuotas
    BY RoomSuffices
  <1> QED BY <1>1, InitRoom, NextRoom, PTL DEF Spec

=============================================================================
