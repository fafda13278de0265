---------------------------- MODULE AssistantProofs ----------------------------
(***************************************************************************)
(* What the parts of MCAssistant promise, for every value of its constants *)
(* and not only of the small instance: each behaviour of the whole is a    *)
(* behaviour of one part, whose invariant the steps of the others leave    *)
(* alone.                                                                  *)
(***************************************************************************)
EXTENDS MCAssistant, AssistantTurnProofs, FiniteSetTheorems, TLAPS

LEMMA OnePartMoves ==
    ASSUME [AllNext]_all
    PROVE  /\ about' = about
           /\ UNCHANGED docVars \/ (about = "documents" /\ D!Next)
           /\ UNCHANGED ideaVars \/ (about = "ideas" /\ I!Next)
           /\ UNCHANGED activityVars \/ (about = "activities" /\ A!Next)
           /\ UNCHANGED draftVars \/ (about = "draft" /\ O!Next)
           /\ UNCHANGED fileVars \/ (about = "files" /\ F!Next)
           /\ UNCHANGED reportVars \/ (about = "reports" /\ R!Next)
  <1>1. CASE UNCHANGED all
    BY <1>1 DEF all
  <1>2. CASE AllNext
    <2> USE DEF docVars, ideaVars, activityVars, draftVars, fileVars, reportVars, AllNext
    <2> QED BY <1>2
  <1> QED BY <1>1, <1>2

\* The steps of the other parts leave the turn alone.
LEMMA TurnMoves == ASSUME [AllNext]_all PROVE [Next]_vars
  <1>1. CASE UNCHANGED all
    BY <1>1 DEF all, turnVars
  <1>2. CASE AllNext
    BY <1>2, Zenon DEF AllNext, turnVars
  <1> QED BY <1>1, <1>2

-----------------------------------------------------------------------------
(* Ideas                                                                   *)

P == INSTANCE IdeaDeletionProofs
         WITH Requests <- Workers, requests <- deciders, MaxRevision <- MaxEdits

\* The two instances of IdeaDeletion are one.
LEMMA SameIdeas ==
    /\ I!Init <=> P!Init
    /\ I!Next <=> P!Next
    /\ P!Ledger!Init <=> I!Ledger!Init
    /\ P!Ledger!Next <=> I!Ledger!Next
    /\ P!Records = I!Records
    /\ P!Records' = I!Records'
  <1>1. I!Init <=> P!Init
    BY DEF I!Init, P!Init, I!Idle, P!Idle, I!Ledger!NoIdea, P!Ledger!NoIdea
  <1>2. I!Next <=> P!Next
    BY DEF I!Next, P!Next, I!Add, P!Add, I!Append, P!Append, I!Propose, P!Propose,
           I!Call, P!Call, I!FindDeleted, P!FindDeleted, I!Refuse, P!Refuse,
           I!Reject, P!Reject, I!Lock, P!Lock, I!TryDelete, P!TryDelete,
           I!ReadBack, P!ReadBack, I!Commit, P!Commit, I!ReadClock, P!ReadClock,
           I!UndoDelete, P!UndoDelete, I!Fail, P!Fail, I!Purge, P!Purge, I!Tick, P!Tick,
           I!Stored, P!Stored, I!Ends, P!Ends, I!Goes, P!Goes, I!Idle, P!Idle,
           I!Held, P!Held, I!RowLocked, P!RowLocked, I!Decidable, P!Decidable,
           I!Deciding, P!Deciding, I!Matches, P!Matches, I!Restorable, P!Restorable,
           I!Ledger!CanChange, P!Ledger!CanChange, I!Ledger!Changed, P!Ledger!Changed,
           I!Ledger!Decision, P!Ledger!Decision, I!Ledger!SoftDeleted, P!Ledger!SoftDeleted
  <1>3. P!Records = I!Records /\ P!Records' = I!Records'
    BY DEF P!Records, I!Records, P!Promised, I!Promised
  <1>4. P!Ledger!Init <=> I!Ledger!Init
    BY <1>3 DEF P!Ledger!Init, I!Ledger!Init, P!Ledger!NoIdea, I!Ledger!NoIdea
  <1>5. P!Ledger!Next <=> I!Ledger!Next
    BY <1>3 DEF P!Ledger!Next, I!Ledger!Next, P!Ledger!Add, I!Ledger!Add,
           P!Ledger!Edit, I!Ledger!Edit, P!Ledger!Propose, I!Ledger!Propose,
           P!Ledger!Reject, I!Ledger!Reject, P!Ledger!Confirm, I!Ledger!Confirm,
           P!Ledger!UndoDelete, I!Ledger!UndoDelete, P!Ledger!Purge, I!Ledger!Purge,
           P!Ledger!Tick, I!Ledger!Tick, P!Ledger!CanChange, I!Ledger!CanChange,
           P!Ledger!Changed, I!Ledger!Changed, P!Ledger!Decidable, I!Ledger!Decidable,
           P!Ledger!Decided, I!Ledger!Decided, P!Ledger!Decision, I!Ledger!Decision,
           P!Ledger!IsAsProposed, I!Ledger!IsAsProposed,
           P!Ledger!SoftDeleted, I!Ledger!SoftDeleted,
           P!Records, I!Records, P!Promised, I!Promised
  <1> QED BY <1>1, <1>2, <1>3, <1>4, <1>5

\* Every step of the transactions that delete ideas is a step of the ledger of ideas.
THEOREM IdeasImplementLedger ==
    ASSUME P!Sensible
    PROVE  AllSpec => ImplementsLedger
  <1> DEFINE IInv == about = "ideas" => P!Inv
  <1>1. AllInit => IInv /\ (about = "ideas" => I!Ledger!Init)
    BY P!InitInv, P!InitRefines, SameIdeas DEF AllInit
  <1>2. IInv /\ [AllNext]_all => IInv'
    <2> SUFFICES ASSUME IInv, [AllNext]_all PROVE IInv'
      OBVIOUS
    <2>1. about' = about /\ (about = "ideas" => [P!Next]_(P!vars))
      BY OnePartMoves, SameIdeas DEF ideaVars, P!vars
    <2> QED BY <2>1, P!NextInv
  <1>3. IInv /\ [AllNext]_all =>
            [about = "ideas" => UNCHANGED I!Ledger!vars \/ I!Ledger!Next]_ideaVars
    <2> SUFFICES ASSUME IInv, [AllNext]_all, about = "ideas"
                 PROVE  UNCHANGED I!Ledger!vars \/ I!Ledger!Next
      OBVIOUS
    <2>1. [P!Next]_(P!vars)
      BY OnePartMoves, SameIdeas DEF ideaVars, P!vars
    <2>2. P!Ledger!Next \/ UNCHANGED <<now, ideas, P!Records>>
      BY <2>1, P!StepRefines
    <2> QED BY <2>2, SameIdeas DEF I!Ledger!vars
  <1> QED BY <1>1, <1>2, <1>3, PTL DEF AllSpec, ImplementsLedger

-----------------------------------------------------------------------------
(* Documents                                                               *)

By(c, v) == history[v].by = c

\* The version an update was proposed for is the canonical one.
ForCanonical(c) == changes[c].kind = "update" /\ history[changes[c].expected].key = "canonical"

\* What is at the destination of a change is not what an earlier attempt of it left.
NotItsOwn(c) ==
    LET old == bucket[changes[c].to]["canonical"] IN old > 0 => ~By(c, old)

\* An id writes only once it was proposed, and later versions than the one it expects; an update
\* goes where it was read, and what it wrote, when that one is canonical, is one version, under
\* which the expected one never comes back.
ChangeIsRight(c) ==
    /\ changes[c].state = "none" => \A v \in 1..Len(history) : ~By(c, v)
    /\ changes[c].expected \in 0..Len(history)
    /\ \A v \in 1..Len(history) : By(c, v) => v > changes[c].expected
    /\ changes[c].kind = "update" =>
           changes[c].to = changes[c].path /\ changes[c].expected > 0
    /\ ForCanonical(c) =>
           /\ \A v \in 1..Len(history) : By(c, v) =>
                  \/ bucket[changes[c].path]["canonical"] = 0
                  \/ bucket[changes[c].path]["canonical"] >= v
           /\ \A u, v \in 1..Len(history) : By(c, u) /\ By(c, v) => u = v

\* About to write, nothing of its own is replaced, and an update of a canonical version has
\* written none; only a move looks at its destination, and a
\* deletion never reads again; about to
\* create, no legacy document is there.
WorkerIsRight(w) ==
    /\ workers[w].phase = "writing" => NotItsOwn(workers[w].id)
    /\ workers[w].phase = "writing" /\ ForCanonical(workers[w].id) =>
           \A v \in 1..Len(history) : ~By(workers[w].id, v)
    /\ workers[w].phase = "checking" => changes[workers[w].id].kind = "move"
    /\ workers[w].phase = "again" => changes[workers[w].id].kind # "delete"
    /\ workers[w].phase = "creating" => bucket[workers[w].path]["legacy"] = 0

\* Keys hold versions written to them.
KeysAreRight ==
    \A p \in Paths, k \in D!Keys : bucket[p][k] > 0 => history[bucket[p][k]].key = k

DocInv ==
    /\ D!TypeOK /\ D!OneAtATime /\ KeysAreRight
    /\ \A c \in Changes : ChangeIsRight(c)
    /\ \A w \in Workers : WorkerIsRight(w)

LEMMA DocConstants ==
    ASSUME DocumentsSensible
    PROVE  /\ D!NoChange \in D!Change /\ D!Idle \in D!Worker
           /\ D!NoChange.state = "none" /\ D!NoChange.kind = "delete" /\ D!NoChange.expected = 0
           /\ D!NoChange.path \in Paths /\ D!NoChange.content \in Contents
           /\ D!Idle.phase = "idle"
  <1>1. /\ (CHOOSE p \in Paths : TRUE) \in Paths /\ (CHOOSE x \in Contents : TRUE) \in Contents
        /\ (CHOOSE c \in Changes : TRUE) \in Changes
    BY DEF DocumentsSensible
  <1> QED BY <1>1 DEF D!NoChange, D!Idle, D!Nothing, D!Change, D!Worker, D!Operations,
                      D!Outcomes, D!EffectPhases, D!Keys

LEMMA DocInit ==
    ASSUME DocumentsSensible, D!Init
    PROVE  DocInv
  <1> DEFINE p == D!NoChange.path
  <1>1. PICK keys \in {<<"canonical">>, <<"legacy">>, <<"legacy", "canonical">>} :
            /\ history = [v \in DOMAIN keys |-> [path |-> p, key |-> keys[v],
                              content |-> D!NoChange.content, by |-> "owner"]]
            /\ bucket = [q \in Paths |-> [k \in D!Keys |->
                   IF q = p /\ \E v \in DOMAIN keys : keys[v] = k
                   THEN CHOOSE v \in DOMAIN keys : keys[v] = k ELSE 0]]
    BY DEF D!Init
  <1>2. /\ changes = [c \in Changes |-> D!NoChange] /\ workers = [w \in Workers |-> D!Idle]
    BY DEF D!Init
  <1>3. \E n \in {1, 2} : DOMAIN keys = 1..n /\ Len(keys) = n /\ \A v \in 1..n : keys[v] \in D!Keys
    <2>1. CASE keys = <<"canonical">>
      BY <2>1 DEF D!Keys
    <2>2. CASE keys = <<"legacy">>
      BY <2>2 DEF D!Keys
    <2>3. CASE keys = <<"legacy", "canonical">>
      BY <2>3 DEF D!Keys
    <2> QED BY <2>1, <2>2, <2>3
  <1>4. PICK n \in {1, 2} : DOMAIN keys = 1..n /\ \A v \in 1..n : keys[v] \in D!Keys
    BY <1>3
  <1>5. /\ history \in Seq(D!Version) /\ Len(history) = n
        /\ \A v \in 1..n : history[v].key = keys[v] /\ history[v].by = "owner"
    BY <1>1, <1>4, DocConstants DEF D!Version
  <1>6. ASSUME NEW q \in Paths, NEW k \in D!Keys
        PROVE  bucket[q][k] \in 0..n /\ (bucket[q][k] > 0 => keys[bucket[q][k]] = k)
    <2>1. bucket[q][k] = IF q = p /\ \E v \in 1..n : keys[v] = k
                         THEN CHOOSE v \in 1..n : keys[v] = k ELSE 0
      BY <1>1, <1>4
    <2>2. CASE \E v \in 1..n : keys[v] = k
      <3>1. /\ (CHOOSE v \in 1..n : keys[v] = k) \in 1..n
            /\ keys[CHOOSE v \in 1..n : keys[v] = k] = k
        BY <2>2
      <3> QED BY <2>1, <3>1
    <2>3. CASE ~ \E v \in 1..n : keys[v] = k
      BY <2>1, <2>3
    <2> QED BY <2>2, <2>3
  <1>7. bucket \in [Paths -> [D!Keys -> 0..n]]
    <2>1. /\ bucket = [q \in Paths |-> bucket[q]]
          /\ \A q \in Paths : bucket[q] = [k \in D!Keys |-> bucket[q][k]]
      BY <1>1
    <2>2. \A q \in Paths : bucket[q] \in [D!Keys -> 0..n]
      BY <1>6, <2>1
    <2> QED BY <2>1, <2>2
  <1>8. Len(history) <= MaxVersions
    BY <1>5 DEF DocumentsSensible
  <1>9. D!TypeOK
    BY <1>2, <1>5, <1>7, <1>8, DocConstants DEF D!TypeOK, DocumentsSensible
  <1>10. D!OneAtATime
    BY <1>2, DocConstants DEF D!OneAtATime, D!EffectPhases
  <1>11. KeysAreRight
    BY <1>5, <1>6 DEF KeysAreRight
  <1>12. ASSUME NEW c \in Changes
         PROVE  ChangeIsRight(c)
    <2>1. \A v \in 1..Len(history) : ~By(c, v)
      BY <1>5 DEF By, DocumentsSensible
    <2>2. changes[c].kind = "delete" /\ changes[c].expected = 0 /\ Len(history) \in Nat
      BY <1>2, <1>5, DocConstants
    <2> QED BY <2>1, <2>2 DEF ChangeIsRight, ForCanonical
  <1>13. ASSUME NEW w \in Workers
         PROVE  WorkerIsRight(w)
    BY <1>2, DocConstants DEF WorkerIsRight
  <1> QED BY <1>9, <1>10, <1>11, <1>12, <1>13 DEF DocInv

\* A step of the requests and confirmations alone.
LEMMA DocQuiet ==
    ASSUME DocInv, UNCHANGED <<bucket, history>>,
           changes' \in [Changes -> D!Change], workers' \in [Workers -> D!Worker],
           D!OneAtATime', \A c \in Changes : ChangeIsRight(c)', \A w \in Workers : WorkerIsRight(w)'
    PROVE  DocInv'
  BY DEF DocInv, D!TypeOK, KeysAreRight

LEMMA SameChanges ==
    ASSUME DocInv, UNCHANGED <<bucket, history, changes>>
    PROVE  \A c \in Changes : ChangeIsRight(c)'
  BY DEF DocInv, ChangeIsRight, ForCanonical, By

\* A request that goes on, without confirmation or to another phase of the same one.
LEMMA DocWorker ==
    ASSUME DocumentsSensible, DocInv, UNCHANGED <<bucket, history, changes>>,
           NEW w \in Workers, NEW next \in D!Worker,
           workers' = [workers EXCEPT ![w] = next],
           \/ next.phase \notin D!EffectPhases
           \/ workers[w].phase \in D!EffectPhases /\ next.id = workers[w].id
           \/ D!Decidable(next.id),
           next.phase = "writing" => workers[w].phase \in D!EffectPhases /\
               NotItsOwn(next.id) /\
               (ForCanonical(next.id) => \A v \in 1..Len(history) : ~By(next.id, v)),
           next.phase = "checking" => changes[next.id].kind = "move",
           next.phase = "again" => changes[next.id].kind # "delete",
           next.phase = "creating" => bucket[next.path]["legacy"] = 0
    PROVE  DocInv'
  <1>1. /\ workers' \in [Workers -> D!Worker]
        /\ \A u \in Workers : workers'[u] = IF u = w THEN next ELSE workers[u]
    BY DEF DocInv, D!TypeOK
  <1>2. D!OneAtATime'
    BY <1>1 DEF DocInv, D!OneAtATime, D!Decidable, D!RowLocked
  <1>3. \A u \in Workers : WorkerIsRight(u)'
    BY <1>1 DEF DocInv, WorkerIsRight, NotItsOwn, ForCanonical, By
  <1>4. changes' \in [Changes -> D!Change]
    BY DEF DocInv, D!TypeOK
  <1> QED BY <1>1, <1>2, <1>3, <1>4, SameChanges, DocQuiet

\* A confirmation that nobody carries out changes.
LEMMA DocRow ==
    ASSUME DocInv, UNCHANGED <<bucket, history, workers>>,
           NEW c \in Changes, NEW row \in D!Change, changes' = [changes EXCEPT ![c] = row],
           ~D!RowLocked(c), ChangeIsRight(c)'
    PROVE  DocInv'
  <1>1. /\ changes' \in [Changes -> D!Change]
        /\ \A d \in Changes : changes'[d] = IF d = c THEN row ELSE changes[d]
        /\ workers' \in [Workers -> D!Worker]
    BY DEF DocInv, D!TypeOK
  <1>2. D!OneAtATime'
    BY <1>1 DEF DocInv, D!OneAtATime, D!RowLocked
  <1>3. \A d \in Changes : ChangeIsRight(d)'
    BY <1>1 DEF DocInv, ChangeIsRight, ForCanonical, By
  <1>4. ASSUME NEW w \in Workers
        PROVE  WorkerIsRight(w)'
    <2>1. WorkerIsRight(w) /\ workers[w] \in D!Worker
      BY DEF DocInv, D!TypeOK
    <2>2. workers[w].phase \in {"writing", "checking", "again"} => workers[w].id # c
      BY DEF D!RowLocked, D!EffectPhases
    <2>3. workers[w].id \in Changes
      BY <2>1 DEF D!Worker
    <2> QED BY <1>1, <2>1, <2>2, <2>3 DEF WorkerIsRight, NotItsOwn, ForCanonical, By
  <1> QED BY <1>1, <1>2, <1>3, <1>4, DocQuiet

\* What writing a canonical object does.
LEMMA WriteFacts ==
    ASSUME DocumentsSensible, DocInv, NEW p \in Paths, NEW x \in Contents, NEW by \in Changes \cup {"owner"},
           D!Write(p, x, by)
    PROVE  /\ history' \in Seq(D!Version) /\ Len(history') = Len(history) + 1
           /\ Len(history') <= MaxVersions
           /\ \A v \in 1..Len(history) : history'[v] = history[v]
           /\ history'[Len(history) + 1].by = by
           /\ history'[Len(history) + 1].key = "canonical"
           /\ bucket' \in [Paths -> [D!Keys -> 0..Len(history')]]
           /\ \A q \in Paths, k \in D!Keys : bucket'[q][k] =
                  IF q = p /\ k = "canonical" THEN Len(history) + 1 ELSE bucket[q][k]
           /\ KeysAreRight'
  <1> DEFINE new == [path |-> p, key |-> "canonical", content |-> x, by |-> by]
             n   == Len(history)
  <1>1. /\ history \in Seq(D!Version) /\ n \in Nat /\ n <= MaxVersions
        /\ bucket \in [Paths -> [D!Keys -> 0..n]]
    BY DEF DocInv, D!TypeOK
  <1>2. /\ n < MaxVersions /\ history' = Append(history, new)
        /\ bucket' = [bucket EXCEPT ![p]["canonical"] = n + 1]
    BY DEF D!Write
  <1>3. new \in D!Version /\ new.by = by /\ new.key = "canonical"
    BY DEF D!Version, D!Keys
  <1> HIDE DEF new
  <1>4. /\ history' \in Seq(D!Version) /\ Len(history') = n + 1
        /\ \A v \in 1..n : history'[v] = history[v]
        /\ history'[n + 1] = new
    BY <1>1, <1>2, <1>3
  <1>5. \A q \in Paths, k \in D!Keys : bucket'[q][k] =
            IF q = p /\ k = "canonical" THEN n + 1 ELSE bucket[q][k]
    BY <1>1, <1>2 DEF D!Keys
  <1>6. bucket' \in [Paths -> [D!Keys -> 0..n + 1]]
    <2> DEFINE f == bucket[p]
    <2>0. n + 1 \in 0..n + 1
      BY <1>1
    <2>1. f \in [D!Keys -> 0..n + 1]
      BY <1>1
    <2> HIDE DEF f
    <2>2. [f EXCEPT !["canonical"] = n + 1] \in [D!Keys -> 0..n + 1]
      BY <2>0, <2>1
    <2>3. bucket' = [bucket EXCEPT ![p] = [bucket[p] EXCEPT !["canonical"] = n + 1]]
      BY <1>2
    <2>4. \A q \in Paths : bucket[q] \in [D!Keys -> 0..n + 1]
      BY <1>1
    <2> QED BY <1>1, <2>2, <2>3, <2>4 DEF f
  <1>7. Len(history') <= MaxVersions
    BY <1>1, <1>2, <1>4 DEF DocumentsSensible
  <1>8. KeysAreRight'
    <2> SUFFICES ASSUME NEW q \in Paths, NEW k \in D!Keys, bucket'[q][k] > 0
                 PROVE  history'[bucket'[q][k]].key = k
      BY DEF KeysAreRight
    <2>1. CASE q = p /\ k = "canonical"
      BY <1>3, <1>4, <1>5, <2>1
    <2>2. CASE ~(q = p /\ k = "canonical")
      <3>1. bucket'[q][k] = bucket[q][k] /\ bucket[q][k] \in 1..n
        BY <1>1, <1>5, <2>2
      <3> QED BY <1>4, <3>1 DEF DocInv, KeysAreRight
    <2> QED BY <2>1, <2>2
  <1> QED BY <1>3, <1>4, <1>5, <1>6, <1>7, <1>8

\* A version by somebody else leaves true what is said of a change.
LEMMA WriteByOther ==
    ASSUME DocumentsSensible, DocInv, NEW p \in Paths, NEW x \in Contents, NEW by \in Changes \cup {"owner"},
           D!Write(p, x, by), UNCHANGED changes, NEW c \in Changes, c # by
    PROVE  /\ ChangeIsRight(c)'
           /\ ForCanonical(c)' <=> ForCanonical(c)
           /\ (\A v \in 1..Len(history) : ~By(c, v)) => (\A v \in 1..Len(history') : ~By(c, v)')
           /\ NotItsOwn(c) => NotItsOwn(c)'
  <1> DEFINE n == Len(history)
  <1>1. /\ n \in Nat /\ Len(history') = n + 1
        /\ \A v \in 1..n : history'[v] = history[v]
        /\ history'[n + 1].by = by
        /\ \A q \in Paths : bucket'[q]["canonical"] = IF q = p THEN n + 1 ELSE bucket[q]["canonical"]
        /\ \A q \in Paths : bucket[q]["canonical"] \in 0..n
    <2>1. n \in Nat /\ "canonical" \in D!Keys /\ \A q \in Paths : bucket[q]["canonical"] \in 0..n
      BY DEF DocInv, D!TypeOK, D!Keys
    <2> QED BY <2>1, WriteFacts
  <1>2. /\ ChangeIsRight(c) /\ changes[c].path \in Paths /\ changes[c].to \in Paths
        /\ changes[c].expected \in Nat
    BY DEF DocInv, D!TypeOK, D!Change
  <1>3. \A v \in 1..n + 1 : By(c, v)' => v \in 1..n /\ By(c, v)
    BY <1>1 DEF By
  <1>4. ForCanonical(c)' <=> ForCanonical(c)
    BY <1>1, <1>2 DEF ChangeIsRight, ForCanonical
  <1>5. ChangeIsRight(c)'
    <2>1. changes[c].state = "none" => \A v \in 1..n + 1 : ~By(c, v)'
      BY <1>2, <1>3 DEF ChangeIsRight
    <2>2. /\ changes[c].expected \in 0..n + 1
          /\ changes[c].kind = "update" =>
                 changes[c].to = changes[c].path /\ changes[c].expected > 0
          /\ \A v \in 1..n + 1 : By(c, v)' => v > changes[c].expected
      BY <1>1, <1>2, <1>3 DEF ChangeIsRight
    <2>3. ASSUME ForCanonical(c), NEW v \in 1..n + 1, By(c, v)'
          PROVE  \/ bucket'[changes[c].path]["canonical"] = 0
                 \/ bucket'[changes[c].path]["canonical"] >= v
      BY <1>1, <1>2, <1>3, <2>3 DEF ChangeIsRight
    <2>4. ASSUME ForCanonical(c), NEW u \in 1..n + 1, NEW v \in 1..n + 1, By(c, u)', By(c, v)'
          PROVE  u = v
      BY <1>2, <1>3, <2>4 DEF ChangeIsRight
    <2> QED BY <1>1, <1>4, <2>1, <2>2, <2>3, <2>4 DEF ChangeIsRight
  <1>6. ASSUME NotItsOwn(c)
        PROVE  NotItsOwn(c)'
    <2> SUFFICES ASSUME bucket'[changes[c].to]["canonical"] > 0,
                        history'[bucket'[changes[c].to]["canonical"]].by = c
                 PROVE  FALSE
      BY DEF NotItsOwn, By
    <2> QED BY <1>1, <1>2, <1>6 DEF NotItsOwn, By
  <1> QED BY <1>1, <1>3, <1>4, <1>5, <1>6

\* The owner writes without a confirmation.
LEMMA DocOwnerWrites ==
    ASSUME DocumentsSensible, DocInv, NEW p \in Paths, NEW x \in Contents,
           D!Write(p, x, "owner"), UNCHANGED changes,
           workers' \in [Workers -> D!Worker],
           \A w \in Workers : workers'[w] = workers[w] \/ workers'[w] = D!Idle
    PROVE  DocInv'
  <1>1. D!TypeOK'
    BY WriteFacts DEF DocInv, D!TypeOK
  <1>2. D!OneAtATime'
    BY DocConstants DEF DocInv, D!OneAtATime, D!EffectPhases
  <1>3. \A c \in Changes : ChangeIsRight(c)'
    BY WriteByOther DEF DocumentsSensible
  <1>4. ASSUME NEW w \in Workers
        PROVE  WorkerIsRight(w)'
    <2>1. CASE workers'[w] = D!Idle
      BY <2>1, DocConstants DEF WorkerIsRight
    <2>2. CASE workers'[w] = workers[w]
      <3>1. workers[w].id \in Changes /\ workers[w].path \in Paths /\ WorkerIsRight(w)
        BY DEF DocInv, D!TypeOK, D!Worker
      <3>2. bucket'[workers[w].path]["legacy"] = bucket[workers[w].path]["legacy"]
        BY <3>1, WriteFacts DEF D!Keys
      <3>3. PICK c \in Changes : c = workers[w].id
        BY <3>1
      <3>4. /\ ForCanonical(c)' <=> ForCanonical(c)
            /\ (\A v \in 1..Len(history) : ~By(c, v)) => (\A v \in 1..Len(history') : ~By(c, v)')
            /\ NotItsOwn(c) => NotItsOwn(c)'
        BY WriteByOther DEF DocumentsSensible
      <3> QED BY <2>2, <3>1, <3>2, <3>3, <3>4 DEF WorkerIsRight, NotItsOwn, ForCanonical, By
    <2> QED BY <2>1, <2>2
  <1> QED BY <1>1, <1>2, <1>3, <1>4, WriteFacts DEF DocInv

\* The document read is the version expected: of a canonical one nothing was written yet.
LEMMA ExpectedMeansFresh ==
    ASSUME DocInv, NEW w \in Workers, workers[w].phase = "locked",
           ForCanonical(workers[w].id), D!IsAsExpected(w)
    PROVE  \A v \in 1..Len(history) : ~By(workers[w].id, v)
  <1> DEFINE c == workers[w].id
             p == changes[c].path
  <1>1. /\ c \in Changes /\ p \in Paths /\ ChangeIsRight(c)
        /\ D!Current(p) = changes[c].expected /\ changes[c].kind = "update"
    BY DEF DocInv, D!TypeOK, D!Worker, D!Change, D!IsAsExpected, D!Proposal, ForCanonical
  <1>2. /\ changes[c].expected \in 1..Len(history) /\ history[changes[c].expected].key = "canonical"
    <2>1. Len(history) \in Nat
      BY DEF DocInv, D!TypeOK
    <2> QED BY <1>1, <2>1 DEF ChangeIsRight, ForCanonical
  <1>3. /\ bucket[p]["canonical"] \in Nat /\ bucket[p]["legacy"] \in Nat
        /\ bucket[p]["legacy"] > 0 => history[bucket[p]["legacy"]].key = "legacy"
    BY <1>1 DEF DocInv, D!TypeOK, D!Keys, KeysAreRight
  <1>4. bucket[p]["canonical"] = changes[c].expected
    BY <1>1, <1>2, <1>3 DEF D!Current
  <1> HIDE DEF c, p
  <1>5. \A v \in 1..Len(history) : ~By(c, v)
    BY <1>1, <1>2, <1>4 DEF ChangeIsRight, c, p
  <1> QED BY <1>5 DEF c

\* An update that finds the version expected replaces nothing of its own.
LEMMA ExpectedIsNotItsOwn ==
    ASSUME DocInv, NEW w \in Workers, changes[workers[w].id].kind = "update", D!IsAsExpected(w)
    PROVE  NotItsOwn(workers[w].id)
  <1>1. PICK c \in Changes : c = workers[w].id
    BY DEF DocInv, D!TypeOK, D!Worker
  <1>2. /\ ChangeIsRight(c) /\ changes[c].path \in Paths /\ changes[c].kind = "update"
        /\ D!Current(changes[c].path) = changes[c].expected
    BY <1>1 DEF DocInv, D!TypeOK, D!Change, D!IsAsExpected, D!Proposal
  <1>3. bucket[changes[c].path]["canonical"] \in 0..Len(history) /\ Len(history) \in Nat
    BY <1>2 DEF DocInv, D!TypeOK, D!Keys
  <1>4. changes[c].to = changes[c].path /\ changes[c].expected \in Nat
    BY <1>2, <1>3 DEF ChangeIsRight
  <1>5. bucket[changes[c].path]["canonical"] > 0 =>
            bucket[changes[c].path]["canonical"] = changes[c].expected
    BY <1>2 DEF D!Current
  <1>6. NotItsOwn(c)
    BY <1>2, <1>3, <1>4, <1>5 DEF NotItsOwn, ChangeIsRight
  <1> QED BY <1>1, <1>6

LEMMA DocReads ==
    ASSUME DocumentsSensible, DocInv, NEW w \in Workers,
           \/ D!ReadSource(w) \/ D!ReadAgain(w) \/ D!ReadDestination(w)
    PROVE  DocInv'
  <1> DEFINE c == workers[w].id
  <1>1. /\ workers[w] \in D!Worker /\ c \in Changes /\ changes[c] \in D!Change
        /\ workers[w].content \in Contents
        /\ changes[c].path \in Paths /\ changes[c].to \in Paths /\ changes[c].content \in Contents
        /\ changes[c].kind \in D!Operations
    BY DEF DocInv, D!TypeOK, D!Worker, D!Change
  <1>2. \A p \in Paths : D!Current(p) > 0 => history[D!Current(p)].content \in Contents
    <2> SUFFICES ASSUME NEW p \in Paths, D!Current(p) > 0
                 PROVE  history[D!Current(p)].content \in Contents
      OBVIOUS
    <2>1. D!Current(p) \in 1..Len(history)
      BY DEF DocInv, D!TypeOK, D!Keys, D!Current
    <2>2. history[D!Current(p)] \in D!Version
      BY <2>1 DEF DocInv, D!TypeOK
    <2> QED BY <2>2 DEF D!Version
  <1>3. UNCHANGED <<bucket, history, changes>> /\ workers[w].phase \in D!EffectPhases
    BY DEF D!ReadSource, D!ReadAgain, D!ReadDestination, D!EffectPhases
  <1> DEFINE Goes(next) ==
          /\ next \in D!Worker /\ next.id = c /\ next.phase \in D!EffectPhases
          /\ next.phase = "writing" /\ changes[c].kind = "update" =>
                 workers[w].phase = "locked" /\ D!IsAsExpected(w)
          /\ next.phase = "writing" /\ changes[c].kind # "update" => D!Current(changes[c].to) = 0
          /\ next.phase = "checking" => changes[c].kind = "move"
          /\ next.phase = "again" => changes[c].kind # "delete"
          /\ workers' = [workers EXCEPT ![w] = next]
  <1>4. ASSUME NEW o \in D!Outcomes, D!Decides(w, o)
        PROVE  \E next : Goes(next)
    <2> DEFINE next == [workers[w] EXCEPT !.phase = "recording", !.outcome = o]
    <2>1. next \in D!Worker /\ next.id = c /\ next.phase = "recording"
      BY <1>1 DEF D!Worker, D!EffectPhases
    <2>2. workers' = [workers EXCEPT ![w] = next]
      BY <1>4 DEF D!Decides, D!Goes
    <2> HIDE DEF next
    <2>3. Goes(next)
      BY <2>1, <2>2 DEF D!EffectPhases
    <2> QED BY <2>3
  <1>5. ASSUME NEW phase \in {"again", "writing"}, phase = "writing" => changes[c].kind = "move",
               phase = "writing" => D!Current(changes[c].to) = 0,
               phase = "again" => changes[c].kind # "delete",
               D!Goes(w, [workers[w] EXCEPT !.phase = phase])
        PROVE  \E next : Goes(next)
    <2> DEFINE next == [workers[w] EXCEPT !.phase = phase]
    <2>1. next \in D!Worker /\ next.id = c /\ next.phase = phase
      BY <1>1 DEF D!Worker, D!EffectPhases
    <2>2. workers' = [workers EXCEPT ![w] = next]
      BY <1>5 DEF D!Goes
    <2> HIDE DEF next
    <2>3. Goes(next)
      BY <1>5, <2>1, <2>2 DEF D!EffectPhases
    <2> QED BY <2>3
  <1>6. ASSUME workers[w].phase = "locked", D!Current(changes[c].path) > 0,
               D!IsAsExpected(w), D!Goes(w, D!Begun(w))
        PROVE  \E next : Goes(next)
    <2> DEFINE kind  == D!Proposal(w).kind
               phase == CASE kind = "update" -> "writing"
                          [] kind = "move" -> "checking"
                          [] kind = "delete" -> "removing"
               left  == IF kind = "update" THEN {} ELSE D!Keys
               text  == IF kind = "move" THEN history[D!Current(D!Proposal(w).path)].content
                                         ELSE D!Proposal(w).content
               next  == [workers[w] EXCEPT !.phase = phase, !.left = left, !.content = text]
    <2>1. workers' = [workers EXCEPT ![w] = next]
      BY <1>6 DEF D!Goes, D!Begun
    <2>2. kind \in {"update", "move", "delete"} /\ kind = changes[c].kind
      BY <1>1 DEF D!Proposal, D!Operations
    <2>3. text \in Contents /\ left \in SUBSET D!Keys
      BY <1>1, <1>2, <1>6 DEF D!Proposal
    <2>4. /\ kind = "update" => phase = "writing"
          /\ kind = "move" => phase = "checking"
          /\ kind = "delete" => phase = "removing"
      BY <2>2
    <2> HIDE DEF kind, left, text, phase
    <2>5. phase \in D!EffectPhases
      BY <2>2, <2>4 DEF D!EffectPhases
    <2>6. next \in D!Worker /\ next.id = c /\ next.phase = phase
      BY <1>1, <2>3, <2>5 DEF D!Worker
    <2> HIDE DEF next
    <2>7. Goes(next)
      BY <1>6, <2>1, <2>2, <2>4, <2>5, <2>6
    <2> QED BY <2>7
  <1> HIDE DEF Goes
  <1>7. ASSUME D!ReadSource(w)
        PROVE  \E next : Goes(next)
    <2>1. \/ \E o \in D!Outcomes : D!Decides(w, o)
          \/ changes[c].kind # "delete" /\ D!Goes(w, [workers[w] EXCEPT !.phase = "again"])
          \/ /\ workers[w].phase = "locked" /\ D!Current(changes[c].path) > 0
             /\ D!IsAsExpected(w) /\ D!Goes(w, D!Begun(w))
      BY <1>7 DEF D!ReadSource, D!Proposal, D!Outcomes
    <2> QED BY <1>4, <1>5, <1>6, <2>1
  <1>8. ASSUME D!ReadAgain(w)
        PROVE  \E next : Goes(next)
    <2>1. \E o \in D!Outcomes : D!Decides(w, o)
      <3>1. CASE changes[c].kind = "update"
        BY <1>8, <3>1 DEF D!ReadAgain, D!Proposal, D!Outcomes
      <3>2. CASE changes[c].kind = "move"
        BY <1>8, <3>2 DEF D!ReadAgain, D!Proposal, D!Outcomes
      <3>3. changes[c].kind # "delete"
        BY <1>8 DEF D!ReadAgain, DocInv, WorkerIsRight
      <3> QED BY <1>1, <3>1, <3>2, <3>3 DEF D!Operations
    <2> QED BY <1>4, <2>1
  <1>9. ASSUME D!ReadDestination(w)
        PROVE  \E next : Goes(next)
    <2>1. \/ D!Decides(w, "destination_conflict")
          \/ /\ D!Goes(w, [workers[w] EXCEPT !.phase = "writing"])
             /\ D!Current(changes[c].to) = 0
      <3>1. D!Current(changes[c].to) \in Nat
        BY <1>1 DEF DocInv, D!TypeOK, D!Keys, D!Current
      <3> QED BY <1>9, <3>1 DEF D!ReadDestination, D!Occupied, D!Proposal
    <2>2. changes[c].kind = "move"
      BY <1>9 DEF D!ReadDestination, DocInv, WorkerIsRight
    <2> QED BY <1>4, <1>5, <2>1, <2>2 DEF D!Outcomes
  <1>10. PICK next : Goes(next)
    BY <1>7, <1>8, <1>9
  <1>11. next.phase = "writing" /\ ForCanonical(c) => \A v \in 1..Len(history) : ~By(c, v)
    BY <1>10, ExpectedMeansFresh DEF ForCanonical, Goes
  <1>12. next.phase # "creating"
    BY <1>10 DEF D!EffectPhases, Goes
  <1>13. next.phase = "writing" => NotItsOwn(c)
    <2>1. CASE changes[c].kind = "update"
      BY <1>10, <2>1, ExpectedIsNotItsOwn DEF Goes
    <2>2. CASE next.phase = "writing" /\ changes[c].kind # "update"
      <3>1. D!Current(changes[c].to) = 0
        BY <1>10, <2>2 DEF Goes
      <3>2. bucket[changes[c].to]["canonical"] = 0
        BY <1>1, <3>1 DEF DocInv, D!TypeOK, D!Keys, D!Current
      <3> QED BY <3>2 DEF NotItsOwn
    <2> QED BY <2>1, <2>2
  <1> QED BY <1>3, <1>10, <1>11, <1>12, <1>13, DocWorker DEF Goes

LEMMA DocPut ==
    ASSUME DocumentsSensible, DocInv, NEW w \in Workers, D!Put(w)
    PROVE  DocInv'
  <1>0. PICK c \in Changes : c = workers[w].id
    BY DEF DocInv, D!TypeOK, D!Worker
  <1> DEFINE n == Len(history)
             p == changes[c].to
  <1>1. /\ workers[w] \in D!Worker /\ c \in Changes /\ c # "owner" /\ p \in Paths
        /\ workers[w].content \in Contents /\ ChangeIsRight(c) /\ WorkerIsRight(w)
        /\ changes[c] \in D!Change
    BY <1>0 DEF DocInv, D!TypeOK, D!Worker, D!Change, DocumentsSensible
  <1>2. /\ workers[w].phase = "writing" /\ UNCHANGED changes
        /\ D!Write(p, workers[w].content, c)
    BY <1>0 DEF D!Put, D!Proposal
  <1>3. PICK next \in D!Worker :
            /\ workers' = [workers EXCEPT ![w] = next]
            /\ next.phase \in {"recording", "removing"} /\ next.id = c
    <2>1. CASE D!Decides(w, "updated")
      <3> DEFINE next == [workers[w] EXCEPT !.phase = "recording", !.outcome = "updated"]
      <3>1. next \in D!Worker /\ next.phase = "recording" /\ next.id = c
        BY <1>0, <1>1 DEF D!Worker, D!EffectPhases, D!Outcomes
      <3>2. workers' = [workers EXCEPT ![w] = next]
        BY <2>1 DEF D!Decides, D!Goes
      <3> HIDE DEF next
      <3> QED BY <3>1, <3>2
    <2>2. CASE D!Goes(w, [workers[w] EXCEPT !.phase = "removing"])
      <3> DEFINE next == [workers[w] EXCEPT !.phase = "removing"]
      <3>1. next \in D!Worker /\ next.phase = "removing" /\ next.id = c
        BY <1>0, <1>1 DEF D!Worker, D!EffectPhases
      <3>2. workers' = [workers EXCEPT ![w] = next]
        BY <2>2 DEF D!Goes
      <3> HIDE DEF next
      <3> QED BY <3>1, <3>2
    <2> QED BY <2>1, <2>2 DEF D!Put
  <1>4. \A u \in Workers : workers'[u] = IF u = w THEN next ELSE workers[u]
    BY <1>3 DEF DocInv, D!TypeOK
  <1>5. /\ Len(history') = n + 1 /\ n \in Nat
        /\ \A v \in 1..n : history'[v] = history[v]
        /\ history'[n + 1].by = c
        /\ \A q \in Paths, k \in D!Keys : bucket'[q][k] =
               IF q = p /\ k = "canonical" THEN n + 1 ELSE bucket[q][k]
    <2>1. n \in Nat
      BY DEF DocInv, D!TypeOK
    <2> QED BY <1>1, <1>2, <2>1, WriteFacts
  <1>6. changes[c].state = "pending"
    BY <1>0, <1>2 DEF DocInv, D!OneAtATime, D!EffectPhases
  <1>7. ChangeIsRight(c)'
    <2>1. /\ changes[c].expected \in 0..n
          /\ changes[c].kind = "update" =>
                 /\ changes[c].to = changes[c].path /\ changes[c].expected \in 1..n
                 /\ history'[changes[c].expected] = history[changes[c].expected]
      BY <1>1, <1>5 DEF ChangeIsRight
    <2>2. ForCanonical(c)' => ForCanonical(c)
      BY <1>2, <2>1 DEF ForCanonical
    <2>3. ASSUME ForCanonical(c), NEW v \in 1..n + 1, By(c, v)'
          PROVE  v = n + 1
      <3>1. \A u \in 1..n : ~By(c, u)
        BY <1>0, <1>1, <1>2, <2>3 DEF WorkerIsRight
      <3> QED BY <1>5, <2>3, <3>1 DEF By
    <2>4. ForCanonical(c) => bucket'[changes[c].path]["canonical"] = n + 1
      BY <1>1, <1>5, <2>1 DEF ForCanonical, D!Keys
    <2>5. \A v \in 1..n + 1 : By(c, v)' => v > changes[c].expected
      BY <1>1, <1>5, <2>1 DEF ChangeIsRight, By
    <2>6. changes[c].expected \in 0..n + 1
      BY <1>5, <2>1
    <2> HIDE DEF n
    <2> QED BY <1>2, <1>5, <1>6, <2>1, <2>2, <2>3, <2>4, <2>5, <2>6 DEF ChangeIsRight
  <1>8. \A d \in Changes : ChangeIsRight(d)'
    BY <1>1, <1>2, <1>7, WriteByOther
  <1>9. D!OneAtATime'
    BY <1>0, <1>2, <1>3, <1>4 DEF DocInv, D!OneAtATime, D!EffectPhases
  <1>10. ASSUME NEW u \in Workers
         PROVE  WorkerIsRight(u)'
    <2>1. CASE u = w
      BY <1>3, <1>4, <2>1 DEF WorkerIsRight
    <2>2. CASE u # w
      <3>0. PICK d \in Changes : d = workers[u].id
        BY DEF DocInv, D!TypeOK, D!Worker
      <3>1. /\ workers'[u] = workers[u] /\ workers[u].path \in Paths
            /\ WorkerIsRight(u)
        BY <1>4, <2>2 DEF DocInv, D!TypeOK, D!Worker
      <3>2. workers[u].phase = "writing" => d # c
        BY <1>0, <1>2, <2>2, <3>0 DEF DocInv, D!OneAtATime, D!EffectPhases
      <3>3. bucket'[workers[u].path]["legacy"] = bucket[workers[u].path]["legacy"]
        BY <1>5, <3>1 DEF D!Keys
      <3>4. d # c => /\ ForCanonical(d)' <=> ForCanonical(d)
                     /\ (\A v \in 1..n : ~By(d, v)) => (\A v \in 1..Len(history') : ~By(d, v)')
                     /\ NotItsOwn(d) => NotItsOwn(d)'
        BY <1>1, <1>2, WriteByOther
      <3> QED BY <1>2, <3>0, <3>1, <3>2, <3>3, <3>4 DEF WorkerIsRight, NotItsOwn, ForCanonical, By
    <2> QED BY <2>1, <2>2
  <1>11. D!TypeOK'
    <2>1. workers' \in [Workers -> D!Worker]
      BY <1>3 DEF DocInv, D!TypeOK
    <2> QED BY <1>1, <1>2, <2>1, WriteFacts DEF DocInv, D!TypeOK
  <1> QED BY <1>1, <1>2, <1>8, <1>9, <1>10, <1>11, WriteFacts DEF DocInv

LEMMA DocRemove ==
    ASSUME DocumentsSensible, DocInv, NEW w \in Workers, NEW key \in D!Keys, D!Remove(w, key)
    PROVE  DocInv'
  <1> DEFINE c == workers[w].id
             p == changes[c].path
  <1>1. /\ workers[w] \in D!Worker /\ c \in Changes /\ p \in Paths
        /\ changes[c] \in D!Change /\ changes[c].kind \in D!Operations
    BY DEF DocInv, D!TypeOK, D!Worker, D!Change
  <1>2. /\ workers[w].phase = "removing" /\ UNCHANGED <<history, changes>>
        /\ bucket' = [bucket EXCEPT ![p][key] = 0]
    BY DEF D!Remove, D!Proposal
  <1>3. PICK next \in D!Worker :
            /\ workers' = [workers EXCEPT ![w] = next]
            /\ next.phase \in {"recording", "removing"} /\ next.id = c
    <2>1. ASSUME NEW o \in {"moved", "deleted"}, D!Decides(w, o)
          PROVE  \E next \in D!Worker :
                    /\ workers' = [workers EXCEPT ![w] = next]
                    /\ next.phase \in {"recording", "removing"} /\ next.id = c
      <3> DEFINE next == [workers[w] EXCEPT !.phase = "recording", !.outcome = o]
      <3>1. next \in D!Worker /\ next.phase = "recording" /\ next.id = c
        BY <1>1 DEF D!Worker, D!EffectPhases, D!Outcomes
      <3>2. workers' = [workers EXCEPT ![w] = next]
        BY <2>1 DEF D!Decides, D!Goes
      <3> HIDE DEF next
      <3> QED BY <3>1, <3>2
    <2>2. ASSUME D!Goes(w, [workers[w] EXCEPT !.left = @ \ {key}])
          PROVE  \E next \in D!Worker :
                    /\ workers' = [workers EXCEPT ![w] = next]
                    /\ next.phase \in {"recording", "removing"} /\ next.id = c
      <3> DEFINE next == [workers[w] EXCEPT !.left = @ \ {key}]
      <3>1. next \in D!Worker /\ next.phase = "removing" /\ next.id = c
        BY <1>1, <1>2 DEF D!Worker, D!EffectPhases
      <3>2. workers' = [workers EXCEPT ![w] = next]
        BY <2>2 DEF D!Goes
      <3> HIDE DEF next
      <3> QED BY <3>1, <3>2
    <2>3. \/ \E o \in {"moved", "deleted"} : D!Decides(w, o)
          \/ D!Goes(w, [workers[w] EXCEPT !.left = @ \ {key}])
      BY DEF D!Remove
    <2> QED BY <2>1, <2>2, <2>3
  <1>4. \A u \in Workers : workers'[u] = IF u = w THEN next ELSE workers[u]
    BY <1>3 DEF DocInv, D!TypeOK
  <1>5. /\ bucket' \in [Paths -> [D!Keys -> 0..Len(history)]]
        /\ \A q \in Paths, k \in D!Keys : bucket'[q][k] = IF q = p /\ k = key THEN 0 ELSE bucket[q][k]
    <2> DEFINE f == bucket[p]
    <2>0. bucket \in [Paths -> [D!Keys -> 0..Len(history)]] /\ 0 \in 0..Len(history)
      BY DEF DocInv, D!TypeOK
    <2>1. f \in [D!Keys -> 0..Len(history)]
      BY <1>1, <2>0
    <2> HIDE DEF f
    <2>2. [f EXCEPT ![key] = 0] \in [D!Keys -> 0..Len(history)]
      BY <2>0, <2>1
    <2>3. bucket' = [bucket EXCEPT ![p] = [f EXCEPT ![key] = 0]]
      BY <1>2 DEF f
    <2>4. bucket' \in [Paths -> [D!Keys -> 0..Len(history)]]
      BY <1>1, <2>0, <2>2, <2>3
    <2>5. \A q \in Paths : bucket'[q] = IF q = p THEN [f EXCEPT ![key] = 0] ELSE bucket[q]
      BY <1>1, <2>0, <2>3
    <2>6. \A k \in D!Keys : [f EXCEPT ![key] = 0][k] = IF k = key THEN 0 ELSE f[k]
      BY <2>1
    <2> QED BY <2>4, <2>5, <2>6 DEF f
  <1> HIDE DEF p
  <1>6. D!OneAtATime'
    BY <1>2, <1>3, <1>4 DEF DocInv, D!OneAtATime, D!EffectPhases
  <1>7. KeysAreRight'
    BY <1>2, <1>5 DEF DocInv, KeysAreRight
  <1>8. ASSUME NEW d \in Changes
        PROVE  ChangeIsRight(d)'
    <2>1. ChangeIsRight(d) /\ changes[d].path \in Paths /\ "canonical" \in D!Keys
      BY DEF DocInv, D!TypeOK, D!Change, D!Keys
    <2>2. \/ bucket'[changes[d].path]["canonical"] = 0
          \/ bucket'[changes[d].path]["canonical"] = bucket[changes[d].path]["canonical"]
      BY <1>5, <2>1
    <2> QED BY <1>2, <2>1, <2>2 DEF ChangeIsRight, ForCanonical, By
  <1>9. ASSUME NEW u \in Workers
        PROVE  WorkerIsRight(u)'
    <2>1. CASE u = w
      BY <1>3, <1>4, <2>1 DEF WorkerIsRight
    <2>2. CASE u # w
      <3>1. workers'[u] = workers[u] /\ workers[u].path \in Paths /\ WorkerIsRight(u)
            /\ "legacy" \in D!Keys
        BY <1>4, <2>2 DEF DocInv, D!TypeOK, D!Worker, D!Keys
      <3>2. \/ bucket'[workers[u].path]["legacy"] = 0
            \/ bucket'[workers[u].path]["legacy"] = bucket[workers[u].path]["legacy"]
        BY <1>5, <3>1
      <3>3. PICK d \in Changes : d = workers[u].id
        BY DEF DocInv, D!TypeOK, D!Worker
      <3>4. changes[d].to \in Paths /\ "canonical" \in D!Keys
        BY DEF DocInv, D!TypeOK, D!Change, D!Keys
      <3>5. \/ bucket'[changes[d].to]["canonical"] = 0
            \/ bucket'[changes[d].to]["canonical"] = bucket[changes[d].to]["canonical"]
        BY <1>5, <3>4
      <3>6. NotItsOwn(d) => NotItsOwn(d)'
        BY <1>2, <3>5 DEF NotItsOwn, By
      <3> QED BY <1>2, <3>1, <3>2, <3>3, <3>6 DEF WorkerIsRight, NotItsOwn, ForCanonical, By
    <2> QED BY <2>1, <2>2
  <1>10. D!TypeOK'
    BY <1>2, <1>3, <1>5 DEF DocInv, D!TypeOK
  <1> QED BY <1>6, <1>7, <1>8, <1>9, <1>10 DEF DocInv


LEMMA DocCreate ==
    ASSUME DocumentsSensible, DocInv, NEW w \in Workers, NEW p \in Paths, NEW x \in Contents,
           D!CreateNote(w, p, x)
    PROVE  DocInv'
  <1> DEFINE next == [D!Idle EXCEPT !.phase = "creating", !.path = p, !.content = x]
  <1>1. next \in D!Worker /\ next.phase = "creating" /\ next.path = p
    BY DocConstants DEF D!Worker, D!EffectPhases
  <1>2. workers' = [workers EXCEPT ![w] = next] /\ UNCHANGED <<bucket, history, changes>>
    BY DEF D!CreateNote, D!Goes
  <1> HIDE DEF next
  <1>3. bucket[p]["legacy"] = 0
    <2>1. bucket[p]["canonical"] \in Nat /\ bucket[p]["legacy"] \in Nat
      BY DEF DocInv, D!TypeOK, D!Keys
    <2> QED BY <2>1 DEF D!CreateNote, D!Current
  <1> QED BY <1>1, <1>2, <1>3, DocWorker DEF D!EffectPhases

LEMMA DocPutNote ==
    ASSUME DocumentsSensible, DocInv, NEW w \in Workers, D!PutNote(w)
    PROVE  DocInv'
  <1>1. workers' = [workers EXCEPT ![w] = D!Idle] /\ UNCHANGED changes
    BY DEF D!PutNote, D!Ends, D!Goes
  <1>2. /\ workers' \in [Workers -> D!Worker]
        /\ \A u \in Workers : workers'[u] = workers[u] \/ workers'[u] = D!Idle
        /\ workers[w].path \in Paths /\ workers[w].content \in Contents
    BY <1>1, DocConstants DEF DocInv, D!TypeOK, D!Worker
  <1>3. CASE D!Write(workers[w].path, workers[w].content, "owner")
    BY <1>1, <1>2, <1>3, DocOwnerWrites
  <1>4. CASE UNCHANGED <<bucket, history>>
    BY <1>1, <1>4, DocConstants, DocWorker DEF D!EffectPhases
  <1> QED BY <1>3, <1>4 DEF D!PutNote

LEMMA DocRestore ==
    ASSUME DocumentsSensible, DocInv, NEW p \in Paths, NEW v \in 1..Len(history),
           D!RestoreVersion(p, v)
    PROVE  DocInv'
  <1>1. history[v] \in D!Version
    BY DEF DocInv, D!TypeOK
  <1>2. history[v].content \in Contents
    BY <1>1 DEF D!Version
  <1>3. workers' \in [Workers -> D!Worker] /\ UNCHANGED <<changes, workers>>
    BY DEF DocInv, D!TypeOK, D!RestoreVersion
  <1> QED BY <1>2, <1>3, DocOwnerWrites DEF D!RestoreVersion

LEMMA DocPropose ==
    ASSUME DocumentsSensible, DocInv, NEW c \in Changes, NEW kind \in D!Operations,
           NEW p \in Paths, NEW q \in Paths, NEW x \in Contents, D!Propose(c, kind, p, q, x)
    PROVE  DocInv'
  <1> DEFINE row == [D!NoChange EXCEPT !.state = "pending", !.kind = kind,
                        !.path = p, !.to = q, !.content = x, !.expected = D!Current(p)]
  <1>1. D!Current(p) \in 1..Len(history)
    BY DEF DocInv, D!TypeOK, D!Keys, D!Current, D!Propose
  <1>2. /\ row \in D!Change /\ row.state = "pending" /\ row.kind = kind /\ row.path = p
        /\ row.to = q /\ row.expected = D!Current(p)
    <2> DEFINE current == D!Current(p)
    <2>1. current \in Nat
      BY <1>1
    <2> HIDE DEF current
    <2>2. D!NoChange \in D!Change
      BY DocConstants
    <2>3. [D!NoChange EXCEPT !.state = "pending", !.kind = kind, !.path = p, !.to = q,
               !.content = x, !.expected = current] \in D!Change
      BY <2>1, <2>2 DEF D!Change
    <2> QED BY <2>2, <2>3 DEF D!Change, current
  <1>3. /\ changes[c].state = "none" /\ (kind # "move" => q = p)
        /\ changes' = [changes EXCEPT ![c] = row] /\ UNCHANGED <<bucket, history, workers>>
    BY DEF D!Propose
  <1> HIDE DEF row
  <1>4. ~D!RowLocked(c)
    BY <1>3 DEF D!RowLocked, DocInv, D!OneAtATime
  <1>5. changes'[c] = row
    BY <1>3 DEF DocInv, D!TypeOK
  <1>6. \A v \in 1..Len(history) : ~By(c, v)
    BY <1>3 DEF DocInv, ChangeIsRight
  <1>7. ChangeIsRight(c)'
    <2>1. Len(history) \in Nat
      BY DEF DocInv, D!TypeOK
    <2> QED BY <1>1, <1>2, <1>3, <1>5, <1>6, <2>1 DEF ChangeIsRight, ForCanonical, By
  <1> QED BY <1>2, <1>3, <1>4, <1>7, DocRow

\* A decision is stored, and nothing else of the row changes.
LEMMA DocStored ==
    ASSUME DocInv, NEW c \in Changes, NEW s \in {"confirmed", "rejected"},
           NEW o \in D!Outcomes, D!Stored(c, s, o), UNCHANGED <<bucket, history>>
    PROVE  \E row \in D!Change :
              /\ changes' = [changes EXCEPT ![c] = row]
              /\ row.state = s /\ ChangeIsRight(c)'
  <1> DEFINE row == [changes[c] EXCEPT !.state = s, !.outcome = o]
  <1>1. changes[c] \in D!Change /\ ChangeIsRight(c)
    BY DEF DocInv, D!TypeOK
  <1>2. /\ row \in D!Change /\ row.state = s /\ row.kind = changes[c].kind
        /\ row.path = changes[c].path /\ row.to = changes[c].to
        /\ row.expected = changes[c].expected
    BY <1>1 DEF D!Change
  <1>3. changes' = [changes EXCEPT ![c] = row]
    BY DEF D!Stored
  <1> HIDE DEF row
  <1>4. changes'[c] = row
    BY <1>3 DEF DocInv, D!TypeOK
  <1>5. ChangeIsRight(c)'
    BY <1>1, <1>2, <1>4 DEF ChangeIsRight, ForCanonical, By
  <1> QED BY <1>2, <1>3, <1>5

LEMMA DocReject ==
    ASSUME DocInv, NEW c \in Changes, D!Reject(c)
    PROVE  DocInv'
  <1>1. D!Stored(c, "rejected", "none") /\ UNCHANGED <<bucket, history, workers>>
        /\ ~D!RowLocked(c) /\ "none" \in D!Outcomes
    BY DEF D!Reject, D!Decidable, D!Outcomes
  <1>2. PICK row \in D!Change : changes' = [changes EXCEPT ![c] = row] /\ ChangeIsRight(c)'
    BY <1>1, DocStored
  <1> QED BY <1>1, <1>2, DocRow

LEMMA DocPurge ==
    ASSUME DocumentsSensible, DocInv, NEW c \in Changes, D!Purge(c)
    PROVE  DocInv'
  <1> DEFINE row == [D!NoChange EXCEPT !.state = "purged"]
  <1>1. row \in D!Change /\ row.state = "purged" /\ row.kind = "delete" /\ row.expected = 0
    BY DocConstants DEF D!Change
  <1>2. /\ changes' = [changes EXCEPT ![c] = row] /\ UNCHANGED <<bucket, history, workers>>
        /\ ~D!RowLocked(c)
    BY DEF D!Purge
  <1> HIDE DEF row
  <1>3. changes'[c] = row
    BY <1>2 DEF DocInv, D!TypeOK
  <1>4. ChangeIsRight(c)'
    <2>1. Len(history) \in Nat
      BY DEF DocInv, D!TypeOK
    <2> QED BY <1>1, <1>2, <1>3, <2>1 DEF ChangeIsRight, ForCanonical
  <1> QED BY <1>1, <1>2, <1>4, DocRow

LEMMA DocConfirm ==
    ASSUME DocumentsSensible, DocInv, NEW w \in Workers, NEW c \in Changes, D!Confirm(w, c)
    PROVE  DocInv'
  <1> DEFINE next == [D!Idle EXCEPT !.phase = "locked", !.id = c]
  <1>1. next \in D!Worker /\ next.phase = "locked" /\ next.id = c
    BY DocConstants DEF D!Worker, D!EffectPhases
  <1>2. /\ workers' = [workers EXCEPT ![w] = next] /\ UNCHANGED <<bucket, history, changes>>
        /\ D!Decidable(c)
    BY DEF D!Confirm, D!Goes
  <1> HIDE DEF next
  <1> QED BY <1>1, <1>2, DocWorker

LEMMA DocCommit ==
    ASSUME DocumentsSensible, DocInv, NEW w \in Workers, D!Commit(w)
    PROVE  DocInv'
  <1>0. PICK c \in Changes : c = workers[w].id
    BY DEF DocInv, D!TypeOK, D!Worker
  <1>1. /\ workers[w].phase = "recording" /\ D!Stored(c, "confirmed", workers[w].outcome)
        /\ workers' = [workers EXCEPT ![w] = D!Idle] /\ UNCHANGED <<bucket, history>>
        /\ workers[w].outcome \in D!Outcomes
    BY <1>0 DEF D!Commit, D!Ends, D!Goes, DocInv, D!TypeOK, D!Worker
  <1>2. PICK row \in D!Change : changes' = [changes EXCEPT ![c] = row] /\ ChangeIsRight(c)'
    BY <1>1, DocStored
  <1>3. /\ changes' \in [Changes -> D!Change] /\ workers' \in [Workers -> D!Worker]
        /\ \A d \in Changes : d # c => changes'[d] = changes[d]
        /\ \A u \in Workers : workers'[u] = IF u = w THEN D!Idle ELSE workers[u]
    BY <1>1, <1>2, DocConstants DEF DocInv, D!TypeOK
  <1>4. \A u \in Workers \ {w} : workers[u].phase \in D!EffectPhases => workers[u].id # c
    BY <1>0, <1>1 DEF DocInv, D!OneAtATime, D!EffectPhases
  <1>5. D!OneAtATime'
    <2> SUFFICES ASSUME NEW u \in Workers, workers'[u].phase \in D!EffectPhases
                 PROVE  /\ changes'[workers'[u].id].state = "pending"
                        /\ \A t \in Workers \ {u} : workers'[t].phase \in D!EffectPhases =>
                               workers'[t].id # workers'[u].id
      BY DEF D!OneAtATime
    <2>1. u # w /\ workers'[u] = workers[u] /\ workers[u].id \in Changes
      BY <1>3, DocConstants DEF D!EffectPhases, DocInv, D!TypeOK, D!Worker
    <2>2. changes'[workers[u].id] = changes[workers[u].id]
      BY <1>3, <1>4, <2>1
    <2>3. \A t \in Workers : workers'[t].phase \in D!EffectPhases => t # w /\ workers'[t] = workers[t]
      BY <1>3, DocConstants DEF D!EffectPhases
    <2> QED BY <2>1, <2>2, <2>3 DEF DocInv, D!OneAtATime
  <1>6. \A d \in Changes : ChangeIsRight(d)'
    BY <1>1, <1>2, <1>3 DEF DocInv, ChangeIsRight, ForCanonical, By
  <1>7. ASSUME NEW u \in Workers
        PROVE  WorkerIsRight(u)'
    <2>1. CASE u = w
      BY <1>3, <2>1, DocConstants DEF WorkerIsRight
    <2>2. CASE u # w
      <3>1. workers'[u] = workers[u] /\ WorkerIsRight(u) /\ workers[u].id \in Changes
        BY <1>3, <2>2 DEF DocInv, D!TypeOK, D!Worker
      <3>2. workers[u].phase \in {"writing", "checking", "again"} =>
                changes'[workers[u].id] = changes[workers[u].id]
        BY <1>3, <1>4, <2>2, <3>1 DEF D!EffectPhases
      <3> QED BY <1>1, <3>1, <3>2 DEF WorkerIsRight, NotItsOwn, ForCanonical, By
    <2> QED BY <2>1, <2>2
  <1> QED BY <1>1, <1>3, <1>5, <1>6, <1>7, DocQuiet

LEMMA DocFail ==
    ASSUME DocumentsSensible, DocInv, NEW w \in Workers, D!Fail(w)
    PROVE  DocInv'
  BY DocConstants, DocWorker DEF D!Fail, D!Ends, D!Goes, D!EffectPhases

LEMMA DocStep ==
    ASSUME DocumentsSensible, DocInv, [D!Next]_docVars
    PROVE  DocInv'
  <1>1. CASE UNCHANGED docVars
    BY <1>1 DEF docVars, DocInv, D!TypeOK, D!OneAtATime, KeysAreRight, ChangeIsRight,
                WorkerIsRight, NotItsOwn, ForCanonical, By
  <1>2. CASE D!Next
    <2>1. CASE \E w \in Workers, p \in Paths, x \in Contents : D!CreateNote(w, p, x)
      BY <2>1, DocCreate
    <2>2. CASE \E p \in Paths : \E v \in 1..Len(history) : D!RestoreVersion(p, v)
      BY <2>2, DocRestore
    <2>3. CASE \E c \in Changes, kind \in D!Operations, p, q \in Paths, x \in Contents :
                   D!Propose(c, kind, p, q, x)
      BY <2>3, DocPropose
    <2>4. CASE \E c \in Changes : D!Reject(c) \/ D!Purge(c) \/ \E w \in Workers : D!Confirm(w, c)
      BY <2>4, DocReject, DocPurge, DocConfirm
    <2>5. CASE \E w \in Workers : D!PutNote(w) \/ D!ReadSource(w) \/ D!ReadAgain(w)
                   \/ D!ReadDestination(w) \/ D!Put(w) \/ D!Commit(w) \/ D!Fail(w)
      BY <2>5, DocPutNote, DocReads, DocPut, DocCommit, DocFail
    <2>6. CASE \E w \in Workers, key \in D!Keys : D!Remove(w, key)
      BY <2>6, DocRemove
    <2> QED BY <1>2, <2>1, <2>2, <2>3, <2>4, <2>5, <2>6 DEF D!Next
  <1> QED BY <1>1, <1>2

LEMMA DocCardinality == \A S : D!Cardinality(S) = Cardinality(S)
  BY DEF D!Cardinality, Cardinality

\* What a change wrote is at most one version.
LEMMA DocOnce ==
    ASSUME DocumentsSensible, DocInv
    PROVE  D!ChangesOnce
  <1> SUFFICES D!WritesOnce
    BY DEF DocInv, D!ChangesOnce
  <1> SUFFICES ASSUME NEW c \in {d \in Changes : changes[d].kind = "update" /\ changes[d].expected > 0},
                      history[changes[c].expected].key = "canonical"
               PROVE  Cardinality(D!WrittenBy(c)) <= 1
    BY DocCardinality DEF D!WritesOnce
  <1>1. \A u, v \in D!WrittenBy(c) : u = v
    BY DEF DocInv, ChangeIsRight, ForCanonical, By, D!WrittenBy
  <1>2. CASE D!WrittenBy(c) = {}
    BY <1>2, FS_EmptySet
  <1>3. CASE D!WrittenBy(c) # {}
    <2>1. PICK v : D!WrittenBy(c) = {v}
      BY <1>1, <1>3
    <2>2. Cardinality(D!WrittenBy(c)) = 1
      BY <2>1, FS_Singleton
    <2> QED BY <2>2
  <1> QED BY <1>2, <1>3

\* A note is written where no document is.
LEMMA DocCreatesNew ==
    ASSUME DocumentsSensible, DocInv, [D!Next]_docVars
    PROVE  D!CreatesOnlyNew
  <1> SUFFICES ASSUME NEW w \in Workers, workers[w].phase = "creating", history' # history,
                      workers'[w] = D!Idle
               PROVE  D!Current(workers[w].path) = 0
    BY DEF D!CreatesOnlyNew
  <1>1. bucket[workers[w].path]["legacy"] = 0
    BY DEF DocInv, WorkerIsRight
  <1>2. PICK u \in Workers : D!PutNote(u) \/ D!Put(u)
    <2>1. ASSUME NEW p \in Paths, NEW v \in 1..Len(history), D!RestoreVersion(p, v)
          PROVE  FALSE
      BY <2>1, DocConstants DEF D!RestoreVersion
    <2>2. D!Next
      BY DEF docVars
    <2> QED BY <2>1, <2>2 DEF D!Next, D!CreateNote, D!Propose, D!Reject, D!Purge, D!Confirm,
              D!ReadSource, D!ReadAgain, D!ReadDestination, D!Commit, D!Fail, D!Remove
  <1>4. CASE D!Put(u)
    <2>1. \E next : workers' = [workers EXCEPT ![u] = next]
      BY <1>4 DEF D!Put, D!Decides, D!Goes
    <2>2. u # w /\ workers[w] # D!Idle
      BY <1>4, DocConstants DEF D!Put
    <2>3. workers'[w] = workers[w]
      BY <2>1, <2>2 DEF DocInv, D!TypeOK
    <2> QED BY <2>2, <2>3
  <1>5. CASE D!PutNote(u)
    <2>1. workers' = [workers EXCEPT ![u] = D!Idle]
      BY <1>5 DEF D!PutNote, D!Ends, D!Goes
    <2>2. u = w
      BY <2>1, DocConstants DEF DocInv, D!TypeOK
    <2>3. D!Vacant(workers[w].path)
      BY <1>5, <2>2 DEF D!PutNote
    <2> QED BY <1>1, <2>3 DEF D!Vacant, D!Current
  <1> QED BY <1>2, <1>4, <1>5

\* An update or a move writes over nothing an earlier attempt of it left.
LEMMA DocNeverOverItsOwn ==
    ASSUME DocumentsSensible, DocInv, [D!Next]_docVars
    PROVE  D!NeverOverItsOwn
  <1> SUFFICES ASSUME history' # history
               PROVE  LET new == history'[Len(history')]
                          old == bucket[new.path]["canonical"]
                      IN  new.by \in Changes /\ old > 0 => history[old].by # new.by
    BY DEF D!NeverOverItsOwn
  <1>1. ASSUME NEW p \in Paths, NEW x \in Contents, NEW by \in Changes \cup {"owner"},
               D!Write(p, x, by)
        PROVE  history'[Len(history')].path = p /\ history'[Len(history')].by = by
    <2> DEFINE row == [path |-> p, key |-> "canonical", content |-> x, by |-> by]
    <2>1. history \in Seq(D!Version) /\ history' = Append(history, row) /\ row \in D!Version
      BY <1>1 DEF D!Write, DocInv, D!TypeOK, D!Version, D!Keys
    <2>2. row.path = p /\ row.by = by
      OBVIOUS
    <2> HIDE DEF row
    <2>3. history'[Len(history')] = row
      BY <2>1
    <2> QED BY <2>2, <2>3
  <1>2. \/ \E p \in Paths : \E v \in 1..Len(history) : D!RestoreVersion(p, v)
        \/ \E w \in Workers : D!PutNote(w) \/ D!Put(w)
    <2>1. D!Next
      BY DEF docVars
    <2> QED BY <2>1 DEF D!Next, D!CreateNote, D!Propose, D!Reject, D!Purge, D!Confirm,
              D!ReadSource, D!ReadAgain, D!ReadDestination, D!Commit, D!Fail, D!Remove
  <1>3. CASE \E p \in Paths : \E v \in 1..Len(history) : D!RestoreVersion(p, v)
    <2>1. PICK p \in Paths, v \in 1..Len(history) : D!Write(p, history[v].content, "owner")
      BY <1>3 DEF D!RestoreVersion
    <2>2. history[v] \in D!Version
      BY DEF DocInv, D!TypeOK
    <2>3. history[v].content \in Contents
      BY <2>2 DEF D!Version
    <2> QED BY <1>1, <2>1, <2>3 DEF DocumentsSensible
  <1>4. CASE \E w \in Workers : D!PutNote(w)
    <2>1. PICK w \in Workers : D!Write(workers[w].path, workers[w].content, "owner")
      BY <1>4 DEF D!PutNote
    <2>2. workers[w].path \in Paths /\ workers[w].content \in Contents
      BY DEF DocInv, D!TypeOK, D!Worker
    <2> QED BY <1>1, <2>1, <2>2 DEF DocumentsSensible
  <1>5. CASE \E w \in Workers : D!Put(w)
    <2>1. PICK w \in Workers : D!Put(w)
      BY <1>5
    <2>2. PICK c \in Changes : c = workers[w].id
      BY DEF DocInv, D!TypeOK, D!Worker
    <2>3. D!Write(changes[c].to, workers[w].content, c) /\ workers[w].phase = "writing"
      BY <2>1, <2>2 DEF D!Put, D!Proposal
    <2>4. changes[c].to \in Paths /\ workers[w].content \in Contents
      BY DEF DocInv, D!TypeOK, D!Worker, D!Change
    <2>5. NotItsOwn(c)
      BY <2>2, <2>3 DEF DocInv, WorkerIsRight
    <2> QED BY <1>1, <2>3, <2>4, <2>5 DEF NotItsOwn, By
  <1> QED BY <1>2, <1>3, <1>4, <1>5

\* However often a decision about a document is retried or doubled, one request at a time
\* carries it out, an update of a canonical version writes one, neither an update nor a move
\* writes over what an earlier attempt left, and a note never replaces a document.
THEOREM DocumentsStaySafe ==
    ASSUME DocumentsSensible
    PROVE  AllSpec => DocumentsAreSafe
  <1> DEFINE IInv == about = "documents" => DocInv
  <1>1. AllInit => IInv
    BY DocInit DEF AllInit
  <1>2. IInv /\ [AllNext]_all => IInv'
    <2> SUFFICES ASSUME IInv, [AllNext]_all, about' = "documents" PROVE DocInv'
      OBVIOUS
    <2>1. about = "documents" /\ [D!Next]_docVars
      BY OnePartMoves
    <2> QED BY <2>1, DocStep
  <1>3. IInv => (about = "documents" => D!ChangesOnce)
    BY DocOnce
  <1>4. IInv /\ [AllNext]_all =>
            [about = "documents" => D!NeverOverItsOwn /\ D!CreatesOnlyNew]_docVars
    <2> SUFFICES ASSUME IInv, [AllNext]_all, about = "documents"
                 PROVE  D!NeverOverItsOwn /\ D!CreatesOnlyNew
      OBVIOUS
    <2>1. [D!Next]_docVars
      BY OnePartMoves
    <2> QED BY <2>1, DocNeverOverItsOwn, DocCreatesNew
  <1> QED BY <1>1, <1>2, <1>3, <1>4, PTL DEF AllSpec, DocumentsAreSafe

-----------------------------------------------------------------------------
(* The draft of a profile                                                  *)

\* The only draft there has been is neither expired nor a profile.
Unbroken == profile = O!NoAnswers /\ drafts <= 1 /\ lapses = 0

\* A confirmation is of a complete draft; an update names a role, and what it read of a profile
\* is still one; an answer is merged into the draft or an earlier revision of it.
RequestIsRight(r) ==
    /\ requests[r].phase = "completing" => O!Complete(requests[r].base.fields)
    /\ requests[r].phase = "updating" =>
           /\ "roleId" \in O!Given(requests[r].patch)
           /\ requests[r].base.fields # O!NoAnswers => profile # O!NoAnswers
    /\ Unbroken /\ requests[r].phase \in {"answering", "saving", "writing"} =>
           /\ draft # O!NoDraft /\ requests[r].base.revision <= draft.revision
           /\ requests[r].base.revision = draft.revision => requests[r].base.fields = draft.fields

DraftInv ==
    /\ O!TypeOK /\ (lapsed => lapses > 0)
    /\ Unbroken => (drafts = 0 <=> draft = O!NoDraft)
    /\ \A r \in Workers : RequestIsRight(r)

LEMMA DraftConstants ==
    ASSUME DraftSensible
    PROVE  /\ O!NoAnswers \in O!Answers /\ O!NoDraft \in O!Draft /\ O!Idle \in O!Request
           /\ O!Given(O!NoAnswers) = {} /\ O!NoDraft.revision = 0 /\ O!NoDraft.born = 0
           /\ O!NoDraft.fields = O!NoAnswers /\ O!Idle.phase = "idle"
  BY DEF DraftSensible, O!NoAnswers, O!Answers, O!Fields, O!NoDraft, O!Draft, O!Idle, O!Request,
         O!Phases, O!Given

\* Answers that say something are not none.
LEMMA SaysSomething ==
    ASSUME NEW a \in O!Answers
    PROVE  /\ a # O!NoAnswers <=> O!Given(a) # {}
           /\ O!Complete(a) => O!Given(a) # {}
  BY DEF O!NoAnswers, O!Answers, O!Fields, O!Given, O!Complete

\* What a step may do to the draft and the profile, whoever takes it.
DraftGoesOn ==
    /\ draft' \in O!Draft /\ draft'.revision <= MaxRevision
    /\ lapsed' \in BOOLEAN /\ (lapsed' => draft' # O!NoDraft /\ lapses' > 0)
    /\ profile' \in O!Answers /\ O!Given(profile') \in {{}, O!Fields}
    /\ profile # O!NoAnswers => profile' # O!NoAnswers
    /\ drafts' \in drafts..MaxDrafts /\ lapses' \in lapses..MaxLapses
    /\ Unbroken' =>
           /\ drafts' = 0 <=> draft' = O!NoDraft
           /\ draft # O!NoDraft =>
                  /\ draft' # O!NoDraft
                  /\ \/ draft'.revision > draft.revision
                     \/ draft'.revision = draft.revision /\ draft'.fields = draft.fields

LEMMA DraftMoves ==
    ASSUME DraftSensible, DraftInv, DraftGoesOn, requests' \in [Workers -> O!Request],
           \A u \in Workers : requests'[u] = requests[u] \/ RequestIsRight(u)'
    PROVE  DraftInv'
  <1>1. /\ drafts \in Nat /\ lapses \in Nat /\ MaxDrafts \in Nat /\ MaxLapses \in Nat
    BY DEF DraftInv, O!TypeOK, DraftSensible
  <1>2. O!TypeOK' /\ (lapsed' => lapses' > 0) /\ (Unbroken' => (drafts' = 0 <=> draft' = O!NoDraft))
    BY <1>1 DEF O!TypeOK, DraftGoesOn, O!NoDraft, O!NoAnswers, O!Draft, O!Answers, O!Request, O!Phases,
              O!Fields, O!Given
  <1>3. Unbroken' => Unbroken
    BY <1>1 DEF DraftGoesOn, Unbroken, O!NoAnswers
  <1>4. ASSUME NEW u \in Workers
        PROVE  RequestIsRight(u)'
    <2>1. CASE RequestIsRight(u)'
      BY <2>1
    <2>2. CASE requests'[u] = requests[u]
      <3>1. RequestIsRight(u) /\ requests[u].base \in O!Draft /\ draft \in O!Draft
        BY DEF DraftInv, O!TypeOK, O!Request
      <3>2. requests[u].base.revision \in Nat /\ draft.revision \in Nat /\ draft'.revision \in Nat
        BY <3>1 DEF O!Draft, DraftGoesOn
      <3> QED BY <1>3, <2>2, <3>1, <3>2 DEF RequestIsRight, DraftGoesOn, O!Complete, O!Given,
                    O!NoAnswers, O!NoDraft, O!Fields
    <2> QED BY <2>1, <2>2
  <1> QED BY <1>2, <1>4 DEF DraftInv

\* Steps that leave the draft alone, delete an expired one, or drop one with the profile made.
LEMMA DraftStays ==
    ASSUME DraftSensible, DraftInv, UNCHANGED <<profile, drafts, lapses>>,
           UNCHANGED <<draft, lapsed>> \/ O!Forget
    PROVE  DraftGoesOn
  <1>1. /\ draft \in O!Draft /\ draft.revision <= MaxRevision /\ draft.revision \in Nat
        /\ lapsed \in BOOLEAN /\ (lapsed => draft # O!NoDraft /\ lapses > 0)
        /\ profile \in O!Answers /\ O!Given(profile) \in {{}, O!Fields}
        /\ drafts \in 0..MaxDrafts /\ lapses \in 0..MaxLapses
    BY DEF DraftInv, O!TypeOK, O!Draft
  <1>2. O!Given(profile') = O!Given(profile)
    BY DEF O!Given
  <1>3. Unbroken' <=> Unbroken
    BY DEF Unbroken
  <1>4. \/ draft' = draft /\ lapsed' = lapsed
        \/ draft' = O!NoDraft /\ lapsed' = FALSE /\ lapsed
        \/ draft' = draft /\ lapsed' = FALSE
    BY <1>1 DEF O!Forget
  <1>5. MaxRevision \in Nat /\ MaxDrafts \in Nat /\ MaxLapses \in Nat
    BY DEF DraftSensible
  <1>6. lapsed => ~Unbroken
    BY <1>1 DEF Unbroken
  <1>7. draft' \in O!Draft /\ draft'.revision <= MaxRevision
    BY <1>1, <1>4, <1>5, DraftConstants
  <1>8. drafts' \in drafts..MaxDrafts /\ lapses' \in lapses..MaxLapses
    BY <1>1, <1>5
  <1>9. Unbroken' => draft' = draft /\ (drafts' = 0 <=> draft' = O!NoDraft)
    BY <1>3, <1>4, <1>6 DEF DraftInv
  <1>10. lapsed' \in BOOLEAN /\ (lapsed' => draft' # O!NoDraft /\ lapses' > 0)
    <2>1. lapses' = lapses
      OBVIOUS
    <2>2. CASE lapsed' = FALSE
      BY Zenon, <2>2
    <2>3. CASE draft' = draft /\ lapsed' = lapsed
      BY Zenon, <1>1, <2>1, <2>3
    <2> QED BY Zenon, <1>4, <2>2, <2>3
  <1>11. profile' \in O!Answers /\ O!Given(profile') \in {{}, O!Fields} /\ profile' = profile
    BY <1>1, <1>2
  <1> QED BY <1>7, <1>8, <1>9, <1>10, <1>11 DEF DraftGoesOn

LEMMA DraftDropped ==
    ASSUME DraftSensible, DraftInv, O!Dropped, UNCHANGED <<drafts, lapses>>,
           profile' \in O!Answers, O!Given(profile') = O!Fields
    PROVE  DraftGoesOn
  <1>1. drafts \in 0..MaxDrafts /\ lapses \in 0..MaxLapses
    BY DEF DraftInv, O!TypeOK
  <1>2. profile' # O!NoAnswers
    BY DraftConstants DEF O!Fields
  <1>3. ~Unbroken'
    BY <1>2 DEF Unbroken
  <1>4. draft' = O!NoDraft /\ lapsed' = FALSE
    BY DEF O!Dropped
  <1>5. draft' \in O!Draft /\ draft'.revision <= MaxRevision
    BY <1>4, DraftConstants DEF DraftSensible
  <1>6. drafts' \in drafts..MaxDrafts /\ lapses' \in lapses..MaxLapses
    BY <1>1 DEF DraftSensible
  <1> QED BY <1>2, <1>3, <1>4, <1>5, <1>6 DEF DraftGoesOn

\* The phases about which nothing is claimed.
Plain == {"idle", "opening", "creating", "inserting", "meeting", "conflicted", "discarding", "replacing"}

LEMMA DraftPlain ==
    ASSUME DraftSensible, DraftInv, DraftGoesOn, NEW r \in Workers, NEW next \in O!Request,
           requests' = [requests EXCEPT ![r] = next], next.phase \in Plain
    PROVE  DraftInv'
  <1>1. requests' \in [Workers -> O!Request]
    BY DEF DraftInv, O!TypeOK
  <1>2. \A u \in Workers : requests'[u] = requests[u] \/ RequestIsRight(u)'
    BY DEF DraftInv, O!TypeOK, RequestIsRight, Plain
  <1> QED BY <1>1, <1>2, DraftMoves

\* A request that has the draft as it is.
LEMMA DraftTaken ==
    ASSUME DraftSensible, DraftInv, DraftGoesOn, NEW r \in Workers, NEW next \in O!Request,
           requests' = [requests EXCEPT ![r] = next],
           next.phase \in {"answering", "saving"}, next.base = draft', draft' # O!NoDraft
    PROVE  DraftInv'
  <1>1. requests' \in [Workers -> O!Request] /\ requests'[r] = next
        /\ \A u \in Workers : u # r => requests'[u] = requests[u]
    BY DEF DraftInv, O!TypeOK
  <1>2. draft'.revision \in Nat
    BY DEF DraftGoesOn, O!Draft
  <1>3. RequestIsRight(r)'
    BY <1>1, <1>2 DEF RequestIsRight, O!NoDraft
  <1> QED BY <1>1, <1>3, DraftMoves

LEMMA DraftAt ==
    ASSUME DraftSensible, DraftInv, NEW r \in Workers, NEW phase \in O!Phases, O!At(r, phase)
    PROVE  \E next \in O!Request :
               /\ requests' = [requests EXCEPT ![r] = next]
               /\ next.phase = phase /\ next.base = requests[r].base /\ next.patch = requests[r].patch
  <1> DEFINE next == [requests[r] EXCEPT !.phase = phase]
  <1>1. requests[r] \in O!Request
    BY DEF DraftInv, O!TypeOK
  <1>2. /\ next \in O!Request /\ next.phase = phase /\ next.base = requests[r].base
        /\ next.patch = requests[r].patch
    BY <1>1 DEF O!Request
  <1>3. requests' = [requests EXCEPT ![r] = next]
    BY DEF O!At, O!Goes
  <1> HIDE DEF next
  <1> QED BY <1>2, <1>3

LEMMA DraftPlainAt ==
    ASSUME DraftSensible, DraftInv, DraftGoesOn, NEW r \in Workers, NEW phase \in Plain, O!At(r, phase)
    PROVE  DraftInv'
  <1>1. phase \in O!Phases
    BY DEF Plain, O!Phases
  <1> QED BY <1>1, DraftAt, DraftPlain

LEMMA DraftEnds ==
    ASSUME DraftSensible, DraftInv, DraftGoesOn, NEW r \in Workers, O!Ends(r)
    PROVE  DraftInv'
  BY DraftConstants, DraftPlain DEF O!Ends, O!Goes, Plain

LEMMA DraftTakes ==
    ASSUME DraftSensible, DraftInv, DraftGoesOn, NEW r \in Workers, NEW found \in O!Draft,
           O!Takes(r, found), draft' = found, draft' # O!NoDraft
    PROVE  DraftInv'
  <1> DEFINE asked == IF requests[r].again THEN requests[r].asked ELSE found.born
             phase == IF requests[r].again THEN "saving" ELSE "answering"
             next  == [requests[r] EXCEPT !.base = found, !.asked = asked, !.phase = phase]
  <1>1. requests[r] \in O!Request /\ found.born \in Nat
    BY DEF DraftInv, O!TypeOK, O!Draft
  <1>2. asked \in Nat /\ phase \in {"answering", "saving"}
    BY <1>1 DEF O!Request
  <1>3. requests' = [requests EXCEPT ![r] = next]
    BY DEF O!Takes, O!Goes
  <1> HIDE DEF asked, phase
  <1>4. next \in O!Request /\ next.phase = phase /\ next.base = found
    BY <1>1, <1>2 DEF O!Request, O!Phases
  <1> HIDE DEF next
  <1> QED BY <1>2, <1>3, <1>4, DraftTaken

\* A live draft is kept by Forget.
LEMMA LiveStays ==
    ASSUME DraftInv, O!Forget, O!Live
    PROVE  draft' = draft /\ draft' # O!NoDraft /\ draft' \in O!Draft
  BY DEF DraftInv, O!TypeOK, O!Forget, O!Live

LEMMA DraftOpen ==
    ASSUME DraftSensible, DraftInv, NEW r \in Workers, O!Open(r)
    PROVE  DraftInv'
  <1>1. O!Forget /\ UNCHANGED <<profile, drafts, lapses>>
    BY DEF O!Open
  <1>2. DraftGoesOn
    BY <1>1, DraftStays
  <1>3. CASE O!Live
    <2>1. O!Takes(r, draft)
      BY <1>3 DEF O!Open
    <2> QED BY <1>1, <1>2, <1>3, <2>1, LiveStays, DraftTakes
  <1>4. CASE ~O!Live
    BY <1>2, <1>4, DraftEnds, DraftPlainAt DEF O!Open, Plain
  <1> QED BY <1>3, <1>4

LEMMA DraftBegins ==
    ASSUME DraftSensible, DraftInv, NEW r \in Workers, O!BeginInsert(r) \/ O!BeginReplace(r) \/ O!GivesUp(r)
    PROVE  DraftInv'
  <1>1. UNCHANGED <<draft, lapsed, profile, drafts, lapses>>
    BY DEF O!BeginInsert, O!BeginReplace, O!GivesUp
  <1>2. DraftGoesOn
    BY <1>1, DraftStays
  <1>3. O!Ends(r) \/ \E phase \in {"meeting", "inserting", "replacing"} : O!At(r, phase)
    BY DEF O!BeginInsert, O!BeginReplace, O!GivesUp
  <1> QED BY <1>2, <1>3, DraftEnds, DraftPlainAt DEF Plain

\* A new draft is the first one, or there is more than one.
LEMMA DraftFresh ==
    ASSUME DraftSensible, DraftInv, NEW n \in 1..MaxRevision, drafts < MaxDrafts,
           draft' = O!Fresh(n), drafts' = drafts + 1, lapsed' = FALSE \/ (draft = O!NoDraft /\ lapsed' = lapsed),
           UNCHANGED <<profile, lapses>>
    PROVE  DraftGoesOn /\ O!Fresh(n) \in O!Draft /\ O!Fresh(n) # O!NoDraft
  <1>1. drafts \in Nat /\ lapses \in 0..MaxLapses /\ MaxDrafts \in Nat /\ MaxLapses \in Nat
        /\ MaxRevision \in Nat
    BY DEF DraftInv, O!TypeOK, DraftSensible
  <1>2. /\ O!Fresh(n) \in O!Draft /\ O!Fresh(n).revision = n /\ O!Fresh(n).born = drafts + 1
    BY <1>1, DraftConstants DEF O!Fresh, O!Draft
  <1>3. O!Fresh(n) # O!NoDraft
    BY <1>1, <1>2, DraftConstants
  <1>4. draft' \in O!Draft /\ draft'.revision <= MaxRevision /\ draft' # O!NoDraft
    BY <1>1, <1>2, <1>3
  <1>5. lapsed' = FALSE
    BY Zenon DEF DraftInv, O!TypeOK
  <1>6. /\ profile' \in O!Answers /\ O!Given(profile') \in {{}, O!Fields} /\ profile' = profile
    BY DEF DraftInv, O!TypeOK
  <1>7. drafts' \in drafts..MaxDrafts /\ lapses' \in lapses..MaxLapses /\ drafts' # 0
    BY <1>1
  <1>8. Unbroken' => draft = O!NoDraft
    <2>1. Unbroken' => Unbroken /\ drafts = 0
      BY <1>1 DEF Unbroken
    <2> QED BY <2>1 DEF DraftInv
  <1> QED BY <1>2, <1>3, <1>4, <1>5, <1>6, <1>7, <1>8 DEF DraftGoesOn

LEMMA DraftInsert ==
    ASSUME DraftSensible, DraftInv, NEW r \in Workers, O!Insert(r)
    PROVE  DraftInv'
  <1>1. CASE draft = O!NoDraft
    <2>1. /\ drafts < MaxDrafts /\ draft' = O!Fresh(1) /\ drafts' = drafts + 1
          /\ O!Takes(r, O!Fresh(1)) /\ UNCHANGED <<lapsed, profile, lapses>>
      BY <1>1 DEF O!Insert
    <2>2. 1 \in 1..MaxRevision
      BY DEF DraftSensible
    <2>3. DraftGoesOn /\ O!Fresh(1) \in O!Draft /\ O!Fresh(1) # O!NoDraft
      BY <1>1, <2>1, <2>2, DraftFresh
    <2> QED BY <2>1, <2>3, DraftTakes
  <1>2. CASE draft # O!NoDraft
    <2>1. O!At(r, "meeting") /\ UNCHANGED <<draft, lapsed, profile, drafts, lapses>>
      BY <1>2 DEF O!Insert
    <2>2. DraftGoesOn
      BY <2>1, DraftStays
    <2> QED BY <2>1, <2>2, DraftPlainAt DEF Plain
  <1> QED BY <1>1, <1>2

LEMMA DraftReplace ==
    ASSUME DraftSensible, DraftInv, NEW r \in Workers, O!Replace(r)
    PROVE  DraftInv'
  <1>1. requests[r].base.revision \in Nat
    BY DEF DraftInv, O!TypeOK, O!Request, O!Draft
  <1>2. PICK n \in 1..MaxRevision : n = requests[r].base.revision + 1
    BY <1>1 DEF O!Replace, O!Base, DraftSensible
  <1>3. /\ drafts < MaxDrafts /\ draft' = O!Fresh(n) /\ drafts' = drafts + 1 /\ lapsed' = FALSE
        /\ O!Ends(r) /\ UNCHANGED <<profile, lapses>>
    BY <1>2 DEF O!Replace, O!Base
  <1>4. DraftGoesOn
    BY <1>3, DraftFresh
  <1> QED BY <1>3, <1>4, DraftEnds

\* An answer, and a save that begins, keep the draft they have.
LEMMA DraftKept ==
    ASSUME DraftSensible, DraftInv, NEW r \in Workers, NEW next \in O!Request,
           requests[r].phase \in {"answering", "saving"}, next.phase \in {"saving", "writing"},
           next.base = requests[r].base, requests' = [requests EXCEPT ![r] = next],
           UNCHANGED <<draft, lapsed, profile, drafts, lapses>>
    PROVE  DraftInv'
  <1>1. DraftGoesOn
    BY DraftStays
  <1>2. requests' \in [Workers -> O!Request] /\ requests'[r] = next
        /\ \A u \in Workers : u # r => requests'[u] = requests[u]
    BY DEF DraftInv, O!TypeOK
  <1>3. RequestIsRight(r)'
    BY <1>2 DEF DraftInv, RequestIsRight, Unbroken
  <1> QED BY <1>1, <1>2, <1>3, DraftMoves

LEMMA DraftAnswer ==
    ASSUME DraftSensible, DraftInv, NEW r \in Workers, NEW patch \in O!Answers, O!Answer(r, patch)
    PROVE  DraftInv'
  <1> DEFINE next == [requests[r] EXCEPT !.patch = patch, !.phase = "saving"]
  <1>1. requests[r] \in O!Request
    BY DEF DraftInv, O!TypeOK
  <1>2. next \in O!Request /\ next.phase = "saving" /\ next.base = requests[r].base
    BY <1>1 DEF O!Request, O!Phases
  <1>3. /\ requests' = [requests EXCEPT ![r] = next] /\ requests[r].phase = "answering"
        /\ UNCHANGED <<draft, lapsed, profile, drafts, lapses>>
    BY DEF O!Answer, O!Goes
  <1> HIDE DEF next
  <1> QED BY <1>2, <1>3, DraftKept

LEMMA DraftBeginSave ==
    ASSUME DraftSensible, DraftInv, NEW r \in Workers, O!BeginSave(r)
    PROVE  DraftInv'
  <1>1. requests[r].phase = "saving" /\ UNCHANGED <<draft, lapsed, profile, drafts, lapses>>
    BY DEF O!BeginSave
  <1>2. CASE O!Ends(r)
    <2>1. DraftGoesOn
      BY <1>1, DraftStays
    <2> QED BY <1>2, <2>1, DraftEnds
  <1>3. CASE O!At(r, "writing")
    <2>1. PICK next \in O!Request :
              /\ requests' = [requests EXCEPT ![r] = next]
              /\ next.phase = "writing" /\ next.base = requests[r].base
      BY <1>3, DraftAt DEF O!Phases
    <2> QED BY <1>1, <2>1, DraftKept
  <1> QED BY <1>2, <1>3 DEF O!BeginSave

LEMMA RevisedFacts ==
    ASSUME DraftInv, NEW r \in Workers
    PROVE  LET base == requests[r].base
               fields == O!Merged(base.fields, requests[r].patch) IN
           /\ O!Revised(r) \in O!Draft /\ O!Revised(r).born = base.born
           /\ O!Revised(r).fields = fields
           /\ O!Revised(r).revision = IF fields = base.fields THEN base.revision ELSE base.revision + 1
  <1> DEFINE base   == requests[r].base
             patch  == requests[r].patch
             fields == O!Merged(base.fields, patch)
             revision == IF fields = base.fields THEN base.revision ELSE base.revision + 1
  <1>1. base \in O!Draft /\ patch \in O!Answers /\ base.fields \in O!Answers /\ base.revision \in Nat
    BY DEF DraftInv, O!TypeOK, O!Request, O!Draft
  <1>2. fields \in O!Answers
    BY <1>1 DEF O!Merged, O!Answers, O!Fields
  <1>3. revision \in Nat
    BY <1>1
  <1>4. O!Revised(r) = [base EXCEPT !.fields = fields, !.revision = revision]
    BY DEF O!Revised, O!Base, O!Patch
  <1> HIDE DEF fields, revision
  <1>5. /\ [base EXCEPT !.fields = fields, !.revision = revision] \in O!Draft
        /\ [base EXCEPT !.fields = fields, !.revision = revision].born = base.born
        /\ [base EXCEPT !.fields = fields, !.revision = revision].fields = fields
        /\ [base EXCEPT !.fields = fields, !.revision = revision].revision = revision
    BY <1>1, <1>2, <1>3 DEF O!Draft
  <1> QED BY <1>4, <1>5 DEF fields, revision

LEMMA SavedFacts ==
    ASSUME DraftInv, NEW r \in Workers, draft' = [O!Revised(r) EXCEPT !.born = draft.born]
    PROVE  /\ draft' \in O!Draft /\ draft'.born = draft.born
           /\ draft'.fields = O!Revised(r).fields /\ draft'.revision = O!Revised(r).revision
  <1>1. O!Revised(r) \in O!Draft /\ draft.born \in Nat
    BY RevisedFacts DEF DraftInv, O!TypeOK, O!Draft
  <1> QED BY <1>1 DEF O!Draft

LEMMA DraftSave ==
    ASSUME DraftSensible, DraftInv, NEW r \in Workers, O!Save(r)
    PROVE  DraftInv'
  <1> DEFINE base == requests[r].base
  <1>1. /\ requests[r].phase = "writing" /\ O!Revised(r).revision <= MaxRevision
        /\ UNCHANGED <<lapsed, profile, drafts, lapses>>
    BY DEF O!Save
  <1>2. Unbroken => /\ draft # O!NoDraft /\ drafts # 0
                    /\ base.revision = draft.revision => base.fields = draft.fields
    BY <1>1 DEF DraftInv, RequestIsRight
  <1>3. Unbroken' <=> Unbroken
    BY <1>1 DEF Unbroken
  <1>4. /\ profile' \in O!Answers /\ O!Given(profile') \in {{}, O!Fields} /\ profile' = profile
        /\ drafts' \in drafts..MaxDrafts /\ lapses' \in lapses..MaxLapses /\ drafts' = drafts
    BY <1>1 DEF DraftInv, O!TypeOK, DraftSensible
  <1>5. CASE draft = O!NoDraft /\ draft' = O!Revised(r)
    <2>1. lapsed' = FALSE
      BY Zenon, <1>1, <1>5 DEF DraftInv, O!TypeOK
    <2>2. draft' \in O!Draft /\ draft'.revision <= MaxRevision
      BY <1>1, <1>5, RevisedFacts
    <2>3. DraftGoesOn
      BY <1>2, <1>3, <1>4, <1>5, <2>1, <2>2 DEF DraftGoesOn
    <2> QED BY <1>5, <2>3, DraftEnds DEF O!Save
  <1>6. CASE draft # O!NoDraft /\ O!Matches(r) /\ draft' = [O!Revised(r) EXCEPT !.born = draft.born]
    <2>1. lapsed' = FALSE
      BY Zenon, <1>1, <1>6 DEF DraftInv, O!TypeOK, O!Matches
    <2>2. /\ draft' \in O!Draft /\ draft'.revision <= MaxRevision /\ draft'.born = draft.born
          /\ draft'.fields = O!Revised(r).fields /\ draft'.revision = O!Revised(r).revision
      BY <1>1, <1>6, SavedFacts
    <2>3. base.revision = draft.revision /\ draft.revision \in Nat /\ draft \in O!Draft
      BY <1>6 DEF O!Matches, O!Base, DraftInv, O!TypeOK, O!Draft
    <2>4. Unbroken => \/ draft'.revision = draft.revision + 1
                      \/ draft'.revision = draft.revision /\ draft'.fields = draft.fields
      BY <1>2, <2>2, <2>3, RevisedFacts
    <2>5. ASSUME Unbroken, draft' = O!NoDraft
          PROVE  FALSE
      <3>1. draft'.revision = draft.revision /\ draft'.fields = draft.fields
        BY <2>3, <2>4, <2>5, DraftConstants
      <3>2. draft = O!NoDraft
        BY <2>2, <2>3, <2>5, <3>1 DEF O!Draft, O!NoDraft
      <3> QED BY <1>6, <3>2
    <2>6. Unbroken' =>
              /\ drafts' # 0 /\ draft' # O!NoDraft
              /\ \/ draft'.revision > draft.revision
                 \/ draft'.revision = draft.revision /\ draft'.fields = draft.fields
      BY <1>2, <1>3, <1>4, <2>3, <2>4, <2>5
    <2>7. DraftGoesOn
      BY <1>4, <2>1, <2>2, <2>6 DEF DraftGoesOn
    <2> QED BY <1>6, <2>7, DraftEnds DEF O!Save
  <1>7. CASE draft' = draft /\ O!Conflicts(r)
    <2>1. DraftGoesOn
      BY <1>1, <1>7, DraftStays
    <2>2. CASE O!Ends(r)
      BY <2>1, <2>2, DraftEnds
    <2>3. CASE O!Goes(r, [requests[r] EXCEPT !.phase = "conflicted", !.again = TRUE])
      <3> DEFINE next == [requests[r] EXCEPT !.phase = "conflicted", !.again = TRUE]
      <3>1. requests[r] \in O!Request
        BY DEF DraftInv, O!TypeOK
      <3>2. next \in O!Request /\ next.phase = "conflicted"
        BY <3>1 DEF O!Request, O!Phases
      <3>3. requests' = [requests EXCEPT ![r] = next]
        BY <2>3 DEF O!Goes
      <3> HIDE DEF next
      <3> QED BY <2>1, <3>2, <3>3, DraftPlain DEF Plain
    <2> QED BY <1>7, <2>2, <2>3 DEF O!Conflicts
  <1> QED BY <1>5, <1>6, <1>7 DEF O!Save

LEMMA DraftRefresh ==
    ASSUME DraftSensible, DraftInv, NEW r \in Workers, O!Refresh(r)
    PROVE  DraftInv'
  <1>1. /\ UNCHANGED <<profile, drafts, lapses>>
        /\ UNCHANGED <<draft, lapsed>> \/ O!Forget
    BY DEF O!Refresh
  <1>2. DraftGoesOn
    BY <1>1, DraftStays
  <1>3. CASE O!Ends(r)
    BY <1>2, <1>3, DraftEnds
  <1>4. CASE O!At(r, "opening")
    BY <1>2, <1>4, DraftPlainAt DEF Plain
  <1>5. CASE /\ O!Forget /\ O!Live
             /\ O!Goes(r, [requests[r] EXCEPT !.base = draft, !.phase = "saving"])
    <2> DEFINE next == [requests[r] EXCEPT !.base = draft, !.phase = "saving"]
    <2>1. requests[r] \in O!Request /\ draft \in O!Draft
      BY DEF DraftInv, O!TypeOK
    <2>2. next \in O!Request /\ next.phase = "saving" /\ next.base = draft
      BY <2>1 DEF O!Request, O!Phases
    <2>3. requests' = [requests EXCEPT ![r] = next]
      BY <1>5 DEF O!Goes
    <2> HIDE DEF next
    <2> QED BY <1>2, <1>5, <2>2, <2>3, LiveStays, DraftTaken
  <1> QED BY <1>3, <1>4, <1>5 DEF O!Refresh

LEMMA DraftReset ==
    ASSUME DraftSensible, DraftInv, NEW r \in Workers, O!ReadForReset(r)
    PROVE  DraftInv'
  <1> DEFINE base == IF O!Live THEN draft ELSE O!NoDraft
             next == [O!Idle EXCEPT !.phase = "discarding", !.base = base]
  <1>1. base \in O!Draft
    BY DraftConstants DEF DraftInv, O!TypeOK
  <1>2. /\ requests' = [requests EXCEPT ![r] = next] /\ O!Forget
        /\ UNCHANGED <<profile, drafts, lapses>>
    BY DEF O!ReadForReset, O!Goes
  <1> HIDE DEF base
  <1>3. next \in O!Request /\ next.phase = "discarding"
    BY <1>1, DraftConstants DEF O!Request, O!Phases
  <1> HIDE DEF next
  <1> QED BY <1>2, <1>3, DraftStays, DraftPlain DEF Plain

LEMMA DraftReadForConfirm ==
    ASSUME DraftSensible, DraftInv, NEW r \in Workers, O!ReadForConfirm(r)
    PROVE  DraftInv'
  <1>1. UNCHANGED <<profile, drafts, lapses>>
    BY DEF O!ReadForConfirm
  <1>2. CASE O!HasProfile
    <2>1. O!Dropped /\ O!Ends(r)
      BY <1>2 DEF O!ReadForConfirm
    <2>2. profile' \in O!Answers /\ O!Given(profile') = O!Fields
      BY <1>1, <1>2, SaysSomething DEF DraftInv, O!TypeOK, O!HasProfile
    <2> QED BY <1>1, <2>1, <2>2, DraftDropped, DraftEnds
  <1>3. CASE ~O!HasProfile
    <2>1. O!Forget
      BY <1>3 DEF O!ReadForConfirm
    <2>2. DraftGoesOn
      BY <1>1, <2>1, DraftStays
    <2>3. CASE O!Ends(r)
      BY <2>2, <2>3, DraftEnds
    <2>4. CASE /\ O!Complete(draft.fields)
               /\ O!Goes(r, [O!Idle EXCEPT !.phase = "completing", !.base = draft])
      <3> DEFINE next == [O!Idle EXCEPT !.phase = "completing", !.base = draft]
      <3>1. draft \in O!Draft
        BY DEF DraftInv, O!TypeOK
      <3>2. next \in O!Request /\ next.phase = "completing" /\ next.base = draft
        BY <3>1, DraftConstants DEF O!Request, O!Phases
      <3>3. requests' = [requests EXCEPT ![r] = next]
        BY <2>4 DEF O!Goes
      <3> HIDE DEF next
      <3>4. /\ requests' \in [Workers -> O!Request] /\ requests'[r] = next
            /\ \A u \in Workers : u # r => requests'[u] = requests[u]
        BY <3>2, <3>3 DEF DraftInv, O!TypeOK
      <3>5. RequestIsRight(r)'
        BY <2>4, <3>2, <3>4 DEF RequestIsRight, O!Complete, O!Given
      <3> QED BY <2>2, <3>4, <3>5, DraftMoves
    <2> QED BY <1>3, <2>3, <2>4 DEF O!ReadForConfirm
  <1> QED BY <1>2, <1>3

LEMMA DraftComplete ==
    ASSUME DraftSensible, DraftInv, NEW r \in Workers, O!CompleteProfile(r)
    PROVE  DraftInv'
  <1>1. /\ O!Complete(requests[r].base.fields) /\ requests[r].base.fields \in O!Answers
        /\ O!Dropped /\ O!Ends(r) /\ UNCHANGED <<drafts, lapses>>
        /\ profile' = IF profile # O!NoAnswers THEN profile ELSE requests[r].base.fields
    BY DEF O!CompleteProfile, O!WasCompleted, O!HasProfile, O!Base, DraftInv, RequestIsRight,
           O!TypeOK, O!Request, O!Draft
  <1>2. profile' \in O!Answers /\ O!Given(profile') = O!Fields
    BY <1>1, SaysSomething DEF DraftInv, O!TypeOK, O!Complete
  <1> QED BY <1>1, <1>2, DraftDropped, DraftEnds

LEMMA DraftAskUpdate ==
    ASSUME DraftSensible, DraftInv, NEW r \in Workers, NEW input \in O!Answers, O!AskUpdate(r, input)
    PROVE  DraftInv'
  <1> DEFINE base == [O!Idle.base EXCEPT !.fields = profile]
             next == [O!Idle EXCEPT !.phase = "updating", !.patch = input, !.base = base]
  <1>1. profile \in O!Answers /\ O!Idle.base \in O!Draft
    BY DraftConstants DEF DraftInv, O!TypeOK, O!Idle
  <1>2. base \in O!Draft /\ base.fields = profile
    BY <1>1 DEF O!Draft
  <1>3. requests' = [requests EXCEPT ![r] = next] /\ "roleId" \in O!Given(input)
        /\ UNCHANGED <<draft, lapsed, profile, drafts, lapses>>
    BY DEF O!AskUpdate, O!Goes
  <1> HIDE DEF base
  <1>4. next \in O!Request /\ next.phase = "updating" /\ next.base = base /\ next.patch = input
    BY <1>2, DraftConstants DEF O!Request, O!Phases
  <1> HIDE DEF next
  <1>5. /\ requests' \in [Workers -> O!Request] /\ requests'[r] = next
        /\ \A u \in Workers : u # r => requests'[u] = requests[u]
    BY <1>3, <1>4 DEF DraftInv, O!TypeOK
  <1>6. RequestIsRight(r)'
    BY <1>2, <1>3, <1>4, <1>5 DEF RequestIsRight, O!Given
  <1> QED BY <1>3, <1>5, <1>6, DraftStays, DraftMoves

LEMMA DraftUpdate ==
    ASSUME DraftSensible, DraftInv, NEW r \in Workers, O!UpdateProfile(r)
    PROVE  DraftInv'
  <1> DEFINE base  == requests[r].base.fields
             patch == requests[r].patch
             input == [f \in O!Fields |-> IF f \in O!Given(patch) THEN patch[f]
                                          ELSE IF f \in O!Given(base) THEN base[f]
                                          ELSE O!Default[f]]
  <1>1. /\ O!Dropped /\ O!Ends(r) /\ UNCHANGED <<drafts, lapses>>
        /\ profile' = IF input = base THEN profile ELSE input
    BY DEF O!UpdateProfile, O!Base, O!Patch
  <1>2. /\ base \in O!Answers /\ patch \in O!Answers /\ "roleId" \in O!Given(patch)
        /\ base # O!NoAnswers => profile # O!NoAnswers
    <2>1. requests[r] \in O!Request /\ requests[r].phase = "updating" /\ RequestIsRight(r)
      BY DEF O!UpdateProfile, DraftInv, O!TypeOK
    <2> QED BY <2>1 DEF O!Request, O!Draft, RequestIsRight
  <1>3. (CHOOSE v \in Names : TRUE) \in Names /\ (CHOOSE v \in Zones : TRUE) \in Zones
    BY DEF DraftSensible
  <1>4. input \in O!Answers /\ O!Given(input) = O!Fields
    <2>1. /\ input["roleId"] = patch["roleId"] /\ patch["roleId"] # "none" /\ patch["roleId"] \in Roles \cup {"none"}
      BY <1>2 DEF O!Given, O!Fields, O!Answers
    <2>2. /\ input["preferredName"] \in Names /\ input["preferredName"] # "none"
          /\ input["timezone"] \in Zones /\ input["timezone"] # "none"
      BY <1>2, <1>3 DEF O!Given, O!Fields, O!Answers, O!Default, DraftSensible
    <2> HIDE DEF base, patch
    <2>3. input \in O!Answers
      BY <2>1, <2>2 DEF O!Answers, O!Fields
    <2>4. \A f \in O!Fields : input[f] # "none"
      BY <2>1, <2>2 DEF O!Fields
    <2> HIDE DEF input
    <2> QED BY <2>3, <2>4 DEF O!Given
  <1> HIDE DEF base, patch, input
  <1>5. profile' \in O!Answers /\ O!Given(profile') = O!Fields
    <2>1. CASE input = base
      <3>1. profile # O!NoAnswers
        BY <1>2, <1>4, <2>1, SaysSomething DEF O!Fields
      <3> QED BY <1>1, <2>1, <3>1, SaysSomething DEF DraftInv, O!TypeOK
    <2>2. CASE input # base
      BY <1>1, <1>4, <2>2
    <2> QED BY <2>1, <2>2
  <1> QED BY <1>1, <1>5, DraftDropped, DraftEnds

LEMMA DraftAlone ==
    ASSUME DraftSensible, DraftInv, UNCHANGED requests, DraftGoesOn
    PROVE  DraftInv'
  BY DraftMoves DEF DraftInv, O!TypeOK

LEMMA DraftContext ==
    ASSUME DraftSensible, DraftInv, NEW f \in O!FreeFields, NEW v \in Names \cup Zones,
           O!UpdateContext(f, v)
    PROVE  DraftInv'
  <1>1. /\ profile # O!NoAnswers /\ profile' = [profile EXCEPT ![f] = v] /\ profile' \in O!Answers
        /\ UNCHANGED <<draft, lapsed, requests, drafts, lapses>>
    BY DEF O!UpdateContext, O!HasProfile
  <1>2. O!Given(profile) = O!Fields /\ profile \in O!Answers
    BY <1>1, SaysSomething DEF DraftInv, O!TypeOK
  <1>3. O!Given(profile') = O!Fields
    <2>1. \A g \in O!Fields : profile'[g] = IF g = f THEN v ELSE profile[g]
      BY <1>1, <1>2 DEF O!Answers, O!Fields
    <2>2. v # "none"
      BY DEF DraftSensible
    <2> QED BY <1>2, <2>1, <2>2 DEF O!Given
  <1>4. profile' # O!NoAnswers
    BY <1>3, DraftConstants DEF O!Fields
  <1>5. ~Unbroken'
    BY <1>4 DEF Unbroken
  <1>6. /\ draft' \in O!Draft /\ draft'.revision <= MaxRevision
        /\ drafts' \in drafts..MaxDrafts /\ lapses' \in lapses..MaxLapses
    BY <1>1 DEF DraftInv, O!TypeOK, DraftSensible
  <1>7. lapsed' \in BOOLEAN /\ (lapsed' => draft' # O!NoDraft /\ lapses' > 0)
    BY Zenon, <1>1 DEF DraftInv, O!TypeOK
  <1>8. DraftGoesOn
    BY <1>1, <1>3, <1>4, <1>5, <1>6, <1>7 DEF DraftGoesOn
  <1> QED BY <1>1, <1>8, DraftAlone

LEMMA DraftLapse ==
    ASSUME DraftSensible, DraftInv, O!Lapse
    PROVE  DraftInv'
  <1>1. /\ draft # O!NoDraft /\ lapsed' = TRUE /\ lapses' = lapses + 1 /\ lapses < MaxLapses
        /\ UNCHANGED <<draft, profile, requests, drafts>>
    BY DEF O!Lapse, O!Live
  <1>2. /\ draft' \in O!Draft /\ draft'.revision <= MaxRevision /\ profile' = profile
        /\ profile' \in O!Answers /\ O!Given(profile') \in {{}, O!Fields}
        /\ drafts' \in drafts..MaxDrafts /\ lapses' \in lapses..MaxLapses /\ lapses' > 0
    BY <1>1 DEF DraftInv, O!TypeOK, DraftSensible
  <1>3. ~Unbroken'
    BY <1>2 DEF Unbroken
  <1>4. DraftGoesOn
    BY <1>1, <1>2, <1>3 DEF DraftGoesOn
  <1> QED BY <1>1, <1>4, DraftAlone

LEMMA DraftPurge ==
    ASSUME DraftSensible, DraftInv, O!PurgeExpired
    PROVE  DraftInv'
  BY DraftStays, DraftAlone DEF O!PurgeExpired

LEMMA DraftInit ==
    ASSUME DraftSensible, O!Init
    PROVE  DraftInv
  <1>1. /\ draft = O!NoDraft /\ lapsed = FALSE /\ profile = O!NoAnswers
        /\ requests = [r \in Workers |-> O!Idle] /\ drafts = 0 /\ lapses = 0
    BY DEF O!Init
  <1>2. lapsed \in BOOLEAN /\ ~lapsed
    BY Zenon, <1>1
  <1>3. \A r \in Workers : RequestIsRight(r)
    BY <1>1, DraftConstants DEF RequestIsRight
  <1>4. /\ draft \in O!Draft /\ draft.revision <= MaxRevision /\ profile \in O!Answers
        /\ O!Given(profile) = {} /\ requests \in [Workers -> O!Request]
        /\ drafts \in 0..MaxDrafts /\ lapses \in 0..MaxLapses
    BY <1>1, DraftConstants DEF DraftSensible
  <1> QED BY <1>1, <1>2, <1>3, <1>4 DEF DraftInv, O!TypeOK

LEMMA DraftStep ==
    ASSUME DraftSensible, DraftInv, [O!Next]_draftVars
    PROVE  DraftInv'
  <1>1. CASE UNCHANGED draftVars
    BY <1>1, DraftStays, DraftAlone DEF draftVars
  <1>2. ASSUME NEW r \in Workers,
               \/ O!Open(r) \/ O!BeginInsert(r) \/ O!Insert(r)
               \/ O!BeginSave(r) \/ O!Save(r) \/ O!Refresh(r)
               \/ O!ReadForReset(r) \/ O!BeginReplace(r) \/ O!Replace(r)
               \/ O!ReadForConfirm(r) \/ O!CompleteProfile(r) \/ O!UpdateProfile(r)
               \/ O!GivesUp(r)
        PROVE  DraftInv'
    BY <1>2, DraftOpen, DraftBegins, DraftInsert, DraftBeginSave, DraftSave, DraftRefresh,
       DraftReset, DraftReplace, DraftReadForConfirm, DraftComplete, DraftUpdate
  <1>3. ASSUME NEW r \in Workers, NEW patch \in O!Answers, O!Answer(r, patch) \/ O!AskUpdate(r, patch)
        PROVE  DraftInv'
    BY <1>3, DraftAnswer, DraftAskUpdate
  <1>4. ASSUME NEW f \in O!FreeFields, NEW v \in Names \cup Zones, O!UpdateContext(f, v)
        PROVE  DraftInv'
    BY <1>4, DraftContext
  <1> QED BY <1>1, <1>2, <1>3, <1>4, DraftLapse, DraftPurge DEF O!Next

\* Who ends did so itself.
LEMMA DraftEnder ==
    ASSUME DraftInv, [O!Next]_draftVars, NEW r \in Workers,
           requests[r].phase \in {"writing", "completing"}, requests'[r] = O!Idle
    PROVE  O!Save(r) \/ O!CompleteProfile(r) \/ UNCHANGED <<draft, profile>>
  <1>0. requests'[r] # requests[r] /\ requests \in [Workers -> O!Request]
    BY DEF O!Idle, DraftInv, O!TypeOK
  <1>1. O!Next
    BY <1>0 DEF draftVars
  <1>2. PICK u \in Workers :
            \/ O!Open(u) \/ O!BeginInsert(u) \/ O!Insert(u)
            \/ O!BeginSave(u) \/ O!Save(u) \/ O!Refresh(u)
            \/ O!ReadForReset(u) \/ O!BeginReplace(u) \/ O!Replace(u)
            \/ O!ReadForConfirm(u) \/ O!CompleteProfile(u) \/ O!UpdateProfile(u)
            \/ O!GivesUp(u) \/ \E patch \in O!Answers : O!Answer(u, patch) \/ O!AskUpdate(u, patch)
    <2>1. ~O!Lapse /\ ~O!PurgeExpired
          /\ \A f \in O!FreeFields, v \in Names \cup Zones : ~O!UpdateContext(f, v)
      BY <1>0 DEF O!Lapse, O!PurgeExpired, O!UpdateContext
    <2> QED BY <1>1, <2>1 DEF O!Next
  <1>3. \E next : requests' = [requests EXCEPT ![u] = next]
    <2>1. \E next : O!Goes(u, next)
      BY <1>2 DEF O!Open, O!BeginInsert, O!Insert, O!BeginSave, O!Save, O!Refresh, O!ReadForReset,
             O!BeginReplace, O!Replace, O!ReadForConfirm, O!CompleteProfile, O!UpdateProfile,
             O!GivesUp, O!Answer, O!AskUpdate, O!At, O!Ends, O!Takes, O!Conflicts
    <2> QED BY <2>1 DEF O!Goes
  <1>4. u = r
    BY <1>0, <1>3
  <1>5. \/ O!Save(r) \/ O!CompleteProfile(r) \/ O!GivesUp(r)
    BY <1>2, <1>4 DEF O!Open, O!BeginInsert, O!Insert, O!BeginSave, O!Refresh, O!ReadForReset,
             O!BeginReplace, O!Replace, O!ReadForConfirm, O!UpdateProfile, O!Answer, O!AskUpdate
  <1> QED BY <1>5 DEF O!GivesUp

LEMMA DraftKeepsAnswers ==
    ASSUME DraftSensible, DraftInv, [O!Next]_draftVars
    PROVE  O!KeepsAnswers
  <1> SUFFICES ASSUME NEW r \in Workers, requests[r].phase = "writing", requests'[r] = O!Idle,
                      draft # O!NoDraft, Unbroken, NEW f \in O!Fields,
                      draft'.fields[f] # draft.fields[f]
               PROVE  /\ f \in O!Given(requests[r].patch)
                      /\ O!Complete(draft.fields) \/ draft.fields[f] = "none"
    BY DEF O!KeepsAnswers, O!HasProfile, O!Patch, Unbroken
  <1>1. O!Save(r)
    BY DraftEnder DEF O!CompleteProfile
  <1>2. CASE O!Matches(r) /\ draft' = [O!Revised(r) EXCEPT !.born = draft.born]
    <2>1. draft'.fields = O!Merged(requests[r].base.fields, requests[r].patch)
      BY <1>2, SavedFacts, RevisedFacts
    <2>2. requests[r].base.fields = draft.fields
      BY <1>2 DEF O!Matches, O!Base, DraftInv, RequestIsRight
    <2> QED BY <2>1, <2>2 DEF O!Merged
  <1> QED BY <1>1, <1>2 DEF O!Save

LEMMA DraftConfirmsOnce ==
    ASSUME DraftInv, [O!Next]_draftVars
    PROVE  O!ConfirmsOnce
  <1> SUFFICES ASSUME NEW r \in Workers, requests[r].phase = "completing", requests'[r] = O!Idle
               PROVE  /\ profile' \in {profile, requests[r].base.fields}
                      /\ O!HasProfile => profile' = profile
    BY DEF O!ConfirmsOnce, O!Base
  <1>1. O!CompleteProfile(r) \/ profile' = profile
    BY DraftEnder DEF O!Save
  <1> QED BY <1>1 DEF O!CompleteProfile, O!WasCompleted, O!HasProfile, O!Base

\* Of a draft that was neither reset nor expired, before there is a profile, an answer changes
\* what it says and, until the draft is complete, what nobody said; of several confirmations one
\* makes the profile.
THEOREM AnswersStayCounted ==
    ASSUME DraftSensible
    PROVE  AllSpec => AnswersCount
  <1> DEFINE IInv == about = "draft" => DraftInv
  <1>1. AllInit => IInv
    BY DraftInit DEF AllInit
  <1>2. IInv /\ [AllNext]_all => IInv'
    <2> SUFFICES ASSUME IInv, [AllNext]_all, about' = "draft" PROVE DraftInv'
      OBVIOUS
    <2>1. about = "draft" /\ [O!Next]_draftVars
      BY OnePartMoves
    <2> QED BY <2>1, DraftStep
  <1>3. IInv /\ [AllNext]_all => [about = "draft" => O!KeepsAnswers /\ O!ConfirmsOnce]_draftVars
    <2> SUFFICES ASSUME IInv, [AllNext]_all, about = "draft"
                 PROVE  O!KeepsAnswers /\ O!ConfirmsOnce
      OBVIOUS
    <2>1. [O!Next]_draftVars
      BY OnePartMoves
    <2> QED BY <2>1, DraftKeepsAnswers, DraftConfirmsOnce
  <1> QED BY <1>1, <1>2, <1>3, PTL DEF AllSpec, AnswersCount

-----------------------------------------------------------------------------
(* Activities                                                              *)

\* A call that is served, and one that holds the message it is linked to.
Works(c) == transactions[c].phase \notin {"idle", "told"}
Holding(c) ==
    /\ transactions[c].linked
    /\ transactions[c].phase \in {"reading", "extracting", "reserving", "writing", "recording", "completing"}

\* Tickets are counted up, one for each call.
TicketsAreOwn ==
    /\ \A c \in Workers : Works(c) =>
           /\ transactions[c].ticket \in 1..tickets /\ transactions[c].message \in Messages
           /\ wrote[transactions[c].ticket].linked =
                  IF transactions[c].linked THEN transactions[c].message ELSE "none"
    /\ \A c, d \in Workers :
           Works(c) /\ Works(d) /\ transactions[c].ticket = transactions[d].ticket => c = d
    /\ \A t \in 1..MaxTickets : t > tickets => wrote[t].linked = "none" /\ wrote[t].ids = {}

\* A part of a decision names what it changes, and nothing replaces itself.
PartIsRight(part) ==
    /\ part.kind # "collect" => part.ref \in A!Refs
    /\ part.kind = "supersede" => part.other \in A!Refs /\ part.ref # part.other

\* What a call has written so far is what it will tell, in each phase; and where it is.
CallIsRight(c) ==
    LET call == transactions[c]
        did  == wrote[call.ticket].ids
    IN  /\ call.phase = "claiming" => call.linked
        /\ call.phase \in {"claiming", "completing"} => call.at = 0
        /\ call.phase \in {"claiming", "reading", "extracting"} =>
               /\ did = {} /\ call.saved = {} /\ call.outcome = A!NoOutcome /\ ~call.chained
        /\ call.phase \in {"reserving", "writing", "recording"} =>
               /\ call.at \in 1..Len(call.parts) /\ Len(call.parts) <= 2
               /\ \A i \in 1..Len(call.parts) : PartIsRight(call.parts[i])
        /\ call.phase \in {"reserving", "recording"} => call.chained /\ call.saved = {}
        /\ call.phase \in {"reserving", "recording", "completing"} =>
               call.outcome.unsure \/ did = call.outcome.ids
        /\ call.phase = "writing" =>
               /\ call.outcome.unsure \/ did = call.outcome.ids \cup call.saved
               /\ ~call.chained => call.outcome = A!NoOutcome
               /\ call.parts[call.at].kind # "collect" => call.saved = {}
        /\ call.phase \in {"recording", "completing"} => call.outcome.ticket = call.ticket

\* An outcome that is told is unsure, or what a call wrote that writes no more.
IsTrue(o) ==
    \/ o.unsure
    \/ /\ o.ticket \in 1..tickets /\ o.ids = wrote[o.ticket].ids
       /\ \A c \in Workers : Works(c) => transactions[c].ticket # o.ticket

ToldRight(c) == transactions[c].phase = "told" =>
    \A o \in A!Outcome : o = transactions[c].outcome => IsTrue(o)
StoredRight(m) == claims[<<m, 0>>].state = "done" =>
    \A o \in A!Outcome : o = claims[<<m, 0>>].outcome => IsTrue(o)

\* One call holds a message, and only it or one that held it earlier has written for it.
HeldOnce(c) == Holding(c) =>
    /\ claims[<<transactions[c].message, 0>>].state # "free"
    /\ \A d \in Workers : Holding(d) /\ transactions[d].message = transactions[c].message => c = d

WroteFor(t, m) == wrote[t].linked = m /\ wrote[t].ids # {}
WroteOnce(m) == \A t \in 1..MaxTickets : WroteFor(t, m) =>
    /\ claims[<<m, 0>>].state # "free"
    /\ \A u \in 1..MaxTickets : WroteFor(u, m) => t = u
    /\ \A c \in Workers : Holding(c) /\ transactions[c].message = m => transactions[c].ticket = t

ActInv ==
    /\ A!TypeOK /\ TicketsAreOwn /\ A!WorkIsNotLost
    /\ \A c \in Workers : CallIsRight(c) /\ ToldRight(c) /\ HeldOnce(c)
    /\ \A m \in Messages : StoredRight(m) /\ WroteOnce(m)

LEMMA ActConstants ==
    ASSUME ActivitiesSensible
    PROVE  /\ A!NoOutcome \in A!Outcome /\ A!Free \in A!ClaimRow /\ A!Idle \in A!Call
           /\ A!NoOutcome.ids = {} /\ A!NoOutcome.unsure = FALSE
           /\ A!Absent \in A!Activity /\ A!Absent.status = "absent" /\ A!Absent.by = 0
           /\ A!Free.state = "free" /\ A!Free.outcome = A!NoOutcome
           /\ A!Idle.phase = "idle" /\ A!Idle.saved = {} /\ A!Idle.outcome = A!NoOutcome
           /\ A!Idle.chained = FALSE /\ A!Idle.at = 0
  <1>1. /\ A!NoOutcome \in A!Outcome /\ A!NoOutcome.ids = {} /\ A!NoOutcome.unsure = FALSE
    BY DEF A!NoOutcome, A!Outcome, A!Statuses
  <1>2. /\ A!Free \in A!ClaimRow /\ A!Free.state = "free" /\ A!Free.outcome = A!NoOutcome
    BY <1>1 DEF A!Free, A!ClaimRow
  <1>3. /\ A!Absent \in A!Activity /\ A!Absent.status = "absent" /\ A!Absent.by = 0
    BY DEF A!Absent, A!Activity
  <1>4. <<>> \in Seq(A!Part)
    OBVIOUS
  <1>5. /\ A!Idle \in A!Call /\ A!Idle.phase = "idle" /\ A!Idle.saved = {}
        /\ A!Idle.outcome = A!NoOutcome /\ A!Idle.chained = FALSE /\ A!Idle.at = 0
    BY <1>1, <1>4 DEF A!Idle, A!Call, A!Phases, A!Ordinals, A!NoRef
  <1> QED BY <1>1, <1>2, <1>3, <1>5

LEMMA ActInit ==
    ASSUME ActivitiesSensible, A!Init
    PROVE  ActInv
  <1>1. /\ activities = [a \in Ids |-> IF a <= EarlierIds THEN A!Created(CHOOSE v \in Values : TRUE)
                                       ELSE A!Absent]
        /\ claims = [k \in Messages \X A!Ordinals |-> A!Free]
        /\ transactions = [c \in Workers |-> A!Idle]
        /\ tickets = 0 /\ faults = 0
        /\ wrote = [t \in 1..MaxTickets |-> [linked |-> "none", ids |-> {}]]
    BY DEF A!Init
  <1>2. \A v \in Values : A!Created(v) \in A!Activity /\ A!Created(v).status = "active" /\ A!Created(v).by = 0
    BY ActConstants DEF A!Created, A!Activity
  <1>3. (CHOOSE v \in Values : TRUE) \in Values
    BY DEF ActivitiesSensible
  <1>4. /\ activities \in [Ids -> A!Activity]
        /\ \A a \in Ids : activities[a].status \in {"absent", "active"} /\ activities[a].by = 0
    BY <1>1, <1>2, <1>3, ActConstants
  <1>5. A!TypeOK
    <2>1. claims \in [Messages \X A!Ordinals -> A!ClaimRow] /\ transactions \in [Workers -> A!Call]
      BY <1>1, ActConstants
    <2>2. wrote \in [1..MaxTickets -> [linked : Messages \cup {"none"}, ids : SUBSET Ids]]
      BY <1>1
    <2>3. tickets \in 0..MaxTickets /\ faults \in 0..MaxFaults
      BY <1>1 DEF ActivitiesSensible
    <2> QED BY <1>4, <2>1, <2>2, <2>3 DEF A!TypeOK
  <1>6. A!WorkIsNotLost
    BY <1>4 DEF A!WorkIsNotLost
  <1>7. \A c \in Workers : ~Works(c) /\ ~Holding(c) /\ CallIsRight(c) /\ ToldRight(c) /\ HeldOnce(c)
    BY <1>1, ActConstants DEF Works, Holding, CallIsRight, ToldRight, HeldOnce
  <1>8. TicketsAreOwn
    BY <1>1, <1>7 DEF TicketsAreOwn
  <1>9. \A m \in Messages : StoredRight(m) /\ WroteOnce(m)
    BY <1>1, ActConstants DEF StoredRight, WroteOnce, WroteFor, A!Ordinals
  <1> QED BY <1>5, <1>6, <1>7, <1>8, <1>9 DEF ActInv

\* The activities and who replaces whom.
ActivitiesRight ==
    /\ activities \in [Ids -> A!Activity]
    /\ \A a \in Ids : activities[a].status = "superseded" <=> activities[a].by # 0
    /\ \A a \in Ids : activities[a].by # 0 => activities[activities[a].by].status # "absent"
    /\ A!WorkIsNotLost

\* A call writes under its ticket, while it is writing.
WritesAs(c) ==
    /\ wrote' \in [1..MaxTickets -> [linked : Messages \cup {"none"}, ids : SUBSET Ids]]
    /\ wrote' = wrote \/ transactions[c].phase = "writing"
    /\ \A t \in 1..MaxTickets :
           /\ wrote'[t].linked = wrote[t].linked
           /\ t # transactions[c].ticket => wrote'[t] = wrote[t]

\* A call claims its message before it does anything, and stores what it tells at the end.
Claims(c) ==
    /\ claims' \in [Messages \X A!Ordinals -> A!ClaimRow]
    /\ \A m \in Messages :
          \/ claims'[<<m, 0>>] = claims[<<m, 0>>]
          \/ /\ m = transactions[c].message /\ transactions[c].phase = "claiming"
             /\ claims[<<m, 0>>].state = "free" /\ claims'[<<m, 0>>].state = "reserved"
          \/ /\ m = transactions[c].message /\ transactions[c].phase = "completing"
             /\ transactions'[c].phase = "told" /\ claims'[<<m, 0>>].state = "done"
             /\ claims'[<<m, 0>>].outcome = transactions[c].outcome

\* A call goes on as itself, and holds a message that it claimed.
GoesOn(c) ==
    /\ Works(c)
    /\ Works(c)' => /\ transactions'[c].ticket = transactions[c].ticket
                    /\ transactions'[c].message = transactions[c].message
                    /\ transactions'[c].linked = transactions[c].linked
    /\ Holding(c)' =>
           \/ Holding(c)
           \/ /\ transactions[c].phase = "claiming"
              /\ claims[<<transactions[c].message, 0>>].state = "free"
              /\ claims'[<<transactions[c].message, 0>>].state = "reserved"
    /\ transactions'[c].phase = "told" =>
           \/ transactions'[c].outcome.unsure
           \/ /\ transactions'[c].outcome.ticket = transactions[c].ticket
              /\ transactions'[c].outcome.ids = wrote'[transactions[c].ticket].ids
           \/ /\ claims[<<transactions[c].message, 0>>].state = "done" /\ wrote' = wrote
              /\ transactions'[c].outcome = claims[<<transactions[c].message, 0>>].outcome

LEMMA ActCallMoves ==
    ASSUME ActivitiesSensible, ActInv, NEW c \in Workers, NEW next \in A!Call,
           transactions' = [transactions EXCEPT ![c] = next],
           tickets' = tickets, faults' \in 0..MaxFaults, ActivitiesRight',
           WritesAs(c), Claims(c), GoesOn(c), CallIsRight(c)'
    PROVE  ActInv'
  <1>1. /\ transactions \in [Workers -> A!Call] /\ transactions' \in [Workers -> A!Call]
        /\ transactions'[c] = next /\ tickets \in 0..MaxTickets /\ MaxTickets \in Nat
        /\ \A d \in Workers : d # c => transactions'[d] = transactions[d]
    BY DEF ActInv, A!TypeOK, ActivitiesSensible
  <1>2. A!TypeOK' /\ A!WorkIsNotLost'
    BY <1>1 DEF ActInv, A!TypeOK, ActivitiesRight, WritesAs, Claims
  <1>3. \A d \in Workers : /\ Works(d)' => Works(d) /\ transactions'[d].ticket = transactions[d].ticket
                                           /\ transactions'[d].message = transactions[d].message
                                           /\ transactions'[d].linked = transactions[d].linked
    BY <1>1 DEF GoesOn, Works
  <1>4. TicketsAreOwn'
    <2>1. ASSUME NEW d \in Workers, Works(d)'
          PROVE  /\ transactions'[d].ticket \in 1..tickets' /\ transactions'[d].message \in Messages
                 /\ wrote'[transactions'[d].ticket].linked =
                        IF transactions'[d].linked THEN transactions'[d].message ELSE "none"
      BY <1>1, <1>3, <2>1 DEF ActInv, TicketsAreOwn, WritesAs
    <2>2. ASSUME NEW d \in Workers, NEW e \in Workers, Works(d)', Works(e)',
                 transactions'[d].ticket = transactions'[e].ticket
          PROVE  d = e
      BY <1>3, <2>2 DEF ActInv, TicketsAreOwn
    <2>3. ASSUME NEW t \in 1..MaxTickets, t > tickets
          PROVE  wrote'[t] = wrote[t]
      BY <1>1, <2>3 DEF ActInv, TicketsAreOwn, WritesAs, GoesOn
    <2> QED BY <2>1, <2>2, <2>3 DEF ActInv, TicketsAreOwn
  <1>5. ASSUME NEW d \in Workers, d # c
        PROVE  CallIsRight(d)'
    <2>1. CASE ~Works(d)
      BY <1>1, <1>5, <2>1 DEF Works, CallIsRight
    <2>2. CASE Works(d)
      <3>1. wrote'[transactions[d].ticket] = wrote[transactions[d].ticket]
        BY <1>1, <1>5, <2>2 DEF ActInv, TicketsAreOwn, WritesAs, GoesOn
      <3> QED BY <1>1, <1>5, <3>1 DEF ActInv, CallIsRight
    <2> QED BY <2>1, <2>2
  <1>6. ASSUME NEW o \in A!Outcome, IsTrue(o)
        PROVE  IsTrue(o)'
    <2>1. CASE o.unsure
      BY <2>1 DEF IsTrue
    <2>2. CASE ~o.unsure
      <3>1. /\ o.ticket \in 1..tickets /\ o.ids = wrote[o.ticket].ids
            /\ \A d \in Workers : Works(d) => transactions[d].ticket # o.ticket
        BY <1>6, <2>2 DEF IsTrue
      <3>2. wrote'[o.ticket] = wrote[o.ticket]
        BY <1>1, <3>1 DEF WritesAs, GoesOn
      <3> QED BY <1>3, <3>1, <3>2 DEF IsTrue
    <2> QED BY <2>1, <2>2
  <1>7. ~Works(c)' => \A d \in Workers : Works(d)' => transactions'[d].ticket # transactions[c].ticket
    BY <1>3 DEF ActInv, TicketsAreOwn, GoesOn
  <1>8. transactions[c].ticket \in 1..tickets /\ transactions[c].message \in Messages
    BY DEF ActInv, TicketsAreOwn, GoesOn
  <1>9. ASSUME NEW d \in Workers
        PROVE  ToldRight(d)'
    <2>1. CASE d # c
      BY <1>1, <1>6, <2>1 DEF ActInv, ToldRight
    <2>2. CASE d = c
      <3> SUFFICES ASSUME transactions'[c].phase = "told", NEW o \in A!Outcome,
                          o = transactions'[c].outcome
                   PROVE  IsTrue(o)'
        BY <2>2 DEF ToldRight
      <3>1. CASE o.unsure
        BY <3>1 DEF IsTrue
      <3>2. CASE o.ticket = transactions[c].ticket /\ o.ids = wrote'[transactions[c].ticket].ids
        BY <1>7, <1>8, <3>2 DEF IsTrue, Works
      <3>3. CASE /\ claims[<<transactions[c].message, 0>>].state = "done"
                 /\ o = claims[<<transactions[c].message, 0>>].outcome
        BY <1>6, <1>8, <3>3 DEF ActInv, StoredRight
      <3> QED BY <3>1, <3>2, <3>3 DEF GoesOn
    <2> QED BY <2>1, <2>2
  <1>10. ASSUME NEW m \in Messages
         PROVE  StoredRight(m)'
    <2>1. CASE claims'[<<m, 0>>] = claims[<<m, 0>>]
      BY <1>6, <2>1 DEF ActInv, StoredRight
    <2>2. CASE claims'[<<m, 0>>].state = "reserved"
      BY <2>2 DEF StoredRight
    <2>3. CASE /\ transactions[c].phase = "completing" /\ transactions'[c].phase = "told"
               /\ claims'[<<m, 0>>].outcome = transactions[c].outcome
      <3> SUFFICES ASSUME NEW o \in A!Outcome, o = transactions[c].outcome
                   PROVE  IsTrue(o)'
        BY <2>3 DEF StoredRight
      <3>1. o.unsure \/ o.ids = wrote[transactions[c].ticket].ids
        BY <2>3 DEF ActInv, CallIsRight
      <3>2. o.ticket = transactions[c].ticket /\ wrote' = wrote
        BY <2>3 DEF ActInv, CallIsRight, WritesAs
      <3> QED BY <1>7, <1>8, <2>3, <3>1, <3>2 DEF IsTrue, Works
    <2> QED BY <2>1, <2>2, <2>3 DEF Claims
  <1>11. \A m \in Messages : claims[<<m, 0>>].state # "free" => claims'[<<m, 0>>].state # "free"
    BY DEF Claims
  <1>12. \A d \in Workers : Holding(d)' =>
             /\ d # c => Holding(d)
             /\ transactions'[d].message = transactions[d].message
             /\ transactions'[d].ticket = transactions[d].ticket
             /\ transactions'[d].message \in Messages
    <2>1. \A d \in Workers : Holding(d)' => Works(d)' /\ (d # c => Holding(d))
      BY <1>1 DEF Holding, Works
    <2> QED BY <1>3, <2>1 DEF ActInv, TicketsAreOwn
  <1>13. ASSUME NEW d \in Workers
         PROVE  HeldOnce(d)'
    <2>0. SUFFICES ASSUME Holding(d)'
                   PROVE  /\ claims'[<<transactions[d].message, 0>>].state # "free"
                          /\ \A e \in Workers : Holding(e)' /\ transactions[e].message = transactions[d].message => d = e
      BY <1>12 DEF HeldOnce
    <2>1. ASSUME NEW e \in Workers, Holding(e)'
          PROVE  Holding(e) \/ (e = c /\ claims[<<transactions[c].message, 0>>].state = "free"
                                      /\ claims'[<<transactions[c].message, 0>>].state = "reserved")
      BY <1>12, <2>1 DEF GoesOn
    <2>2. claims'[<<transactions[d].message, 0>>].state # "free"
      BY <1>11, <1>12, <2>0, <2>1 DEF ActInv, HeldOnce
    <2>3. ASSUME NEW e \in Workers, Holding(e)', transactions[e].message = transactions[d].message
          PROVE  d = e
      BY <2>0, <2>1, <2>3 DEF ActInv, HeldOnce
    <2> QED BY <2>2, <2>3
  <1>14. ASSUME NEW m \in Messages
         PROVE  WroteOnce(m)'
    <2>1. \A t \in 1..MaxTickets : WroteFor(t, m)' =>
              WroteFor(t, m) \/ (t = transactions[c].ticket /\ transactions[c].phase = "writing"
                                 /\ wrote[t].linked = m)
      BY DEF WritesAs, WroteFor
    <2>2. ASSUME transactions[c].phase = "writing", wrote[transactions[c].ticket].linked = m
          PROVE  Holding(c) /\ transactions[c].message = m
      BY <2>2 DEF ActInv, TicketsAreOwn, GoesOn, ActivitiesSensible, Holding
    <2>3. ASSUME NEW t \in 1..MaxTickets, WroteFor(t, m)'
          PROVE  claims[<<m, 0>>].state # "free"
      BY <2>1, <2>2, <2>3 DEF ActInv, WroteOnce, HeldOnce
    <2>4. ASSUME NEW t \in 1..MaxTickets, NEW u \in 1..MaxTickets, WroteFor(t, m)', WroteFor(u, m)'
          PROVE  t = u
      BY <2>1, <2>2, <2>4 DEF ActInv, WroteOnce
    <2>5. ASSUME NEW t \in 1..MaxTickets, WroteFor(t, m)', NEW d \in Workers, Holding(d)',
                 transactions'[d].message = m
          PROVE  transactions'[d].ticket = t
      <3>1. Holding(d) /\ transactions[d].message = m /\ transactions'[d].ticket = transactions[d].ticket
        BY <1>12, <2>3, <2>5 DEF GoesOn
      <3>2. CASE WroteFor(t, m)
        BY <3>1, <3>2 DEF ActInv, WroteOnce
      <3>3. CASE t = transactions[c].ticket /\ transactions[c].phase = "writing" /\ wrote[t].linked = m
        <4>1. Holding(c) /\ transactions[c].message = m
          BY <2>2, <3>3
        <4>2. c = d
          BY <3>1, <4>1 DEF ActInv, HeldOnce
        <4> QED BY <3>1, <3>3, <4>2
      <3> QED BY <2>1, <2>5, <3>2, <3>3
    <2> QED BY <1>11, <2>3, <2>4, <2>5 DEF WroteOnce
  <1> QED BY <1>2, <1>4, <1>5, <1>9, <1>10, <1>13, <1>14 DEF ActInv

\* What a step that stays a step of this call must bring about.
ActRest(c) ==
    /\ tickets' = tickets /\ faults' \in 0..MaxFaults /\ ActivitiesRight' /\ WritesAs(c) /\ Claims(c)

LEMMA ActTells ==
    ASSUME ActivitiesSensible, ActInv, NEW c \in Workers, NEW o \in A!Outcome, A!Tell(c, o),
           Works(c), ActRest(c),
           \/ o.unsure
           \/ o.ticket = transactions[c].ticket /\ o.ids = wrote'[transactions[c].ticket].ids
           \/ /\ claims[<<transactions[c].message, 0>>].state = "done" /\ wrote' = wrote
              /\ o = claims[<<transactions[c].message, 0>>].outcome
    PROVE  ActInv'
  <1> DEFINE next == [A!Idle EXCEPT !.phase = "told", !.outcome = o]
  <1>1. next \in A!Call /\ next.phase = "told" /\ next.outcome = o
    BY ActConstants DEF A!Call, A!Phases
  <1>2. transactions' = [transactions EXCEPT ![c] = next]
    BY DEF A!Tell, A!Goes
  <1> HIDE DEF next
  <1>3. transactions'[c] = next
    BY <1>2 DEF ActInv, A!TypeOK
  <1>4. GoesOn(c)
    BY <1>1, <1>3 DEF GoesOn, Works, Holding
  <1>5. CallIsRight(c)'
    BY <1>1, <1>3 DEF CallIsRight
  <1> QED BY <1>1, <1>2, <1>4, <1>5, ActCallMoves DEF ActRest

LEMMA ActSettles ==
    ASSUME ActivitiesSensible, ActInv, NEW c \in Workers, NEW o \in A!Outcome, A!Settles(c, o),
           Works(c), transactions[c].linked => Holding(c), ActRest(c),
           o.ticket = transactions[c].ticket,
           o.unsure \/ o.ids = wrote'[transactions[c].ticket].ids
    PROVE  ActInv'
  <1>1. CASE ~transactions[c].linked
    <2>1. A!Tell(c, o)
      BY <1>1 DEF A!Settles
    <2> QED BY <2>1, ActTells
  <1>2. CASE transactions[c].linked
    <2> DEFINE next == [transactions[c] EXCEPT !.phase = "completing", !.at = 0, !.outcome = o]
    <2>1. transactions[c] \in A!Call
      BY DEF ActInv, A!TypeOK
    <2>2. /\ next \in A!Call /\ next.phase = "completing" /\ next.at = 0 /\ next.outcome = o
          /\ next.ticket = transactions[c].ticket /\ next.message = transactions[c].message
          /\ next.linked = transactions[c].linked
      <3>1. 0 \in A!Ordinals /\ "completing" \in A!Phases
        BY DEF A!Ordinals, A!Phases
      <3>2. next \in A!Call
        BY <2>1, <3>1 DEF A!Call
      <3> QED BY <2>1, <3>2 DEF A!Call
    <2>3. transactions' = [transactions EXCEPT ![c] = next]
      BY <1>2 DEF A!Settles, A!Goes
    <2> HIDE DEF next
    <2>4. transactions'[c] = next
      BY <2>3 DEF ActInv, A!TypeOK
    <2>5. GoesOn(c)
      BY <1>2, <2>2, <2>4 DEF GoesOn, Works, Holding
    <2>6. CallIsRight(c)'
      BY <2>2, <2>4 DEF CallIsRight
    <2> QED BY <2>2, <2>3, <2>5, <2>6, ActCallMoves DEF ActRest
  <1> QED BY <1>1, <1>2

\* A part of a decision has ended.
LEMMA ActPartEnds ==
    ASSUME ActivitiesSensible, ActInv, NEW c \in Workers, NEW o \in A!Outcome, A!PartEnds(c, o),
           transactions[c].phase = "writing", ActRest(c), o.ticket = transactions[c].ticket,
           \/ transactions[c].outcome.unsure \/ o.unsure
           \/ wrote'[transactions[c].ticket].ids = transactions[c].outcome.ids \cup o.ids
    PROVE  ActInv'
  <1>1. Works(c) /\ (transactions[c].linked => Holding(c)) /\ transactions[c] \in A!Call
        /\ CallIsRight(c) /\ transactions[c].outcome \in A!Outcome
    BY DEF Works, Holding, ActInv, A!TypeOK, A!Call
  <1>2. CASE ~transactions[c].chained
    <2>1. A!Settles(c, o)
      BY <1>2 DEF A!PartEnds
    <2>2. transactions[c].outcome = A!NoOutcome
      BY <1>1, <1>2 DEF CallIsRight
    <2>3. o.unsure \/ o.ids = wrote'[transactions[c].ticket].ids
      BY <2>2, ActConstants
    <2> QED BY <1>1, <2>1, <2>3, ActSettles
  <1>3. CASE transactions[c].chained
    <2> DEFINE before == transactions[c].outcome
               sum  == [status |-> "linked", unsure |-> before.unsure \/ o.unsure,
                        ids |-> before.ids \cup o.ids, ticket |-> o.ticket]
               next == [transactions[c] EXCEPT !.phase = "recording", !.saved = {}, !.outcome = sum]
    <2>1. /\ sum \in A!Outcome /\ sum.ticket = transactions[c].ticket
          /\ sum.ids = before.ids \cup o.ids /\ (sum.unsure <=> before.unsure \/ o.unsure)
      BY <1>1 DEF A!Outcome, A!Statuses
    <2>2. transactions' = [transactions EXCEPT ![c] = next]
      BY <1>3 DEF A!PartEnds, A!Goes
    <2> HIDE DEF sum
    <2>3. /\ next \in A!Call /\ next.phase = "recording" /\ next.saved = {} /\ next.outcome = sum
          /\ next.ticket = transactions[c].ticket /\ next.message = transactions[c].message
          /\ next.linked = transactions[c].linked /\ next.chained = transactions[c].chained
          /\ next.parts = transactions[c].parts /\ next.at = transactions[c].at
      BY <1>1, <2>1 DEF A!Call, A!Phases
    <2> HIDE DEF next
    <2>4. transactions'[c] = next
      BY <2>2 DEF ActInv, A!TypeOK
    <2>5. GoesOn(c)
      BY <1>1, <2>3, <2>4 DEF GoesOn, Works, Holding
    <2>6. sum.unsure \/ wrote'[transactions[c].ticket].ids = sum.ids
      BY <2>1
    <2>7. CallIsRight(c)'
      <3>1. /\ transactions[c].at \in 1..Len(transactions[c].parts) /\ Len(transactions[c].parts) <= 2
            /\ \A i \in 1..Len(transactions[c].parts) : PartIsRight(transactions[c].parts[i])
        BY <1>1 DEF CallIsRight
      <3>2. \A i \in 1..Len(transactions[c].parts) : PartIsRight(transactions'[c].parts[i])
        BY <2>3, <2>4, <3>1
      <3>3. \A i \in 1..Len(transactions[c].parts) : PartIsRight(transactions[c].parts[i])'
        BY <2>3, <2>4, <3>2 DEF PartIsRight
      <3> QED BY <1>3, <2>1, <2>3, <2>4, <2>6, <3>1, <3>3 DEF CallIsRight
    <2> QED BY <2>2, <2>3, <2>5, <2>7, ActCallMoves DEF ActRest
  <1> QED BY <1>2, <1>3

\* A step of calls alone.
LEMMA ActUnwritten ==
    ASSUME ActivitiesSensible, ActInv, NEW c \in Workers, UNCHANGED <<activities, tickets, wrote>>,
           faults' \in 0..MaxFaults, UNCHANGED claims \/ Claims(c)
    PROVE  ActRest(c)
  <1>1. ActivitiesRight'
    BY DEF ActInv, A!TypeOK, ActivitiesRight, A!WorkIsNotLost
  <1>2. WritesAs(c)
    BY DEF ActInv, A!TypeOK, WritesAs
  <1>3. Claims(c)
    BY DEF ActInv, A!TypeOK, Claims
  <1> QED BY <1>1, <1>2, <1>3 DEF ActRest

LEMMA ActFaults ==
    ASSUME ActivitiesSensible, ActInv, UNCHANGED faults \/ A!Fault
    PROVE  faults' \in 0..MaxFaults
  BY DEF ActivitiesSensible, ActInv, A!TypeOK, A!Fault

LEMMA ActEnded ==
    ASSUME ActivitiesSensible, ActInv, NEW c \in Workers, NEW s \in A!Statuses, NEW ids \in SUBSET Ids
    PROVE  LET o == A!Ended(c, s, ids) IN
           /\ o \in A!Outcome /\ o.ticket = transactions[c].ticket /\ o.ids = ids
           /\ o.unsure <=> s = "outcome_unknown"
  <1>1. transactions[c].ticket \in Nat
    BY DEF ActInv, A!TypeOK, A!Call
  <1>2. (s = "outcome_unknown") \in BOOLEAN
    OBVIOUS
  <1> QED BY <1>1, <1>2 DEF A!Ended, A!Outcome

LEMMA ActUnknown ==
    ASSUME ActivitiesSensible, ActInv, NEW c \in Workers
    PROVE  /\ A!Unknown(c) \in A!Outcome /\ A!Unknown(c).unsure
           /\ A!Unknown(c).ticket = transactions[c].ticket
  <1>1. "outcome_unknown" \in A!Statuses
    BY DEF A!Statuses
  <1> QED BY <1>1, ActEnded DEF A!Unknown

LEMMA ActCrash ==
    ASSUME ActivitiesSensible, ActInv, NEW c \in Workers, A!Crash(c)
    PROVE  ActInv'
  <1>1. /\ Works(c) /\ transactions' = [transactions EXCEPT ![c] = A!Idle]
        /\ UNCHANGED <<activities, claims, tickets, wrote>> /\ faults' \in 0..MaxFaults
    BY ActFaults DEF A!Crash, A!Goes, Works
  <1>2. transactions'[c] = A!Idle /\ A!Idle \in A!Call /\ A!Idle.phase = "idle"
    BY <1>1, ActConstants DEF ActInv, A!TypeOK
  <1>3. GoesOn(c) /\ CallIsRight(c)'
    BY <1>1, <1>2 DEF GoesOn, Works, Holding, CallIsRight
  <1> QED BY <1>1, <1>2, <1>3, ActUnwritten, ActCallMoves DEF ActRest

LEMMA ActStart ==
    ASSUME ActivitiesSensible, ActInv, NEW c \in Workers, NEW m \in Messages, NEW linked \in BOOLEAN,
           A!Start(c, m, linked)
    PROVE  ActInv'
  <1> DEFINE t0    == tickets + 1
             phase == IF linked THEN "claiming" ELSE "reading"
             who   == IF linked THEN m ELSE "none"
             next  == [A!Idle EXCEPT !.phase = phase, !.message = m, !.linked = linked, !.ticket = t0]
  <1>1. /\ ~Works(c) /\ tickets < MaxTickets /\ tickets' = t0
        /\ wrote' = [wrote EXCEPT ![t0].linked = who]
        /\ transactions' = [transactions EXCEPT ![c] = next]
        /\ UNCHANGED <<activities, claims, faults>>
    BY DEF A!Start, A!Goes, Works
  <1>2. tickets \in Nat /\ t0 \in 1..MaxTickets /\ t0 \in Nat /\ MaxTickets \in Nat
    BY <1>1 DEF ActivitiesSensible, ActInv, A!TypeOK
  <1>3. /\ next \in A!Call /\ next.phase = phase /\ next.message = m /\ next.linked = linked
        /\ next.ticket = t0 /\ next.saved = {} /\ next.outcome = A!NoOutcome /\ next.chained = FALSE
        /\ next.at = 0
    BY <1>2, ActConstants DEF A!Call, A!Phases
  <1> HIDE DEF next
  <1>4. /\ transactions' \in [Workers -> A!Call] /\ transactions'[c] = next
        /\ \A d \in Workers : d # c => transactions'[d] = transactions[d]
    BY <1>1, <1>3 DEF ActInv, A!TypeOK
  <1>5. /\ wrote' \in [1..MaxTickets -> [linked : Messages \cup {"none"}, ids : SUBSET Ids]]
        /\ \A t \in 1..MaxTickets : t # t0 => wrote'[t] = wrote[t]
        /\ wrote'[t0].linked = who /\ wrote'[t0].ids = {}
    <2>1. /\ wrote \in [1..MaxTickets -> [linked : Messages \cup {"none"}, ids : SUBSET Ids]]
          /\ wrote[t0].ids = {} /\ who \in Messages \cup {"none"}
      BY <1>2 DEF ActInv, A!TypeOK, TicketsAreOwn
    <2> DEFINE row == [wrote[t0] EXCEPT !.linked = who]
    <2>2. /\ row \in [linked : Messages \cup {"none"}, ids : SUBSET Ids]
          /\ row.linked = who /\ row.ids = {}
      BY <1>2, <2>1
    <2>3. wrote' = [wrote EXCEPT ![t0] = row]
      BY <1>1
    <2> HIDE DEF row
    <2> QED BY <1>2, <2>1, <2>2, <2>3
  <1>6. Works(c)' /\ ~Holding(c)' /\ \A d \in Workers : d # c => (Works(d)' <=> Works(d)) /\ (Holding(d)' <=> Holding(d))
    BY <1>3, <1>4 DEF Works, Holding
  <1>7. A!TypeOK' /\ A!WorkIsNotLost'
    BY <1>1, <1>2, <1>4, <1>5 DEF ActInv, A!TypeOK, A!WorkIsNotLost
  <1>8. \A d \in Workers : Works(d) => transactions[d].ticket \in 1..tickets /\ transactions[d].ticket # t0
    BY <1>2 DEF ActInv, TicketsAreOwn
  <1>9. TicketsAreOwn'
    <2>1. ASSUME NEW d \in Workers, Works(d)'
          PROVE  /\ transactions'[d].ticket \in 1..tickets' /\ transactions'[d].message \in Messages
                 /\ wrote'[transactions'[d].ticket].linked =
                        IF transactions'[d].linked THEN transactions'[d].message ELSE "none"
      <3>1. CASE d = c
        BY <1>1, <1>2, <1>3, <1>4, <1>5, <3>1
      <3>2. CASE d # c
        <4>1. transactions[d].ticket \in 1..tickets /\ transactions[d].ticket # t0
          BY <1>6, <1>8, <2>1, <3>2
        <4>2. wrote'[transactions[d].ticket] = wrote[transactions[d].ticket]
          BY <1>2, <1>5, <4>1
        <4> QED BY <1>1, <1>2, <1>4, <1>6, <2>1, <3>2, <4>1, <4>2 DEF ActInv, TicketsAreOwn
      <3> QED BY <3>1, <3>2
    <2>2. ASSUME NEW d \in Workers, NEW e \in Workers, Works(d)', Works(e)',
                 transactions'[d].ticket = transactions'[e].ticket
          PROVE  d = e
      BY <1>3, <1>4, <1>6, <1>8, <2>2 DEF ActInv, TicketsAreOwn
    <2>3. ASSUME NEW t \in 1..MaxTickets, t > tickets'
          PROVE  wrote'[t].linked = "none" /\ wrote'[t].ids = {}
      BY <1>1, <1>2, <1>5, <2>3 DEF ActInv, TicketsAreOwn
    <2> QED BY <2>1, <2>2, <2>3 DEF TicketsAreOwn
  <1>10. ASSUME NEW d \in Workers
         PROVE  CallIsRight(d)'
    <2>1. CASE d = c
      BY <1>3, <1>4, <1>5, <2>1 DEF CallIsRight
    <2>2. CASE d # c /\ Works(d)
      <3>1. wrote'[transactions[d].ticket] = wrote[transactions[d].ticket]
        BY <1>2, <1>5, <1>8, <2>2
      <3> QED BY <1>4, <2>2, <3>1 DEF ActInv, CallIsRight
    <2>3. CASE d # c /\ ~Works(d)
      BY <1>4, <2>3 DEF CallIsRight, Works
    <2> QED BY <2>1, <2>2, <2>3
  <1>11. ASSUME NEW o \in A!Outcome, IsTrue(o)
         PROVE  IsTrue(o)'
    BY <1>1, <1>2, <1>3, <1>4, <1>5, <1>6, <1>11 DEF IsTrue
  <1>12. \A d \in Workers : ToldRight(d)'
    BY <1>3, <1>4, <1>11 DEF ActInv, ToldRight
  <1>13. \A n \in Messages : StoredRight(n)'
    BY <1>1, <1>11 DEF ActInv, StoredRight
  <1>14. \A d \in Workers : HeldOnce(d)'
    BY <1>1, <1>4, <1>6 DEF ActInv, HeldOnce
  <1>15. \A t \in 1..MaxTickets, n \in Messages : WroteFor(t, n)' <=> WroteFor(t, n)
    BY <1>2, <1>5 DEF WroteFor, ActInv, TicketsAreOwn
  <1>16. ASSUME NEW n \in Messages
         PROVE  WroteOnce(n)'
    BY <1>1, <1>4, <1>6, <1>15 DEF ActInv, WroteOnce
  <1> QED BY <1>7, <1>9, <1>10, <1>12, <1>13, <1>14, <1>16 DEF ActInv

\* A call that goes on to a phase about which the step itself shows what is claimed.
LEMMA ActGoes ==
    ASSUME ActivitiesSensible, ActInv, NEW c \in Workers, NEW next \in A!Call, A!Goes(c, next),
           Works(c), Holding(c) \/ ~transactions[c].linked, ActRest(c),
           next.phase # "told", next.ticket = transactions[c].ticket,
           next.message = transactions[c].message, next.linked = transactions[c].linked,
           CallIsRight(c)'
    PROVE  ActInv'
  <1>1. transactions' = [transactions EXCEPT ![c] = next] /\ transactions'[c] = next
    BY DEF A!Goes, ActInv, A!TypeOK
  <1>2. GoesOn(c)
    BY <1>1 DEF GoesOn, Holding
  <1> QED BY <1>1, <1>2, ActCallMoves DEF ActRest

LEMMA ActRefs ==
    ASSUME ActivitiesSensible, ActInv
    PROVE  A!Recent \subseteq A!Refs /\ A!NoRef \notin A!Refs
  <1>1. A!NoRef \notin A!Refs
    BY DEF A!NoRef, A!Refs, ActivitiesSensible
  <1>2. ASSUME NEW a \in Ids
        PROVE  A!Ref(a) \in A!Refs
    <2>1. activities[a] \in A!Activity
      BY DEF ActInv, A!TypeOK
    <2>2. activities[a].revision \in Nat
      BY <2>1 DEF A!Activity
    <2> QED BY <2>2 DEF A!Ref, A!Refs
  <1> QED BY <1>1, <1>2 DEF A!Recent

LEMMA ActRead ==
    ASSUME ActivitiesSensible, ActInv, NEW c \in Workers, NEW repair \in BOOLEAN, A!Read(c, repair)
    PROVE  ActInv'
  <1> DEFINE seen  == IF repair THEN A!Recent ELSE {}
             reads == [transactions[c] EXCEPT !.phase = "extracting", !.repair = repair, !.candidates = seen]
  <1>1. /\ transactions[c].phase = "reading" /\ UNCHANGED <<activities, claims, tickets, wrote, faults>>
        /\ Works(c) /\ (Holding(c) \/ ~transactions[c].linked) /\ transactions[c] \in A!Call
        /\ CallIsRight(c)
    BY DEF A!Read, A!Is_, Works, Holding, ActInv, A!TypeOK
  <1>2. ActRest(c)
    BY <1>1, ActUnwritten, ActFaults
  <1>3. seen \in SUBSET A!Refs
    BY ActRefs
  <1>9. \/ A!Goes(c, reads)
        \/ \E a \in Ids : \E n \in 1..activities[a].revision :
               A!Goes(c, [reads EXCEPT !.bound = [id |-> a, revision |-> n]])
        \/ A!Settles(c, A!Ended(c, "failed", {}))
    BY DEF A!Read
  <1> HIDE DEF seen
  <1>4. reads \in A!Call
    BY <1>1, <1>3 DEF A!Call, A!Phases
  <1>5. ASSUME NEW ref \in A!Refs \cup {A!NoRef}, A!Goes(c, [reads EXCEPT !.bound = ref])
        PROVE  ActInv'
    <2> DEFINE next == [reads EXCEPT !.bound = ref]
    <2>1. /\ next \in A!Call /\ next.phase = "extracting" /\ next.ticket = transactions[c].ticket
          /\ next.message = transactions[c].message /\ next.linked = transactions[c].linked
          /\ next.saved = transactions[c].saved /\ next.outcome = transactions[c].outcome
          /\ next.chained = transactions[c].chained
      BY <1>1, <1>4 DEF A!Call
    <2>2. A!Goes(c, next)
      BY <1>5
    <2> HIDE DEF next
    <2>3. transactions'[c] = next
      BY <2>2 DEF A!Goes, ActInv, A!TypeOK
    <2>4. CallIsRight(c)'
      BY <1>1, <2>1, <2>3 DEF CallIsRight
    <2> QED BY <1>1, <1>2, <2>1, <2>2, <2>4, ActGoes
  <1>6. CASE A!Goes(c, reads)
    <2>1. transactions'[c] = reads
      BY <1>4, <1>6 DEF A!Goes, ActInv, A!TypeOK
    <2>2. /\ reads.phase = "extracting" /\ reads.ticket = transactions[c].ticket
          /\ reads.message = transactions[c].message /\ reads.linked = transactions[c].linked
          /\ reads.saved = transactions[c].saved /\ reads.outcome = transactions[c].outcome
          /\ reads.chained = transactions[c].chained
      BY <1>1 DEF A!Call
    <2> HIDE DEF reads
    <2>3. CallIsRight(c)'
      BY <1>1, <2>1, <2>2 DEF CallIsRight
    <2> QED BY <1>1, <1>2, <1>4, <1>6, <2>2, <2>3, ActGoes
  <1>7. CASE \E a \in Ids : \E n \in 1..activities[a].revision :
                 A!Goes(c, [reads EXCEPT !.bound = [id |-> a, revision |-> n]])
    <2>0. PICK a \in Ids : \E n \in 1..activities[a].revision :
              A!Goes(c, [reads EXCEPT !.bound = [id |-> a, revision |-> n]])
      BY <1>7
    <2>1. PICK n \in 1..activities[a].revision :
              A!Goes(c, [reads EXCEPT !.bound = [id |-> a, revision |-> n]]) /\ n \in Nat
      <3>1. activities[a] \in A!Activity
        BY DEF ActInv, A!TypeOK
      <3>2. activities[a].revision \in Nat
        BY <3>1 DEF A!Activity
      <3> HIDE DEF reads
      <3> QED BY <2>0, <3>2
    <2>2. [id |-> a, revision |-> n] \in A!Refs
      BY DEF A!Refs
    <2> QED BY <1>5, <2>1, <2>2
  <1>8. CASE A!Settles(c, A!Ended(c, "failed", {}))
    <2>1. PICK o \in A!Outcome : o = A!Ended(c, "failed", {}) /\ o.ticket = transactions[c].ticket /\ o.ids = {}
      BY ActEnded DEF A!Statuses
    <2>2. o.ids = wrote'[transactions[c].ticket].ids
      BY <1>1, <2>1 DEF CallIsRight
    <2> QED BY <1>1, <1>2, <1>8, <2>1, <2>2, ActSettles
  <1> QED BY <1>6, <1>7, <1>8, <1>9

\* A row of the ledger is written under the key of a call.
LEMMA ActKeyed ==
    ASSUME ActivitiesSensible, ActInv, NEW c \in Workers, Works(c), NEW row \in A!ClaimRow,
           claims' = [claims EXCEPT ![A!Key(c)] = row]
    PROVE  /\ claims' \in [Messages \X A!Ordinals -> A!ClaimRow]
           /\ transactions[c].message \in Messages
           /\ transactions[c].at = 0 => /\ A!Key(c) = <<transactions[c].message, 0>>
                                        /\ claims'[<<transactions[c].message, 0>>] = row
                                        /\ \A m \in Messages : m # transactions[c].message =>
                                               claims'[<<m, 0>>] = claims[<<m, 0>>]
           /\ transactions[c].at # 0 => \A m \in Messages : claims'[<<m, 0>>] = claims[<<m, 0>>]
  <1>1. transactions[c].message \in Messages /\ transactions[c].at \in A!Ordinals
    BY DEF ActInv, TicketsAreOwn, A!TypeOK, A!Call
  <1>2. A!Key(c) = <<transactions[c].message, transactions[c].at>>
    BY DEF A!Key, A!Message
  <1>3. /\ claims \in [Messages \X A!Ordinals -> A!ClaimRow] /\ A!Key(c) \in Messages \X A!Ordinals
        /\ 0 \in A!Ordinals
    BY <1>1, <1>2 DEF ActInv, A!TypeOK, A!Ordinals
  <1>4. \A k \in Messages \X A!Ordinals : claims'[k] = IF k = A!Key(c) THEN row ELSE claims[k]
    BY <1>3
  <1>5. claims' \in [Messages \X A!Ordinals -> A!ClaimRow]
    BY <1>3
  <1>6. \A m \in Messages : <<m, 0>> \in Messages \X A!Ordinals
    BY <1>3
  <1>7. \A m \in Messages : <<m, 0>> = A!Key(c) <=> m = transactions[c].message /\ transactions[c].at = 0
    BY <1>2
  <1> QED BY <1>1, <1>4, <1>5, <1>6, <1>7

\* The row of the message is taken when it is free, or stored with what is told.
LEMMA ActMessageRow ==
    ASSUME ActivitiesSensible, ActInv, NEW c \in Workers, Works(c), NEW row \in A!ClaimRow,
           claims' = [claims EXCEPT ![A!Key(c)] = row], transactions[c].at = 0,
           \/ /\ transactions[c].phase = "claiming" /\ row.state = "reserved"
              /\ claims[A!Key(c)].state = "free"
           \/ /\ transactions[c].phase = "completing" /\ transactions'[c].phase = "told"
              /\ row.state = "done" /\ row.outcome = transactions[c].outcome
    PROVE  Claims(c)
  <1>1. PICK message \in Messages : message = transactions[c].message
    BY ActKeyed
  <1>2. /\ claims' \in [Messages \X A!Ordinals -> A!ClaimRow]
        /\ A!Key(c) = <<message, 0>> /\ claims'[<<message, 0>>] = row
        /\ \A m \in Messages : m # message => claims'[<<m, 0>>] = claims[<<m, 0>>]
    BY <1>1, ActKeyed
  <1>3. ASSUME NEW m \in Messages
        PROVE  \/ claims'[<<m, 0>>] = claims[<<m, 0>>]
               \/ /\ m = transactions[c].message /\ transactions[c].phase = "claiming"
                  /\ claims[<<m, 0>>].state = "free" /\ claims'[<<m, 0>>].state = "reserved"
               \/ /\ m = transactions[c].message /\ transactions[c].phase = "completing"
                  /\ transactions'[c].phase = "told" /\ claims'[<<m, 0>>].state = "done"
                  /\ claims'[<<m, 0>>].outcome = transactions[c].outcome
    <2>1. CASE m # message
      BY <1>2, <2>1
    <2>2. CASE m = message
      BY <1>1, <1>2, <2>2
    <2> QED BY <2>1, <2>2
  <1> QED BY <1>2, <1>3 DEF Claims

LEMMA ActRows ==
    ASSUME ActivitiesSensible, NEW o \in A!Outcome
    PROVE  /\ [A!Free EXCEPT !.state = "reserved"] \in A!ClaimRow
           /\ [A!Free EXCEPT !.state = "reserved"].state = "reserved"
           /\ [state |-> "done", outcome |-> o] \in A!ClaimRow
  BY ActConstants DEF A!ClaimRow

LEMMA ActClaim ==
    ASSUME ActivitiesSensible, ActInv, NEW c \in Workers, A!Claim(c)
    PROVE  ActInv'
  <1>1. /\ transactions[c].phase = "claiming" /\ Works(c) /\ CallIsRight(c)
        /\ transactions[c] \in A!Call /\ transactions[c].at = 0 /\ transactions[c].linked
        /\ UNCHANGED <<activities, tickets, wrote, faults>>
        /\ transactions[c].message \in Messages
    BY DEF A!Claim, A!Is_, Works, ActInv, A!TypeOK, CallIsRight, TicketsAreOwn
  <1>2. A!Key(c) = <<transactions[c].message, 0>> /\ 0 \in A!Ordinals
    BY <1>1 DEF A!Key, A!Message, A!Ordinals
  <1>3. CASE A!Claimable(A!Key(c))
    <2> DEFINE row  == [A!Free EXCEPT !.state = "reserved"]
               next == [transactions[c] EXCEPT !.phase = "reading"]
    <2>1. claims' = [claims EXCEPT ![A!Key(c)] = row] /\ transactions' = [transactions EXCEPT ![c] = next]
      BY <1>3 DEF A!Claim, A!Reserved, A!At, A!Goes
    <2>2. row \in A!ClaimRow /\ row.state = "reserved"
      BY ActConstants, ActRows
    <2> HIDE DEF row
    <2>3. Claims(c)
      BY <1>1, <1>2, <1>3, <2>1, <2>2, ActKeyed DEF Claims, A!Claimable
    <2>4. ActRest(c)
      BY <1>1, <2>3, ActUnwritten, ActFaults
    <2>5. /\ next \in A!Call /\ next.phase = "reading" /\ next.ticket = transactions[c].ticket
          /\ next.message = transactions[c].message /\ next.linked = transactions[c].linked
          /\ next.saved = transactions[c].saved /\ next.outcome = transactions[c].outcome
          /\ next.chained = transactions[c].chained
      BY <1>1 DEF A!Call, A!Phases
    <2> HIDE DEF next
    <2>6. transactions'[c] = next
      BY <2>1 DEF ActInv, A!TypeOK
    <2>7. claims'[<<transactions[c].message, 0>>].state = "reserved"
      BY <1>1, <2>1, <2>2, ActKeyed
    <2>8. GoesOn(c)
      BY <1>1, <1>2, <1>3, <2>5, <2>6, <2>7 DEF GoesOn, A!Claimable
    <2>9. CallIsRight(c)'
      BY <1>1, <2>5, <2>6 DEF CallIsRight
    <2> QED BY <2>1, <2>4, <2>5, <2>8, <2>9, ActCallMoves DEF ActRest
  <1>4. CASE ~A!Claimable(A!Key(c))
    <2>1. A!Tell(c, A!Existing(c, A!Key(c))) /\ UNCHANGED claims
      BY <1>4 DEF A!Claim
    <2>2. ActRest(c)
      BY <1>1, <2>1, ActUnwritten, ActFaults
    <2>3. CASE claims[A!Key(c)].state = "done"
      <3>1. <<transactions[c].message, 0>> \in Messages \X A!Ordinals
        BY <1>1, <1>2
      <3>2. claims[<<transactions[c].message, 0>>] \in A!ClaimRow
        BY <3>1 DEF ActInv, A!TypeOK
      <3>3. PICK o \in A!Outcome : o = claims[<<transactions[c].message, 0>>].outcome
        BY <3>2 DEF A!ClaimRow
      <3>4. A!Tell(c, o)
        BY <1>2, <2>1, <2>3, <3>3 DEF A!Existing
      <3> QED BY <1>1, <1>2, <2>2, <2>3, <3>3, <3>4, ActTells
    <2>4. CASE claims[A!Key(c)].state # "done"
      <3>1. PICK o \in A!Outcome : o = A!Unknown(c) /\ o.unsure
        BY ActUnknown
      <3>2. A!Tell(c, o)
        BY <2>1, <2>4, <3>1 DEF A!Existing
      <3> QED BY <1>1, <2>2, <3>1, <3>2, ActTells
    <2> QED BY <2>3, <2>4
  <1> QED BY <1>3, <1>4

LEMMA ActReserve ==
    ASSUME ActivitiesSensible, ActInv, NEW c \in Workers, A!Reserve(c)
    PROVE  ActInv'
  <1> DEFINE row  == [A!Free EXCEPT !.state = "reserved"]
             next == [transactions[c] EXCEPT !.phase = "writing"]
  <1>1. /\ transactions[c].phase = "reserving" /\ Works(c) /\ CallIsRight(c)
        /\ (Holding(c) \/ ~transactions[c].linked)
        /\ transactions[c] \in A!Call /\ transactions[c].at # 0
        /\ UNCHANGED <<activities, tickets, wrote, faults>>
        /\ claims' = [claims EXCEPT ![A!Key(c)] = row] /\ A!Goes(c, next)
    BY DEF A!Reserve, A!Is_, Works, Holding, ActInv, A!TypeOK, CallIsRight, A!Reserved, A!At
  <1>2. row \in A!ClaimRow
    BY ActConstants, ActRows
  <1> HIDE DEF row
  <1>3. ActRest(c)
    <2>1. Claims(c)
      BY <1>1, <1>2, ActKeyed DEF Claims
    <2> QED BY <1>1, <2>1, ActUnwritten, ActFaults
  <1>4. /\ next \in A!Call /\ next.phase = "writing" /\ next.ticket = transactions[c].ticket
        /\ next.message = transactions[c].message /\ next.linked = transactions[c].linked
        /\ next.saved = transactions[c].saved /\ next.outcome = transactions[c].outcome
        /\ next.chained = transactions[c].chained /\ next.parts = transactions[c].parts
        /\ next.at = transactions[c].at
    BY <1>1 DEF A!Call, A!Phases
  <1> HIDE DEF next
  <1>5. transactions'[c] = next
    BY <1>1 DEF A!Goes, ActInv, A!TypeOK
  <1>6. CallIsRight(c)'
    BY <1>1, <1>4, <1>5 DEF CallIsRight, PartIsRight
  <1> QED BY <1>1, <1>3, <1>4, <1>6, ActGoes

LEMMA ActRecord ==
    ASSUME ActivitiesSensible, ActInv, NEW c \in Workers, A!Record(c)
    PROVE  ActInv'
  <1> DEFINE row  == [state |-> "done", outcome |-> transactions[c].outcome]
             next == [transactions[c] EXCEPT !.phase = "reserving", !.at = transactions[c].at + 1]
  <1>1. /\ transactions[c].phase = "recording" /\ Works(c) /\ CallIsRight(c)
        /\ (transactions[c].linked => Holding(c))
        /\ transactions[c] \in A!Call /\ transactions[c].at # 0
        /\ UNCHANGED <<activities, tickets, wrote, faults>>
        /\ claims' = [claims EXCEPT ![A!Key(c)] = row]
    BY DEF A!Record, A!Is_, Works, Holding, ActInv, A!TypeOK, CallIsRight, A!Stored
  <1>2. row \in A!ClaimRow
    BY <1>1, ActRows DEF A!Call
  <1> HIDE DEF row
  <1>3. ActRest(c)
    <2>1. Claims(c)
      BY <1>1, <1>2, ActKeyed DEF Claims
    <2> QED BY <1>1, <2>1, ActUnwritten, ActFaults
  <1>4. CASE transactions[c].at < Len(transactions[c].parts) /\ A!Goes(c, next)
    <2>0. /\ transactions[c].at + 1 \in A!Ordinals
          /\ transactions[c].at + 1 \in 1..Len(transactions[c].parts)
      <3>1. /\ transactions[c].at \in Nat /\ Len(transactions[c].parts) \in Nat
            /\ Len(transactions[c].parts) <= 2
        BY <1>1 DEF A!Call, A!Ordinals, CallIsRight
      <3> QED BY <1>4, <3>1 DEF A!Ordinals
    <2>1. /\ next \in A!Call /\ next.phase = "reserving" /\ next.ticket = transactions[c].ticket
          /\ next.message = transactions[c].message /\ next.linked = transactions[c].linked
          /\ next.saved = transactions[c].saved /\ next.outcome = transactions[c].outcome
          /\ next.chained = transactions[c].chained /\ next.parts = transactions[c].parts
          /\ next.at = transactions[c].at + 1
      BY <1>1, <2>0 DEF A!Call, A!Phases
    <2> HIDE DEF next
    <2>2. transactions'[c] = next
      BY <1>4 DEF A!Goes, ActInv, A!TypeOK
    <2>3. CallIsRight(c)'
      BY <1>1, <2>0, <2>1, <2>2 DEF CallIsRight, PartIsRight
    <2> QED BY <1>1, <1>3, <1>4, <2>1, <2>3, ActGoes
  <1>5. CASE A!Settles(c, transactions[c].outcome)
    <2>1. PICK o \in A!Outcome : o = transactions[c].outcome
      BY <1>1 DEF A!Call
    <2>2. o.ticket = transactions[c].ticket /\ (o.unsure \/ o.ids = wrote'[transactions[c].ticket].ids)
      BY <1>1, <2>1 DEF CallIsRight
    <2> QED BY <1>1, <1>3, <1>5, <2>1, <2>2, ActSettles
  <1> QED BY <1>4, <1>5 DEF A!Record

LEMMA ActComplete ==
    ASSUME ActivitiesSensible, ActInv, NEW c \in Workers, A!Complete(c)
    PROVE  ActInv'
  <1>1. /\ transactions[c].phase = "completing" /\ Works(c) /\ CallIsRight(c)
        /\ transactions[c] \in A!Call /\ transactions[c].at = 0
        /\ UNCHANGED <<activities, tickets, wrote, faults>>
    BY DEF A!Complete, A!Is_, Works, ActInv, A!TypeOK, CallIsRight
  <1>2. PICK o \in A!Outcome : o = transactions[c].outcome
    BY <1>1 DEF A!Call
  <1> DEFINE row == [state |-> "done", outcome |-> o]
  <1>3. claims' = [claims EXCEPT ![A!Key(c)] = row] /\ A!Tell(c, o)
    BY <1>2 DEF A!Complete, A!Stored
  <1>4. row \in A!ClaimRow /\ row.outcome = o /\ row.state = "done"
    BY ActRows
  <1> HIDE DEF row
  <1>5. transactions'[c].phase = "told"
    BY <1>3 DEF A!Tell, A!Goes, ActInv, A!TypeOK
  <1>6. Claims(c)
    BY <1>1, <1>2, <1>3, <1>4, <1>5, ActMessageRow
  <1>7. ActRest(c)
    BY <1>1, <1>6, ActUnwritten, ActFaults
  <1>8. o.unsure \/ (o.ticket = transactions[c].ticket /\ o.ids = wrote'[transactions[c].ticket].ids)
    BY <1>1, <1>2 DEF CallIsRight
  <1> QED BY <1>1, <1>3, <1>7, <1>8, ActTells

LEMMA ActLedgerFails ==
    ASSUME ActivitiesSensible, ActInv, NEW c \in Workers, A!LedgerFails(c)
    PROVE  ActInv'
  <1>1. /\ Works(c) /\ CallIsRight(c) /\ transactions[c] \in A!Call
        /\ UNCHANGED <<activities, tickets, wrote>> /\ faults' \in 0..MaxFaults
    BY ActFaults DEF A!LedgerFails, Works, ActInv, A!TypeOK
  <1>2. PICK o \in A!Outcome : o = A!Unknown(c) /\ o.unsure /\ A!Tell(c, o)
    BY ActUnknown DEF A!LedgerFails
  <1>3. transactions'[c].phase = "told"
    BY <1>2 DEF A!Tell, A!Goes, ActInv, A!TypeOK
  <1>4. UNCHANGED claims \/ Claims(c)
    <2>1. CASE /\ transactions[c].phase \in {"claiming", "reserving"} /\ A!Claimable(A!Key(c))
               /\ claims' = A!Reserved(A!Key(c))
      <3> DEFINE row == [A!Free EXCEPT !.state = "reserved"]
      <3>1. row \in A!ClaimRow /\ row.state = "reserved"
        BY ActConstants, ActRows
      <3>2. claims' = [claims EXCEPT ![A!Key(c)] = row]
        BY <2>1 DEF A!Reserved
      <3> HIDE DEF row
      <3>3. CASE transactions[c].phase = "claiming"
        <4>1. transactions[c].at = 0
          BY <1>1, <3>3 DEF CallIsRight
        <4> QED BY <1>1, <2>1, <3>1, <3>2, <3>3, <4>1, ActMessageRow DEF A!Claimable
      <3>4. CASE transactions[c].phase = "reserving"
        <4>1. transactions[c].at # 0
          BY <1>1, <3>4 DEF CallIsRight
        <4> QED BY <1>1, <3>1, <3>2, <4>1, ActKeyed DEF Claims
      <3> QED BY <2>1, <3>3, <3>4
    <2>2. CASE /\ transactions[c].phase \in {"recording", "completing"}
               /\ claims' = A!Stored(A!Key(c), transactions[c].outcome)
      <3> DEFINE row == [state |-> "done", outcome |-> transactions[c].outcome]
      <3>1. row \in A!ClaimRow /\ row.state = "done" /\ row.outcome = transactions[c].outcome
        BY <1>1, ActRows DEF A!Call
      <3>2. claims' = [claims EXCEPT ![A!Key(c)] = row]
        BY <2>2 DEF A!Stored
      <3> HIDE DEF row
      <3>3. CASE transactions[c].phase = "completing"
        <4>1. transactions[c].at = 0
          BY <1>1, <3>3 DEF CallIsRight
        <4> QED BY <1>1, <1>3, <3>1, <3>2, <3>3, <4>1, ActMessageRow
      <3>4. CASE transactions[c].phase = "recording"
        <4>1. transactions[c].at # 0
          BY <1>1, <3>4 DEF CallIsRight
        <4> QED BY <1>1, <3>1, <3>2, <4>1, ActKeyed DEF Claims
      <3> QED BY <2>2, <3>3, <3>4
    <2> QED BY <2>1, <2>2 DEF A!LedgerFails
  <1>5. ActRest(c)
    BY <1>1, <1>4, ActUnwritten
  <1> QED BY <1>1, <1>2, <1>5, ActTells

-----------------------------------------------------------------------------
(* Deciding and writing                                                    *)

LEMMA ActParts ==
    ASSUME ActivitiesSensible
    PROVE  /\ \A n \in 0..MaxItems : A!Collect(n) \in A!Part /\ PartIsRight(A!Collect(n))
           /\ \A ref \in A!Refs, v \in Values :
                  A!Correct(ref, v) \in A!Part /\ PartIsRight(A!Correct(ref, v))
           /\ \A ref, other \in A!Refs : ref # other =>
                  A!Supersede(ref, other) \in A!Part /\ PartIsRight(A!Supersede(ref, other))
  <1>1. \A n \in 0..MaxItems : A!Collect(n) \in A!Part /\ A!Collect(n).kind = "collect"
    BY DEF A!Collect, A!Part
  <1>2. A!Collect(0) \in A!Part
    BY <1>1 DEF ActivitiesSensible
  <1>3. ASSUME NEW ref \in A!Refs, NEW v \in Values
        PROVE  A!Correct(ref, v) \in A!Part /\ PartIsRight(A!Correct(ref, v))
    BY <1>2 DEF A!Correct, A!Part, PartIsRight
  <1>4. ASSUME NEW ref \in A!Refs, NEW other \in A!Refs, ref # other
        PROVE  A!Supersede(ref, other) \in A!Part /\ PartIsRight(A!Supersede(ref, other))
    BY <1>2, <1>4 DEF A!Supersede, A!Part, PartIsRight
  <1>5. \A n \in 0..MaxItems : PartIsRight(A!Collect(n))
    BY <1>1 DEF PartIsRight
  <1> QED BY <1>1, <1>3, <1>4, <1>5

LEMMA ActDecisions ==
    ASSUME ActivitiesSensible, ActInv, NEW c \in Workers, NEW part \in A!Decisions(c)
    PROVE  part \in A!Part /\ PartIsRight(part)
  <1>1. transactions[c] \in A!Call
    BY DEF ActInv, A!TypeOK
  <1>2. /\ transactions[c].bound \in A!Refs \cup {A!NoRef}
        /\ transactions[c].candidates \subseteq A!Refs
    BY <1>1 DEF A!Call
  <1> DEFINE targets == IF transactions[c].bound # A!NoRef THEN {transactions[c].bound}
                        ELSE transactions[c].candidates
             pairs   == {q \in transactions[c].candidates \X transactions[c].candidates : q[1] # q[2]}
  <1>3. \/ \E n \in 1..MaxItems : part = A!Collect(n)
        \/ \E ref \in targets, v \in Values : part = A!Correct(ref, v)
        \/ \E p \in pairs : part = A!Supersede(p[1], p[2])
    BY DEF A!Decisions
  <1>4. targets \subseteq A!Refs /\ (\A p \in pairs : p[1] \in A!Refs /\ p[2] \in A!Refs /\ p[1] # p[2])
    BY <1>2
  <1> HIDE DEF targets, pairs
  <1>5. CASE \E n \in 1..MaxItems : part = A!Collect(n)
    BY <1>5, ActParts DEF ActivitiesSensible
  <1>6. CASE \E ref \in targets, v \in Values : part = A!Correct(ref, v)
    BY <1>4, <1>6, ActParts
  <1>7. CASE \E p \in pairs : part = A!Supersede(p[1], p[2])
    BY <1>4, <1>7, ActParts
  <1> QED BY <1>3, <1>5, <1>6, <1>7

LEMMA ActDecide ==
    ASSUME ActivitiesSensible, ActInv, NEW c \in Workers, A!Decide(c)
    PROVE  ActInv'
  <1>1. /\ transactions[c].phase = "extracting" /\ UNCHANGED <<activities, claims, tickets, wrote, faults>>
        /\ Works(c) /\ (Holding(c) \/ ~transactions[c].linked) /\ transactions[c] \in A!Call
        /\ CallIsRight(c)
    BY DEF A!Decide, A!Is_, Works, Holding, ActInv, A!TypeOK
  <1>2. ActRest(c)
    BY <1>1, ActUnwritten, ActFaults
  <1>3. 1 \in A!Ordinals /\ transactions[c].outcome = A!NoOutcome /\ transactions[c].saved = {}
        /\ ~transactions[c].chained /\ wrote[transactions[c].ticket].ids = {}
        /\ transactions[c].outcome.ids = {}
    BY <1>1, ActConstants DEF A!Ordinals, CallIsRight
  <1>4. CASE \E part \in A!Decisions(c) :
                 A!Goes(c, [transactions[c] EXCEPT !.phase = "writing", !.parts = <<part>>, !.at = 1])
    <2>1. PICK part \in A!Decisions(c) :
              A!Goes(c, [transactions[c] EXCEPT !.phase = "writing", !.parts = <<part>>, !.at = 1])
      BY <1>4
    <2> DEFINE next == [transactions[c] EXCEPT !.phase = "writing", !.parts = <<part>>, !.at = 1]
    <2>2. part \in A!Part /\ PartIsRight(part)
      BY ActDecisions
    <2>3. <<part>> \in Seq(A!Part) /\ Len(<<part>>) = 1 /\ <<part>>[1] = part
      BY <2>2
    <2>4. next \in A!Call
      BY <1>1, <1>3, <2>3 DEF A!Call, A!Phases
    <2>5. /\ next.phase = "writing" /\ next.ticket = transactions[c].ticket
          /\ next.message = transactions[c].message /\ next.linked = transactions[c].linked
          /\ next.saved = {} /\ next.outcome = A!NoOutcome /\ ~next.chained
          /\ next.parts = <<part>> /\ next.at = 1
      BY <1>1, <1>3 DEF A!Call
    <2>6. A!Goes(c, next)
      BY <2>1
    <2> HIDE DEF next
    <2>7. transactions'[c] = next
      BY <2>6 DEF A!Goes, ActInv, A!TypeOK
    <2>8. CallIsRight(c)'
      <3>2. wrote'[next.ticket].ids = {} /\ A!NoOutcome.ids = {}
        BY <1>1, <1>3, <2>5
      <3>3. /\ next.at \in 1..Len(next.parts) /\ Len(next.parts) <= 2
            /\ \A i \in 1..Len(next.parts) : PartIsRight(next.parts[i])
            /\ wrote'[next.ticket].ids = next.outcome.ids \cup next.saved
        BY <2>2, <2>3, <2>5, <3>2
      <3> QED BY <2>5, <2>7, <3>3 DEF CallIsRight, PartIsRight
    <2> QED BY <1>1, <1>2, <2>4, <2>5, <2>6, <2>8, ActGoes
  <1>5. CASE /\ transactions[c].bound # A!NoRef
             /\ \E v \in Values, n \in 0..MaxItems :
                    A!Goes(c, [transactions[c] EXCEPT !.phase = "reserving", !.at = 1, !.chained = TRUE,
                        !.parts = IF n = 0 THEN <<A!Correct(transactions[c].bound, v)>>
                                  ELSE <<A!Correct(transactions[c].bound, v), A!Collect(n)>>])
    <2>1. PICK v \in Values, n \in 0..MaxItems :
              A!Goes(c, [transactions[c] EXCEPT !.phase = "reserving", !.at = 1, !.chained = TRUE,
                  !.parts = IF n = 0 THEN <<A!Correct(transactions[c].bound, v)>>
                            ELSE <<A!Correct(transactions[c].bound, v), A!Collect(n)>>])
      BY <1>5
    <2>2. transactions[c].bound \in A!Refs
      BY <1>1, <1>5 DEF A!Call
    <2> DEFINE first  == A!Correct(transactions[c].bound, v)
               second == A!Collect(n)
               parts  == IF n = 0 THEN <<first>> ELSE <<first, second>>
               next   == [transactions[c] EXCEPT !.phase = "reserving", !.at = 1, !.chained = TRUE,
                              !.parts = parts]
    <2>3. first \in A!Part /\ PartIsRight(first) /\ second \in A!Part /\ PartIsRight(second)
      BY <2>2, ActParts
    <2>6. A!Goes(c, next)
      BY <2>1
    <2> HIDE DEF first, second
    <2>4. /\ parts \in Seq(A!Part) /\ Len(parts) \in 1..2
          /\ \A i \in 1..Len(parts) : PartIsRight(parts[i])
      <3>1. CASE n = 0
        BY <2>3, <3>1
      <3>2. CASE n # 0
        BY <2>3, <3>2
      <3> QED BY <3>1, <3>2
    <2> HIDE DEF parts
    <2>5. next \in A!Call
      BY <1>1, <1>3, <2>4 DEF A!Call, A!Phases
    <2>7. /\ next.phase = "reserving" /\ next.ticket = transactions[c].ticket
          /\ next.message = transactions[c].message /\ next.linked = transactions[c].linked
          /\ next.saved = {} /\ next.outcome = A!NoOutcome /\ next.chained
          /\ next.parts = parts /\ next.at = 1
      BY <1>1, <1>3 DEF A!Call
    <2> HIDE DEF next
    <2>8. transactions'[c] = next
      BY <2>6 DEF A!Goes, ActInv, A!TypeOK
    <2>9. CallIsRight(c)'
      <3>2. wrote'[next.ticket].ids = {} /\ A!NoOutcome.ids = {}
        BY <1>1, <1>3, <2>7
      <3>3. /\ next.at \in 1..Len(next.parts) /\ Len(next.parts) <= 2
            /\ \A i \in 1..Len(next.parts) : PartIsRight(next.parts[i])
            /\ wrote'[next.ticket].ids = next.outcome.ids
        <4>1. Len(next.parts) \in 1..2 /\ (\A i \in 1..Len(next.parts) : PartIsRight(next.parts[i]))
          BY <2>4, <2>7
        <4>2. next.at \in 1..Len(next.parts) /\ Len(next.parts) <= 2
          <5>1. PICK k \in 1..2 : k = Len(parts)
            BY <2>4
          <5>2. next.at = 1 /\ Len(next.parts) = k
            BY <2>7, <5>1
          <5> QED BY <5>2
        <4>3. wrote'[next.ticket].ids = next.outcome.ids
          BY <2>7, <3>2
        <4> QED BY <4>1, <4>2, <4>3
      <3> QED BY <2>7, <2>8, <3>3 DEF CallIsRight, PartIsRight
    <2> QED BY <1>1, <1>2, <2>5, <2>6, <2>7, <2>9, ActGoes
  <1>6. CASE \E word \in {"no_write", "failed"} : A!Settles(c, A!Ended(c, word, {}))
    <2>1. PICK word \in {"no_write", "failed"} : A!Settles(c, A!Ended(c, word, {}))
      BY <1>6
    <2>2. PICK o \in A!Outcome : o = A!Ended(c, word, {}) /\ o.ticket = transactions[c].ticket /\ o.ids = {}
      BY ActEnded DEF A!Statuses
    <2>3. o.ids = wrote'[transactions[c].ticket].ids
      BY <1>1, <1>3, <2>2
    <2> QED BY <1>1, <1>2, <2>1, <2>2, <2>3, ActSettles
  <1> QED BY <1>4, <1>5, <1>6 DEF A!Decide

\* What a correction and a replacement leave of the rows.
LEMMA ActApplied ==
    ASSUME ActivitiesSensible, ActInv, NEW part \in A!Part, part.kind # "collect", PartIsRight(part),
           NEW m \in Messages, A!Applies(part), activities' = A!Applied(m, part)
    PROVE  ActivitiesRight'
  <1>1. /\ activities \in [Ids -> A!Activity] /\ part.ref \in A!Refs
        /\ (part.kind = "supersede" => part.other \in A!Refs /\ part.ref # part.other)
        /\ part.value \in Values \cup {"none"} /\ part.kind \in {"correct", "supersede"}
    BY DEF ActInv, A!TypeOK, PartIsRight, A!Part
  <1>2. PICK id \in Ids : id = part.ref.id
    BY <1>1 DEF A!Refs
  <1> DEFINE row == activities[id]
  <1>3. row \in A!Activity /\ row.status = "active" /\ 0 \notin Ids
    BY <1>1, <1>2 DEF A!Applies, A!Corrects, A!Supersedes, A!Is, ActivitiesSensible
  <1>4. CASE part.kind = "correct"
    <2> DEFINE next == [row EXCEPT !.revision = @ + 1, !.value = part.value, !.last = m]
    <2>1. activities' = [activities EXCEPT ![id] = next]
      BY <1>1, <1>2, <1>4 DEF A!Applied, A!Corrected
    <2> HIDE DEF row
    <2>2. next \in A!Activity /\ next.status = row.status /\ next.by = row.by
      <3>1. row.revision + 1 \in Nat
        BY <1>3 DEF A!Activity
      <3>2. next \in A!Activity
        BY <1>1, <1>3, <3>1 DEF A!Activity
      <3>3. next.status = row.status /\ next.by = row.by
        BY <1>3 DEF A!Activity
      <3> QED BY <3>2, <3>3
    <2> USE DEF row
    <2> HIDE DEF next
    <2>3. /\ activities' \in [Ids -> A!Activity]
          /\ \A a \in Ids : activities'[a].status = activities[a].status /\ activities'[a].by = activities[a].by
      BY <1>1, <2>1, <2>2
    <2>4. \A a \in Ids : activities[a].by \in Ids \cup {0}
      BY <1>1 DEF A!Activity
    <2> QED BY SMTT(40), <1>3, <2>3, <2>4 DEF ActInv, A!TypeOK, ActivitiesRight, A!WorkIsNotLost
  <1>5. CASE part.kind = "supersede"
    <2>1. PICK other \in Ids : other = part.other.id
      BY <1>1, <1>5 DEF A!Refs
    <2>2. activities[other].status = "active" /\ other # id
      <3>1. /\ activities[id].revision = part.ref.revision
            /\ activities[other].revision = part.other.revision /\ activities[other].status = "active"
        BY <1>2, <1>5, <2>1 DEF A!Applies, A!Supersedes, A!Is
      <3>2. part.ref.id = part.other.id /\ part.ref.revision = part.other.revision => part.ref = part.other
        BY <1>1, <1>5 DEF A!Refs
      <3> QED BY <1>1, <1>2, <1>5, <2>1, <3>1, <3>2
    <2> DEFINE next == [row EXCEPT !.status = "superseded", !.revision = @ + 1, !.last = m, !.by = other]
    <2>3. activities' = [activities EXCEPT ![id] = next]
      BY <1>1, <1>2, <1>5, <2>1 DEF A!Applied, A!Superseded
    <2> HIDE DEF row
    <2>4. next \in A!Activity /\ next.status = "superseded" /\ next.by = other
      <3>1. row.revision + 1 \in Nat
        BY <1>3 DEF A!Activity
      <3>2. next \in A!Activity
        BY <1>3, <3>1 DEF A!Activity
      <3>3. next.status = "superseded" /\ next.by = other
        BY <1>3 DEF A!Activity
      <3> QED BY <3>2, <3>3
    <2> USE DEF row
    <2> HIDE DEF next
    <2>5. /\ activities' \in [Ids -> A!Activity] /\ activities'[id] = next
          /\ \A a \in Ids : a # id => activities'[a] = activities[a]
      BY <1>1, <2>3, <2>4
    <2>6. \A a \in Ids : activities[a].by \in Ids \cup {0}
      BY <1>1 DEF A!Activity
    <2>7. \A a \in Ids : activities'[a].status = "superseded" <=> activities'[a].by # 0
      BY <1>3, <2>4, <2>5 DEF ActInv, A!TypeOK
    <2>8. \A a \in Ids : activities[a].status # "absent" => activities'[a].status # "absent"
      BY <2>4, <2>5
    <2>9. \A a \in Ids : activities'[a].by # 0 => activities'[activities'[a].by].status # "absent"
      BY <2>2, <2>4, <2>5, <2>6, <2>8 DEF ActInv, A!TypeOK
    <2>10. ASSUME NEW S \in (SUBSET Ids) \ {{}}
           PROVE  \E a \in S : activities'[a].status # "superseded" \/ activities'[a].by \notin S
      <3>1. CASE id \notin S
        BY <2>5, <3>1 DEF ActInv, A!WorkIsNotLost
      <3>2. CASE id \in S /\ other \notin S
        BY <2>4, <2>5, <3>2
      <3>3. CASE other \in S
        BY <2>2, <2>5, <3>3
      <3> QED BY <3>1, <3>2, <3>3
    <2> QED BY <2>5, <2>7, <2>9, <2>10 DEF ActivitiesRight, A!WorkIsNotLost
  <1> QED BY <1>1, <1>4, <1>5

LEMMA ActCreated ==
    ASSUME ActivitiesSensible, ActInv, NEW a \in Ids, NEW v \in Values, A!IsNew(a),
           activities' = [activities EXCEPT ![a] = A!Created(v)]
    PROVE  ActivitiesRight'
  <1>1. A!Created(v) \in A!Activity /\ A!Created(v).status = "active" /\ A!Created(v).by = 0
    BY ActConstants DEF A!Created, A!Activity
  <1>2. activities \in [Ids -> A!Activity] /\ activities[a].status = "absent"
    BY DEF ActInv, A!TypeOK, A!IsNew
  <1>3. /\ activities' \in [Ids -> A!Activity]
        /\ activities'[a].status = "active" /\ activities'[a].by = 0
        /\ \A b \in Ids : b # a => activities'[b] = activities[b]
    BY <1>1, <1>2
  <1>4. \A b \in Ids : activities[b].by \in Ids \cup {0}
    BY <1>2 DEF A!Activity
  <1>5. \A b \in Ids : activities'[b].status = "superseded" <=> activities'[b].by # 0
    BY <1>3 DEF ActInv, A!TypeOK
  <1>6. \A b \in Ids : activities'[b].by # 0 => activities'[activities'[b].by].status # "absent"
    BY <1>3, <1>4 DEF ActInv, A!TypeOK
  <1>7. ASSUME NEW S \in (SUBSET Ids) \ {{}}
        PROVE  \E b \in S : activities'[b].status # "superseded" \/ activities'[b].by \notin S
    <2>1. CASE a \in S
      BY <1>3, <2>1
    <2>2. CASE a \notin S
      BY <1>3, <2>2 DEF ActInv, A!WorkIsNotLost
    <2> QED BY <2>1, <2>2
  <1> QED BY <1>3, <1>5, <1>6, <1>7 DEF ActivitiesRight, A!WorkIsNotLost

LEMMA ActWrote ==
    ASSUME ActivitiesSensible, ActInv, NEW c \in Workers, NEW a \in Ids, A!Wrote(c, a),
           transactions[c].phase = "writing"
    PROVE  /\ WritesAs(c)
           /\ wrote'[transactions[c].ticket].ids = wrote[transactions[c].ticket].ids \cup {a}
  <1>1. Works(c)
    BY DEF Works
  <1>2. /\ wrote \in [1..MaxTickets -> [linked : Messages \cup {"none"}, ids : SUBSET Ids]]
        /\ transactions[c].ticket \in 1..MaxTickets
    BY <1>1 DEF ActInv, A!TypeOK, TicketsAreOwn, ActivitiesSensible
  <1> DEFINE row  == wrote[transactions[c].ticket]
             next == [row EXCEPT !.ids = @ \cup {a}]
  <1>3. wrote' = [wrote EXCEPT ![transactions[c].ticket] = next]
    BY <1>2 DEF A!Wrote
  <1>4. row \in [linked : Messages \cup {"none"}, ids : SUBSET Ids]
    BY <1>2
  <1>5. /\ next \in [linked : Messages \cup {"none"}, ids : SUBSET Ids]
        /\ next.linked = row.linked /\ next.ids = row.ids \cup {a}
    BY <1>4
  <1> HIDE DEF next
  <1>6. /\ wrote'[transactions[c].ticket] = next
        /\ \A t \in 1..MaxTickets : t # transactions[c].ticket => wrote'[t] = wrote[t]
        /\ wrote' \in [1..MaxTickets -> [linked : Messages \cup {"none"}, ids : SUBSET Ids]]
    BY <1>2, <1>3, <1>5
  <1> QED BY <1>5, <1>6 DEF WritesAs

\* A call that is writing, and the part that it writes.
LEMMA ActWriting ==
    ASSUME ActivitiesSensible, ActInv, NEW c \in Workers, transactions[c].phase = "writing"
    PROVE  /\ Works(c) /\ (Holding(c) \/ ~transactions[c].linked) /\ transactions[c] \in A!Call
           /\ CallIsRight(c) /\ A!Now(c) \in A!Part /\ PartIsRight(A!Now(c))
           /\ A!Now(c) = transactions[c].parts[transactions[c].at]
           /\ transactions[c].message \in Messages /\ A!Message(c) = transactions[c].message
           /\ UNCHANGED activities => ActivitiesRight'
           /\ UNCHANGED wrote => WritesAs(c)
           /\ UNCHANGED claims => Claims(c)
  <1>1. /\ Works(c) /\ (Holding(c) \/ ~transactions[c].linked) /\ transactions[c] \in A!Call
        /\ CallIsRight(c)
    BY DEF Works, Holding, ActInv, A!TypeOK
  <1>2. /\ transactions[c].parts \in Seq(A!Part) /\ transactions[c].at \in 1..Len(transactions[c].parts)
        /\ \A i \in 1..Len(transactions[c].parts) : PartIsRight(transactions[c].parts[i])
    BY <1>1 DEF A!Call, CallIsRight
  <1>3. A!Now(c) = transactions[c].parts[transactions[c].at] /\ A!Message(c) = transactions[c].message
    BY DEF A!Now, A!Message
  <1>4. A!Now(c) \in A!Part /\ PartIsRight(A!Now(c))
    BY <1>2, <1>3
  <1>5. transactions[c].message \in Messages
    BY <1>1 DEF ActInv, TicketsAreOwn
  <1>6. UNCHANGED activities => ActivitiesRight'
    BY DEF ActInv, A!TypeOK, ActivitiesRight, A!WorkIsNotLost
  <1>7. UNCHANGED wrote => WritesAs(c)
    BY DEF ActInv, A!TypeOK, WritesAs
  <1>8. UNCHANGED claims => Claims(c)
    BY DEF ActInv, A!TypeOK, Claims
  <1> QED BY <1>1, <1>3, <1>4, <1>5, <1>6, <1>7, <1>8

\* What a call has written and will tell, when a part that it was writing ends.
LEMMA ActMutate ==
    ASSUME ActivitiesSensible, ActInv, NEW c \in Workers, A!Mutate(c)
    PROVE  ActInv'
  <1>1. transactions[c].phase = "writing" /\ UNCHANGED <<claims, tickets, faults>>
    BY DEF A!Mutate, A!Is_
  <1>2. PICK part \in A!Part : part = A!Now(c)
    BY <1>1, ActWriting
  <1>3. /\ part.kind # "collect" /\ PartIsRight(part) /\ transactions[c].saved = {}
        /\ \/ transactions[c].outcome.unsure
           \/ wrote[transactions[c].ticket].ids = transactions[c].outcome.ids
    BY <1>1, <1>2, ActWriting DEF A!Mutate, CallIsRight
  <1>4. PICK id \in Ids : id = part.ref.id
    BY <1>3 DEF PartIsRight, A!Refs
  <1>5. PICK m \in Messages : m = A!Message(c)
    BY <1>1, ActWriting
  <1>6. PICK done \in A!Outcome : /\ done = A!Ended(c, "completed", {id}) /\ done.ids = {id}
                                  /\ done.ticket = transactions[c].ticket
    BY ActEnded DEF A!Statuses
  <1>7. PICK failed \in A!Outcome : /\ failed = A!Ended(c, "failed", {}) /\ failed.ids = {}
                                    /\ failed.ticket = transactions[c].ticket
    BY ActEnded DEF A!Statuses
  <1>8. \/ A!Wrote(c, id) /\ A!PartEnds(c, done) /\ UNCHANGED activities
        \/ /\ A!Applies(part) /\ activities' = A!Applied(m, part)
           /\ A!Wrote(c, id) /\ A!PartEnds(c, done)
        \/ A!PartEnds(c, failed) /\ UNCHANGED <<activities, wrote>>
    BY <1>2, <1>4, <1>5, <1>6, <1>7 DEF A!Mutate
  <1>9. faults' \in 0..MaxFaults
    BY <1>1, ActFaults
  <1>10. CASE A!Wrote(c, id) /\ A!PartEnds(c, done) /\ ActivitiesRight'
    <2>1. WritesAs(c) /\ wrote'[transactions[c].ticket].ids = wrote[transactions[c].ticket].ids \cup {id}
      BY <1>1, <1>10, ActWrote
    <2>2. ActRest(c)
      BY <1>1, <1>9, <1>10, <2>1, ActWriting DEF ActRest
    <2> QED BY <1>1, <1>3, <1>6, <1>10, <2>1, <2>2, ActPartEnds
  <1>11. CASE A!PartEnds(c, failed) /\ UNCHANGED <<activities, wrote>>
    <2>1. ActRest(c)
      BY <1>1, <1>9, <1>11, ActWriting DEF ActRest
    <2>2. \/ transactions[c].outcome.unsure
          \/ wrote'[transactions[c].ticket].ids = transactions[c].outcome.ids \cup failed.ids
      BY <1>3, <1>7, <1>11
    <2> QED BY <1>1, <1>7, <1>11, <2>1, <2>2, ActPartEnds
  <1>12. A!Applies(part) /\ activities' = A!Applied(m, part) => ActivitiesRight'
    BY <1>3, ActApplied
  <1>13. UNCHANGED activities => ActivitiesRight'
    BY <1>1, ActWriting
  <1> QED BY <1>8, <1>10, <1>11, <1>12, <1>13

LEMMA ActSaveItem ==
    ASSUME ActivitiesSensible, ActInv, NEW c \in Workers, NEW a \in Ids, NEW v \in Values,
           A!SaveItem(c, a, v)
    PROVE  ActInv'
  <1> DEFINE saved == transactions[c].saved \cup {a}
             next  == [transactions[c] EXCEPT !.saved = saved]
  <1>1. /\ transactions[c].phase = "writing" /\ UNCHANGED <<claims, tickets, faults>>
        /\ A!IsNew(a) /\ activities' = [activities EXCEPT ![a] = A!Created(v)] /\ A!Wrote(c, a)
        /\ A!Now(c).kind = "collect"
        /\ A!PartEnds(c, A!Ended(c, "completed", saved)) \/ A!Goes(c, next)
    BY DEF A!SaveItem, A!Is_
  <1>2. /\ Works(c) /\ (Holding(c) \/ ~transactions[c].linked) /\ transactions[c] \in A!Call
        /\ CallIsRight(c) /\ A!Now(c) = transactions[c].parts[transactions[c].at]
    BY <1>1, ActWriting
  <1>3. WritesAs(c) /\ wrote'[transactions[c].ticket].ids = wrote[transactions[c].ticket].ids \cup {a}
    BY <1>1, ActWrote
  <1>4. ActRest(c)
    <2>1. faults' \in 0..MaxFaults /\ ActivitiesRight'
      BY <1>1, ActFaults, ActCreated
    <2> QED BY <1>1, <1>3, <2>1, ActWriting DEF ActRest
  <1>5. saved \in SUBSET Ids
    BY <1>2 DEF A!Call
  <1>6. /\ \A i \in 1..Len(transactions[c].parts) : PartIsRight(transactions[c].parts[i])
        /\ transactions[c].at \in 1..Len(transactions[c].parts) /\ Len(transactions[c].parts) <= 2
        /\ ~transactions[c].chained => transactions[c].outcome = A!NoOutcome
        /\ \/ transactions[c].outcome.unsure
           \/ wrote'[transactions[c].ticket].ids = transactions[c].outcome.ids \cup saved
    BY <1>1, <1>2, <1>3 DEF CallIsRight
  <1> HIDE DEF saved
  <1>7. CASE A!PartEnds(c, A!Ended(c, "completed", saved))
    <2>1. PICK o \in A!Outcome : /\ o = A!Ended(c, "completed", saved) /\ o.ids = saved
                                 /\ o.ticket = transactions[c].ticket
      BY <1>5, ActEnded DEF A!Statuses
    <2> QED BY <1>1, <1>4, <1>6, <1>7, <2>1, ActPartEnds
  <1>8. CASE A!Goes(c, next)
    <2>1. /\ next \in A!Call /\ next.phase = "writing" /\ next.ticket = transactions[c].ticket
          /\ next.message = transactions[c].message /\ next.linked = transactions[c].linked
          /\ next.saved = saved /\ next.outcome = transactions[c].outcome
          /\ next.chained = transactions[c].chained
          /\ next.parts = transactions[c].parts /\ next.at = transactions[c].at
      BY <1>1, <1>2, <1>5 DEF A!Call
    <2> HIDE DEF next
    <2>2. transactions'[c] = next
      BY <1>8, <2>1 DEF A!Goes, ActInv, A!TypeOK
    <2>3. CallIsRight(c)'
      BY <1>1, <1>2, <1>6, <2>1, <2>2 DEF CallIsRight, PartIsRight
    <2> QED BY <1>2, <1>4, <1>8, <2>1, <2>3, ActGoes
  <1> QED BY <1>1, <1>7, <1>8

LEMMA ActWriteFails ==
    ASSUME ActivitiesSensible, ActInv, NEW c \in Workers, A!WriteFails(c)
    PROVE  ActInv'
  <1>1. /\ transactions[c].phase = "writing" /\ UNCHANGED <<activities, claims, tickets, wrote>>
        /\ faults' \in 0..MaxFaults /\ A!PartEnds(c, A!Failed(c))
    BY ActFaults DEF A!WriteFails, A!Is_
  <1>2. CallIsRight(c) /\ transactions[c].saved \in SUBSET Ids
    BY <1>1, ActWriting DEF A!Call
  <1>3. PICK o \in A!Outcome : /\ o = A!Failed(c) /\ o.ids = transactions[c].saved
                               /\ o.ticket = transactions[c].ticket
    BY <1>2, ActEnded DEF A!Failed, A!Statuses
  <1>4. ActRest(c)
    BY <1>1, ActWriting DEF ActRest
  <1>5. \/ transactions[c].outcome.unsure
        \/ wrote'[transactions[c].ticket].ids = transactions[c].outcome.ids \cup o.ids
    BY <1>1, <1>2, <1>3 DEF CallIsRight
  <1> QED BY <1>1, <1>3, <1>4, <1>5, ActPartEnds

LEMMA ActWriteUncertain ==
    ASSUME ActivitiesSensible, ActInv, NEW c \in Workers, A!WriteUncertain(c)
    PROVE  ActInv'
  <1>1. /\ transactions[c].phase = "writing" /\ UNCHANGED <<claims, tickets>>
        /\ faults' \in 0..MaxFaults /\ A!PartEnds(c, A!Unsure(c))
    BY ActFaults DEF A!WriteUncertain, A!Is_
  <1>2. PICK o \in A!Outcome : o = A!Unsure(c) /\ o.unsure /\ o.ticket = transactions[c].ticket
    BY ActUnknown DEF A!Unsure
  <1>3. PICK part \in A!Part : part = A!Now(c) /\ PartIsRight(part)
    BY <1>1, ActWriting
  <1>4. PICK m \in Messages : m = A!Message(c)
    BY <1>1, ActWriting
  <1>5. ActivitiesRight' /\ WritesAs(c)
    <2>1. CASE UNCHANGED <<activities, wrote>>
      BY <1>1, <2>1, ActWriting
    <2>2. CASE \E a \in Ids, v \in Values :
                   /\ A!IsNew(a)
                   /\ activities' = [activities EXCEPT ![a] = A!Created(v)] /\ A!Wrote(c, a)
      BY <1>1, <2>2, ActCreated, ActWrote
    <2>3. CASE /\ part.kind # "collect" /\ A!Applies(part)
               /\ activities' = A!Applied(m, part) /\ A!Wrote(c, part.ref.id)
      <3>1. PICK id \in Ids : id = part.ref.id
        BY <1>3, <2>3 DEF PartIsRight, A!Refs
      <3>2. WritesAs(c)
        BY <1>1, <2>3, <3>1, ActWrote
      <3> QED BY <1>3, <2>3, <3>2, ActApplied
    <2> QED BY <1>3, <1>4, <2>1, <2>2, <2>3 DEF A!WriteUncertain
  <1>6. ActRest(c)
    BY <1>1, <1>5, ActWriting DEF ActRest
  <1> QED BY <1>1, <1>2, <1>6, ActPartEnds

LEMMA ActAges ==
    ASSUME ActivitiesSensible, ActInv, NEW a \in Ids, A!Ages(a)
    PROVE  ActInv'
  <1>1. /\ UNCHANGED <<claims, transactions, tickets, wrote>> /\ faults' \in 0..MaxFaults
        /\ activities' = [activities EXCEPT ![a].recent = FALSE]
    BY ActFaults DEF A!Ages
  <1> DEFINE next == [activities[a] EXCEPT !.recent = FALSE]
  <1>2. activities \in [Ids -> A!Activity] /\ activities' = [activities EXCEPT ![a] = next]
    BY <1>1 DEF ActInv, A!TypeOK
  <1>3. next \in A!Activity /\ next.status = activities[a].status /\ next.by = activities[a].by
    BY <1>2 DEF A!Activity
  <1> HIDE DEF next
  <1>4. /\ activities' \in [Ids -> A!Activity]
        /\ \A b \in Ids : activities'[b].status = activities[b].status /\ activities'[b].by = activities[b].by
    BY <1>2, <1>3
  <1>5. \A b \in Ids : activities[b].by \in Ids \cup {0}
    BY <1>2 DEF A!Activity
  <1>6. A!TypeOK' /\ A!WorkIsNotLost'
    BY <1>1, <1>4, <1>5 DEF ActInv, A!TypeOK, A!WorkIsNotLost
  <1>7. TicketsAreOwn'
    BY <1>1 DEF ActInv, TicketsAreOwn, Works
  <1>8. ASSUME NEW c \in Workers
        PROVE  CallIsRight(c)' /\ ToldRight(c)' /\ HeldOnce(c)'
    BY <1>1 DEF ActInv, CallIsRight, PartIsRight, ToldRight, IsTrue, HeldOnce, Holding, Works
  <1>9. ASSUME NEW m \in Messages
        PROVE  StoredRight(m)' /\ WroteOnce(m)'
    BY <1>1 DEF ActInv, StoredRight, IsTrue, WroteOnce, WroteFor, Holding, Works
  <1> QED BY <1>6, <1>7, <1>8, <1>9 DEF ActInv

LEMMA ActStep ==
    ASSUME ActivitiesSensible, ActInv, [A!Next]_activityVars
    PROVE  ActInv'
  <1>1. CASE A!Next
    <2>1. CASE \E c \in Workers, m \in Messages, linked \in BOOLEAN : A!Start(c, m, linked)
      BY <2>1, ActStart
    <2>2. CASE \E c \in Workers :
                  \/ A!Claim(c) \/ A!Decide(c)
                  \/ A!Reserve(c) \/ A!Mutate(c) \/ A!WriteFails(c) \/ A!WriteUncertain(c)
                  \/ A!Record(c) \/ A!Complete(c) \/ A!LedgerFails(c) \/ A!Crash(c)
      <3>1. PICK c \in Workers :
                  \/ A!Claim(c) \/ A!Decide(c)
                  \/ A!Reserve(c) \/ A!Mutate(c) \/ A!WriteFails(c) \/ A!WriteUncertain(c)
                  \/ A!Record(c) \/ A!Complete(c) \/ A!LedgerFails(c) \/ A!Crash(c)
        BY <2>2
      <3> QED BY <3>1, ActClaim, ActDecide, ActReserve, ActMutate, ActWriteFails, ActWriteUncertain,
                 ActRecord, ActComplete, ActLedgerFails, ActCrash
    <2>3. CASE \E c \in Workers, repair \in BOOLEAN : A!Read(c, repair)
      BY <2>3, ActRead
    <2>4. CASE \E c \in Workers, a \in Ids, v \in Values : A!SaveItem(c, a, v)
      BY <2>4, ActSaveItem
    <2>5. CASE \E a \in Ids : A!Ages(a)
      BY <2>5, ActAges
    <2> QED BY <1>1, <2>1, <2>2, <2>3, <2>4, <2>5 DEF A!Next
  <1>2. CASE UNCHANGED activityVars
    <2>1. /\ UNCHANGED <<activities, claims, transactions, tickets, wrote>> /\ UNCHANGED faults
      BY <1>2 DEF activityVars
    <2>2. A!TypeOK' /\ A!WorkIsNotLost'
      BY <2>1 DEF ActInv, A!TypeOK, A!WorkIsNotLost
    <2>3. TicketsAreOwn'
      BY <2>1 DEF ActInv, TicketsAreOwn, Works
    <2>4. ASSUME NEW c \in Workers
          PROVE  CallIsRight(c)' /\ ToldRight(c)' /\ HeldOnce(c)'
      BY <2>1 DEF ActInv, CallIsRight, PartIsRight, ToldRight, IsTrue, HeldOnce, Holding, Works
    <2>5. ASSUME NEW m \in Messages
          PROVE  StoredRight(m)' /\ WroteOnce(m)'
      BY <2>1 DEF ActInv, StoredRight, IsTrue, WroteOnce, WroteFor, Holding, Works
    <2> QED BY <2>2, <2>3, <2>4, <2>5 DEF ActInv
  <1> QED BY <1>1, <1>2

LEMMA ActAlways ==
    ASSUME ActivitiesSensible
    PROVE  AllSpec => [](about = "activities" => ActInv)
  <1> DEFINE IInv == about = "activities" => ActInv
  <1>1. AllInit => IInv
    BY ActInit DEF AllInit
  <1>2. IInv /\ [AllNext]_all => IInv'
    <2> SUFFICES ASSUME IInv, [AllNext]_all, about' = "activities" PROVE ActInv'
      OBVIOUS
    <2>1. about = "activities" /\ [A!Next]_activityVars
      BY OnePartMoves
    <2> QED BY <2>1, ActStep
  <1> QED BY <1>1, <1>2, PTL DEF AllSpec

\* What a call of the activity transaction is told, at once or from a stored outcome later, is
\* what was written under its ticket, or admits that the outcome is unknown.
THEOREM ToldStaysTrue ==
    ASSUME ActivitiesSensible
    PROVE  AllSpec => []ToldIsTrue
  <1>1. (about = "activities" => ActInv) => ToldIsTrue
    <2> SUFFICES ASSUME ActInv PROVE A!ToldIsTrue
      BY DEF ToldIsTrue
    <2>1. ASSUME NEW c \in Workers, transactions[c].phase = "told"
          PROVE  transactions[c].outcome.unsure
                     \/ transactions[c].outcome.ids = wrote[transactions[c].outcome.ticket].ids
      <3>1. transactions[c].outcome \in A!Outcome
        BY DEF ActInv, A!TypeOK, A!Call
      <3> QED BY <2>1, <3>1 DEF ActInv, ToldRight, IsTrue
    <2>2. ASSUME NEW m \in Messages, claims[<<m, 0>>].state = "done"
          PROVE  claims[<<m, 0>>].outcome.unsure
                     \/ claims[<<m, 0>>].outcome.ids = wrote[claims[<<m, 0>>].outcome.ticket].ids
      <3>1. <<m, 0>> \in Messages \X A!Ordinals
        BY DEF A!Ordinals
      <3>2. claims[<<m, 0>>] \in A!ClaimRow
        BY <3>1 DEF ActInv, A!TypeOK
      <3>3. claims[<<m, 0>>].outcome \in A!Outcome
        BY <3>2 DEF A!ClaimRow
      <3> QED BY <2>2, <3>3 DEF ActInv, StoredRight, IsTrue
    <2> QED BY <2>1, <2>2 DEF A!ToldIsTrue
  <1> QED BY <1>1, ActAlways, PTL

\* Of all the calls that are linked to a message, retried, doubled or dead, at most one has
\* written; and activities that replace each other leave one that counts.
THEOREM WorkStaysCountedOnce ==
    ASSUME ActivitiesSensible
    PROVE  AllSpec => []WorkCountsOnce
  <1>1. (about = "activities" => ActInv) => WorkCountsOnce
    <2> SUFFICES ASSUME ActInv, NEW m \in Messages
                 PROVE  A!Cardinality({t \in 1..MaxTickets : wrote[t].linked = m /\ wrote[t].ids # {}}) <= 1
      BY DEF WorkCountsOnce, A!LinkedOnce, ActInv
    <2> DEFINE S == {t \in 1..MaxTickets : wrote[t].linked = m /\ wrote[t].ids # {}}
    <2>1. \A X : A!Cardinality(X) = Cardinality(X)
      BY DEF A!Cardinality, Cardinality
    <2>2. \A t, u \in S : t = u
      <3>1. WroteOnce(m)
        BY DEF ActInv
      <3> QED BY <3>1 DEF WroteOnce, WroteFor
    <2> HIDE DEF S
    <2>3. Cardinality(S) <= 1
      <3>1. CASE S = {}
        BY <3>1, FS_EmptySet
      <3>2. CASE S # {}
        <4>1. PICK t \in S : TRUE
          BY <3>2
        <4>2. S = {t}
          <5>1. \A u : u \in S => u = t
            BY <2>2, <4>1
          <5>2. \A u : u \in S <=> u \in {t}
            BY <4>1, <5>1
          <5> QED BY <5>2
        <4>3. Cardinality({t}) = 1
          BY FS_Singleton
        <4>4. Cardinality(S) = 1
          BY <4>2, <4>3
        <4> QED BY <4>4
      <3> QED BY <3>1, <3>2
    <2> QED BY <2>1, <2>3 DEF S
  <1> QED BY <1>1, ActAlways, PTL

-----------------------------------------------------------------------------
(* Reports for the client                                                  *)

\* The evidence, what the operator holds and the command that runs have their shape.
ReportTyped ==
    /\ evidence \in [Subjects -> R!Evidence] /\ held \in R!Artifact
    /\ command \in [kind : R!Kinds, phase : R!Phases, seen : R!Seen, client : {command.client},
                    unnamed : {command.unnamed}, start : R!Seen]
    /\ command.client \in [figures : {command.client.figures}, latest : {command.client.latest},
                           recommendations : {command.client.recommendations}]

\* An episode refers to a revision its activity has had.
EvidenceStands ==
    \A s \in Subjects :
        evidence[s].link <= evidence[s].activity /\ (evidence[s].there => evidence[s].episode # 0)

\* One episode of the evidence that is not older than another.
NotBefore(first, later) ==
    first.episode <= later.episode /\ (first.episode = later.episode => first.link = later.link)

\* While a report is published nobody is deleted, and what is read of the evidence comes after
\* what it was when the command began.
ReadsFollowStart ==
    command.kind = "publish" => \A s \in Subjects : evidence[s].there =>
        /\ command.start[s].episode # 0 /\ command.start[s].link <= command.start[s].activity
        /\ command.start[s].activity <= evidence[s].activity
        /\ NotBefore(command.start[s], evidence[s])
        /\ command.seen[s].episode # 0 => NotBefore(command.start[s], command.seen[s])

\* What is saved as checked is of a contributor who is there.
StoredStands ==
    \A a \in stored : \A s \in Subjects :
        a.candidates[s] = "checked" => s \in a.contributors /\ evidence[s].there

PublishedStands == \A p \in published : R!RestsOnEvidence(p) /\ R!IsAnswered(p)

ReportInv == ReportTyped /\ EvidenceStands /\ ReadsFollowStart /\ StoredStands /\ PublishedStands

LEMMA ReportConstants ==
    /\ R!Unread \in R!Seen /\ (\A s \in Subjects : R!Unread[s].episode = 0 /\ R!Unread[s].activity = 0)
    /\ R!NoArtifact \in R!Artifact
    /\ R!NoClient \in [figures : {R!NoClient.figures}, latest : {R!NoClient.latest},
                       recommendations : {R!NoClient.recommendations}]
    /\ R!NoCommand \in [kind : R!Kinds, phase : R!Phases, seen : R!Seen, client : {R!NoClient},
                        unnamed : {FALSE}, start : R!Seen]
    /\ R!NoCommand.kind = "none" /\ R!NoCommand.client = R!NoClient
  <1>1. R!Unread \in R!Seen /\ \A s \in Subjects : R!Unread[s].episode = 0 /\ R!Unread[s].activity = 0
    BY DEF R!Unread, R!Seen
  <1>2. R!NoArtifact \in R!Artifact
    BY DEF R!NoArtifact, R!Artifact, R!Statuses
  <1>3. R!NoClient \in [figures : {R!NoClient.figures}, latest : {R!NoClient.latest},
                        recommendations : {R!NoClient.recommendations}]
    BY DEF R!NoClient
  <1>4. /\ R!NoCommand \in [kind : R!Kinds, phase : R!Phases, seen : R!Seen, client : {R!NoClient},
                            unnamed : {FALSE}, start : R!Seen]
        /\ R!NoCommand.kind = "none" /\ R!NoCommand.client = R!NoClient
    BY <1>1 DEF R!NoCommand, R!Kinds, R!Phases
  <1> QED BY <1>1, <1>2, <1>3, <1>4

LEMMA ReportInit ==
    ASSUME R!Init
    PROVE  ReportInv
  <1>1. /\ evidence = [s \in Subjects |-> [there |-> TRUE, episode |-> 1, link |-> 1, activity |-> 1]]
        /\ held = R!NoArtifact /\ stored = {} /\ published = {} /\ command = R!NoCommand
    BY DEF R!Init
  <1>2. /\ evidence \in [Subjects -> R!Evidence]
        /\ \A s \in Subjects : evidence[s].link <= evidence[s].activity /\ evidence[s].episode # 0
    BY <1>1 DEF R!Evidence
  <1>3. ReportTyped
    <2>1. command.client = R!NoClient /\ command.unnamed = FALSE
      BY <1>1, ReportConstants DEF R!NoCommand
    <2> QED BY <1>1, <1>2, <2>1, ReportConstants DEF ReportTyped
  <1> QED BY <1>1, <1>2, <1>3, ReportConstants
          DEF ReportInv, EvidenceStands, ReadsFollowStart, StoredStands, PublishedStands

\* What was published stays as it was, and decisions are only added.
LEMMA ReportKeeps ==
    ASSUME PublishedStands, published' = published, decisions \subseteq decisions'
    PROVE  PublishedStands'
  <1> SUFFICES ASSUME NEW p \in published PROVE R!RestsOnEvidence(p) /\ (R!IsAnswered(p))'
    BY DEF PublishedStands, R!RestsOnEvidence
  <1> QED BY DEF PublishedStands, R!IsAnswered

\* What the employees say and correct, while a command may run.
LEMMA ReportEvidence ==
    ASSUME ReportInv, NEW s \in Subjects, NEW e \in R!Evidence,
           evidence' = [evidence EXCEPT ![s] = e],
           UNCHANGED <<held, stored, decisions, published, command>>,
           e.there = evidence[s].there, e.there => e.episode # 0, e.link <= e.activity,
           evidence[s].activity <= e.activity, NotBefore(evidence[s], e)
    PROVE  ReportInv'
  <1>1. /\ evidence \in [Subjects -> R!Evidence] /\ evidence' \in [Subjects -> R!Evidence]
        /\ evidence'[s] = e /\ \A t \in Subjects : t # s => evidence'[t] = evidence[t]
    BY DEF ReportInv, ReportTyped
  <1>2. ReportTyped'
    BY <1>1 DEF ReportInv, ReportTyped
  <1>3. EvidenceStands'
    BY <1>1 DEF ReportInv, EvidenceStands
  <1>4. ReadsFollowStart'
    <2> SUFFICES ASSUME command.kind = "publish", NEW t \in Subjects, evidence'[t].there
                 PROVE  /\ command.start[t].episode # 0
                        /\ command.start[t].link <= command.start[t].activity
                        /\ command.start[t].activity <= evidence'[t].activity
                        /\ NotBefore(command.start[t], evidence'[t])
                        /\ command.seen[t].episode # 0 => NotBefore(command.start[t], command.seen[t])
      BY DEF ReadsFollowStart, NotBefore
    <2>1. /\ evidence[t].there /\ command.start[t].episode # 0
          /\ command.start[t].link <= command.start[t].activity
          /\ command.start[t].activity <= evidence[t].activity
          /\ NotBefore(command.start[t], evidence[t])
          /\ command.seen[t].episode # 0 => NotBefore(command.start[t], command.seen[t])
      BY <1>1 DEF ReportInv, ReadsFollowStart
    <2>2. CASE t # s
      BY <1>1, <2>1, <2>2
    <2>3. CASE t = s
      <3>1. command.start[s] \in [episode : Nat, link : Nat, activity : Nat]
        BY DEF ReportInv, ReportTyped, R!Seen
      <3>2. evidence[s] \in R!Evidence
        BY <1>1
      <3>3. command.start[s].activity <= e.activity
        BY <2>1, <2>3, <3>1, <3>2 DEF R!Evidence
      <3>4. NotBefore(command.start[s], e)
        BY <2>1, <2>3, <3>1, <3>2 DEF R!Evidence, NotBefore
      <3> QED BY <1>1, <2>1, <2>3, <3>3, <3>4
    <2> QED BY <2>2, <2>3
  <1>5. StoredStands'
    BY <1>1 DEF ReportInv, StoredStands
  <1> QED BY <1>2, <1>3, <1>4, <1>5, ReportKeeps DEF ReportInv

LEMMA ReportSaid ==
    ASSUME ReportInv, NEW s \in Subjects, R!Correct(s) \/ \E relinks \in BOOLEAN : R!Speak(s, relinks)
    PROVE  ReportInv'
  <1>1. evidence[s] \in R!Evidence /\ evidence \in [Subjects -> R!Evidence]
        /\ evidence[s].link <= evidence[s].activity /\ (evidence[s].there => evidence[s].episode # 0)
    BY DEF ReportInv, ReportTyped, EvidenceStands
  <1>2. CASE R!Correct(s)
    <2> DEFINE e == [evidence[s] EXCEPT !.activity = @ + 1]
    <2>1. evidence' = [evidence EXCEPT ![s] = e] /\ UNCHANGED <<held, stored, decisions, published, command>>
      BY <1>1, <1>2 DEF R!Correct
    <2>2. e \in R!Evidence /\ e.there = evidence[s].there /\ e.episode = evidence[s].episode
          /\ e.link = evidence[s].link /\ e.activity = evidence[s].activity + 1
      BY <1>1 DEF R!Evidence
    <2> HIDE DEF e
    <2>3. e.link <= e.activity /\ evidence[s].activity <= e.activity /\ NotBefore(evidence[s], e)
      BY <1>1, <2>2 DEF R!Evidence, NotBefore
    <2>4. e.there => e.episode # 0
      BY <1>1, <2>2
    <2> QED BY <2>1, <2>2, <2>3, <2>4, ReportEvidence
  <1>3. CASE \E relinks \in BOOLEAN : R!Speak(s, relinks)
    <2>1. PICK relinks \in BOOLEAN : R!Speak(s, relinks)
      BY <1>3
    <2> DEFINE link == IF relinks THEN evidence[s].activity ELSE evidence[s].link
               e    == [evidence[s] EXCEPT !.episode = @ + 1, !.link = link]
    <2>2. /\ evidence' = [evidence EXCEPT ![s] = e] /\ UNCHANGED <<held, stored, decisions, published, command>>
          /\ evidence[s].episode > 0
      BY <1>1, <2>1 DEF R!Speak
    <2>3. link \in Nat /\ link <= evidence[s].activity
      BY <1>1 DEF R!Evidence
    <2> HIDE DEF link
    <2>4. e \in R!Evidence /\ e.there = evidence[s].there /\ e.episode = evidence[s].episode + 1
          /\ e.link = link /\ e.activity = evidence[s].activity
      <3>1. evidence[s].episode + 1 \in Nat
        BY <1>1 DEF R!Evidence
      <3>2. e \in R!Evidence
        BY <1>1, <2>3, <3>1 DEF R!Evidence
      <3>3. e.there = evidence[s].there /\ e.episode = evidence[s].episode + 1
        BY <1>1 DEF R!Evidence
      <3>4. e.link = link /\ e.activity = evidence[s].activity
        BY <1>1 DEF R!Evidence
      <3> QED BY <3>2, <3>3, <3>4
    <2> HIDE DEF e
    <2>5. e.episode # 0 /\ e.link <= e.activity /\ evidence[s].activity <= e.activity /\ NotBefore(evidence[s], e)
      BY <1>1, <2>3, <2>4 DEF R!Evidence, NotBefore
    <2> QED BY <2>2, <2>4, <2>5, ReportEvidence
  <1> QED BY <1>2, <1>3

\* A command that begins, goes on or ends, while the evidence stays.
LEMMA ReportCommand ==
    ASSUME ReportInv,
           NEW next \in [kind : R!Kinds, phase : R!Phases, seen : R!Seen, client : {command'.client},
                         unnamed : {command'.unnamed}, start : R!Seen],
           command' = next, UNCHANGED <<evidence, held, stored, decisions, published>>,
           next.client \in [figures : {next.client.figures}, latest : {next.client.latest},
                            recommendations : {next.client.recommendations}],
           ReadsFollowStart'
    PROVE  ReportInv'
  <1>1. ReportTyped'
    BY DEF ReportInv, ReportTyped
  <1>2. EvidenceStands' /\ StoredStands'
    BY DEF ReportInv, EvidenceStands, StoredStands
  <1> QED BY <1>1, <1>2, ReportKeeps DEF ReportInv

LEMMA ReportReads ==
    ASSUME ReportInv
    PROVE  /\ R!Now \in R!Seen /\ R!EpisodesNow \in R!Seen
           /\ \A s \in Subjects : /\ R!Now[s].episode = evidence[s].episode
                                  /\ R!Now[s].link = evidence[s].link
                                  /\ R!Now[s].activity = evidence[s].activity
                                  /\ R!EpisodesNow[s].episode = evidence[s].episode
                                  /\ R!EpisodesNow[s].link = evidence[s].link
  <1>1. evidence \in [Subjects -> R!Evidence]
    BY DEF ReportInv, ReportTyped
  <1>2. R!Now \in R!Seen
    BY <1>1 DEF R!Now, R!Seen, R!Evidence
  <1>3. \A s \in Subjects : /\ R!Now[s] \in [episode : Nat, link : Nat, activity : Nat]
                            /\ R!Now[s].episode = evidence[s].episode
                            /\ R!Now[s].link = evidence[s].link
                            /\ R!Now[s].activity = evidence[s].activity
    BY <1>1 DEF R!Now, R!Evidence
  <1>4. R!EpisodesNow \in R!Seen
    BY <1>3 DEF R!EpisodesNow, R!Seen
  <1>5. \A s \in Subjects : /\ R!EpisodesNow[s].episode = evidence[s].episode
                            /\ R!EpisodesNow[s].link = evidence[s].link
    BY <1>3 DEF R!EpisodesNow
  <1> QED BY <1>2, <1>3, <1>4, <1>5

LEMMA ReportStart ==
    ASSUME ReportInv, NEW kind \in R!Kinds \ {"none"}, R!Start(kind)
    PROVE  ReportInv'
  <1>1. UNCHANGED <<evidence, held, stored, decisions, published>>
    BY DEF R!Start
  <1>2. CASE kind \in R!ReportKinds
    <2> DEFINE client == [R!NoClient EXCEPT !.figures = [s \in Subjects |-> evidence[s].activity]]
               start  == IF kind = "publish" THEN R!Now ELSE R!Unread
               next   == [R!NoCommand EXCEPT !.kind = kind, !.phase = "latest", !.unnamed = unnamed,
                              !.client = client, !.start = start]
    <2>1. command' = next
      BY <1>2, ReportConstants DEF R!Start, R!NoCommand
    <2>2. client \in [figures : {client.figures}, latest : {client.latest},
                      recommendations : {client.recommendations}]
      BY ReportConstants
    <2> HIDE DEF client
    <2>3. start \in R!Seen /\ (kind = "publish" => start = R!Now)
      BY ReportConstants, ReportReads
    <2> HIDE DEF start
    <2>4. /\ next.kind = kind /\ next.client = client /\ next.seen = R!Unread /\ next.start = start
          /\ next.phase = "latest" /\ next.unnamed = unnamed
      BY ReportConstants DEF R!NoCommand
    <2>5. next \in [kind : R!Kinds, phase : R!Phases, seen : R!Seen, client : {next.client},
                    unnamed : {next.unnamed}, start : R!Seen]
      BY <2>3, <2>4, ReportConstants DEF R!Phases
    <2> HIDE DEF next
    <2>6. ReadsFollowStart'
      <3> SUFFICES ASSUME kind = "publish", NEW s \in Subjects, evidence[s].there
                   PROVE  /\ start[s].episode # 0 /\ start[s].link <= start[s].activity
                          /\ start[s].activity <= evidence[s].activity
                          /\ NotBefore(start[s], evidence[s])
        BY <1>1, <2>1, <2>4, ReportConstants DEF ReadsFollowStart, NotBefore
      <3>1. evidence[s] \in R!Evidence
        BY DEF ReportInv, ReportTyped
      <3>2. evidence[s].link <= evidence[s].activity /\ evidence[s].episode # 0
        BY DEF ReportInv, EvidenceStands
      <3> QED BY <2>3, <3>1, <3>2, ReportReads DEF R!Evidence, NotBefore
    <2> QED BY <1>1, <2>1, <2>2, <2>4, <2>5, <2>6, ReportCommand
  <1>3. CASE kind \notin R!ReportKinds
    <2> DEFINE next == [R!NoCommand EXCEPT !.kind = kind, !.phase = "activities", !.seen = R!EpisodesNow]
    <2>1. command' = next
      BY <1>3 DEF R!Start
    <2>2. next.kind = kind /\ next.client = R!NoClient
      BY ReportConstants DEF R!NoCommand
    <2>3. next \in [kind : R!Kinds, phase : R!Phases, seen : R!Seen, client : {next.client},
                    unnamed : {next.unnamed}, start : R!Seen]
      BY <2>2, ReportConstants, ReportReads DEF R!Phases
    <2> HIDE DEF next
    <2>4. ReadsFollowStart'
      BY <1>3, <2>1, <2>2 DEF ReadsFollowStart, R!ReportKinds
    <2> QED BY <1>1, <2>1, <2>2, <2>3, <2>4, ReportConstants, ReportCommand
  <1> QED BY <1>2, <1>3

LEMMA ReportReadLatest ==
    ASSUME ReportInv, R!ReadLatest
    PROVE  ReportInv'
  <1> DEFINE client == [command.client EXCEPT !.latest = R!Latest]
             phase  == IF R!Latest = R!NoArtifact THEN "activities" ELSE "episodes"
             next   == [command EXCEPT !.client = client, !.phase = phase]
  <1>1. UNCHANGED <<evidence, held, stored, decisions, published>>
    BY DEF R!ReadLatest
  <1>2. /\ command \in [kind : R!Kinds, phase : R!Phases, seen : R!Seen, client : {command.client},
                        unnamed : {command.unnamed}, start : R!Seen]
        /\ command.client \in [figures : {command.client.figures}, latest : {command.client.latest},
                               recommendations : {command.client.recommendations}]
    BY DEF ReportInv, ReportTyped
  <1>3. command' = next
    BY <1>2 DEF R!ReadLatest
  <1>4. client \in [figures : {client.figures}, latest : {client.latest},
                    recommendations : {client.recommendations}]
    BY <1>2
  <1> HIDE DEF client
  <1>5. phase \in R!Phases
    BY DEF R!Phases
  <1> HIDE DEF phase
  <1>6. next.kind = command.kind /\ next.client = client /\ next.seen = command.seen /\ next.start = command.start
    BY <1>2
  <1>7. next \in [kind : R!Kinds, phase : R!Phases, seen : R!Seen, client : {next.client},
                  unnamed : {next.unnamed}, start : R!Seen]
    BY <1>2, <1>5
  <1> HIDE DEF next
  <1>8. ReadsFollowStart'
    BY <1>1, <1>3, <1>6 DEF ReportInv, ReadsFollowStart, NotBefore
  <1> QED BY <1>1, <1>3, <1>4, <1>6, <1>7, <1>8, ReportCommand

LEMMA ReportReadEpisodes ==
    ASSUME ReportInv, R!ReadEpisodes
    PROVE  ReportInv'
  <1> DEFINE next == [command EXCEPT !.phase = "activities", !.seen = R!EpisodesNow]
  <1>1. UNCHANGED <<evidence, held, stored, decisions, published>> /\ command' = next
    BY DEF R!ReadEpisodes
  <1>2. /\ command \in [kind : R!Kinds, phase : R!Phases, seen : R!Seen, client : {command.client},
                        unnamed : {command.unnamed}, start : R!Seen]
        /\ command.client \in [figures : {command.client.figures}, latest : {command.client.latest},
                               recommendations : {command.client.recommendations}]
    BY DEF ReportInv, ReportTyped
  <1>3. /\ next.kind = command.kind /\ next.client = command.client /\ next.seen = R!EpisodesNow
        /\ next.start = command.start
    BY <1>2
  <1>4. next \in [kind : R!Kinds, phase : R!Phases, seen : R!Seen, client : {next.client},
                  unnamed : {next.unnamed}, start : R!Seen]
    BY <1>2, ReportReads DEF R!Phases
  <1> HIDE DEF next
  <1>5. ReadsFollowStart'
    BY <1>1, <1>3, ReportReads DEF ReportInv, ReadsFollowStart, NotBefore
  <1> QED BY <1>1, <1>2, <1>3, <1>4, <1>5, ReportCommand

\* What a command has read when it ends.
LEMMA ReportSeeing ==
    ASSUME ReportInv, NEW s \in Subjects, R!Seeing[s].episode # 0 \/ R!Seeing[s].activity # 0
    PROVE  /\ evidence[s].there /\ R!Seeing[s].episode = command.seen[s].episode
           /\ R!Seeing[s].link = command.seen[s].link /\ R!Seeing[s].activity = evidence[s].activity
  <1>1. command.seen[s] \in [episode : Nat, link : Nat, activity : Nat]
    BY DEF ReportInv, ReportTyped, R!Seen
  <1> DEFINE next == [command.seen[s] EXCEPT !.activity = evidence[s].activity]
  <1>2. R!Seeing[s] = IF evidence[s].there THEN next ELSE R!Unread[s]
    BY DEF R!Seeing
  <1>3. next.episode = command.seen[s].episode /\ next.link = command.seen[s].link
        /\ next.activity = evidence[s].activity
    BY <1>1
  <1> HIDE DEF next
  <1>4. CASE evidence[s].there
    BY <1>2, <1>3, <1>4
  <1>5. CASE ~evidence[s].there
    BY <1>2, <1>5, ReportConstants
  <1> QED BY <1>4, <1>5

\* A command that ends leaves no command.
LEMMA ReportEnds ==
    ASSUME ReportInv, command' = R!NoCommand, evidence' = evidence,
           held' \in R!Artifact, StoredStands', PublishedStands'
    PROVE  ReportInv'
  <1>1. R!NoCommand.unnamed = FALSE
    BY DEF R!NoCommand
  <1>2. ReportTyped'
    BY <1>1, ReportConstants DEF ReportInv, ReportTyped
  <1>3. EvidenceStands' /\ ReadsFollowStart'
    BY ReportConstants DEF ReportInv, EvidenceStands, ReadsFollowStart
  <1> QED BY <1>2, <1>3 DEF ReportInv

LEMMA ReportKept ==
    ASSUME ReportInv, command' = R!NoCommand, UNCHANGED <<evidence, stored, published>>,
           held' \in R!Artifact, decisions \subseteq decisions'
    PROVE  ReportInv'
  <1>1. StoredStands'
    BY DEF ReportInv, StoredStands
  <1>2. PublishedStands'
    BY ReportKeeps DEF ReportInv
  <1> QED BY <1>1, <1>2, ReportEnds

LEMMA ReportBuild ==
    ASSUME ReportInv, R!Build
    PROVE  ReportInv'
  <1>1. command' = R!NoCommand /\ UNCHANGED <<evidence, stored, decisions, published>>
    BY DEF R!Build, R!Finishes
  <1> DEFINE made == [R!NoArtifact EXCEPT !.version = held.version + 1,
                           !.refs = [s \in Subjects |-> R!Seeing[s].episode],
                           !.contributors = R!Contributors]
             proposed(complete) == [s \in Subjects |->
                 IF R!Seeing[s].episode = 0 THEN "none"
                 ELSE IF s \in complete /\ R!Supported(made, s, R!Seeing) THEN "draft" ELSE "deep_dive"]
  <1>2. PICK complete \in SUBSET Subjects : held' = [made EXCEPT !.candidates = proposed(complete)]
    BY DEF R!Build
  <1>3. PICK names \in [Subjects -> R!Statuses] : names = proposed(complete)
    BY DEF R!Statuses
  <1>4. made \in R!Artifact
    <2>1. held.version + 1 \in Nat
      BY DEF ReportInv, ReportTyped, R!Artifact
    <2>2. [s \in Subjects |-> R!Seeing[s].episode] \in [Subjects -> Nat]
      <3> SUFFICES ASSUME NEW s \in Subjects PROVE R!Seeing[s].episode \in Nat
        OBVIOUS
      <3>1. CASE R!Seeing[s].episode # 0
        BY <3>1, ReportSeeing DEF ReportInv, ReportTyped, R!Seen
      <3> QED BY <3>1
    <2>3. R!Contributors \in SUBSET Subjects
      BY DEF R!Contributors
    <2> QED BY <2>1, <2>2, <2>3, ReportConstants DEF R!Artifact
  <1>5. held' = [made EXCEPT !.candidates = names]
    BY <1>2, <1>3
  <1> HIDE DEF made, proposed
  <1>6. held' \in R!Artifact
    BY <1>4, <1>5 DEF R!Artifact
  <1> QED BY <1>1, <1>6, ReportKept

LEMMA ReportCheck ==
    ASSUME ReportInv, R!Check
    PROVE  ReportInv'
  <1>1. command' = R!NoCommand /\ UNCHANGED <<evidence, stored, decisions, published>>
    BY DEF R!Check, R!Finishes
  <1>2. held \in R!Artifact
    BY DEF ReportInv, ReportTyped
  <1> DEFINE reviewed(accepted) == [s \in Subjects |->
                 IF held.candidates[s] = "none" THEN "none"
                 ELSE IF ~(R!Current(held, R!Seeing) /\ R!Supported(held, s, R!Seeing)) THEN "stale"
                 ELSE IF held.candidates[s] = "deep_dive" THEN "deep_dive"
                 ELSE IF s \in accepted THEN "checked" ELSE "rejected"]
  <1>3. PICK accepted \in SUBSET Subjects :
            held' = [held EXCEPT !.version = @ + 1, !.candidates = reviewed(accepted)]
    BY <1>2 DEF R!Check, R!Artifact
  <1>4. PICK names \in [Subjects -> R!Statuses] : names = reviewed(accepted)
    BY DEF R!Statuses
  <1>5. held' = [held EXCEPT !.version = @ + 1, !.candidates = names]
    BY <1>3, <1>4
  <1> HIDE DEF reviewed
  <1>6. held' \in R!Artifact
    <2>1. held.version + 1 \in Nat
      BY <1>2 DEF R!Artifact
    <2>2. held' = [held EXCEPT !.version = held.version + 1, !.candidates = names]
      BY <1>5
    <2> QED BY <1>2, <2>1, <2>2 DEF R!Artifact
  <1> QED BY <1>1, <1>6, ReportKept

LEMMA ReportSave ==
    ASSUME ReportInv, R!Save
    PROVE  ReportInv'
  <1>1. command' = R!NoCommand /\ UNCHANGED <<evidence, held, decisions, published>>
    BY DEF R!Save, R!Finishes
  <1>2. held \in R!Artifact
    BY DEF ReportInv, ReportTyped
  <1> DEFINE version == [held EXCEPT !.contributors = held.contributors \cup R!Contributors]
  <1>3. stored' = stored \/ (R!Saves /\ stored' = stored \cup {version})
    BY DEF R!Save
  <1>4. /\ version.candidates = held.candidates
        /\ version.contributors = held.contributors \cup R!Contributors
    BY <1>2 DEF R!Artifact
  <1> HIDE DEF version
  <1>5. ASSUME R!Saves, NEW s \in Subjects, version.candidates[s] = "checked"
        PROVE  s \in version.contributors /\ evidence[s].there
    <2>1. R!Seeing[s].episode # 0
      BY <1>4, <1>5 DEF R!Saves, R!Supported
    <2> QED BY <1>4, <2>1, ReportSeeing DEF R!Contributors
  <1>6. StoredStands'
    BY <1>1, <1>3, <1>5 DEF ReportInv, StoredStands
  <1>7. PublishedStands'
    BY <1>1, ReportKeeps DEF ReportInv
  <1> QED BY <1>1, <1>2, <1>6, <1>7, ReportEnds

LEMMA ReportPublish ==
    ASSUME ReportInv, R!Publish
    PROVE  ReportInv'
  <1>1. /\ command' = R!NoCommand /\ UNCHANGED <<evidence, held, stored, decisions>>
        /\ command.kind = "publish"
    BY DEF R!Publish, R!Finishes
  <1>2. command.client \in [figures : {command.client.figures}, latest : {command.client.latest},
                            recommendations : {command.client.recommendations}]
    BY DEF ReportInv, ReportTyped
  <1> DEFINE client == R!Client_
             findings == R!High \cup file.findings
             p == [client |-> client, findings |-> findings, start |-> command.start]
  <1>3. published' = published \/ (published' = published \cup {p} /\ R!Unanswered(client, findings) = {})
    BY DEF R!Publish
  <1>4. /\ client.latest = command.client.latest
        /\ \A s \in client.recommendations : s \in Subjects /\
               R!Publishable(command.client.latest, s, R!Seeing, command.client.figures)
    BY <1>2 DEF R!Client_
  <1> HIDE DEF client, findings
  <1>5. p.client = client /\ p.findings = findings /\ p.start = command.start
    OBVIOUS
  <1> HIDE DEF p
  <1>6. R!RestsOnEvidence(p)
    <2> SUFFICES ASSUME NEW s \in client.recommendations
                 PROVE  /\ client.latest.candidates[s] = "checked"
                        /\ client.latest.refs[s] = command.start[s].episode =>
                               command.start[s].link = command.start[s].activity
                        /\ client.latest.refs[s] >= command.start[s].episode /\ command.start[s].episode # 0
      BY <1>5 DEF R!RestsOnEvidence
    <2>1. /\ s \in Subjects /\ client.latest.candidates[s] = "checked"
          /\ R!Seeing[s].episode = client.latest.refs[s] /\ client.latest.refs[s] # 0
          /\ R!Seeing[s].activity # 0 /\ R!Seeing[s].activity = R!Seeing[s].link
      BY <1>4 DEF R!Publishable, R!Supported
    <2>2. /\ evidence[s].there /\ client.latest.refs[s] = command.seen[s].episode
          /\ command.seen[s].link = evidence[s].activity /\ command.seen[s].episode # 0
      BY <2>1, ReportSeeing
    <2>3. /\ command.start[s].episode # 0 /\ command.start[s].link <= command.start[s].activity
          /\ command.start[s].activity <= evidence[s].activity
          /\ NotBefore(command.start[s], command.seen[s])
      BY <1>1, <2>1, <2>2 DEF ReportInv, ReadsFollowStart
    <2>4. /\ command.start[s] \in [episode : Nat, link : Nat, activity : Nat]
          /\ command.seen[s] \in [episode : Nat, link : Nat, activity : Nat] /\ evidence[s] \in R!Evidence
      BY <2>1 DEF ReportInv, ReportTyped, R!Seen
    <2>5. client.latest.refs[s] >= command.start[s].episode
      BY <2>2, <2>3, <2>4 DEF NotBefore
    <2>6. ASSUME client.latest.refs[s] = command.start[s].episode
          PROVE  command.start[s].link = command.start[s].activity
      <3>1. command.start[s].link = evidence[s].activity
        BY <2>2, <2>3, <2>6 DEF NotBefore
      <3> QED BY <2>3, <2>4, <3>1 DEF R!Evidence
    <2> QED BY <2>1, <2>3, <2>5, <2>6
  <1>7. R!Unanswered(client, findings) = {} => R!IsAnswered(p)
    BY <1>5 DEF R!IsAnswered, R!Unanswered, R!Answered
  <1>8. PublishedStands'
    <2> SUFFICES ASSUME NEW q \in published' PROVE R!RestsOnEvidence(q) /\ (R!IsAnswered(q))'
      BY DEF PublishedStands, R!RestsOnEvidence
    <2> QED BY <1>1, <1>3, <1>6, <1>7 DEF ReportInv, PublishedStands, R!IsAnswered
  <1>9. StoredStands'
    BY <1>1 DEF ReportInv, StoredStands
  <1>10. held' \in R!Artifact
    BY <1>1 DEF ReportInv, ReportTyped
  <1> QED BY <1>1, <1>8, <1>9, <1>10, ReportEnds

LEMMA ReportDelete ==
    ASSUME ReportInv, NEW s \in Subjects, R!Delete(s)
    PROVE  ReportInv'
  <1>1. /\ UNCHANGED <<held, decisions, published, command>> /\ command.kind = "none"
        /\ stored' = {a \in stored : s \notin a.contributors}
        /\ evidence' = [evidence EXCEPT ![s] = R!Deleted]
    BY DEF R!Delete
  <1>2. /\ R!Deleted \in R!Evidence /\ R!Deleted.link <= R!Deleted.activity /\ ~R!Deleted.there
    BY DEF R!Deleted, R!Evidence
  <1>3. /\ evidence' \in [Subjects -> R!Evidence] /\ evidence'[s] = R!Deleted
        /\ \A t \in Subjects : t # s => evidence'[t] = evidence[t]
    BY <1>1, <1>2 DEF ReportInv, ReportTyped
  <1>4. ReportTyped'
    BY <1>1, <1>3 DEF ReportInv, ReportTyped
  <1>5. EvidenceStands'
    BY <1>2, <1>3 DEF ReportInv, EvidenceStands
  <1>6. ReadsFollowStart'
    BY <1>1 DEF ReadsFollowStart
  <1>7. StoredStands'
    BY <1>1, <1>3 DEF ReportInv, StoredStands
  <1>8. PublishedStands'
    BY <1>1, ReportKeeps DEF ReportInv
  <1> QED BY <1>4, <1>5, <1>6, <1>7, <1>8 DEF ReportInv

LEMMA ReportStep ==
    ASSUME ReportInv, [R!Next]_reportVars
    PROVE  ReportInv'
  <1>1. CASE \E s \in Subjects : R!Correct(s) \/ R!Delete(s)
    BY <1>1, ReportSaid, ReportDelete
  <1>2. CASE \E s \in Subjects, relinks \in BOOLEAN : R!Speak(s, relinks)
    BY <1>2, ReportSaid
  <1>3. ASSUME UNCHANGED <<evidence, held, stored, decisions, published, command>>
        PROVE  ReportInv'
    <2>1. ReportTyped' /\ EvidenceStands' /\ StoredStands'
      BY <1>3 DEF ReportInv, ReportTyped, EvidenceStands, StoredStands
    <2>2. ReadsFollowStart'
      BY <1>3 DEF ReportInv, ReadsFollowStart, NotBefore
    <2> QED BY <1>3, <2>1, <2>2, ReportKeeps DEF ReportInv
  <1>4. CASE R!Mislabel \/ UNCHANGED reportVars
    BY <1>3, <1>4 DEF R!Mislabel, reportVars
  <1>5. CASE \E kind \in R!Kinds \ {"none"} : R!Start(kind)
    BY <1>5, ReportStart
  <1>6. ASSUME \/ R!Preflight \/ \E f \in R!Findings : R!Resolve(f) \/ R!RefuseFinding(f)
        PROVE  ReportInv'
    <2>1. /\ command' = R!NoCommand /\ UNCHANGED <<evidence, held, stored, published>>
          /\ decisions \subseteq decisions'
      BY <1>6 DEF R!Preflight, R!Resolve, R!RefuseFinding, R!Finishes
    <2>2. held' \in R!Artifact
      BY <2>1 DEF ReportInv, ReportTyped
    <2> QED BY <2>1, <2>2, ReportKept
  <1> QED BY <1>1, <1>2, <1>4, <1>5, <1>6, ReportReadLatest, ReportReadEpisodes, ReportBuild,
             ReportCheck, ReportSave, ReportPublish DEF R!Next

\* Whatever the employees say and correct between the commands and between the queries of one, a
\* report that is published names nothing that had changed when the command began, and every
\* finding of high severity was answered for that very report; no recommendation outlives the
\* person it is about.
THEOREM PublishedStaysReviewed ==
    AllSpec => []PublishedIsReviewed
  <1> DEFINE IInv == about = "reports" => ReportInv
  <1>1. AllInit => IInv
    BY ReportInit DEF AllInit
  <1>2. IInv /\ [AllNext]_all => IInv'
    <2> SUFFICES ASSUME IInv, [AllNext]_all, about' = "reports" PROVE ReportInv'
      OBVIOUS
    <2>1. about = "reports" /\ [R!Next]_reportVars
      BY OnePartMoves
    <2> QED BY <2>1, ReportStep
  <1>3. IInv => PublishedIsReviewed
    BY DEF ReportInv, PublishedStands, StoredStands, PublishedIsReviewed, R!PublishedIsReviewed,
           R!NothingOfTheDeleted
  <1> QED BY <1>1, <1>2, <1>3, PTL DEF AllSpec

-----------------------------------------------------------------------------
(* The types of the records                                                *)

\* Of the versions saved that are still there, whichever they are, one is the latest.
OneIsLatest ==
    \A versions \in SUBSET stored : versions # {} =>
        \E a \in versions : \A b \in versions : a.version >= b.version

LEMMA SavedInOrder ==
    ASSUME OneIsLatest, \A a \in stored : a \in R!Artifact, NEW new \in R!Artifact,
           stored' = stored \cup {new}
    PROVE  OneIsLatest'
  <1> SUFFICES ASSUME NEW versions \in SUBSET stored', versions # {}
               PROVE  \E a \in versions : \A b \in versions : a.version >= b.version
    BY DEF OneIsLatest
  <1> DEFINE earlier == versions \ {new}
  <1>1. earlier \in SUBSET stored /\ new.version \in Nat /\ \A a \in stored : a.version \in Nat
    BY DEF R!Artifact
  <1>2. CASE earlier = {}
    <2>1. \A b \in versions : b = new
      BY <1>2
    <2> QED BY <1>1, <2>1
  <1>3. CASE earlier # {}
    <2>1. PICK a \in earlier : \A b \in earlier : a.version >= b.version
      BY <1>1, <1>3 DEF OneIsLatest
    <2>2. CASE new \notin versions \/ a.version >= new.version
      <3>1. \A b \in versions : b \in earlier \/ b = new
        OBVIOUS
      <3> QED BY <2>1, <2>2, <3>1
    <2>3. CASE new \in versions /\ ~(a.version >= new.version)
      <3>1. ASSUME NEW b \in versions PROVE new.version >= b.version
        <4>1. CASE b = new
          BY <1>1, <4>1
        <4>2. CASE b \in earlier
          <5>1. a.version >= b.version /\ b.version \in Nat /\ a.version \in Nat
            BY <1>1, <2>1, <4>2
          <5> QED BY <1>1, <2>3, <5>1
        <4> QED BY <4>1, <4>2
      <3> QED BY <2>3, <3>1
    <2> QED BY <2>2, <2>3
  <1> QED BY <1>2, <1>3

TypedReport == ReportInv /\ R!TypeOK /\ OneIsLatest

\* What is read of a version is a version.
LEMMA ReadIsArtifact ==
    ASSUME NEW a \in R!Artifact, NEW seen
    PROVE  R!AsRead(a, seen) \in R!Artifact
  <1> DEFINE candidates == [s \in Subjects |->
                 IF a.candidates[s] = "checked" /\ ~(R!Current(a, seen) /\ R!Supported(a, s, seen))
                 THEN "stale" ELSE a.candidates[s]]
  <1>1. R!AsRead(a, seen) = [a EXCEPT !.candidates = candidates]
    BY DEF R!AsRead, R!Artifact
  <1>2. candidates \in [Subjects -> R!Statuses]
    BY DEF R!Artifact, R!Statuses
  <1> HIDE DEF candidates
  <1> QED BY <1>1, <1>2 DEF R!Artifact

LEMMA LatestIsArtifact ==
    ASSUME TypedReport
    PROVE  R!Latest \in R!Artifact
  <1>1. CASE stored = {}
    BY <1>1, ReportConstants DEF R!Latest
  <1>2. CASE stored # {}
    <2>1. \E a \in stored : \A b \in stored : a.version >= b.version
      BY <1>2 DEF TypedReport, OneIsLatest
    <2> DEFINE latest == CHOOSE a \in stored : \A b \in stored : a.version >= b.version
    <2>2. latest \in stored
      BY <2>1
    <2>3. latest \in R!Artifact
      BY <2>2 DEF TypedReport, R!TypeOK
    <2>4. R!Latest = R!AsRead(latest, R!Now)
      BY <1>2 DEF R!Latest
    <2> HIDE DEF latest
    <2> QED BY <2>3, <2>4, ReadIsArtifact
  <1> QED BY <1>1, <1>2

LEMMA NoneIsClient == R!NoClient \in R!Client
  BY ReportConstants DEF R!NoClient, R!Client

\* The report as it would be published now.
LEMMA ReportIsClient ==
    ASSUME TypedReport
    PROVE  R!Client_ \in R!Client
  <1> DEFINE named == {s \in Subjects : R!Publishable(command.client.latest, s, R!Seeing,
                                                      command.client.figures)}
  <1>1. command.client \in R!Client
    BY DEF TypedReport, R!TypeOK
  <1>2. R!Client_ = [command.client EXCEPT !.recommendations = named] /\ named \in SUBSET Subjects
    BY DEF R!Client_
  <1> HIDE DEF named
  <1> QED BY <1>1, <1>2 DEF R!Client

LEMMA TypedReportInit ==
    ASSUME R!Init
    PROVE  TypedReport
  <1>1. /\ held = R!NoArtifact /\ stored = {} /\ file = R!NoFile /\ decisions = {} /\ published = {}
        /\ command = R!NoCommand
        /\ evidence = [s \in Subjects |-> [there |-> TRUE, episode |-> 1, link |-> 1, activity |-> 1]]
    BY DEF R!Init
  <1>2. file \in [client : R!Client, findings : SUBSET R!Findings]
    BY <1>1, NoneIsClient DEF R!NoFile
  <1>3. command.kind \in R!Kinds /\ command.phase \in R!Phases /\ command.seen \in R!Seen
    BY <1>1, ReportConstants
  <1>4. evidence \in [Subjects -> R!Evidence]
    BY <1>1 DEF R!Evidence
  <1>5. R!TypeOK
    BY <1>1, <1>2, <1>3, <1>4, ReportConstants, NoneIsClient DEF R!TypeOK
  <1>6. OneIsLatest
    BY <1>1 DEF OneIsLatest
  <1> QED BY <1>5, <1>6, ReportInit DEF TypedReport

\* The command aside, the records are typed when what a step adds to them is.
LEMMA ReportTypes ==
    ASSUME TypedReport, ReportInv', command'.client \in R!Client,
           \A a \in stored' : a \in R!Artifact,
           file' \in [client : R!Client, findings : SUBSET R!Findings],
           \A d \in decisions' : d \in [finding : R!Findings, client : R!Client],
           \A p \in published' : p \in [client : R!Client, findings : SUBSET R!Findings, start : R!Seen]
    PROVE  R!TypeOK'
  <1>1. /\ evidence' \in [Subjects -> R!Evidence] /\ held' \in R!Artifact
        /\ command'.kind \in R!Kinds /\ command'.phase \in R!Phases /\ command'.seen \in R!Seen
    BY DEF ReportInv, ReportTyped
  <1> QED BY <1>1 DEF R!TypeOK

LEMMA ReportTypesStay ==
    ASSUME TypedReport, [R!Next]_reportVars
    PROVE  R!TypeOK'
  <1>0. ReportInv'
    BY ReportStep DEF TypedReport
  <1>1. /\ \A a \in stored : a \in R!Artifact
        /\ file \in [client : R!Client, findings : SUBSET R!Findings]
        /\ \A d \in decisions : d \in [finding : R!Findings, client : R!Client]
        /\ \A p \in published : p \in [client : R!Client, findings : SUBSET R!Findings, start : R!Seen]
        /\ command.client \in R!Client
    BY DEF TypedReport, R!TypeOK
  <1>2. R!NoCommand.client \in R!Client
    BY ReportConstants, NoneIsClient
  <1>3. CASE UNCHANGED <<stored, file, decisions, published, command>>
    BY <1>0, <1>1, <1>3, ReportTypes
  <1>4. CASE UNCHANGED <<stored, file, decisions, published>> /\ command' = R!NoCommand
    BY <1>0, <1>1, <1>2, <1>4, ReportTypes
  <1>5. ASSUME NEW s \in Subjects, R!Delete(s) PROVE R!TypeOK'
    <2>1. stored' \subseteq stored /\ UNCHANGED <<file, decisions, published, command>>
      BY <1>5 DEF R!Delete
    <2> QED BY <1>0, <1>1, <2>1, ReportTypes
  <1>6. ASSUME NEW kind \in R!Kinds \ {"none"}, R!Start(kind) PROVE R!TypeOK'
    <2>1. UNCHANGED <<stored, file, decisions, published>>
      BY <1>6 DEF R!Start
    <2>2. command'.client \in R!Client
      <3>1. CASE kind \in R!ReportKinds
        <4> DEFINE client == [R!NoClient EXCEPT !.figures = [s \in Subjects |-> evidence[s].activity]]
                   next   == [R!NoCommand EXCEPT !.kind = kind, !.phase = "latest", !.unnamed = unnamed,
                                  !.client = client, !.start = IF kind = "publish" THEN R!Now ELSE R!Unread]
        <4>1. command' = next
          BY <1>6, <3>1, ReportConstants DEF R!Start, R!NoCommand
        <4>2. [s \in Subjects |-> evidence[s].activity] \in [Subjects -> Nat]
          BY DEF TypedReport, R!TypeOK, R!Evidence
        <4>3. client \in R!Client
          BY <4>2, NoneIsClient DEF R!Client
        <4> HIDE DEF client
        <4>4. next.client = client
          BY DEF R!NoCommand
        <4> QED BY <4>1, <4>3, <4>4
      <3>2. CASE kind \notin R!ReportKinds
        <4>1. command'.client = R!NoCommand.client
          BY <1>6, <3>2 DEF R!Start, R!NoCommand
        <4> QED BY <1>2, <4>1
      <3> QED BY <3>1, <3>2
    <2> QED BY <1>0, <1>1, <2>1, <2>2, ReportTypes
  <1>7. ASSUME R!ReadLatest PROVE R!TypeOK'
    <2>1. UNCHANGED <<stored, file, decisions, published>>
      BY <1>7 DEF R!ReadLatest
    <2> DEFINE client == [command.client EXCEPT !.latest = R!Latest]
               phase  == IF R!Latest = R!NoArtifact THEN "activities" ELSE "episodes"
               next   == [command EXCEPT !.client = client, !.phase = phase]
    <2>2. command \in [kind : R!Kinds, phase : R!Phases, seen : R!Seen, client : {command.client},
                       unnamed : {command.unnamed}, start : R!Seen]
      BY DEF TypedReport, ReportInv, ReportTyped
    <2>3. command' = next
      BY <1>1, <1>7, <2>2 DEF R!ReadLatest, R!Client
    <2>4. client \in R!Client
      BY <1>1, LatestIsArtifact DEF R!Client
    <2> HIDE DEF client, phase
    <2>5. next.client = client
      BY <2>2
    <2> QED BY <1>0, <1>1, <2>1, <2>3, <2>4, <2>5, ReportTypes
  <1>8. ASSUME R!ReadEpisodes PROVE R!TypeOK'
    <2>1. UNCHANGED <<stored, file, decisions, published>>
      BY <1>8 DEF R!ReadEpisodes
    <2>2. command \in [kind : R!Kinds, phase : R!Phases, seen : R!Seen, client : {command.client},
                       unnamed : {command.unnamed}, start : R!Seen]
      BY DEF TypedReport, ReportInv, ReportTyped
    <2>3. command'.client = command.client
      BY <1>8, <2>2 DEF R!ReadEpisodes
    <2> QED BY <1>0, <1>1, <2>1, <2>3, ReportTypes
  <1>9. ASSUME R!Save PROVE R!TypeOK'
    <2>1. UNCHANGED <<file, decisions, published>> /\ command' = R!NoCommand
      BY <1>9 DEF R!Save, R!Finishes
    <2> DEFINE version == [held EXCEPT !.contributors = held.contributors \cup R!Contributors]
    <2>2. held \in R!Artifact
      BY DEF TypedReport, R!TypeOK
    <2>3. stored' = stored \/ stored' = stored \cup {version}
      BY <1>9 DEF R!Save
    <2>4. version \in R!Artifact
      BY <2>2 DEF R!Artifact, R!Contributors
    <2> HIDE DEF version
    <2>5. \A a \in stored' : a \in R!Artifact
      BY <1>1, <2>3, <2>4
    <2> QED BY <1>0, <1>1, <1>2, <2>1, <2>5, ReportTypes
  <1>10. ASSUME R!Preflight PROVE R!TypeOK'
    <2>1. UNCHANGED <<stored, decisions, published>> /\ command' = R!NoCommand
      BY <1>10 DEF R!Preflight, R!Finishes
    <2>2. PICK llm \in SUBSET {"llm"} : file' = [client |-> R!Client_, findings |-> R!High \cup llm]
      BY <1>10 DEF R!Preflight
    <2>3. R!High \cup llm \in SUBSET R!Findings
      BY DEF R!High, R!Findings
    <2>4. file' \in [client : R!Client, findings : SUBSET R!Findings]
      BY <2>2, <2>3, ReportIsClient
    <2> QED BY <1>0, <1>1, <1>2, <2>1, <2>4, ReportTypes
  <1>11. ASSUME NEW f \in R!Findings, R!Resolve(f) PROVE R!TypeOK'
    <2>1. UNCHANGED <<stored, file, published>> /\ command' = R!NoCommand
      BY <1>11 DEF R!Resolve, R!Finishes
    <2>2. decisions' = decisions \cup {[finding |-> f, client |-> R!Client_]}
      BY <1>11 DEF R!Resolve
    <2>3. \A d \in decisions' : d \in [finding : R!Findings, client : R!Client]
      BY <1>1, <2>2, ReportIsClient
    <2> QED BY <1>0, <1>1, <1>2, <2>1, <2>3, ReportTypes
  <1>12. ASSUME R!Publish PROVE R!TypeOK'
    <2>1. UNCHANGED <<stored, file, decisions>> /\ command' = R!NoCommand
      BY <1>12 DEF R!Publish, R!Finishes
    <2> DEFINE findings == R!High \cup file.findings
    <2>2. \/ published' = published
          \/ published' = published \cup {[client |-> R!Client_, findings |-> findings,
                                           start |-> command.start]}
      BY <1>12 DEF R!Publish
    <2>3. findings \in SUBSET R!Findings
      BY <1>1 DEF R!High, R!Findings
    <2> HIDE DEF findings
    <2>4. command.start \in R!Seen
      BY DEF TypedReport, ReportInv, ReportTyped
    <2>5. \A p \in published' : p \in [client : R!Client, findings : SUBSET R!Findings, start : R!Seen]
      BY <1>1, <2>2, <2>3, <2>4, ReportIsClient
    <2> QED BY <1>0, <1>1, <1>2, <2>1, <2>5, ReportTypes
  <1>13. ASSUME \/ UNCHANGED reportVars \/ R!Mislabel
                \/ \E s \in Subjects : R!Correct(s) \/ \E relinks \in BOOLEAN : R!Speak(s, relinks)
         PROVE  R!TypeOK'
    BY <1>3, <1>13 DEF reportVars, R!Mislabel, R!Correct, R!Speak
  <1>14. ASSUME \/ R!Build \/ R!Check \/ \E f \in R!Findings : R!RefuseFinding(f)
         PROVE  R!TypeOK'
    <2>1. CASE R!Build
      BY <1>4, <2>1 DEF R!Build, R!Finishes
    <2>2. CASE R!Check
      BY <1>4, <2>2 DEF R!Check, R!Finishes
    <2>3. CASE \E f \in R!Findings : R!RefuseFinding(f)
      BY <1>4, <2>3 DEF R!RefuseFinding, R!Finishes
    <2> QED BY <1>14, <2>1, <2>2, <2>3
  <1> QED BY <1>5, <1>6, <1>7, <1>8, <1>9, <1>10, <1>11, <1>12, <1>13, <1>14 DEF R!Next

LEMMA OneStaysLatest ==
    ASSUME TypedReport, [R!Next]_reportVars
    PROVE  OneIsLatest'
  <1>1. ASSUME stored' \subseteq stored PROVE OneIsLatest'
    BY <1>1 DEF TypedReport, OneIsLatest
  <1>2. CASE R!Save
    <2> DEFINE version == [held EXCEPT !.contributors = held.contributors \cup R!Contributors]
    <2>1. held \in R!Artifact
      BY DEF TypedReport, R!TypeOK
    <2>2. stored' = stored \/ stored' = stored \cup {version}
      BY <1>2 DEF R!Save
    <2>3. version \in R!Artifact
      BY <2>1 DEF R!Artifact, R!Contributors
    <2> HIDE DEF version
    <2> QED BY <1>1, <2>2, <2>3, SavedInOrder DEF TypedReport, R!TypeOK
  <1>3. CASE \E s \in Subjects : R!Delete(s)
    BY <1>1, <1>3 DEF R!Delete
  <1>4. ASSUME \/ \E s \in Subjects : R!Correct(s) \/ \E relinks \in BOOLEAN : R!Speak(s, relinks)
               \/ R!Mislabel \/ \E kind \in R!Kinds \ {"none"} : R!Start(kind)
               \/ R!ReadLatest \/ R!ReadEpisodes \/ UNCHANGED reportVars
        PROVE  UNCHANGED stored
    <2>1. CASE \E s \in Subjects : R!Correct(s) \/ \E relinks \in BOOLEAN : R!Speak(s, relinks)
      BY <2>1 DEF R!Correct, R!Speak
    <2>2. CASE R!Mislabel
      BY <2>2 DEF R!Mislabel
    <2>3. CASE \E kind \in R!Kinds \ {"none"} : R!Start(kind)
      BY <2>3 DEF R!Start
    <2>4. CASE R!ReadLatest
      BY <2>4 DEF R!ReadLatest
    <2>5. CASE R!ReadEpisodes
      BY <2>5 DEF R!ReadEpisodes
    <2>6. CASE UNCHANGED reportVars
      BY <2>6 DEF reportVars
    <2> QED BY <1>4, <2>1, <2>2, <2>3, <2>4, <2>5, <2>6
  <1>5. ASSUME \/ \E f \in R!Findings : R!Resolve(f) \/ R!RefuseFinding(f)
               \/ R!Preflight \/ R!Publish
        PROVE  UNCHANGED stored
    BY <1>5 DEF R!Preflight, R!Publish, R!Resolve, R!RefuseFinding
  <1>6. ASSUME R!Build \/ R!Check PROVE UNCHANGED stored
    <2>1. CASE R!Build
      BY <2>1 DEF R!Build
    <2>2. CASE R!Check
      BY <2>2 DEF R!Check
    <2> QED BY <1>6, <2>1, <2>2
  <1> QED BY <1>1, <1>2, <1>3, <1>4, <1>5, <1>6 DEF R!Next

Q == INSTANCE ArtifactsProofs
         WITH Saves <- Workers, Deliveries <- Files, Research <- "research",
              Personal <- {"hers"}, Size <- SizeOf

\* The two instances of Artifacts are one.
LEMMA SameFiles ==
    /\ F!Sensible <=> Q!Sensible
    /\ F!Init <=> Q!Init
    /\ F!Next <=> Q!Next
    /\ F!TypeOK <=> Q!TypeOK
  <1>1. F!Init <=> Q!Init
    BY DEF F!Init, Q!Init, F!Idle, Q!Idle, F!NoPurge, Q!NoPurge, F!NoDelivery, Q!NoDelivery
  <1>2. ASSUME NEW cs PROVE F!BytesOf(cs) = Q!BytesOf(cs)
    BY DEF F!BytesOf, Q!BytesOf, F!MapThenSumSet, Q!MapThenSumSet, F!MapThenFoldSet, Q!MapThenFoldSet
  <1>3. ASSUME NEW s, NEW d, NEW sized PROVE F!Start(s, d, sized) <=> Q!Start(s, d, sized)
    BY <1>2 DEF F!Start, Q!Start, F!Is, Q!Is, F!MayFit, Q!MayFit, F!Idle, Q!Idle, F!NoPurge,
                Q!NoPurge, F!NoDelivery, Q!NoDelivery, F!Fits, Q!Fits, F!Owner, Q!Owner, F!Owned,
                Q!Owned
  <1>4. ASSUME NEW s PROVE F!Stat(s) <=> Q!Stat(s)
    BY DEF F!Stat, Q!Stat, F!Is, Q!Is, F!LockFree, Q!LockFree, F!Inside, Q!Inside, F!SameProcess,
           Q!SameProcess, F!Owner, Q!Owner, F!Delivery, Q!Delivery, F!Content, Q!Content
  <1>5. ASSUME NEW s PROVE F!Measure(s) <=> Q!Measure(s)
    BY <1>2 DEF F!Measure, Q!Measure, F!Is, Q!Is, F!Goes, Q!Goes, F!Ends, Q!Ends, F!Idle, Q!Idle,
                F!NoDelivery, Q!NoDelivery, F!Delivery, Q!Delivery, F!Fits, Q!Fits, F!Owner,
                Q!Owner, F!Owned, Q!Owned
  <1>6. ASSUME NEW s PROVE F!Upload(s) <=> Q!Upload(s)
    BY DEF F!Upload, Q!Upload, F!Is, Q!Is, F!Goes, Q!Goes, F!Delivery, Q!Delivery, F!Content,
           Q!Content
  <1>7. ASSUME NEW s PROVE F!UploadFails(s) <=> Q!UploadFails(s)
    BY DEF F!UploadFails, Q!UploadFails, F!UploadGivenUp, Q!UploadGivenUp, F!Err, Q!Err, F!Is, Q!Is,
           F!Ends, Q!Ends, F!Idle, Q!Idle, F!NoDelivery, Q!NoDelivery, F!Delivery, Q!Delivery,
           F!Content, Q!Content
  <1>8. ASSUME NEW s PROVE F!Look(s) <=> Q!Look(s)
    BY <1>2 DEF F!Look, Q!Look, F!Is, Q!Is, F!Goes, Q!Goes, F!Ends, Q!Ends, F!Idle, Q!Idle,
                F!NoDelivery, Q!NoDelivery, F!Delivery, Q!Delivery, F!Content, Q!Content, F!Fits,
                Q!Fits, F!Owner, Q!Owner, F!Owned, Q!Owned
  <1>9. ASSUME NEW s PROVE F!Commit(s) <=> Q!Commit(s)
    BY DEF F!Commit, Q!Commit, F!Is, Q!Is, F!Indexed, Q!Indexed, F!Ends, Q!Ends, F!Idle, Q!Idle,
           F!NoDelivery, Q!NoDelivery, F!Delivery, Q!Delivery, F!Content, Q!Content
  <1>10. ASSUME NEW s PROVE F!CommitFails(s) <=> Q!CommitFails(s)
    BY DEF F!CommitFails, Q!CommitFails, F!Is, Q!Is, F!Err, Q!Err, F!Indexed, Q!Indexed, F!Ends,
           Q!Ends, F!Idle, Q!Idle, F!NoDelivery, Q!NoDelivery, F!Delivery, Q!Delivery, F!Content,
           Q!Content
  <1>11. ASSUME NEW s PROVE F!Crash(s) <=> Q!Crash(s)
    BY DEF F!Crash, Q!Crash, F!Inside, Q!Inside, F!Err, Q!Err, F!SameProcess, Q!SameProcess,
           F!Owner, Q!Owner, F!Delivery, Q!Delivery, F!Idle, Q!Idle, F!NoDelivery, Q!NoDelivery
  <1>12. ASSUME NEW d PROVE F!Delete(d) <=> Q!Delete(d)
    BY DEF F!Delete, Q!Delete
  <1>13. ASSUME NEW d PROVE F!PurgeBytes(d) <=> Q!PurgeBytes(d)
    BY DEF F!PurgeBytes, Q!PurgeBytes, F!Content, Q!Content
  <1>14. F!PurgeStart <=> Q!PurgeStart
    BY DEF F!PurgeStart, Q!PurgeStart, F!Is, Q!Is, F!Delivery, Q!Delivery, F!Owner, Q!Owner,
           F!NoPurge, Q!NoPurge, F!NoDelivery, Q!NoDelivery, F!Rows, Q!Rows, F!Depends, Q!Depends,
           F!Content, Q!Content
  <1>15. F!PurgeRows <=> Q!PurgeRows
    BY DEF F!PurgeRows, Q!PurgeRows, F!Content, Q!Content
  <1>16. F!PurgeIndex <=> Q!PurgeIndex
    BY DEF F!PurgeIndex, Q!PurgeIndex, F!Content, Q!Content, F!NoDelivery, Q!NoDelivery
  <1>17. F!PurgeEnds <=> Q!PurgeEnds
    BY DEF F!PurgeEnds, Q!PurgeEnds, F!NoPurge, Q!NoPurge, F!NoDelivery, Q!NoDelivery
  <1>18. F!PurgeFails <=> Q!PurgeFails
    BY DEF F!PurgeFails, Q!PurgeFails, F!Err, Q!Err, F!NoPurge, Q!NoPurge, F!NoDelivery,
           Q!NoDelivery
  <1>19. ASSUME NEW s \in Workers
        PROVE  (\/ \E d \in Files, sized \in BOOLEAN : F!Start(s, d, sized)
                \/ F!Stat(s) \/ F!Measure(s) \/ F!Upload(s) \/ F!UploadFails(s)
                \/ F!Look(s) \/ F!Commit(s) \/ F!CommitFails(s) \/ F!Crash(s))
               <=> (\/ \E d \in Files, sized \in BOOLEAN : Q!Start(s, d, sized)
                    \/ Q!Stat(s) \/ Q!Measure(s) \/ Q!Upload(s) \/ Q!UploadFails(s)
                    \/ Q!Look(s) \/ Q!Commit(s) \/ Q!CommitFails(s) \/ Q!Crash(s))
    BY <1>3, <1>4, <1>5, <1>6, <1>7, <1>8, <1>9, <1>10, <1>11
  <1>20. F!Next <=> Q!Next
    BY <1>12, <1>13, <1>14, <1>15, <1>16, <1>17, <1>18, <1>19 DEF F!Next, Q!Next
  <1>21. F!TypeOK <=> Q!TypeOK
    BY DEF F!TypeOK, Q!TypeOK, F!AllContents, Q!AllContents, F!Content, Q!Content, F!Phases, Q!Phases,
           F!NoDelivery, Q!NoDelivery, F!PurgePhases, Q!PurgePhases
  <1>22. F!Sensible <=> Q!Sensible
    BY DEF F!Sensible, Q!Sensible, F!IsFiniteSet, Q!IsFiniteSet
  <1> QED BY <1>1, <1>20, <1>21, <1>22

LEMMA SameIdeaTypes == P!TypeOK <=> I!TypeOK
  BY DEF P!TypeOK, I!TypeOK, P!Ledger!Idea, I!Ledger!Idea,
         P!Confirmation, I!Confirmation, P!Request, I!Request

\* Whichever part a behaviour is about, and however many employees' requests, ids, files and
\* commands there are: what the turn, the documents, the confirmations, the ledger of activities, the
\* draft, the index of files and the report hold has its types.
THEOREM RecordsTypes ==
    ASSUME ConstantsSensible
    PROVE  AllSpec => []RecordsTypeOK
  <1> USE DEF ConstantsSensible
  <1> DEFINE IInv == /\ Inv
                     /\ about = "documents" => DocInv
                     /\ about = "ideas" => P!Inv
                     /\ about = "activities" => ActInv
                     /\ about = "draft" => DraftInv
                     /\ about = "files" => Q!Inv
                     /\ about = "reports" => TypedReport
  <1>1. AllInit => IInv
    <2>1. ASSUME I!Init PROVE P!Inv
      BY <2>1, P!InitInv, SameIdeas DEF I!Sensible, P!Sensible
    <2>2. ASSUME F!Init PROVE Q!Inv
      BY <2>2, Q!InitInv, SameFiles
    <2> QED BY <2>1, <2>2, InitInv, DocInit, ActInit, DraftInit, TypedReportInit DEF AllInit
  <1>2. IInv /\ [AllNext]_all => IInv'
    <2> SUFFICES ASSUME IInv, [AllNext]_all PROVE IInv'
      OBVIOUS
    <2>1. about' = "documents" => DocInv'
      BY OnePartMoves, DocStep
    <2>2. about' = "ideas" => P!Inv'
      <3>1. about' = about /\ (about = "ideas" => [P!Next]_(P!vars))
        BY OnePartMoves, SameIdeas DEF ideaVars, P!vars
      <3> QED BY <3>1, P!NextInv DEF I!Sensible, P!Sensible
    <2>3. about' = "activities" => ActInv'
      BY OnePartMoves, ActStep
    <2>4. about' = "draft" => DraftInv'
      BY OnePartMoves, DraftStep
    <2>5. about' = "files" => Q!Inv'
      <3>1. about' = about /\ (about = "files" => [Q!Next]_(Q!artifactVars))
        BY OnePartMoves, SameFiles DEF fileVars, Q!artifactVars
      <3> QED BY <3>1, Q!NextInv, SameFiles
    <2>6. about' = "reports" => TypedReport'
      <3> SUFFICES ASSUME about' = "reports" PROVE TypedReport'
        OBVIOUS
      <3>1. TypedReport /\ [R!Next]_reportVars
        BY OnePartMoves
      <3> QED BY <3>1, ReportStep, ReportTypesStay, OneStaysLatest DEF TypedReport
    <2>7. Inv'
      BY TurnMoves, StepInv
    <2> QED BY <2>7, <2>1, <2>2, <2>3, <2>4, <2>5, <2>6
  <1>3. IInv => RecordsTypeOK
    BY SameIdeaTypes, SameFiles
       DEF RecordsTypeOK, Inv, DocInv, P!Inv, ActInv, DraftInv, Q!Inv, TypedReport
  <1> QED BY <1>1, <1>2, <1>3, PTL DEF AllSpec

-----------------------------------------------------------------------------
(* The files                                                               *)

LEMMA SameSoundness == F!ArtifactsAreSound <=> Q!ArtifactsAreSound
  <1>2. ASSUME NEW cs PROVE F!BytesOf(cs) = Q!BytesOf(cs)
    BY DEF F!BytesOf, Q!BytesOf, F!MapThenSumSet, Q!MapThenSumSet, F!MapThenFoldSet, Q!MapThenFoldSet
  <1>3. ASSUME NEW o, NEW cs PROVE F!Owned(o, cs) = Q!Owned(o, cs)
    BY DEF F!Owned, Q!Owned
  <1>4. F!Max({SizeOf(d.body) : d \in Files}) = Q!Max({SizeOf(d.body) : d \in Files})
    BY DEF F!Max, Q!Max
  <1>5. F!WithinQuotas <=> Q!WithinQuotas
    BY <1>2, <1>3, <1>4 DEF F!WithinQuotas, Q!WithinQuotas
  <1>6. F!FilesCanBeRead <=> Q!FilesCanBeRead
    BY DEF F!FilesCanBeRead, Q!FilesCanBeRead
  <1>7. F!PurgedIsGone <=> Q!PurgedIsGone
    BY DEF F!PurgedIsGone, Q!PurgedIsGone, F!Rows, Q!Rows, F!Owner, Q!Owner, F!Content, Q!Content
  <1> QED BY <1>5, <1>6, <1>7 DEF F!ArtifactsAreSound, Q!ArtifactsAreSound

\* Whoever saves, deletes and purges at the same time, and whatever fails or dies: an indexed file
\* is in the bucket, no owner has more than the quota, all together exceed theirs by one body at
\* most, and a purge that reports success has left nothing of the person.
THEOREM FilesAreSound ==
    ASSUME ConstantsSensible
    PROVE  AllSpec => []ArtifactsAreSound
  <1> DEFINE IInv == about = "files" => Q!QuotaInv
  <1>0. Q!Sensible
    BY SameFiles DEF ConstantsSensible
  <1>1. AllInit => IInv
    BY <1>0, Q!InitRoom, SameFiles DEF AllInit
  <1>2. IInv /\ [AllNext]_all => IInv'
    <2> SUFFICES ASSUME IInv, [AllNext]_all, about' = "files" PROVE Q!QuotaInv'
      OBVIOUS
    <2>1. about = "files" /\ [Q!Next]_(Q!artifactVars)
      BY OnePartMoves, SameFiles DEF fileVars, Q!artifactVars
    <2> QED BY <1>0, <2>1, Q!NextRoom
  <1>3. IInv => ArtifactsAreSound
    <2> SUFFICES ASSUME IInv, about = "files" PROVE F!ArtifactsAreSound
      BY DEF ArtifactsAreSound
    <2>1. Q!WithinQuotas
      BY <1>0, Q!RoomSuffices
    <2>2. Q!FilesCanBeRead /\ Q!PurgedIsGone
      BY Q!InvSuffices DEF Q!QuotaInv
    <2> QED BY <2>1, <2>2, SameSoundness DEF Q!ArtifactsAreSound
  <1> QED BY <1>1, <1>2, <1>3, PTL DEF AllSpec

=============================================================================
