--------------------------- MODULE ContextDocuments ---------------------------
(***************************************************************************)
(* The long-lived documents of one owner and the confirmations of changes  *)
(* to them.  Documents are objects of a versioned bucket, each at a        *)
(* canonical key and perhaps at a legacy one that is read when there is no *)
(* canonical object; nothing locks them.  A decision is a transaction that *)
(* locks its confirmation and changes the objects, call by call, before it *)
(* commits: when it fails on the way the objects stay as they are and the  *)
(* confirmation is pending again.                                          *)
(*                                                                         *)
(* The two reads of a logical document, canonical and then legacy, are one *)
(* step: legacy objects never appear, so what they find was there at one   *)
(* moment.  A failed request has no call left that takes effect later.     *)
(***************************************************************************)
EXTENDS Naturals, Sequences, FiniteSets

CONSTANTS
    Paths,         \* logical documents
    Contents,      \* texts of documents
    Changes,       \* opaque confirmation ids
    Workers,       \* requests served at one time
    MaxVersions    \* bound: versions the bucket ever gets

VARIABLES
    bucket,      \* the current version of each key, 0 for none or a delete marker
    history,     \* every version written, in the order of their ids
    changes,     \* minutka_private.context_document_confirmations, as committed
    workers      \* requests being served

docVars == <<bucket, history, changes, workers>>

-----------------------------------------------------------------------------

Nothing == CHOOSE c \in Changes : TRUE
Keys == {"canonical", "legacy"}
Version == [path : Paths, key : Keys, content : Contents, by : Changes \cup {"owner"}]

Operations == {"update", "move", "delete"}
Outcomes == {"none", "updated", "moved", "deleted", "not_found", "conflict", "destination_conflict"}

Change == [state : {"none", "pending", "confirmed", "rejected", "purged"},
    kind : Operations, path : Paths, to : Paths, content : Contents,
    expected : Nat, outcome : Outcomes]
NoChange == [state |-> "none", kind |-> "delete", path |-> CHOOSE p \in Paths : TRUE,
    to |-> CHOOSE p \in Paths : TRUE, content |-> CHOOSE x \in Contents : TRUE,
    expected |-> 0, outcome |-> "none"]

\* The phases in which a request works inside its transaction.
EffectPhases == {"locked", "again", "checking", "writing", "removing", "recording"}
Worker == [phase : {"idle", "creating"} \cup EffectPhases, id : Changes, path : Paths,
           content : Contents, left : SUBSET Keys, outcome : Outcomes]
Idle == [phase |-> "idle", id |-> Nothing, path |-> CHOOSE p \in Paths : TRUE,
         content |-> CHOOSE x \in Contents : TRUE, left |-> {}, outcome |-> "none"]

\* readLogical, head, get
Current(p) == IF bucket[p]["canonical"] > 0 THEN bucket[p]["canonical"] ELSE bucket[p]["legacy"]
Holds(p, content) == Current(p) > 0 /\ history[Current(p)].content = content

Goes(w, worker) == workers' = [workers EXCEPT ![w] = worker]
Ends(w) == Goes(w, Idle)
Decides(w, outcome) == Goes(w, [workers[w] EXCEPT !.phase = "recording", !.outcome = outcome])

\* writeCanonical: an unconditional PUT
Write(p, content, by) ==
    /\ Len(history) < MaxVersions
    /\ history' = Append(history,
           [path |-> p, key |-> "canonical", content |-> content, by |-> by])
    /\ bucket' = [bucket EXCEPT ![p]["canonical"] = Len(history) + 1]

\* One document, stored under either key or both.
Init ==
    /\ \E keys \in {<<"canonical">>, <<"legacy">>, <<"legacy", "canonical">>} :
           LET p == NoChange.path IN
           /\ history = [v \in DOMAIN keys |->
                  [path |-> p, key |-> keys[v], content |-> NoChange.content, by |-> "owner"]]
           /\ bucket = [q \in Paths |-> [k \in Keys |->
                  IF q = p /\ \E v \in DOMAIN keys : keys[v] = k
                  THEN CHOOSE v \in DOMAIN keys : keys[v] = k ELSE 0]]
    /\ changes = [c \in Changes |-> NoChange]
    /\ workers = [w \in Workers |-> Idle]

-----------------------------------------------------------------------------
(* Writes without a confirmation                                           *)

\* createNote: head, and the reads of putIfAbsent, find nothing.
CreateNote(w, p, x) ==
    /\ workers[w].phase = "idle" /\ Current(p) = 0
    /\ Goes(w, [Idle EXCEPT !.phase = "creating", !.path = p, !.content = x])
    /\ UNCHANGED <<bucket, history, changes>>

\* Fault: the PUT lost its If-None-Match.
VacantUnchecked(p) == TRUE

\* If-None-Match: *
Vacant(p) == bucket[p]["canonical"] = 0

\* The PUT, or the document it met is answered.
PutNote(w) ==
    /\ workers[w].phase = "creating"
    /\ IF Vacant(workers[w].path)
       THEN Write(workers[w].path, workers[w].content, "owner")
       ELSE UNCHANGED <<bucket, history>>
    /\ Ends(w)
    /\ UNCHANGED changes

\* A version never changes, so its read may be any time before the PUT.
RestoreVersion(p, v) ==
    /\ history[v].path = p
    /\ Write(p, history[v].content, "owner")
    /\ UNCHANGED <<changes, workers>>

-----------------------------------------------------------------------------
(* Proposals and decisions                                                 *)

Propose(c, kind, p, q, x) ==
    /\ changes[c].state = "none" /\ Current(p) > 0
    /\ kind = "move" => q # p /\ Current(q) = 0
    /\ kind # "move" => q = p
    /\ kind # "update" => x = NoChange.content
    /\ changes' = [changes EXCEPT ![c] = [NoChange EXCEPT !.state = "pending", !.kind = kind,
           !.path = p, !.to = q, !.content = x, !.expected = Current(p)]]
    /\ UNCHANGED <<bucket, history, workers>>

\* Fault: the SELECT lost its FOR UPDATE.
NeverLocked(c) == FALSE

RowLocked(c) == \E w \in Workers : workers[w].phase \in EffectPhases /\ workers[w].id = c

\* Undecided and in time.  A request is judged by the instant it came, however long it
\* waited for the row, so that any pending row may be in time; a request that is not changes
\* nothing.
Decidable(c) == changes[c].state = "pending" /\ ~RowLocked(c)

Stored(c, state, outcome) ==
    changes' = [changes EXCEPT ![c] = [@ EXCEPT !.state = state, !.outcome = outcome]]

Reject(c) ==
    /\ Decidable(c)
    /\ Stored(c, "rejected", "none")
    /\ UNCHANGED <<bucket, history, workers>>

Confirm(w, c) ==
    /\ workers[w].phase = "idle" /\ Decidable(c)
    /\ Goes(w, [Idle EXCEPT !.phase = "locked", !.id = c])
    /\ UNCHANGED <<bucket, history, changes>>

-----------------------------------------------------------------------------
(* The effect, inside the transaction                                      *)

Proposal(w) == changes[workers[w].id]

\* Fault: the version read is not compared.
IsAsAnyone(w) == Current(Proposal(w).path) > 0

IsAsExpected(w) == Current(Proposal(w).path) = Proposal(w).expected

\* What a request does first when it found the version expected.
Begun(w) ==
    LET kind == Proposal(w).kind IN
    [workers[w] EXCEPT
        !.phase = CASE kind = "update" -> "writing"
                    [] kind = "move" -> "checking"
                    [] kind = "delete" -> "removing",
        !.left = IF kind = "update" THEN {} ELSE Keys,
        !.content = IF kind = "move" THEN history[Current(Proposal(w).path)].content
                                     ELSE Proposal(w).content]

\* putIfVersion, moveIfVersion and deleteIfVersion read the document and compare.
ReadSource(w) ==
    /\ workers[w].phase = "locked"
    /\ LET p == Proposal(w).path  kind == Proposal(w).kind IN
       \/ /\ Current(p) = 0 /\ kind # "move"
          /\ Decides(w, IF kind = "update" THEN "not_found" ELSE "deleted")
       \/ /\ Current(p) > 0 /\ ~IsAsExpected(w) /\ kind # "update"
          /\ Decides(w, "conflict")
       \/ /\ IF Current(p) = 0 THEN kind = "move" ELSE ~IsAsExpected(w) /\ kind = "update"
          /\ Goes(w, [workers[w] EXCEPT !.phase = "again"])
       \/ /\ Current(p) > 0 /\ IsAsExpected(w)
          /\ Goes(w, Begun(w))
    /\ UNCHANGED <<bucket, history, changes>>

\* execute: what is there now may be what an earlier attempt left.
ReadAgain(w) ==
    /\ workers[w].phase = "again"
    /\ Decides(w, CASE Proposal(w).kind = "update" ->
                           IF Holds(Proposal(w).path, Proposal(w).content)
                           THEN "updated" ELSE "conflict"
                    [] Proposal(w).kind = "move" ->
                           IF Current(Proposal(w).to) > 0 THEN "moved" ELSE "not_found")
    /\ UNCHANGED <<bucket, history, changes>>

\* Fault: the destination is not read before the PUT.
OccupiedUnchecked(w) == FALSE

Occupied(w) == Current(Proposal(w).to) > 0

ReadDestination(w) ==
    /\ workers[w].phase = "checking"
    /\ IF Occupied(w) THEN Decides(w, "destination_conflict")
       ELSE Goes(w, [workers[w] EXCEPT !.phase = "writing"])
    /\ UNCHANGED <<bucket, history, changes>>

Put(w) ==
    /\ workers[w].phase = "writing"
    /\ Write(Proposal(w).to, workers[w].content, workers[w].id)
    /\ IF Proposal(w).kind = "update" THEN Decides(w, "updated")
       ELSE Goes(w, [workers[w] EXCEPT !.phase = "removing"])
    /\ UNCHANGED changes

\* Promise.all of two removals: either may be done first.
Remove(w, key) ==
    /\ workers[w].phase = "removing" /\ key \in workers[w].left
    /\ bucket' = [bucket EXCEPT ![Proposal(w).path][key] = 0]
    /\ IF workers[w].left = {key}
       THEN Decides(w, IF Proposal(w).kind = "move" THEN "moved" ELSE "deleted")
       ELSE Goes(w, [workers[w] EXCEPT !.left = @ \ {key}])
    /\ UNCHANGED <<history, changes>>

Commit(w) ==
    /\ workers[w].phase = "recording"
    /\ Stored(workers[w].id, "confirmed", workers[w].outcome)
    /\ Ends(w)
    /\ UNCHANGED <<bucket, history>>

-----------------------------------------------------------------------------
(* Errors and retention                                                    *)

\* A call, the connection, COMMIT or the process fails: ROLLBACK of the row, not of the bucket.
Fail(w) ==
    /\ workers[w].phase # "idle"
    /\ Ends(w)
    /\ UNCHANGED <<bucket, history, changes>>

\* A row goes when it expired or its replay ended.
Purge(c) ==
    /\ ~RowLocked(c)
    /\ changes[c].state \in {"pending", "confirmed", "rejected"}
    /\ changes' = [changes EXCEPT ![c] = [NoChange EXCEPT !.state = "purged"]]
    /\ UNCHANGED <<bucket, history, workers>>

Next ==
    \/ \E w \in Workers, p \in Paths, x \in Contents : CreateNote(w, p, x)
    \/ \E p \in Paths : \E v \in 1..Len(history) : RestoreVersion(p, v)
    \/ \E c \in Changes, kind \in Operations, p, q \in Paths, x \in Contents :
           Propose(c, kind, p, q, x)
    \/ \E c \in Changes : Reject(c) \/ Purge(c) \/ \E w \in Workers : Confirm(w, c)
    \/ \E w \in Workers : PutNote(w) \/ ReadSource(w) \/ ReadAgain(w) \/ ReadDestination(w)
           \/ Put(w) \/ Commit(w) \/ Fail(w)
    \/ \E w \in Workers, key \in Keys : Remove(w, key)

Spec == Init /\ [][Next]_docVars

-----------------------------------------------------------------------------
(* Properties                                                              *)

TypeOK ==
    /\ history \in Seq(Version) /\ Len(history) <= MaxVersions
    /\ bucket \in [Paths -> [Keys -> 0..Len(history)]]
    /\ changes \in [Changes -> Change]
    /\ workers \in [Workers -> Worker]

\* One request at a time carries out a change, only while the change is undecided, and no
\* later decision finds anything left of it.
OneAtATime == \A w \in Workers : workers[w].phase \in EffectPhases =>
    /\ changes[workers[w].id].state = "pending"
    /\ \A u \in Workers \ {w} : workers[u].phase \in EffectPhases => workers[u].id # workers[w].id

WrittenBy(c) == {v \in 1..Len(history) : history[v].by = c}

\* However often an update is confirmed, fails after its PUT and is confirmed again, it writes
\* one version, if the version it was proposed for was the canonical one: what it wrote no
\* longer has the version expected.
WritesOnce == \A c \in {d \in Changes : changes[d].kind = "update" /\ changes[d].expected > 0} :
    history[changes[c].expected].key = "canonical" => Cardinality(WrittenBy(c)) <= 1

\* However often a decision is retried or doubled, one request at a time carries it out, and an
\* update of a canonical version writes one.
ChangesOnce == OneAtATime /\ WritesOnce

\* An update or a move that is confirmed again never writes over what an earlier attempt of it
\* left: moveIfVersion and putIfVersion find it and stop.
NeverOverItsOwn == history' # history =>
    LET new == history'[Len(history')]
        old == bucket[new.path]["canonical"]
    IN  new.by \in Changes /\ old > 0 => history[old].by # new.by

\* A note that is created never takes the place of a document, whoever writes it meanwhile.
CreatesOnlyNew ==
    \A w \in Workers : workers[w].phase = "creating" /\ history' # history /\ workers'[w] = Idle
        => Current(workers[w].path) = 0

\* SPEC-PERSONAL-ASSISTANT-CONTEXT-DOCUMENT-MUTATIONS-001 (line 271): a document "moves without
\* two canonical copies", and (line 213) a move confirmed again after an uncertain write comes
\* to a stable outcome.  So a decided move does not leave its copy beside the version it was
\* to move.
MoveLeavesOneCopy == \A c \in Changes :
    changes[c].kind = "move" /\ changes[c].state = "confirmed" =>
        ~ /\ bucket[changes[c].path]["canonical"] = changes[c].expected
          /\ bucket[changes[c].to]["canonical"] \in WrittenBy(c)

=============================================================================
