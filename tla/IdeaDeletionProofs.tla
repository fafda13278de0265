-------------------------- MODULE IdeaDeletionProofs --------------------------
(***************************************************************************)
(* Deleting ideas implements the ledger of ideas, for every set of ideas,  *)
(* proposals and requests and every choice of the times.                   *)
(***************************************************************************)
EXTENDS IdeaDeletion, Integers, TLAPS

-----------------------------------------------------------------------------
(* The inductive invariant                                                 *)

\* Requests that hold the row lock of their confirmation.
Holding(r) == requests[r].phase \in {"locked", "missed", "decided"}
Deletes(r) == requests[r].phase = "decided" /\ requests[r].outcome = "deleted"
Misses(r) == requests[r].phase = "missed" \/ (requests[r].phase = "decided" /\ ~Deletes(r))

\* A proposal names a revision the idea had while it was live: revisions only grow, so the
\* idea never comes back to it once it has gone on.
NamesThePast(c) ==
    /\ confirmations[c].state # "none" => confirmations[c].created <= now
    /\ confirmations[c].state = "pending" =>
         LET idea == ideas[confirmations[c].idea] IN
         /\ confirmations[c].expected <= idea.revision
         /\ confirmations[c].expected = idea.revision => idea.state = "live"

\* A request decides about the idea its confirmation is about, by an instant that has passed.
\* While it holds the row what it saw of the idea is true until it commits: an idea it found
\* changed stays so, and an idea it is deleting is held.
IsRight(r) ==
    /\ requests[r].phase # "idle" =>
         /\ requests[r].at <= now
         /\ requests[r].phase = "found" => requests[r].op = "undo"
         /\ requests[r].op # "undo" =>
              /\ confirmations[requests[r].id].state # "none"
              /\ requests[r].idea = confirmations[requests[r].id].idea
              /\ confirmations[requests[r].id].created <= requests[r].at
    /\ Holding(r) =>
         /\ requests[r].op = "confirm" /\ Decidable(r)
         /\ requests[r].phase = "decided" => requests[r].outcome # "none"
         /\ Misses(r) => ~Matches(r)
         /\ Deletes(r) => Matches(r) /\ ideas[requests[r].idea].revision < MaxRevision

\* Nobody else decides about the row a request holds, or deletes the idea it deletes.
Apart(r, s) ==
    /\ Holding(r) /\ Holding(s) => requests[r].id # requests[s].id
    /\ Deletes(r) /\ Deletes(s) => requests[r].idea # requests[s].idea

Inv ==
    /\ TypeOK
    /\ \A i \in Ideas : ideas[i].state = "absent" => ideas[i].revision = 0
    /\ \A c \in Proposals : NamesThePast(c)
    /\ \A r \in Requests : IsRight(r)
    /\ \A r, s \in Requests : r # s => Apart(r, s)

-----------------------------------------------------------------------------
(* Lemmas about the operators                                              *)

LEMMA ConstantRows ==
    ASSUME Sensible
    PROVE  /\ Ledger!NoIdea \in Ledger!Idea
           /\ Idle \in Request
           /\ (CHOOSE i \in Ideas : TRUE) \in Ideas
  <1>1. (CHOOSE i \in Ideas : TRUE) \in Ideas /\ (CHOOSE c \in Proposals : TRUE) \in Proposals
    BY DEF Sensible
  <1>2. Idle \in Request
    BY <1>1 DEF Idle, Request
  <1>3. Ledger!NoIdea \in Ledger!Idea
    BY DEF Sensible, Ledger!NoIdea, Ledger!Idea
  <1> QED BY <1>1, <1>2, <1>3

\* What storing a decision does to the rows.
LEMMA StoredRow ==
    ASSUME TypeOK, NEW r \in Requests, NEW state \in {"confirmed", "rejected"},
           NEW outcome \in {"none", "deleted", "conflict", "already_deleted", "not_found"},
           Stored(r, state, outcome)
    PROVE  LET id == requests[r].id
               row == Ledger!Decision(confirmations[id], state, requests[r].at, outcome) IN
           /\ id \in Proposals /\ requests[r].at \in Nat /\ confirmations[id] \in Confirmation
           /\ confirmations' \in [Proposals -> Confirmation]
           /\ confirmations'[id] = row
           /\ \A c \in Proposals \ {id} : confirmations'[c] = confirmations[c]
  <1> DEFINE id == requests[r].id
             row == Ledger!Decision(confirmations[id], state, requests[r].at, outcome)
  <1>1. id \in Proposals /\ requests[r].at \in Nat /\ confirmations[id] \in Confirmation
    BY DEF TypeOK, Request
  <1>2. row \in Confirmation
    BY <1>1 DEF Confirmation, Ledger!Decision
  <1>3. confirmations' = [confirmations EXCEPT ![id] = row]
    BY DEF Stored
  <1> HIDE DEF row
  <1>4. confirmations' \in [Proposals -> Confirmation] /\ confirmations'[id] = row
        /\ \A c \in Proposals \ {id} : confirmations'[c] = confirmations[c]
    BY <1>1, <1>2, <1>3 DEF TypeOK
  <1> QED BY <1>1, <1>4 DEF row

\* A record of the ledger is its row, but for the outcome.
LEMMA RecordOfRow ==
    ASSUME NEW c \in Proposals, confirmations[c] \in Confirmation
    PROVE  /\ Records[c].state = confirmations[c].state
           /\ Records[c].idea = confirmations[c].idea
           /\ Records[c].expected = confirmations[c].expected
           /\ Records[c].created = confirmations[c].created
           /\ Records[c].completed = confirmations[c].completed
           /\ Records[c].outcome = Promised(confirmations[c].outcome)
  BY DEF Records, Confirmation

\* What storing a decision does to the records of the ledger.
LEMMA StoredRecord ==
    ASSUME TypeOK, NEW r \in Requests, NEW state \in {"confirmed", "rejected"},
           NEW outcome \in {"none", "deleted", "conflict", "already_deleted", "not_found"},
           Stored(r, state, outcome)
    PROVE  Ledger!Decided(requests[r].id, state, requests[r].at, Promised(outcome))
  <1> DEFINE id == requests[r].id
             record == Ledger!Decision(Records[id], state, requests[r].at, Promised(outcome))
  <1>1. /\ id \in Proposals /\ confirmations[id] \in Confirmation
        /\ confirmations'[id] = Ledger!Decision(confirmations[id], state, requests[r].at, outcome)
        /\ \A c \in Proposals \ {id} : confirmations'[c] = confirmations[c]
    BY StoredRow
  <1>2. Records'[id] = record
    BY <1>1 DEF Ledger!Decision, Records, Confirmation
  <1>3. \A c \in Proposals \ {id} : Records'[c] = Records[c]
    BY <1>1 DEF Records
  <1>4. Records' = [Records EXCEPT ![id] = record]
    <2> HIDE DEF record
    <2> QED BY <1>1, <1>2, <1>3 DEF Records
  <1> QED BY <1>4 DEF Ledger!Decided

-----------------------------------------------------------------------------
(* What every step keeps of the rows it does not write.                    *)

Newer(i) ==
    \/ ideas'[i] = ideas[i]
    \/ ideas'[i].revision > ideas[i].revision /\ ideas'[i].state # "absent"

Kept(c) == confirmations[c].state # "none" =>
    /\ confirmations'[c].state # "none"
    /\ confirmations'[c].idea = confirmations[c].idea
    /\ confirmations'[c].expected = confirmations[c].expected
    /\ confirmations'[c].created = confirmations[c].created

\* A request that does not move stays right, whatever the others commit.
LEMMA StaysRight ==
    ASSUME Inv, TypeOK', now' >= now,
           \A i \in Ideas : Newer(i), \A c \in Proposals : Kept(c),
           NEW r \in Requests, requests'[r] = requests[r],
           Holding(r) => confirmations'[requests[r].id].state = "pending",
           Deletes(r) => ideas'[requests[r].idea] = ideas[requests[r].idea]
    PROVE  IsRight(r)'
  <1> DEFINE id == requests[r].id
             i == requests[r].idea
  <1>1. /\ requests[r] \in Request /\ i \in Ideas /\ id \in Proposals
        /\ ideas[i] \in Ledger!Idea /\ ideas'[i] \in Ledger!Idea
        /\ confirmations[id] \in Confirmation /\ confirmations'[id] \in Confirmation
        /\ now \in Nat /\ now' \in Nat
    BY DEF Inv, TypeOK, Request
  <1>2. IsRight(r) /\ NamesThePast(id) /\ Newer(i) /\ Kept(id)
    BY <1>1 DEF Inv
  <1>3. ASSUME requests[r].phase # "idle"
        PROVE  /\ requests[r].at <= now'
               /\ requests[r].phase = "found" => requests[r].op = "undo"
               /\ requests[r].op # "undo" =>
                    /\ confirmations'[id].state # "none"
                    /\ i = confirmations'[id].idea
                    /\ confirmations'[id].created <= requests[r].at
    BY <1>1, <1>2, <1>3 DEF IsRight, Kept, Request
  <1>4. ASSUME Holding(r)
        PROVE  /\ requests[r].op = "confirm" /\ Decidable(r)'
               /\ requests[r].phase = "decided" => requests[r].outcome # "none"
               /\ Misses(r) => ~Matches(r)'
               /\ Deletes(r) => Matches(r)' /\ ideas'[i].revision < MaxRevision
    <2>1. /\ requests[r].op = "confirm" /\ Decidable(r) /\ confirmations[id].state = "pending"
          /\ requests[r].phase = "decided" => requests[r].outcome # "none"
          /\ i = confirmations[id].idea
      BY <1>2, <1>4 DEF IsRight, Holding, Decidable
    <2>2. Decidable(r)'
      BY <1>2, <1>4, <2>1 DEF Decidable, Kept
    <2>3. ASSUME Misses(r) PROVE ~Matches(r)'
      <3>1. ~Matches(r)
        BY <1>2, <1>4, <2>3 DEF IsRight
      <3>2. confirmations[id].expected \in Nat /\ ideas[i].revision \in Int
            /\ ideas'[i].revision \in Int
        BY <1>1 DEF Confirmation, Ledger!Idea
      <3> QED BY <1>2, <2>1, <3>1, <3>2 DEF Matches, NamesThePast, Newer, Kept
    <2>4. ASSUME Deletes(r) PROVE Matches(r)' /\ ideas'[i].revision < MaxRevision
      BY <1>2, <1>4, <2>1, <2>4 DEF IsRight, Matches, Kept
    <2> QED BY <2>1, <2>2, <2>3, <2>4
  <1> QED BY <1>3, <1>4 DEF IsRight, Holding, Misses, Deletes

\* A request that has ended, or has not begun, promises nothing.
LEMMA IdleIsRight ==
    ASSUME NEW r \in Requests, requests'[r] = Idle
    PROVE  IsRight(r)' /\ ~Holding(r)' /\ ~Deletes(r)'
  BY DEF Idle, IsRight, Holding, Deletes

\* A row that is not proposed anew goes on naming the past.
LEMMA StaysPast ==
    ASSUME Inv, TypeOK', now' >= now, \A i \in Ideas : Newer(i),
           NEW c \in Proposals, Kept(c),
           confirmations[c].state = "none" => confirmations'[c].state = "none",
           confirmations'[c].state = "pending" => confirmations[c].state = "pending"
    PROVE  NamesThePast(c)'
  <1> DEFINE i == confirmations[c].idea
  <1>1. /\ confirmations[c] \in Confirmation /\ i \in Ideas
        /\ ideas[i] \in Ledger!Idea /\ ideas'[i] \in Ledger!Idea
        /\ now \in Nat /\ now' \in Nat
    BY DEF Inv, TypeOK, Confirmation
  <1>2. NamesThePast(c) /\ Newer(i)
    BY <1>1 DEF Inv
  <1>3. /\ confirmations[c].expected \in Nat /\ confirmations[c].created \in Nat
        /\ ideas[i].revision \in Int /\ ideas'[i].revision \in Int
    BY <1>1 DEF Confirmation, Ledger!Idea
  <1> QED BY <1>1, <1>2, <1>3 DEF NamesThePast, Newer, Kept

\* A step that changes no idea and no row but ends requests, or lets the clock go on.
LEMMA QuietStep ==
    ASSUME Inv, now' \in now..MaxTime, UNCHANGED <<ideas, confirmations>>,
           requests' \in [Requests -> Request],
           \A r \in Requests : requests'[r] \in {requests[r], Idle}
    PROVE  Inv'
  <1>1. TypeOK' /\ now' >= now
    BY DEF Inv, TypeOK
  <1>2. (\A i \in Ideas : Newer(i)) /\ (\A c \in Proposals : Kept(c))
    BY DEF Newer, Kept
  <1>3. \A r \in Requests : IsRight(r)'
    <2> TAKE r \in Requests
    <2>1. CASE requests'[r] = Idle
      BY <2>1, IdleIsRight
    <2>2. CASE requests'[r] = requests[r]
      <3>1. Holding(r) => confirmations'[requests[r].id].state = "pending"
        BY DEF Inv, IsRight, Decidable
      <3> QED BY <1>1, <1>2, <2>2, <3>1, StaysRight
    <2> QED BY <2>1, <2>2
  <1>4. \A c \in Proposals : NamesThePast(c)'
    BY <1>1, <1>2, StaysPast
  <1>5. \A r, s \in Requests : r # s => Apart(r, s)'
    BY DEF Inv, Apart, Holding, Deletes, Idle
  <1> QED BY <1>1, <1>3, <1>4, <1>5 DEF Inv

\* A step that changes an idea nobody is deleting, and may end requests.
LEMMA IdeaStep ==
    ASSUME Inv, NEW i \in Ideas, NEW idea \in Ledger!Idea, ~Held(i),
           idea.revision > ideas[i].revision, idea.state # "absent",
           ideas' = [ideas EXCEPT ![i] = idea], UNCHANGED <<now, confirmations>>,
           requests' \in [Requests -> Request],
           \A r \in Requests : requests'[r] \in {requests[r], Idle}
    PROVE  Inv'
  <1>1. TypeOK' /\ now' >= now
    BY DEF Inv, TypeOK
  <1>2. (\A j \in Ideas : Newer(j)) /\ (\A c \in Proposals : Kept(c))
    BY DEF Newer, Kept, Inv, TypeOK
  <1>3. \A r \in Requests : IsRight(r)'
    <2> TAKE r \in Requests
    <2>1. CASE requests'[r] = Idle
      BY <2>1, IdleIsRight
    <2>2. CASE requests'[r] = requests[r]
      <3>1. Holding(r) => confirmations'[requests[r].id].state = "pending"
        BY DEF Inv, IsRight, Decidable
      <3>2. Deletes(r) => ideas'[requests[r].idea] = ideas[requests[r].idea]
        BY DEF Held, Deletes, Inv, TypeOK, Request
      <3> QED BY <1>1, <1>2, <2>2, <3>1, <3>2, StaysRight
    <2> QED BY <2>1, <2>2
  <1>4. \A c \in Proposals : NamesThePast(c)'
    BY <1>1, <1>2, StaysPast
  <1>5. \A r, s \in Requests : r # s => Apart(r, s)'
    BY DEF Inv, Apart, Holding, Deletes, Idle
  <1>6. \A j \in Ideas : ideas'[j].state = "absent" => ideas'[j].revision = 0
    BY DEF Inv, TypeOK
  <1> QED BY <1>1, <1>3, <1>4, <1>5, <1>6 DEF Inv

\* A step of one request that changes neither ideas nor rows.
LEMMA RequestStep ==
    ASSUME Inv, NEW r \in Requests, NEW request \in Request, Goes(r, request),
           UNCHANGED <<now, ideas, confirmations>>, IsRight(r)',
           \A s \in Requests \ {r} : Apart(r, s)' /\ Apart(s, r)'
    PROVE  Inv'
  <1>1. /\ requests' \in [Requests -> Request] /\ TypeOK' /\ now' >= now
        /\ \A s \in Requests \ {r} : requests'[s] = requests[s]
    BY DEF Inv, TypeOK, Goes
  <1>2. (\A i \in Ideas : Newer(i)) /\ (\A c \in Proposals : Kept(c))
    BY DEF Newer, Kept
  <1>3. ASSUME NEW s \in Requests \ {r} PROVE IsRight(s)'
    <2>1. Holding(s) => confirmations'[requests[s].id].state = "pending"
      BY DEF Inv, IsRight, Decidable
    <2> QED BY <1>1, <1>2, <2>1, StaysRight
  <1>4. \A c \in Proposals : NamesThePast(c)'
    BY <1>1, <1>2, StaysPast
  <1>5. \A s, u \in Requests \ {r} : s # u => Apart(s, u)'
    BY <1>1 DEF Inv, Apart, Holding, Deletes
  <1> QED BY <1>1, <1>3, <1>4, <1>5 DEF Inv

-----------------------------------------------------------------------------
(* Every step keeps the invariant                                          *)

LEMMA InitInv == ASSUME Sensible, Init PROVE Inv
  <1>1. TypeOK
    <2> DEFINE row == [state |-> "none", idea |-> CHOOSE i \in Ideas : TRUE, expected |-> 0,
                       created |-> 0, completed |-> 0, outcome |-> "none"]
    <2>1. row \in Confirmation
      BY ConstantRows DEF Confirmation
    <2>2. confirmations = [c \in Proposals |-> row]
      BY DEF Init
    <2> HIDE DEF row
    <2>3. now \in 0..MaxTime
      BY DEF Init, Sensible
    <2> QED BY <2>1, <2>2, <2>3, ConstantRows DEF Init, TypeOK
  <1>2. \A r \in Requests : requests[r].phase = "idle"
    BY DEF Init, Idle
  <1>3. \A c \in Proposals : confirmations[c].state = "none"
    BY DEF Init
  <1>4. \A i \in Ideas : ideas[i].revision = 0
    BY DEF Init, Ledger!NoIdea
  <1> QED BY <1>1, <1>2, <1>3, <1>4
          DEF Inv, NamesThePast, IsRight, Apart, Holding, Deletes

LEMMA AddInv ==
    ASSUME Sensible, Inv, NEW i \in Ideas, Add(i) PROVE Inv'
  <1> DEFINE idea == [state |-> "live", revision |-> 1, undoUntil |-> 0]
  <1>1. idea \in Ledger!Idea /\ idea.revision > ideas[i].revision /\ idea.state # "absent"
    BY DEF Add, Inv, Sensible, Ledger!Idea
  <1>2. ~Held(i)
    BY DEF Add, Inv, IsRight, Held, Deletes, Holding, Matches
  <1>3. ideas' = [ideas EXCEPT ![i] = idea]
    BY DEF Add
  <1> HIDE DEF idea
  <1> QED BY <1>1, <1>2, <1>3, IdeaStep DEF Add, Inv, TypeOK

\* The next revision of an idea.
LEMMA ChangedIdea ==
    ASSUME Sensible, NEW idea \in Ledger!Idea, idea.revision < MaxRevision,
           NEW state \in {"live", "deleted"}, NEW until \in Nat
    PROVE  LET next == [Ledger!Changed(idea) EXCEPT !.state = state, !.undoUntil = until] IN
           /\ next \in Ledger!Idea /\ next.revision > idea.revision /\ next.state = state
           /\ Ledger!Changed(idea) \in Ledger!Idea
           /\ Ledger!Changed(idea).revision > idea.revision
           /\ Ledger!Changed(idea).state = idea.state
  <1> DEFINE changed == Ledger!Changed(idea)
  <1>1. idea.revision \in Nat /\ idea.revision + 1 \in 0..MaxRevision
    BY DEF Ledger!Idea, Sensible
  <1>2. changed \in Ledger!Idea /\ changed.revision = idea.revision + 1
        /\ changed.state = idea.state
    BY <1>1 DEF Ledger!Idea, Ledger!Changed
  <1> HIDE DEF changed
  <1>3. LET next == [changed EXCEPT !.state = state, !.undoUntil = until] IN
        next \in Ledger!Idea /\ next.revision = changed.revision /\ next.state = state
    BY <1>2 DEF Ledger!Idea
  <1> QED BY <1>1, <1>2, <1>3 DEF changed

LEMMA AppendInv ==
    ASSUME Sensible, Inv, NEW i \in Ideas, Append(i) PROVE Inv'
  <1>1. ideas[i] \in Ledger!Idea /\ ideas[i].revision < MaxRevision
    BY DEF Append, Ledger!CanChange, Inv, TypeOK
  <1>2. Ledger!Changed(ideas[i]) \in Ledger!Idea
        /\ Ledger!Changed(ideas[i]).revision > ideas[i].revision
        /\ Ledger!Changed(ideas[i]).state # "absent"
    BY <1>1, ChangedIdea DEF Append, Ledger!CanChange
  <1> QED BY <1>2, IdeaStep DEF Append, Inv, TypeOK

LEMMA ProposeInv ==
    ASSUME Sensible, Inv, NEW c \in Proposals, NEW i \in Ideas, Propose(c, i) PROVE Inv'
  <1> DEFINE row == [state |-> "pending", idea |-> i, expected |-> ideas[i].revision,
                     created |-> now, completed |-> 0, outcome |-> "none"]
  <1>1. now \in Nat /\ ideas[i].revision \in Nat
    BY DEF Inv, TypeOK, Ledger!Idea
  <1>2. row \in Confirmation
    BY <1>1 DEF Confirmation
  <1>3. /\ row.state = "pending" /\ row.created = now
        /\ row.expected = ideas[i].revision /\ row.idea = i
    OBVIOUS
  <1>4. confirmations' = [confirmations EXCEPT ![c] = row] /\ UNCHANGED <<now, ideas, requests>>
        /\ confirmations[c].state = "none"
    BY DEF Propose
  <1> HIDE DEF row
  <1>5. /\ TypeOK' /\ confirmations'[c] = row
        /\ \A d \in Proposals \ {c} : confirmations'[d] = confirmations[d]
    BY <1>2, <1>4 DEF Inv, TypeOK
  <1>6. (\A j \in Ideas : Newer(j)) /\ (\A d \in Proposals : Kept(d))
    BY <1>4, <1>5 DEF Newer, Kept
  <1>7. ASSUME NEW d \in Proposals PROVE NamesThePast(d)'
    <2>1. CASE d = c
      BY <1>1, <1>3, <1>4, <1>5, <2>1 DEF NamesThePast, Propose
    <2>2. CASE d # c
      BY <1>1, <1>4, <1>5, <1>6, <2>2, StaysPast
    <2> QED BY <2>1, <2>2
  <1>8. ASSUME NEW r \in Requests PROVE IsRight(r)'
    <2>1. Holding(r) => confirmations'[requests[r].id].state = "pending"
      BY <1>4, <1>5 DEF Inv, TypeOK, Request, IsRight, Decidable
    <2> QED BY <1>1, <1>4, <1>5, <1>6, <2>1, StaysRight
  <1>9. \A r, s \in Requests : r # s => Apart(r, s)'
    BY <1>4 DEF Inv, Apart, Holding, Deletes
  <1> QED BY <1>4, <1>5, <1>7, <1>8, <1>9 DEF Inv

LEMMA CallInv ==
    ASSUME Sensible, Inv, NEW r \in Requests, NEW c \in Proposals,
           NEW op \in {"confirm", "reject"}, Call(r, op, c)
    PROVE  Inv'
  <1> DEFINE request == [Idle EXCEPT !.phase = "called", !.op = op, !.id = c,
                             !.idea = confirmations[c].idea, !.at = now]
  <1>1. now \in Nat /\ confirmations[c] \in Confirmation /\ confirmations[c].idea \in Ideas
    BY DEF Inv, TypeOK, Confirmation
  <1>2. request \in Request /\ request.phase = "called" /\ request.op = op /\ request.id = c
        /\ request.idea = confirmations[c].idea /\ request.at = now
    BY <1>1, ConstantRows DEF Request
  <1>3. Goes(r, request) /\ UNCHANGED <<now, ideas, confirmations>>
        /\ confirmations[c].state # "none"
    BY DEF Call
  <1> HIDE DEF request
  <1>4. requests'[r] = request
    BY <1>3 DEF Goes, Inv, TypeOK
  <1>5. confirmations[c].created <= now
    BY <1>3 DEF Inv, NamesThePast
  <1>6. IsRight(r)'
    BY <1>1, <1>2, <1>3, <1>4, <1>5 DEF IsRight, Holding
  <1>7. \A s \in Requests \ {r} : Apart(r, s)' /\ Apart(s, r)'
    BY <1>2, <1>4 DEF Apart, Holding, Deletes
  <1> QED BY <1>2, <1>3, <1>6, <1>7, RequestStep

LEMMA FindDeletedInv ==
    ASSUME Sensible, Inv, NEW r \in Requests, NEW i \in Ideas, NEW n \in 0..MaxRevision,
           FindDeleted(r, i, n)
    PROVE  Inv'
  <1> DEFINE request == [Idle EXCEPT !.phase = "found", !.idea = i, !.revision = n]
  <1>1. request \in Request /\ request.phase = "found" /\ request.op = "undo"
        /\ request.at = 0
    <2>1. Idle.at = 0 /\ Idle.op = "undo" /\ n \in Nat
      BY DEF Idle, Sensible
    <2> QED BY <2>1, ConstantRows DEF Request
  <1>2. Goes(r, request) /\ UNCHANGED <<now, ideas, confirmations>>
    BY DEF FindDeleted
  <1> HIDE DEF request
  <1>3. requests'[r] = request
    BY <1>2 DEF Goes, Inv, TypeOK
  <1>4. IsRight(r)'
    BY <1>1, <1>2, <1>3 DEF IsRight, Holding, Inv, TypeOK
  <1>5. \A s \in Requests \ {r} : Apart(r, s)' /\ Apart(s, r)'
    BY <1>1, <1>3 DEF Apart, Holding, Deletes
  <1> QED BY <1>1, <1>2, <1>4, <1>5, RequestStep

LEMMA ReadClockInv ==
    ASSUME Sensible, Inv, NEW r \in Requests, ReadClock(r) PROVE Inv'
  <1> DEFINE request == [requests[r] EXCEPT !.phase = "called", !.at = now]
  <1>1. requests[r] \in Request /\ now \in Nat /\ requests[r].op = "undo"
    BY DEF Inv, TypeOK, ReadClock, IsRight
  <1>2. request \in Request /\ request.phase = "called" /\ request.op = "undo"
        /\ request.at = now
    BY <1>1 DEF Request
  <1>3. Goes(r, request) /\ UNCHANGED <<now, ideas, confirmations>>
    BY DEF ReadClock
  <1> HIDE DEF request
  <1>4. requests'[r] = request
    BY <1>3 DEF Goes, Inv, TypeOK
  <1>5. IsRight(r)'
    BY <1>1, <1>2, <1>3, <1>4 DEF IsRight, Holding
  <1>6. \A s \in Requests \ {r} : Apart(r, s)' /\ Apart(s, r)'
    BY <1>2, <1>4 DEF Apart, Holding, Deletes
  <1> QED BY <1>2, <1>3, <1>5, <1>6, RequestStep

\* A request that ends without a change.
LEMMA EndsInv ==
    ASSUME Sensible, Inv, NEW r \in Requests, Ends(r), UNCHANGED <<now, ideas, confirmations>>
    PROVE  Inv'
  <1>1. requests' \in [Requests -> Request]
        /\ \A s \in Requests : requests'[s] \in {requests[s], Idle}
    BY ConstantRows DEF Ends, Goes, Inv, TypeOK
  <1>2. now' \in now..MaxTime
    BY DEF Inv, TypeOK
  <1> QED BY <1>1, <1>2, QuietStep

\* The row of a decision nobody else is making.
LEMMA OneHolder ==
    ASSUME Inv, NEW r \in Requests, ~RowLocked(requests[r].id), NEW s \in Requests, Holding(s)
    PROVE  requests[s].id # requests[r].id
  BY DEF RowLocked, Holding, Inv, IsRight

LEMMA LockInv ==
    ASSUME Sensible, Inv, NEW r \in Requests, Lock(r) PROVE Inv'
  <1> DEFINE request == [requests[r] EXCEPT !.phase = "locked"]
  <1>1. requests[r] \in Request /\ requests[r].op = "confirm" /\ requests[r].phase = "called"
        /\ ~RowLocked(requests[r].id) /\ Decidable(r) /\ IsRight(r)
    BY DEF Inv, TypeOK, Lock, Deciding
  <1>2. request \in Request /\ request.phase = "locked" /\ request.op = "confirm"
        /\ request.at = requests[r].at /\ request.id = requests[r].id
        /\ request.idea = requests[r].idea
    BY <1>1 DEF Request
  <1>3. Goes(r, request) /\ UNCHANGED <<now, ideas, confirmations>>
    BY DEF Lock
  <1> HIDE DEF request
  <1>4. requests'[r] = request /\ \A s \in Requests \ {r} : requests'[s] = requests[s]
    BY <1>3 DEF Goes, Inv, TypeOK
  <1>5. IsRight(r)'
    BY <1>1, <1>2, <1>3, <1>4 DEF IsRight, Holding, Decidable, Misses, Deletes
  <1>6. \A s \in Requests \ {r} : Apart(r, s)' /\ Apart(s, r)'
    BY <1>1, <1>2, <1>4, OneHolder DEF Apart, Holding, Deletes
  <1> QED BY <1>2, <1>3, <1>5, <1>6, RequestStep

LEMMA TryDeleteInv ==
    ASSUME Sensible, Inv, NEW r \in Requests, TryDelete(r) PROVE Inv'
  <1>1. requests[r] \in Request /\ requests[r].phase = "locked" /\ IsRight(r)
        /\ ~Held(requests[r].idea) /\ UNCHANGED <<now, ideas, confirmations>>
    BY DEF Inv, TypeOK, TryDelete
  <1>2. CASE Matches(r)
    <2> DEFINE request == [requests[r] EXCEPT !.phase = "decided", !.outcome = "deleted"]
    <2>1. request \in Request /\ request.phase = "decided" /\ request.outcome = "deleted"
          /\ request.op = requests[r].op /\ request.at = requests[r].at
          /\ request.id = requests[r].id /\ request.idea = requests[r].idea
      BY <1>1 DEF Request
    <2>2. Goes(r, request) /\ ideas[requests[r].idea].revision < MaxRevision
      BY <1>2 DEF TryDelete
    <2> HIDE DEF request
    <2>3. requests'[r] = request /\ \A s \in Requests \ {r} : requests'[s] = requests[s]
      BY <2>2 DEF Goes, Inv, TypeOK
    <2>4. IsRight(r)'
      BY <1>1, <1>2, <2>1, <2>2, <2>3 DEF IsRight, Holding, Decidable, Misses, Deletes, Matches
    <2>5. \A s \in Requests \ {r} : Apart(r, s)' /\ Apart(s, r)'
      BY <1>1, <2>1, <2>3 DEF Inv, Apart, Holding, Deletes, Held
    <2> QED BY <1>1, <2>1, <2>2, <2>4, <2>5, RequestStep
  <1>3. CASE ~Matches(r)
    <2> DEFINE request == [requests[r] EXCEPT !.phase = "missed"]
    <2>1. request \in Request /\ request.phase = "missed"
          /\ request.op = requests[r].op /\ request.at = requests[r].at
          /\ request.id = requests[r].id /\ request.idea = requests[r].idea
      BY <1>1 DEF Request
    <2>2. Goes(r, request)
      BY <1>3 DEF TryDelete
    <2> HIDE DEF request
    <2>3. requests'[r] = request /\ \A s \in Requests \ {r} : requests'[s] = requests[s]
      BY <2>2 DEF Goes, Inv, TypeOK
    <2>4. IsRight(r)'
      BY <1>1, <1>3, <2>1, <2>3 DEF IsRight, Holding, Decidable, Misses, Deletes, Matches
    <2>5. \A s \in Requests \ {r} : Apart(r, s)' /\ Apart(s, r)'
      BY <1>1, <2>1, <2>3 DEF Inv, Apart, Holding, Deletes
    <2> QED BY <1>1, <2>1, <2>2, <2>4, <2>5, RequestStep
  <1> QED BY <1>2, <1>3

LEMMA ReadBackInv ==
    ASSUME Sensible, Inv, NEW r \in Requests, ReadBack(r) PROVE Inv'
  <1>1. requests[r] \in Request /\ requests[r].phase = "missed" /\ IsRight(r)
        /\ UNCHANGED <<now, ideas, confirmations>>
    BY DEF Inv, TypeOK, ReadBack
  <1> DEFINE idea == ideas[requests[r].idea]
             outcome == CASE idea.state = "absent" -> "not_found"
                          [] idea.state = "deleted" -> "already_deleted"
                          [] OTHER -> "conflict"
             request == [requests[r] EXCEPT !.phase = "decided", !.outcome = outcome]
  <1>2. outcome \in {"not_found", "already_deleted", "conflict"}
    OBVIOUS
  <1>3. Goes(r, request)
    BY DEF ReadBack
  <1> HIDE DEF outcome
  <1>4. request \in Request /\ request.phase = "decided" /\ request.outcome = outcome
        /\ request.op = requests[r].op /\ request.at = requests[r].at
        /\ request.id = requests[r].id /\ request.idea = requests[r].idea
    BY <1>1, <1>2 DEF Request
  <1> HIDE DEF request
  <1>5. requests'[r] = request /\ \A s \in Requests \ {r} : requests'[s] = requests[s]
    BY <1>3 DEF Goes, Inv, TypeOK
  <1>6. IsRight(r)'
    BY <1>1, <1>2, <1>4, <1>5 DEF IsRight, Holding, Decidable, Misses, Deletes, Matches
  <1>7. \A s \in Requests \ {r} : Apart(r, s)' /\ Apart(s, r)'
    BY <1>1, <1>2, <1>4, <1>5 DEF Inv, Apart, Holding, Deletes
  <1> QED BY <1>1, <1>3, <1>4, <1>6, <1>7, RequestStep

\* The deletion and the decision come at once, and the locks go.
LEMMA CommitInv ==
    ASSUME Sensible, Inv, NEW r \in Requests, Commit(r) PROVE Inv'
  <1> DEFINE id == requests[r].id
             i == requests[r].idea
             outcome == requests[r].outcome
             deleted == [Ledger!Changed(ideas[i]) EXCEPT !.state = "deleted",
                             !.undoUntil = requests[r].at + UndoWindow]
  <1>1. /\ requests[r] \in Request /\ requests[r].phase = "decided" /\ IsRight(r) /\ Holding(r)
        /\ Stored(r, "confirmed", outcome) /\ Ends(r) /\ now' = now
        /\ ideas' = IF outcome = "deleted" THEN [ideas EXCEPT ![i] = deleted] ELSE ideas
    BY DEF Inv, TypeOK, Commit, Holding, Ledger!SoftDeleted
  <1>2. /\ i \in Ideas /\ ideas[i] \in Ledger!Idea
        /\ requests[r].at + UndoWindow \in Nat
        /\ outcome \in {"none", "deleted", "conflict", "already_deleted", "not_found"}
    BY <1>1 DEF Inv, TypeOK, Request, Sensible
  <1>3. /\ id \in Proposals /\ confirmations[id] \in Confirmation
        /\ confirmations' \in [Proposals -> Confirmation]
        /\ confirmations'[id] = Ledger!Decision(confirmations[id], "confirmed",
                                                requests[r].at, outcome)
        /\ \A c \in Proposals \ {id} : confirmations'[c] = confirmations[c]
    BY <1>1, <1>2, StoredRow DEF Inv
  <1>4. /\ confirmations'[id].state = "confirmed" /\ Kept(id)
        /\ \A c \in Proposals : Kept(c)
    BY <1>3 DEF Ledger!Decision, Kept
  <1>5. outcome = "deleted" => /\ deleted \in Ledger!Idea /\ deleted.state = "deleted"
                               /\ deleted.revision > ideas[i].revision
    BY <1>1, <1>2, ChangedIdea DEF IsRight, Deletes
  <1> HIDE DEF deleted
  <1>6. /\ ideas' \in [Ideas -> Ledger!Idea]
        /\ \A j \in Ideas : Newer(j)
        /\ \A j \in Ideas : ideas'[j].state = "absent" => ideas'[j].revision = 0
        /\ \A j \in Ideas : ideas'[j] # ideas[j] => j = i /\ outcome = "deleted"
    BY <1>1, <1>2, <1>5 DEF Inv, TypeOK, Newer
  <1>7. /\ requests' \in [Requests -> Request] /\ requests'[r] = Idle
        /\ \A s \in Requests \ {r} : requests'[s] = requests[s]
    BY <1>1, ConstantRows DEF Ends, Goes, Inv, TypeOK
  <1>8. TypeOK' /\ now' >= now
    BY <1>1, <1>3, <1>6, <1>7 DEF Inv, TypeOK
  <1>9. ASSUME NEW s \in Requests PROVE IsRight(s)'
    <2>1. CASE s = r
      BY <1>7, <2>1, IdleIsRight
    <2>2. CASE s # r
      <3>1. Apart(r, s) /\ IsRight(s) /\ requests[s].id \in Proposals
        BY <2>2 DEF Inv, TypeOK, Request
      <3>2. Holding(s) => confirmations'[requests[s].id].state = "pending"
        BY <1>1, <1>3, <3>1 DEF Apart, IsRight, Decidable
      <3>3. Deletes(s) => ideas'[requests[s].idea] = ideas[requests[s].idea]
        BY <1>1, <1>6, <3>1 DEF Apart, Deletes, Inv, TypeOK, Request
      <3> QED BY <1>4, <1>6, <1>7, <1>8, <2>2, <3>2, <3>3, StaysRight
    <2> QED BY <2>1, <2>2
  <1>10. \A c \in Proposals : NamesThePast(c)'
    <2> TAKE c \in Proposals
    <2>1. /\ confirmations[c].state = "none" => confirmations'[c].state = "none"
          /\ confirmations'[c].state = "pending" => confirmations[c].state = "pending"
      BY <1>1, <1>3, <1>4 DEF IsRight, Decidable
    <2> QED BY <1>4, <1>6, <1>8, <2>1, StaysPast
  <1>11. \A s, u \in Requests : s # u => Apart(s, u)'
    BY <1>7 DEF Inv, Apart, Holding, Deletes, Idle
  <1> QED BY <1>6, <1>8, <1>9, <1>10, <1>11 DEF Inv

LEMMA RejectInv ==
    ASSUME Sensible, Inv, NEW r \in Requests, Reject(r) PROVE Inv'
  <1> DEFINE id == requests[r].id
  <1>1. /\ requests[r] \in Request /\ requests[r].op = "reject" /\ Decidable(r)
        /\ ~RowLocked(id) /\ Stored(r, "rejected", "none") /\ Ends(r)
        /\ UNCHANGED <<now, ideas>>
    BY DEF Inv, TypeOK, Reject, Deciding
  <1>2. /\ id \in Proposals /\ confirmations[id] \in Confirmation
        /\ confirmations' \in [Proposals -> Confirmation]
        /\ confirmations'[id] = Ledger!Decision(confirmations[id], "rejected",
                                                requests[r].at, "none")
        /\ \A c \in Proposals \ {id} : confirmations'[c] = confirmations[c]
    BY <1>1, StoredRow DEF Inv
  <1>3. confirmations'[id].state = "rejected" /\ \A c \in Proposals : Kept(c)
    BY <1>2 DEF Ledger!Decision, Kept
  <1>4. /\ requests' \in [Requests -> Request] /\ requests'[r] = Idle
        /\ \A s \in Requests \ {r} : requests'[s] = requests[s]
    BY <1>1, ConstantRows DEF Ends, Goes, Inv, TypeOK
  <1>5. TypeOK' /\ now' >= now /\ \A i \in Ideas : Newer(i)
    BY <1>1, <1>2, <1>4 DEF Inv, TypeOK, Newer
  <1>6. ASSUME NEW s \in Requests PROVE IsRight(s)'
    <2>1. CASE s = r
      BY <1>4, <2>1, IdleIsRight
    <2>2. CASE s # r
      <3>1. Holding(s) => requests[s].id # id
        BY <1>1, OneHolder
      <3>2. Holding(s) => confirmations'[requests[s].id].state = "pending"
        BY <1>2, <3>1 DEF IsRight, Decidable, Inv, TypeOK, Request
      <3>3. ideas'[requests[s].idea] = ideas[requests[s].idea]
        BY <1>1
      <3> QED BY <1>3, <1>4, <1>5, <2>2, <3>2, <3>3, StaysRight
    <2> QED BY <2>1, <2>2
  <1>7. \A c \in Proposals : NamesThePast(c)'
    <2> TAKE c \in Proposals
    <2>1. /\ confirmations[c].state = "none" => confirmations'[c].state = "none"
          /\ confirmations'[c].state = "pending" => confirmations[c].state = "pending"
      BY <1>1, <1>2, <1>3 DEF Decidable
    <2> QED BY <1>3, <1>5, <2>1, StaysPast
  <1>8. \A s, u \in Requests : s # u => Apart(s, u)'
    BY <1>4 DEF Inv, Apart, Holding, Deletes, Idle
  <1> QED BY <1>1, <1>5, <1>6, <1>7, <1>8 DEF Inv

LEMMA UndoDeleteInv ==
    ASSUME Sensible, Inv, NEW r \in Requests, UndoDelete(r) PROVE Inv'
  <1> DEFINE i == requests[r].idea
             idea == [Ledger!Changed(ideas[i]) EXCEPT !.state = "live", !.undoUntil = 0]
  <1>1. /\ i \in Ideas /\ ideas[i] \in Ledger!Idea /\ ~Held(i) /\ Ends(r)
        /\ UNCHANGED <<now, confirmations>>
        /\ ideas' = IF Restorable(r) THEN [ideas EXCEPT ![i] = idea] ELSE ideas
    BY DEF UndoDelete, Inv, TypeOK, Request
  <1>2. CASE Restorable(r)
    <2>1. idea \in Ledger!Idea /\ idea.revision > ideas[i].revision /\ idea.state = "live"
      BY <1>1, <1>2, ChangedIdea DEF UndoDelete
    <2> HIDE DEF idea
    <2>2. requests' \in [Requests -> Request]
          /\ \A s \in Requests : requests'[s] \in {requests[s], Idle}
      BY <1>1, ConstantRows DEF Ends, Goes, Inv, TypeOK
    <2> QED BY <1>1, <1>2, <2>1, <2>2, IdeaStep
  <1>3. CASE ~Restorable(r)
    BY <1>1, <1>3, EndsInv
  <1> QED BY <1>2, <1>3

LEMMA PurgeInv ==
    ASSUME Sensible, Inv, NEW c \in Proposals, Purge(c) PROVE Inv'
  <1> DEFINE row == [confirmations[c] EXCEPT !.state = "purged"]
  <1>1. confirmations[c] \in Confirmation /\ confirmations[c].state # "none" /\ ~RowLocked(c)
        /\ UNCHANGED <<now, ideas, requests>>
    BY DEF Purge, Inv, TypeOK
  <1>2. /\ row \in Confirmation /\ row.state = "purged" /\ row.idea = confirmations[c].idea
        /\ row.expected = confirmations[c].expected /\ row.created = confirmations[c].created
    BY <1>1 DEF Confirmation
  <1>3. confirmations' = [confirmations EXCEPT ![c] = row]
    BY DEF Purge
  <1> HIDE DEF row
  <1>4. /\ TypeOK' /\ now' >= now /\ confirmations'[c] = row
        /\ \A d \in Proposals \ {c} : confirmations'[d] = confirmations[d]
    BY <1>1, <1>2, <1>3 DEF Inv, TypeOK
  <1>5. (\A i \in Ideas : Newer(i)) /\ (\A d \in Proposals : Kept(d))
    BY <1>1, <1>2, <1>4 DEF Newer, Kept
  <1>6. ASSUME NEW s \in Requests PROVE IsRight(s)'
    <2>1. Holding(s) => requests[s].id # c
      BY <1>1 DEF RowLocked, Holding, Inv, IsRight
    <2>2. Holding(s) => confirmations'[requests[s].id].state = "pending"
      BY <1>4, <2>1 DEF IsRight, Decidable, Inv, TypeOK, Request
    <2> QED BY <1>1, <1>4, <1>5, <2>2, StaysRight
  <1>7. \A d \in Proposals : NamesThePast(d)'
    <2> TAKE d \in Proposals
    <2>1. /\ confirmations[d].state = "none" => confirmations'[d].state = "none"
          /\ confirmations'[d].state = "pending" => confirmations[d].state = "pending"
      BY <1>1, <1>2, <1>4
    <2> QED BY <1>4, <1>5, <2>1, StaysPast
  <1>8. \A s, u \in Requests : s # u => Apart(s, u)'
    BY <1>1 DEF Inv, Apart, Holding, Deletes
  <1> QED BY <1>1, <1>4, <1>6, <1>7, <1>8 DEF Inv

LEMMA NextInv == ASSUME Sensible, Inv, [Next]_vars PROVE Inv'
  <1>1. CASE UNCHANGED vars
    <2>1. now' \in now..MaxTime /\ requests' \in [Requests -> Request]
      BY <1>1 DEF vars, Inv, TypeOK
    <2> QED BY <1>1, <2>1, QuietStep DEF vars
  <1>2. CASE Tick
    <2>1. now' \in now..MaxTime /\ requests' \in [Requests -> Request]
      BY <1>2 DEF Tick, Inv, TypeOK, Sensible
    <2> QED BY <1>2, <2>1, QuietStep DEF Tick
  <1>3. ASSUME NEW r \in Requests, Refuse(r) \/ Fail(r) PROVE Inv'
    BY <1>3, EndsInv DEF Refuse, Fail
  <1>4. ASSUME NEW r \in Requests, NEW c \in Proposals, NEW op \in {"confirm", "reject"},
               Call(r, op, c)
        PROVE  Inv'
    BY <1>4, CallInv
  <1>5. ASSUME NEW r \in Requests, NEW i \in Ideas, NEW n \in 0..MaxRevision,
               FindDeleted(r, i, n)
        PROVE  Inv'
    BY <1>5, FindDeletedInv
  <1> QED BY <1>1, <1>2, <1>3, <1>4, <1>5, AddInv, AppendInv, ProposeInv, RejectInv, LockInv,
             TryDeleteInv, ReadBackInv, CommitInv, ReadClockInv, UndoDeleteInv, PurgeInv
          DEF Next

\* Every row, idea and request stays what its type says, whoever fails and whenever.
THEOREM TypeCorrect == ASSUME Sensible PROVE Spec => []TypeOK
  <1>1. Init => Inv
    BY InitInv
  <1>2. Inv /\ [Next]_vars => Inv'
    BY NextInv
  <1>3. Inv => TypeOK
    BY DEF Inv
  <1> QED BY <1>1, <1>2, <1>3, PTL DEF Spec

-----------------------------------------------------------------------------
(* Every step is a step of the ledger, or changes nothing it speaks of     *)

LEMMA InitRefines == ASSUME Sensible, Init PROVE Ledger!Init
  <1> DEFINE record == [state |-> "none", idea |-> CHOOSE i \in Ideas : TRUE, expected |-> 0,
                        created |-> 0, completed |-> 0, outcome |-> "none"]
  <1>1. \A c \in Proposals : confirmations[c] = record
    BY DEF Init
  <1>2. \A c \in Proposals : [record EXCEPT !.outcome = Promised(@)] = record
    BY DEF Promised
  <1>3. \A c \in Proposals : Records[c] = record
    BY <1>1, <1>2 DEF Records
  <1> HIDE DEF record
  <1>4. Records \in [Proposals -> {record}]
    BY <1>3 DEF Records
  <1> QED BY <1>4 DEF Init, Ledger!Init, record

\* The rows stay, and the records with them.
LEMMA RecordsStay == ASSUME UNCHANGED confirmations PROVE Records' = Records
  BY DEF Records

LEMMA ProposeRefines ==
    ASSUME Sensible, Inv, NEW c \in Proposals, NEW i \in Ideas, Propose(c, i)
    PROVE  Ledger!Propose(c, i)
  <1> DEFINE row == [state |-> "pending", idea |-> i, expected |-> ideas[i].revision,
                     created |-> now, completed |-> 0, outcome |-> "none"]
  <1>1. /\ confirmations' = [confirmations EXCEPT ![c] = row] /\ UNCHANGED <<now, ideas>>
        /\ confirmations[c].state = "none" /\ ideas[i].state = "live"
        /\ confirmations \in [Proposals -> Confirmation]
    BY DEF Propose, Inv, TypeOK
  <1>2. [row EXCEPT !.outcome = Promised(@)] = row
    BY DEF Promised
  <1> HIDE DEF row
  <1>3. /\ confirmations'[c] = row
        /\ \A d \in Proposals \ {c} : confirmations'[d] = confirmations[d]
    BY <1>1
  <1>4. Records' = [Records EXCEPT ![c] = row]
    BY <1>2, <1>3 DEF Records
  <1>5. Records[c].state = "none"
    BY <1>1, RecordOfRow
  <1> QED BY <1>1, <1>4, <1>5 DEF Ledger!Propose, row

LEMMA RejectRefines ==
    ASSUME Sensible, Inv, NEW r \in Requests, Reject(r)
    PROVE  \E c \in Proposals, at \in 0..now : Ledger!Reject(c, at)
  <1> DEFINE id == requests[r].id
             at == requests[r].at
  <1>1. /\ requests[r] \in Request /\ requests[r].op = "reject" /\ Decidable(r)
        /\ requests[r].phase = "called" /\ Stored(r, "rejected", "none")
        /\ IsRight(r) /\ UNCHANGED <<now, ideas>>
    BY DEF Inv, TypeOK, Reject, Deciding
  <1>2. /\ id \in Proposals /\ confirmations[id] \in Confirmation /\ at \in Nat /\ at <= now
        /\ now \in Nat /\ confirmations[id].created <= at /\ confirmations[id].created \in Nat
    BY <1>1 DEF Inv, TypeOK, Request, IsRight, Confirmation
  <1>3. Ledger!Decidable(id, at)
    BY <1>1, <1>2, RecordOfRow DEF Decidable, Ledger!Decidable
  <1>4. Ledger!Decided(id, "rejected", at, "none")
    BY <1>1, StoredRecord DEF Inv, Promised
  <1>5. Ledger!Reject(id, at)
    BY <1>1, <1>3, <1>4 DEF Ledger!Reject
  <1> QED BY <1>2, <1>5

\* What the transaction found is what holds when it commits.
LEMMA CommitRefines ==
    ASSUME Sensible, Inv, NEW r \in Requests, Commit(r)
    PROVE  \E c \in Proposals, at \in 0..now : Ledger!Confirm(c, at)
  <1> DEFINE id == requests[r].id
             at == requests[r].at
             outcome == requests[r].outcome
  <1>1. /\ requests[r] \in Request /\ requests[r].phase = "decided" /\ IsRight(r) /\ Holding(r)
        /\ Stored(r, "confirmed", outcome) /\ now' = now
        /\ ideas' = IF outcome = "deleted" THEN Ledger!SoftDeleted(requests[r].idea, at)
                                           ELSE ideas
    BY DEF Inv, TypeOK, Commit, Holding
  <1>2. /\ requests[r].op = "confirm" /\ Decidable(r) /\ outcome # "none"
        /\ requests[r].idea = confirmations[id].idea
        /\ outcome = "deleted" <=> Matches(r)
    BY <1>1 DEF IsRight, Misses, Deletes
  <1>3. /\ id \in Proposals /\ confirmations[id] \in Confirmation /\ at \in Nat /\ at <= now
        /\ now \in Nat /\ confirmations[id].created <= at /\ confirmations[id].created \in Nat
        /\ outcome \in {"deleted", "conflict", "already_deleted", "not_found"}
    BY <1>1, <1>2 DEF Inv, TypeOK, Request, IsRight, Confirmation
  <1>4. Ledger!Decidable(id, at)
    BY <1>2, <1>3, RecordOfRow DEF Decidable, Ledger!Decidable
  <1>5. Ledger!Decided(id, "confirmed", at, Promised(outcome))
    BY <1>1, <1>3, StoredRecord DEF Inv
  <1>6. Ledger!IsAsProposed(id) <=> Matches(r)
    BY <1>2, <1>3, RecordOfRow DEF Matches, Ledger!IsAsProposed
  <1>7. Records[id].idea = requests[r].idea
    BY <1>2, <1>3, RecordOfRow
  <1>8. Ledger!Confirm(id, at)
    BY <1>1, <1>2, <1>3, <1>4, <1>5, <1>6, <1>7 DEF Ledger!Confirm, Promised
  <1> QED BY <1>3, <1>8

LEMMA UndoDeleteRefines ==
    ASSUME Sensible, Inv, NEW r \in Requests, UndoDelete(r)
    PROVE  \/ \E i \in Ideas, at \in 0..now : Ledger!UndoDelete(i, at)
           \/ UNCHANGED <<now, ideas, Records>>
  <1>1. /\ requests[r] \in Request /\ IsRight(r) /\ requests[r].phase = "called"
        /\ UNCHANGED <<now, confirmations>> /\ now \in Nat
    BY DEF UndoDelete, Inv, TypeOK
  <1>2. Records' = Records
    BY <1>1, RecordsStay
  <1>3. requests[r].idea \in Ideas /\ requests[r].at \in 0..now
    BY <1>1 DEF Request, IsRight
  <1>4. CASE Restorable(r)
    <2>1. Ledger!UndoDelete(requests[r].idea, requests[r].at)
      BY <1>1, <1>2, <1>3, <1>4 DEF UndoDelete, Restorable, Ledger!UndoDelete
    <2> QED BY <1>3, <2>1
  <1>5. CASE ~Restorable(r)
    BY <1>1, <1>2, <1>5 DEF UndoDelete
  <1> QED BY <1>4, <1>5

LEMMA PurgeRefines ==
    ASSUME Sensible, Inv, NEW c \in Proposals, Purge(c) PROVE Ledger!Purge(c)
  <1> DEFINE row == [confirmations[c] EXCEPT !.state = "purged"]
             record == [Records[c] EXCEPT !.state = "purged"]
  <1>1. /\ confirmations \in [Proposals -> Confirmation] /\ confirmations[c] \in Confirmation
        /\ confirmations' = [confirmations EXCEPT ![c] = row] /\ UNCHANGED <<now, ideas>>
    BY DEF Purge, Inv, TypeOK
  <1>2. [row EXCEPT !.outcome = Promised(@)] = record
    BY <1>1 DEF Confirmation, Records
  <1> HIDE DEF row, record
  <1>3. /\ confirmations'[c] = row
        /\ \A d \in Proposals \ {c} : confirmations'[d] = confirmations[d]
    BY <1>1
  <1>4. Records' = [Records EXCEPT ![c] = record]
    BY <1>2, <1>3 DEF Records
  <1>5. Records' = [Records EXCEPT ![c].state = "purged"]
    BY <1>4 DEF record
  <1> QED BY <1>1, <1>5, RecordOfRow DEF Purge, Ledger!Purge

LEMMA StepRefines ==
    ASSUME Sensible, Inv, [Next]_vars
    PROVE  [Ledger!Next]_<<now, ideas, Records>>
  <1> DEFINE stutters == UNCHANGED <<now, ideas, Records>>
  <1>1. UNCHANGED <<now, ideas, confirmations>> => stutters
    BY RecordsStay
  <1> HIDE DEF stutters
  <1>2. UNCHANGED vars => stutters
    BY <1>1 DEF vars
  <1>3. ASSUME NEW i \in Ideas, Add(i) \/ Append(i) PROVE Ledger!Next
    <2>1. Ledger!Add(i) \/ Ledger!Edit(i)
      BY <1>3, RecordsStay DEF Add, Append, Ledger!Add, Ledger!Edit
    <2> QED BY <2>1 DEF Ledger!Next
  <1>4. ASSUME NEW c \in Proposals, NEW i \in Ideas, Propose(c, i) PROVE Ledger!Next
    BY <1>4, ProposeRefines DEF Ledger!Next
  <1>5. ASSUME NEW r \in Requests, Refuse(r) \/ Lock(r) \/ TryDelete(r) \/ ReadBack(r)
                                   \/ ReadClock(r) \/ Fail(r)
        PROVE  stutters
    BY <1>1, <1>5 DEF Refuse, Lock, TryDelete, ReadBack, ReadClock, Fail
  <1>6. ASSUME NEW r \in Requests, NEW c \in Proposals, NEW op \in {"confirm", "reject"},
               Call(r, op, c)
        PROVE  stutters
    BY <1>1, <1>6 DEF Call
  <1>7. ASSUME NEW r \in Requests, NEW i \in Ideas, NEW n \in 0..MaxRevision,
               FindDeleted(r, i, n)
        PROVE  stutters
    BY <1>1, <1>7 DEF FindDeleted
  <1>8. ASSUME NEW r \in Requests, Reject(r) \/ Commit(r) PROVE Ledger!Next
    BY <1>8, RejectRefines, CommitRefines DEF Ledger!Next
  <1>9. ASSUME NEW r \in Requests, UndoDelete(r) PROVE Ledger!Next \/ stutters
    BY <1>9, UndoDeleteRefines DEF Ledger!Next, stutters
  <1>10. ASSUME NEW c \in Proposals, Purge(c) PROVE Ledger!Next
    BY <1>10, PurgeRefines DEF Ledger!Next
  <1>11. ASSUME Tick PROVE Ledger!Next
    <2>1. Ledger!Tick
      BY <1>11, RecordsStay DEF Tick, Ledger!Tick
    <2> QED BY <2>1 DEF Ledger!Next
  <1>12. Next => Ledger!Next \/ stutters
    BY <1>3, <1>4, <1>5, <1>6, <1>7, <1>8, <1>9, <1>10, <1>11 DEF Next
  <1> QED BY <1>2, <1>12 DEF stutters

\* The transactions implement the ledger: although the guarded UPDATE, the SELECT after it and
\* COMMIT see different states of an idea that others append to, restore and delete, every
\* decision is one step that counts once, within its time, and deletes the idea exactly when
\* it still is what was proposed.
THEOREM Implements == ASSUME Sensible PROVE Spec => ImplementsLedger
  <1>1. Init => Inv
    BY InitInv
  <1>2. Inv /\ [Next]_vars => Inv'
    BY NextInv
  <1>3. Init => Ledger!Init
    BY InitRefines
  <1>4. Inv /\ [Next]_vars => [Ledger!Next]_<<now, ideas, Records>>
    BY StepRefines
  <1> QED BY <1>1, <1>2, <1>3, <1>4, PTL DEF Spec, ImplementsLedger, Ledger!Spec, Ledger!vars

=============================================================================
