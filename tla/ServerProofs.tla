------------------------------ MODULE ServerProofs ------------------------------
(***************************************************************************)
(* What the server keeps beside the turns, for every number of processes,  *)
(* turns and faults.                                                       *)
(*                                                                         *)
(* A rolling summary folds every turn once, because a turn that is         *)
(* appended late is younger than every turn outside the window, so that    *)
(* what is folded is always the beginning of the thread.  Nothing waits    *)
(* for a later turn, because as many compactions are due as turns wait.    *)
(***************************************************************************)
EXTENDS MCServer, Sequences, FiniteSetTheorems, TLAPS

\* The parts share no state: a step is a step of one of them.
LEMMA OnePartMoves ==
    ASSUME [AllNext]_all
    PROVE  /\ about' = about
           /\ about = "thread" => [Next]_vars
           /\ about # "thread" => UNCHANGED vars
  BY DEF AllNext, all

-----------------------------------------------------------------------------
(* The rolling summary                                                     *)

\* Compactions that are due: the first to the last one queued, of each process.
Due == {d \in Processes \X (Nat \ {0}) : d[2] <= queued[d[1]]}

\* An append that is on its way is overtaken by no more turns than the bound.
NotOvertaken == \A f \in inflight : Cardinality(Later(f[1], turns)) <= Overtaking

\* A turn that is not in the thread yet is younger than every turn outside the window.
LateIsYoung == \A f \in inflight, t \in Expired : t < f[1]

\* Each turn has one append.
OneAppendEach ==
    /\ \A f \in inflight : f[1] \notin turns
    /\ \A f, g \in inflight : f[1] = g[1] => f = g

\* A job has read a summary that is the present one, or behind it.
ReadsAreHonest == \A p \in Processes : job[p].phase # "idle" =>
    /\ queued[p] > 0 /\ job[p].previous.through <= summary.through
    /\ job[p].previous.through = summary.through => job[p].previous = summary

\* The batch of a job is what follows the summary it has read, outside the window.
BatchesAreNext == \A p \in Processes :
    /\ job[p].phase # "writing" => job[p].batch = {}
    /\ job[p].phase = "writing" =>
           /\ job[p].batch # {} /\ job[p].batch \subseteq Pending(job[p].previous.through)
           /\ \A t \in job[p].batch, u \in turns :
                  u > job[p].previous.through /\ u <= t => u \in job[p].batch

\* What is folded is outside the window.
SummaryIsOutside == summary.through > 0 => summary.through \in Expired

\* When nothing went wrong, there is a compaction due for every turn that waits for one.
EnoughAreDue ==
    /\ IsFiniteSet(Due)
    /\ faults = 0 => /\ \A f \in inflight : f[3]
                     /\ Cardinality(Pending(summary.through)) <= Cardinality(Due)

ThreadInv ==
    /\ TypeOK /\ FoldedOnce /\ NotOvertaken /\ OneAppendEach
    /\ ReadsAreHonest /\ BatchesAreNext /\ SummaryIsOutside /\ EnoughAreDue

\* The turns of a thread that are outside its window.
Outside(X) == {t \in X : Cardinality(Later(t, X)) >= RecentLimit}

\* A finite set of turns has a last one.
LEMMA LastIsThere ==
    ASSUME NEW X \in SUBSET Nat, IsFiniteSet(X), X # {}
    PROVE  Last(X) \in X /\ \A u \in X : u <= Last(X)
  <1> DEFINE T == {Later(t, X) : t \in X}
  <1>1. T \subseteq FiniteSubsetsOf(X)
    <2>1. ASSUME NEW t \in X PROVE Later(t, X) \in SUBSET X /\ IsFiniteSet(Later(t, X))
      <3>1. Later(t, X) \in SUBSET X BY DEF Later
      <3> QED BY <3>1, FS_Subset
    <2> QED BY <2>1 DEF FiniteSubsetsOf
  <1>2. T # {} OBVIOUS
  <1>3. PICK x \in T : \A y \in T : ~ (<<y, x>> \in StrictSubsetOrdering(X))
    <2> HIDE DEF T
    <2> QED BY <1>1, <1>2, FS_StrictSubsetOrderingWellFounded, WFMin
  <1>4. PICK m \in X : x = Later(m, X) BY <1>3
  <1>5. Later(m, X) = {}
    <2> SUFFICES ASSUME NEW u \in Later(m, X) PROVE FALSE OBVIOUS
    <2>1. u \in X /\ u > m BY DEF Later
    <2>2. Later(u, X) \in T BY <2>1
    <2>3. Later(u, X) \subseteq Later(m, X) /\ Later(u, X) # Later(m, X)
      <3>1. u \in Nat /\ m \in Nat /\ \A w \in X : w \in Nat BY <2>1
      <3>2. u \in Later(m, X) /\ u \notin Later(u, X) BY <2>1, <3>1 DEF Later
      <3>3. \A w \in Later(u, X) : w \in Later(m, X) BY <2>1, <3>1 DEF Later
      <3> QED BY <3>2, <3>3
    <2>4. Later(u, X) \in SUBSET X /\ Later(m, X) \in SUBSET X BY DEF Later
    <2>5. <<Later(u, X), Later(m, X)>> \in StrictSubsetOrdering(X)
      BY <2>3, <2>4 DEF StrictSubsetOrdering
    <2> QED BY <1>3, <1>4, <2>2, <2>5
  <1>6. Last(X) \in X /\ Later(Last(X), X) = {} BY <1>5 DEF Last
  <1>7. ASSUME NEW u \in X PROVE u <= Last(X)
    <2>1. u \in Nat /\ Last(X) \in Nat BY <1>6
    <2> QED BY <1>6, <2>1 DEF Later
  <1> QED BY <1>6, <1>7

\* And a first one.
LEMMA FirstIsThere ==
    ASSUME NEW X \in SUBSET Nat, IsFiniteSet(X), X # {}
    PROVE  First(X) \in X /\ Earlier(First(X), X) = {}
  <1> DEFINE T == {Earlier(t, X) : t \in X}
  <1>1. T \subseteq FiniteSubsetsOf(X)
    <2>1. ASSUME NEW t \in X PROVE Earlier(t, X) \in SUBSET X /\ IsFiniteSet(Earlier(t, X))
      <3>1. Earlier(t, X) \in SUBSET X BY DEF Earlier
      <3> QED BY <3>1, FS_Subset
    <2> QED BY <2>1 DEF FiniteSubsetsOf
  <1>2. T # {} OBVIOUS
  <1>3. PICK x \in T : \A y \in T : ~ (<<y, x>> \in StrictSubsetOrdering(X))
    <2> HIDE DEF T
    <2> QED BY <1>1, <1>2, FS_StrictSubsetOrderingWellFounded, WFMin
  <1>4. PICK m \in X : x = Earlier(m, X) BY <1>3
  <1>5. Earlier(m, X) = {}
    <2> SUFFICES ASSUME NEW u \in Earlier(m, X) PROVE FALSE OBVIOUS
    <2>1. u \in X /\ u < m BY DEF Earlier
    <2>2. Earlier(u, X) \in T BY <2>1
    <2>3. Earlier(u, X) \subseteq Earlier(m, X) /\ Earlier(u, X) # Earlier(m, X)
      <3>1. u \in Nat /\ m \in Nat /\ \A w \in X : w \in Nat BY <2>1
      <3>2. u \in Earlier(m, X) /\ u \notin Earlier(u, X) BY <2>1, <3>1 DEF Earlier
      <3>3. \A w \in Earlier(u, X) : w \in Earlier(m, X) BY <2>1, <3>1 DEF Earlier
      <3> QED BY <3>2, <3>3
    <2>4. Earlier(u, X) \in SUBSET X /\ Earlier(m, X) \in SUBSET X BY DEF Earlier
    <2>5. <<Earlier(u, X), Earlier(m, X)>> \in StrictSubsetOrdering(X)
      BY <2>3, <2>4 DEF StrictSubsetOrdering
    <2> QED BY <1>3, <1>4, <2>2, <2>5
  <1> QED BY <1>5 DEF First

\* What is later is a finite set, and smaller for a later turn.
LEMMA LaterShrinks ==
    ASSUME NEW X \in SUBSET Nat, IsFiniteSet(X), NEW t \in Nat
    PROVE  /\ IsFiniteSet(Later(t, X)) /\ Cardinality(Later(t, X)) \in Nat
           /\ \A u \in X : u > t => Cardinality(Later(u, X)) + 1 <= Cardinality(Later(t, X))
  <1>1. Later(t, X) \in SUBSET X BY DEF Later
  <1>2. IsFiniteSet(Later(t, X)) /\ Cardinality(Later(t, X)) \in Nat
    BY <1>1, FS_Subset, FS_CardinalityType
  <1>3. ASSUME NEW u \in X, u > t
        PROVE  Cardinality(Later(u, X)) + 1 <= Cardinality(Later(t, X))
    <2> DEFINE more == Later(u, X) \cup {u}
    <2>1. Later(u, X) \in SUBSET X /\ u \notin Later(u, X) BY DEF Later
    <2>2. IsFiniteSet(Later(u, X)) /\ Cardinality(Later(u, X)) \in Nat
      BY <2>1, FS_Subset, FS_CardinalityType
    <2>3. Cardinality(more) = Cardinality(Later(u, X)) + 1 BY <2>1, <2>2, FS_AddElement
    <2>4. more \in SUBSET Later(t, X)
      <3>1. \A w \in X : w \in Nat OBVIOUS
      <3>2. \A w \in more : w \in Later(t, X) BY <1>3, <3>1 DEF Later
      <3> QED BY <3>2
    <2>5. Cardinality(more) <= Cardinality(Later(t, X)) BY <1>2, <2>4, FS_Subset
    <2> QED BY <2>3, <2>5
  <1> QED BY <1>2, <1>3

\* A batch is the beginning of what is pending, and no more than the limit.
LEMMA OldestAreFirst ==
    ASSUME NEW X \in SUBSET Nat, IsFiniteSet(X)
    PROVE  /\ Oldest(X) \in SUBSET X /\ Cardinality(Oldest(X)) <= BatchLimit
           /\ Oldest(X) = {} => X = {}
           /\ \A t \in Oldest(X), u \in X : u <= t => u \in Oldest(X)
  <1> USE LimitsAssumption
  <1>1. Oldest(X) \in SUBSET X /\ Oldest(X) \in SUBSET Nat BY DEF Oldest
  <1>2. IsFiniteSet(Oldest(X)) BY <1>1, FS_Subset
  <1>3. \A t \in X : IsFiniteSet(Earlier(t, X)) /\ Cardinality(Earlier(t, X)) \in Nat
    <2> SUFFICES ASSUME NEW t \in X
                 PROVE  IsFiniteSet(Earlier(t, X)) /\ Cardinality(Earlier(t, X)) \in Nat
      OBVIOUS
    <2>1. Earlier(t, X) \in SUBSET X BY DEF Earlier
    <2> QED BY <2>1, FS_Subset, FS_CardinalityType
  <1>4. Cardinality(Oldest(X)) <= BatchLimit
    <2>1. CASE Oldest(X) = {} BY <2>1, FS_EmptySet
    <2>2. CASE Oldest(X) # {}
      <3> DEFINE m == Last(Oldest(X))
                 before == Oldest(X) \ {m}
      <3>1. m \in Oldest(X) /\ \A u \in Oldest(X) : u <= m
        BY <1>1, <1>2, <2>2, LastIsThere
      <3>2. m \in X /\ Cardinality(Earlier(m, X)) < BatchLimit BY <3>1 DEF Oldest
      <3> HIDE DEF m
      <3>3. before \in SUBSET Earlier(m, X) BY <1>1, <3>1, <3>2 DEF Earlier
      <3>4. Cardinality(before) <= Cardinality(Earlier(m, X)) BY <1>3, <3>2, <3>3, FS_Subset
      <3>5. Cardinality(before) = Cardinality(Oldest(X)) - 1 BY <1>2, <3>1, FS_RemoveElement
      <3>6. Cardinality(Oldest(X)) \in Nat BY <1>2, FS_CardinalityType
      <3> QED BY <1>3, <3>2, <3>4, <3>5, <3>6
    <2> QED BY <2>1, <2>2
  <1>5. ASSUME X # {} PROVE Oldest(X) # {}
    <2>1. First(X) \in X /\ Earlier(First(X), X) = {} BY <1>5, FirstIsThere
    <2>2. Cardinality(Earlier(First(X), X)) = 0 BY <2>1, FS_EmptySet
    <2> QED BY <2>1, <2>2 DEF Oldest
  <1>6. ASSUME NEW t \in Oldest(X), NEW u \in X, u <= t PROVE u \in Oldest(X)
    <2>1. t \in X /\ Cardinality(Earlier(t, X)) < BatchLimit BY DEF Oldest
    <2>2. Earlier(u, X) \in SUBSET Earlier(t, X)
      <3>1. \A w \in X : w \in Nat OBVIOUS
      <3>2. \A w \in Earlier(u, X) : w \in Earlier(t, X) BY <1>6, <2>1, <3>1 DEF Earlier
      <3> QED BY <3>2
    <2>3. Cardinality(Earlier(u, X)) <= Cardinality(Earlier(t, X))
      BY <1>3, <2>1, <2>2, FS_Subset
    <2>4. Cardinality(Earlier(u, X)) < BatchLimit BY <1>3, <2>1, <2>3
    <2> QED BY <2>4 DEF Oldest
  <1> QED BY <1>1, <1>4, <1>5, <1>6

\* What is older than a turn outside the window is outside it.
LEMMA OutsideIsOld ==
    ASSUME NEW X \in SUBSET Nat, IsFiniteSet(X), NEW t \in Outside(X), NEW u \in X, u <= t
    PROVE  u \in Outside(X)
  <1> USE LimitsAssumption
  <1>1. t \in X /\ t \in Nat /\ u \in Nat /\ Cardinality(Later(t, X)) >= RecentLimit
    BY DEF Outside
  <1>2. CASE u = t BY <1>2
  <1>3. CASE u < t
    <2>1. Cardinality(Later(t, X)) + 1 <= Cardinality(Later(u, X)) BY <1>1, <1>3, LaterShrinks
    <2>2. Cardinality(Later(t, X)) \in Nat /\ Cardinality(Later(u, X)) \in Nat
      BY <1>1, LaterShrinks
    <2>3. Cardinality(Later(u, X)) >= RecentLimit BY <1>1, <2>1, <2>2
    <2> QED BY <2>3 DEF Outside
  <1> QED BY <1>1, <1>2, <1>3

\* What is later than a turn when another one is added.
LEMMA LaterWithOneMore ==
    ASSUME NEW X \in SUBSET Nat, IsFiniteSet(X), NEW x \in Nat, x \notin X, NEW t \in Nat
    PROVE  Cardinality(Later(t, X \cup {x})) =
               Cardinality(Later(t, X)) + IF x > t THEN 1 ELSE 0
  <1>1. IsFiniteSet(Later(t, X)) /\ Cardinality(Later(t, X)) \in Nat BY LaterShrinks
  <1>2. x \notin Later(t, X) BY DEF Later
  <1>3. CASE x > t
    <2>1. Later(t, X \cup {x}) = Later(t, X) \cup {x} BY <1>3 DEF Later
    <2> QED BY <1>1, <1>2, <1>3, <2>1, FS_AddElement
  <1>4. CASE ~ (x > t)
    <2>1. Later(t, X \cup {x}) = Later(t, X) BY <1>4 DEF Later
    <2> QED BY <1>1, <1>4, <2>1
  <1> QED BY <1>3, <1>4

\* One more turn pushes one turn out of the window at most, and takes none back.
LEMMA OneLeavesTheWindow ==
    ASSUME NEW X \in SUBSET Nat, IsFiniteSet(X), NEW x \in Nat, x \notin X
    PROVE  /\ Outside(X) \subseteq Outside(X \cup {x})
           /\ \E y : Outside(X \cup {x}) \subseteq Outside(X) \cup {y}
  <1> USE LimitsAssumption
  <1> DEFINE T == X \cup {x}
             count(t) == Cardinality(Later(t, X))
  <1>1. \A t \in Nat : count(t) \in Nat BY LaterShrinks
  <1>2. \A t \in T : t \in Nat OBVIOUS
  <1>3. \A t \in T : Cardinality(Later(t, T)) = count(t) + IF x > t THEN 1 ELSE 0
    BY <1>2, LaterWithOneMore
  <1>4. \A t \in X, u \in X : u > t => count(u) + 1 <= count(t) BY LaterShrinks
  <1>5. \A t : t \in Outside(X) <=> t \in X /\ count(t) >= RecentLimit BY DEF Outside
  <1>6. \A t : t \in Outside(T) <=> t \in T /\ Cardinality(Later(t, T)) >= RecentLimit
    BY DEF Outside
  <1>7. \A t \in X : t < x => count(x) <= count(t)
    <2> SUFFICES ASSUME NEW t \in X, t < x PROVE count(x) <= count(t) OBVIOUS
    <2>1. \A w \in X : w \in Nat OBVIOUS
    <2>2. \A w \in Later(x, X) : w \in Later(t, X) BY <2>1 DEF Later
    <2>3. IsFiniteSet(Later(t, X)) BY <2>1, LaterShrinks
    <2>4. Later(x, X) \in SUBSET Later(t, X) BY <2>2
    <2> QED BY <2>3, <2>4, FS_Subset
  <1> HIDE DEF T, count
  <1>8. X \subseteq T /\ x \in T /\ \A t \in T : t \in X \/ t = x BY DEF T
  <1>9. Outside(X) \subseteq Outside(T)
    <2> SUFFICES ASSUME NEW t \in Outside(X) PROVE t \in Outside(T) OBVIOUS
    <2>1. t \in T /\ t \in Nat /\ count(t) >= RecentLimit BY <1>2, <1>5, <1>8
    <2>2. Cardinality(Later(t, T)) >= RecentLimit BY <1>1, <1>3, <2>1
    <2> QED BY <1>6, <2>1, <2>2
  <1>10. ASSUME NEW a \in Outside(T), NEW b \in Outside(T), a < b, b \notin Outside(X)
         PROVE  a \in Outside(X)
    <2>1. a \in T /\ b \in T /\ a \in Nat /\ b \in Nat BY <1>2, <1>6
    <2>2. Cardinality(Later(b, T)) >= RecentLimit BY <1>6
    <2>3. CASE b = x
      <3>1. count(b) >= RecentLimit BY <1>1, <1>3, <2>1, <2>2, <2>3
      <3>2. a \in X BY <1>8, <1>10, <2>1, <2>3
      <3>3. count(b) <= count(a) BY <1>7, <1>10, <2>3, <3>2
      <3>4. count(a) >= RecentLimit BY <1>1, <2>1, <3>1, <3>3
      <3> QED BY <1>5, <3>2, <3>4
    <2>4. CASE b # x
      <3>1. b \in X BY <1>8, <2>1, <2>4
      <3>2. count(b) < RecentLimit BY <1>1, <1>5, <1>10, <2>1, <3>1
      <3>3. x > b /\ count(b) + 1 >= RecentLimit
        BY <1>1, <1>3, <2>1, <2>2, <3>2
      <3>4. a \in X BY <1>8, <1>10, <2>1, <3>3
      <3>5. count(b) + 1 <= count(a) BY <1>4, <1>10, <3>1, <3>4
      <3>6. count(a) >= RecentLimit BY <1>1, <2>1, <3>3, <3>5
      <3> QED BY <1>5, <3>4, <3>6
    <2> QED BY <2>3, <2>4
  <1>11. \A a, b \in Outside(T) : a \notin Outside(X) /\ b \notin Outside(X) => a = b
    <2> SUFFICES ASSUME NEW a \in Outside(T), NEW b \in Outside(T),
                        a \notin Outside(X), b \notin Outside(X)
                 PROVE  a = b
      OBVIOUS
    <2>1. a \in Nat /\ b \in Nat BY <1>2, <1>6
    <2>2. ~ (a < b) /\ ~ (b < a) BY <1>10
    <2> QED BY <2>1, <2>2
  <1>12. \E y : Outside(T) \subseteq Outside(X) \cup {y}
    <2>1. CASE Outside(T) \subseteq Outside(X) BY <2>1
    <2>2. CASE \E y \in Outside(T) : y \notin Outside(X) BY <1>11, <2>2
    <2> QED BY <2>1, <2>2
  <1> QED BY <1>9, <1>12 DEF T

\* The turns of a thread are a finite set of numbers.
LEMMA TurnsAreFinite ==
    ASSUME TypeOK
    PROVE  /\ turns \in SUBSET Nat /\ IsFiniteSet(turns) /\ turns \subseteq Turns
           /\ Expired = Outside(turns) /\ \A n : Pending(n) = {t \in Outside(turns) : t > n}
           /\ IsFiniteSet(Expired) /\ Expired \in SUBSET Nat
  <1> USE LimitsAssumption
  <1>1. stamped \in Nat /\ turns \subseteq 1 .. stamped /\ stamped <= MaxTurns BY DEF TypeOK
  <1>2. IsFiniteSet(1 .. stamped) BY <1>1, FS_Interval
  <1>3. turns \in SUBSET Nat /\ IsFiniteSet(turns) /\ turns \subseteq Turns
    <2>1. \A t \in 1 .. stamped : t \in Nat /\ t \in 1 .. MaxTurns BY <1>1
    <2>2. turns \in SUBSET (1 .. stamped) BY <1>1
    <2>3. IsFiniteSet(turns) BY <1>2, <2>2, FS_Subset
    <2> QED BY <2>1, <2>2, <2>3 DEF Turns
  <1>4. Expired = Outside(turns) BY DEF Expired, Outside
  <1>5. \A n : Pending(n) = {t \in Outside(turns) : t > n} BY <1>4 DEF Pending
  <1>6. Expired \in SUBSET turns BY DEF Expired
  <1>7. IsFiniteSet(Expired) BY <1>3, <1>6, FS_Subset
  <1> QED BY <1>3, <1>4, <1>5, <1>6, <1>7

\* A turn that is not in the thread yet is younger than what is outside the window: it would
\* have been overtaken by all that is younger than that.
LEMMA LateTurnsAreYoung ==
    ASSUME TypeOK, NotOvertaken, OneAppendEach
    PROVE  LateIsYoung
  <1> USE LimitsAssumption, OvertakingAssumption
  <1> SUFFICES ASSUME NEW f \in inflight, NEW t \in Expired, ~ (t < f[1]) PROVE FALSE
    BY DEF LateIsYoung
  <1>1. turns \in SUBSET Nat /\ IsFiniteSet(turns) BY TurnsAreFinite
  <1>2. f[1] \in Nat /\ f[1] \notin turns BY DEF TypeOK, OneAppendEach
  <1>3. t \in turns /\ t \in Nat /\ Cardinality(Later(t, turns)) >= RecentLimit
    BY <1>1 DEF Expired
  <1>4. t > f[1] BY <1>2, <1>3
  <1>5. Cardinality(Later(t, turns)) + 1 <= Cardinality(Later(f[1], turns))
    BY <1>1, <1>2, <1>3, <1>4, LaterShrinks
  <1>6. Cardinality(Later(t, turns)) \in Nat /\ Cardinality(Later(f[1], turns)) \in Nat
    BY <1>1, <1>2, <1>3, LaterShrinks
  <1>7. Cardinality(Later(f[1], turns)) <= Overtaking BY DEF NotOvertaken
  <1> QED BY <1>3, <1>5, <1>6, <1>7

-----------------------------------------------------------------------------
(* The steps of a thread keep ThreadInv                                    *)

\* The count of compactions that are due follows the queues.
LEMMA EnqueuedIsDue ==
    ASSUME TypeOK, IsFiniteSet(Due), NEW p \in Processes, queued' = Enqueue(p)
    PROVE  IsFiniteSet(Due') /\ Cardinality(Due') = Cardinality(Due) + 1
  <1> DEFINE d == <<p, queued[p] + 1>>
  <1>1. queued \in [Processes -> Nat] BY DEF TypeOK
  <1>2. \A q \in Processes : queued'[q] = IF q = p THEN queued[p] + 1 ELSE queued[q]
    BY <1>1 DEF Enqueue
  <1>3. d \notin Due BY <1>1 DEF Due
  <1>4. Due' = Due \cup {d} BY <1>1, <1>2 DEF Due
  <1> QED BY <1>3, <1>4, FS_AddElement

LEMMA EndedIsNotDue ==
    ASSUME TypeOK, IsFiniteSet(Due), NEW p \in Processes, queued[p] > 0,
           queued' = [queued EXCEPT ![p] = @ - 1]
    PROVE  IsFiniteSet(Due') /\ Cardinality(Due') = Cardinality(Due) - 1
  <1> DEFINE d == <<p, queued[p]>>
  <1>1. queued \in [Processes -> Nat] BY DEF TypeOK
  <1>2. \A q \in Processes : queued'[q] = IF q = p THEN queued[p] - 1 ELSE queued[q]
    BY <1>1
  <1>3. d \in Due BY <1>1 DEF Due
  <1>4. Due' = Due \ {d} BY <1>1, <1>2 DEF Due
  <1> QED BY <1>3, <1>4, FS_RemoveElement

LEMMA ThreadStarts == ASSUME Init PROVE ThreadInv
  <1> USE LimitsAssumption
  <1>1. NoSummary \in Summary BY DEF NoSummary, Summary
  <1>2. NoJob \in Job BY <1>1 DEF NoJob, Job
  <1>3. Cardinality({}) = 0 BY FS_EmptySet
  <1>4. NoJob.batch = {} /\ NoJob.phase = "idle" BY DEF NoJob
  <1>5. NoSummary.through = 0 /\ \A t \in Turns : NoSummary.folded[t] = 0 BY DEF NoSummary
  <1>6. TypeOK BY <1>1, <1>2, <1>3, <1>4 DEF TypeOK, Init
  <1>7. FoldedOnce BY <1>5 DEF FoldedOnce, Init
  <1>8. NotOvertaken /\ OneAppendEach BY DEF NotOvertaken, OneAppendEach, Init
  <1>9. ReadsAreHonest /\ BatchesAreNext BY <1>4 DEF ReadsAreHonest, BatchesAreNext, Init
  <1>10. SummaryIsOutside BY <1>5 DEF SummaryIsOutside, Init
  <1>11. EnoughAreDue
    <2>1. Due = {} BY DEF Due, Init
    <2>2. Pending(summary.through) = {} BY DEF Pending, Expired, Init
    <2> QED BY <1>3, <2>1, <2>2, FS_EmptySet DEF EnoughAreDue, Init
  <1> QED BY <1>6, <1>7, <1>8, <1>9, <1>10, <1>11 DEF ThreadInv

\* What does not depend on the turns, the summary and the queues stays with them.
LEMMA StampKeeps == ASSUME ThreadInv, NEW p \in Processes, Stamp(p) PROVE ThreadInv'
  <1> USE LimitsAssumption
  <1> DEFINE f == <<stamped + 1, p, TRUE>>
  <1>1. TypeOK BY DEF ThreadInv
  <1>2. /\ stamped' = stamped + 1 /\ inflight' = inflight \cup {f} /\ stamped < MaxTurns
        /\ turns' = turns /\ summary' = summary /\ queued' = queued /\ job' = job
        /\ faults' = faults
    BY DEF Stamp
  <1>3. stamped \in Nat /\ turns \subseteq 1 .. stamped
        /\ inflight \subseteq (1 .. stamped) \X Processes \X BOOLEAN
    BY <1>1 DEF TypeOK
  <1>4. TypeOK'
    <2>1. stamped' \in 0 .. MaxTurns BY <1>2, <1>3
    <2>2. turns' \subseteq 1 .. stamped' BY <1>2, <1>3
    <2>3. \A n \in 1 .. stamped : n \in 1 .. stamped' BY <1>2, <1>3
    <2>4. f \in (1 .. stamped') \X Processes \X BOOLEAN
      <3>1. stamped + 1 \in 1 .. stamped' /\ TRUE \in BOOLEAN BY <1>2, <1>3
      <3> QED BY <3>1
    <2>5. inflight' \subseteq (1 .. stamped') \X Processes \X BOOLEAN
      BY <1>2, <1>3, <2>3, <2>4
    <2> QED BY <1>1, <1>2, <2>1, <2>2, <2>5 DEF TypeOK
  <1>5. f[1] = stamped + 1 /\ f[3] BY DEF f
  <1>6. Later(stamped + 1, turns) = {}
    <2>1. \A t \in turns : t \in Nat /\ t <= stamped BY <1>3
    <2>2. \A t \in turns : ~ (t > stamped + 1) BY <1>3, <2>1
    <2> QED BY <2>2 DEF Later
  <1>7. \A g \in inflight : g[1] \in 1 .. stamped BY <1>3
  <1> HIDE DEF f
  <1>8. FoldedOnce' BY <1>2 DEF ThreadInv, FoldedOnce
  <1>9. NotOvertaken'
    <2>1. Cardinality(Later(f[1], turns)) <= Overtaking
      BY <1>5, <1>6, FS_EmptySet, OvertakingAssumption
    <2> QED BY <1>2, <2>1 DEF ThreadInv, NotOvertaken
  <1>10. OneAppendEach'
    <2>1. f[1] \notin turns BY <1>3, <1>5
    <2>2. \A g \in inflight : g[1] # f[1] BY <1>3, <1>5, <1>7
    <2> QED BY <1>2, <2>1, <2>2 DEF ThreadInv, OneAppendEach
  <1>11. ReadsAreHonest' BY <1>2 DEF ThreadInv, ReadsAreHonest
  <1>12. BatchesAreNext' BY <1>2 DEF ThreadInv, BatchesAreNext, Pending, Expired
  <1>13. SummaryIsOutside' BY <1>2 DEF ThreadInv, SummaryIsOutside, Expired
  <1>14. EnoughAreDue'
    <2>1. Due' = Due BY <1>2 DEF Due
    <2>2. Pending(summary.through)' = Pending(summary.through) BY <1>2 DEF Pending, Expired
    <2>3. ASSUME \A g \in inflight : g[3] PROVE \A g \in inflight' : g[3] BY <1>2, <1>5, <2>3
    <2> QED BY <1>2, <2>1, <2>2, <2>3 DEF ThreadInv, EnoughAreDue
  <1> QED BY <1>4, <1>8, <1>9, <1>10, <1>11, <1>12, <1>13, <1>14 DEF ThreadInv

\* A turn is committed: everything folded or about to be is older.
LEMMA AppendKeeps == ASSUME ThreadInv, NEW f \in inflight, AppendTurn(f) PROVE ThreadInv'
  <1> USE LimitsAssumption
  <1> DEFINE x == f[1]
  <1>1. TypeOK /\ OneAppendEach /\ NotOvertaken BY DEF ThreadInv
  <1>2. /\ KeepsUp(x) /\ inflight' = inflight \ {f} /\ turns' = turns \cup {x}
        /\ queued' = (IF f[3] THEN Enqueue(f[2]) ELSE queued)
        /\ stamped' = stamped /\ summary' = summary /\ job' = job /\ faults' = faults
    BY DEF AppendTurn
  <1>3. x \in 1 .. stamped /\ f[2] \in Processes /\ f[3] \in BOOLEAN BY <1>1 DEF TypeOK
  <1>4. x \in Nat /\ x \notin turns BY <1>1, <1>3 DEF TypeOK, OneAppendEach
  <1>5. turns \in SUBSET Nat /\ IsFiniteSet(turns) /\ turns \subseteq Turns
        /\ Expired = Outside(turns) /\ IsFiniteSet(Expired) /\ Expired \in SUBSET Nat
        /\ \A n : Pending(n) = {t \in Outside(turns) : t > n}
    BY <1>1, TurnsAreFinite
  <1>6. \A t \in Expired : t < x BY <1>1, LateTurnsAreYoung DEF LateIsYoung
  <1> HIDE DEF x
  <1>7. TypeOK'
    <2>1. turns' \subseteq 1 .. stamped' BY <1>1, <1>2, <1>3 DEF TypeOK
    <2>2. inflight' \subseteq (1 .. stamped') \X Processes \X BOOLEAN BY <1>1, <1>2 DEF TypeOK
    <2>3. queued' \in [Processes -> Nat] BY <1>1, <1>2, <1>3 DEF TypeOK, Enqueue
    <2> QED BY <1>1, <1>2, <2>1, <2>2, <2>3 DEF TypeOK
  <1>8. Expired' = Outside(turns \cup {x}) BY <1>2 DEF Expired, Outside
  <1>9. Expired \subseteq Expired' BY <1>4, <1>5, <1>8, OneLeavesTheWindow
  <1>10. summary.through \in Nat /\ (summary.through > 0 => summary.through < x)
    <2>1. summary.through \in Nat BY <1>1 DEF TypeOK, Summary
    <2> QED BY <1>6, <2>1 DEF ThreadInv, SummaryIsOutside
  <1>11. FoldedOnce'
    <2>1. ~ (x <= summary.through) BY <1>3, <1>4, <1>10
    <2>2. \A t : t \in turns' /\ t <= summary.through <=> t \in turns /\ t <= summary.through
      BY <1>2, <2>1
    <2> QED BY <1>2, <2>2 DEF ThreadInv, FoldedOnce
  <1>12. NotOvertaken'
    <2> SUFFICES ASSUME NEW g \in inflight, g # f
                 PROVE  Cardinality(Later(g[1], turns \cup {x})) <= Overtaking
      BY <1>2 DEF NotOvertaken
    <2>1. g[1] # x /\ g[1] \in Nat BY <1>1 DEF OneAppendEach, TypeOK, x
    <2>2. CASE g[1] < x BY <1>2, <2>2 DEF KeepsUp
    <2>3. CASE x < g[1]
      <3>1. Later(g[1], turns \cup {x}) = Later(g[1], turns) BY <1>4, <2>1, <2>3 DEF Later
      <3> QED BY <1>1, <3>1 DEF NotOvertaken
    <2> QED BY <1>4, <2>1, <2>2, <2>3
  <1>13. OneAppendEach'
    <2>1. \A g \in inflight : g # f => g[1] # x BY <1>1 DEF OneAppendEach, x
    <2> QED BY <1>1, <1>2, <2>1 DEF OneAppendEach
  <1>14. ReadsAreHonest'
    <2>1. \A p \in Processes : queued[p] > 0 => queued'[p] > 0
      BY <1>1, <1>2, <1>3 DEF TypeOK, Enqueue
    <2> QED BY <1>2, <2>1 DEF ThreadInv, ReadsAreHonest
  <1>15. BatchesAreNext'
    <2> SUFFICES ASSUME NEW p \in Processes, job[p].phase = "writing"
                 PROVE  /\ job[p].batch \subseteq {t \in Expired' : t > job[p].previous.through}
                        /\ \A t \in job[p].batch, u \in turns' :
                               u > job[p].previous.through /\ u <= t => u \in job[p].batch
      BY <1>2 DEF ThreadInv, BatchesAreNext, Pending
    <2>1. job[p].batch \subseteq Pending(job[p].previous.through)
      BY DEF ThreadInv, BatchesAreNext
    <2>2. job[p].batch \subseteq Expired BY <2>1 DEF Pending
    <2>3. \A t \in job[p].batch : t \in Nat /\ t < x BY <1>5, <1>6, <2>2
    <2>4. ASSUME NEW t \in job[p].batch, NEW u \in turns', u > job[p].previous.through, u <= t
          PROVE  u \in job[p].batch
      <3>1. u # x BY <1>4, <2>3, <2>4
      <3>2. u \in turns BY <1>2, <3>1
      <3> QED BY <2>4, <3>2 DEF ThreadInv, BatchesAreNext
    <2> QED BY <1>9, <2>1, <2>4 DEF Pending
  <1>16. SummaryIsOutside' BY <1>2, <1>9 DEF ThreadInv, SummaryIsOutside
  <1>17. EnoughAreDue'
    <2>1. IsFiniteSet(Due') /\ (f[3] => Cardinality(Due') = Cardinality(Due) + 1)
      <3>1. IsFiniteSet(Due) BY DEF ThreadInv, EnoughAreDue
      <3>2. CASE f[3] BY <1>1, <1>2, <1>3, <3>1, <3>2, EnqueuedIsDue
      <3>3. CASE ~ f[3]
        <4>1. Due' = Due BY <1>2, <3>3 DEF Due
        <4> QED BY <3>1, <3>3, <4>1
      <3> QED BY <3>2, <3>3
    <2> SUFFICES ASSUME faults = 0
                 PROVE  /\ \A g \in inflight' : g[3]
                        /\ Cardinality(Pending(summary.through))' <= Cardinality(Due')
      BY <1>2, <2>1 DEF EnoughAreDue
    <2>2. (\A g \in inflight : g[3]) /\ Cardinality(Pending(summary.through)) <= Cardinality(Due)
      BY DEF ThreadInv, EnoughAreDue
    <2> DEFINE before == Pending(summary.through)
               after == {t \in Expired' : t > summary.through}
    <2>3. PICK y : Expired' \subseteq Expired \cup {y} BY <1>4, <1>5, <1>8, OneLeavesTheWindow
    <2>4. IsFiniteSet(before) /\ Cardinality(before) \in Nat
      <3>1. before \in SUBSET Expired BY DEF Pending
      <3> QED BY <1>5, <3>1, FS_Subset, FS_CardinalityType
    <2>5. after \in SUBSET (before \cup {y}) BY <2>3 DEF Pending
    <2> HIDE DEF before, after
    <2>6. IsFiniteSet(before \cup {y}) /\ Cardinality(before \cup {y}) <= Cardinality(before) + 1
      <3>1. /\ IsFiniteSet(before \cup {y})
            /\ Cardinality(before \cup {y}) =
                   IF y \in before THEN Cardinality(before) ELSE Cardinality(before) + 1
        BY <2>4, FS_AddElement
      <3> QED BY <2>4, <3>1
    <2>7. Cardinality(after) <= Cardinality(before \cup {y}) BY <2>5, <2>6, FS_Subset
    <2>8. Cardinality(after) \in Nat /\ Cardinality(before \cup {y}) \in Nat
      BY <2>5, <2>6, FS_Subset, FS_CardinalityType
    <2>9. Cardinality(Due) \in Nat BY FS_CardinalityType DEF ThreadInv, EnoughAreDue
    <2>10. Cardinality(after) <= Cardinality(Due) + 1
      BY <2>2, <2>4, <2>6, <2>7, <2>8, <2>9 DEF before
    <2>11. Pending(summary.through)' = after BY <1>2 DEF Pending, after
    <2> QED BY <1>2, <2>1, <2>2, <2>10, <2>11
  <1> QED BY <1>7, <1>11, <1>12, <1>13, <1>14, <1>15, <1>16, <1>17 DEF ThreadInv

\* The turns and the summary stay: what was outside the window is, and what was folded.
LEMMA ThreadStays ==
    ASSUME ThreadInv, TypeOK', turns' = turns, summary' = summary,
           \A g \in inflight' : \E f \in inflight : f[1] = g[1],
           OneAppendEach', ReadsAreHonest', BatchesAreNext', EnoughAreDue'
    PROVE  ThreadInv'
  <1>1. FoldedOnce' BY DEF ThreadInv, FoldedOnce
  <1>2. NotOvertaken' BY DEF ThreadInv, NotOvertaken
  <1>3. SummaryIsOutside' BY DEF ThreadInv, SummaryIsOutside, Expired
  <1> QED BY <1>1, <1>2, <1>3 DEF ThreadInv

\* The jobs stay, and the queues of the running ones.
LEMMA JobsStay ==
    ASSUME ThreadInv, turns' = turns, summary' = summary, job' = job,
           \A p \in Processes : queued[p] > 0 => queued'[p] > 0
    PROVE  ReadsAreHonest' /\ BatchesAreNext'
  <1>1. ReadsAreHonest' BY DEF ThreadInv, ReadsAreHonest
  <1>2. BatchesAreNext' BY DEF ThreadInv, BatchesAreNext, Pending, Expired
  <1> QED BY <1>1, <1>2

\* A job that ends leaves the others as they were.
LEMMA JobEnds ==
    ASSUME ThreadInv, NEW p \in Processes, job[p].phase # "idle",
           job' = [job EXCEPT ![p] = NoJob], queued' = [queued EXCEPT ![p] = @ - 1]
    PROVE  /\ job' \in [Processes -> Job] /\ queued' \in [Processes -> Nat]
           /\ \A q \in Processes : Cardinality(job'[q].batch) <= BatchLimit
           /\ IsFiniteSet(Due') /\ Cardinality(Due') = Cardinality(Due) - 1
           /\ Cardinality(Due) \in Nat
           /\ turns' = turns /\ summary' = summary => ReadsAreHonest' /\ BatchesAreNext'
  <1> USE LimitsAssumption
  <1>1. TypeOK /\ queued[p] > 0 BY DEF ThreadInv, ReadsAreHonest
  <1>2. NoJob \in Job /\ NoJob.batch = {} /\ NoJob.phase = "idle"
    BY DEF NoJob, Job, NoSummary, Summary
  <1>3. queued \in [Processes -> Nat] /\ job \in [Processes -> Job] BY <1>1 DEF TypeOK
  <1>4. \A q \in Processes : job'[q] = IF q = p THEN NoJob ELSE job[q] BY <1>3
  <1>5. \A q \in Processes : q # p => queued'[q] = queued[q] BY <1>3
  <1>6. job' \in [Processes -> Job] BY <1>2, <1>3
  <1>7. queued' \in [Processes -> Nat]
    <2>1. queued[p] - 1 \in Nat BY <1>1, <1>3
    <2> QED BY <1>3, <2>1
  <1>8. \A q \in Processes : Cardinality(job'[q].batch) <= BatchLimit
    <2>1. Cardinality({}) <= BatchLimit BY FS_EmptySet
    <2> QED BY <1>1, <1>2, <1>4, <2>1 DEF TypeOK
  <1>9. IsFiniteSet(Due) BY DEF ThreadInv, EnoughAreDue
  <1>10. IsFiniteSet(Due') /\ Cardinality(Due') = Cardinality(Due) - 1
    BY <1>1, <1>9, EndedIsNotDue
  <1>11. Cardinality(Due) \in Nat BY <1>9, FS_CardinalityType
  <1>12. ASSUME turns' = turns, summary' = summary PROVE ReadsAreHonest' /\ BatchesAreNext'
    <2>1. ReadsAreHonest' BY <1>2, <1>4, <1>5, <1>12 DEF ThreadInv, ReadsAreHonest
    <2>2. BatchesAreNext'
      <3>1. \A n : Pending(n) = {t \in turns :
                   Cardinality(Later(t, turns)) >= RecentLimit /\ t > n}
        BY DEF Pending, Expired
      <3> SUFFICES ASSUME NEW q \in Processes
                   PROVE  /\ job'[q].phase # "writing" => job'[q].batch = {}
                          /\ job'[q].phase = "writing" =>
                              /\ job'[q].batch # {}
                              /\ job'[q].batch \subseteq Pending(job'[q].previous.through)
                              /\ \A t \in job'[q].batch, u \in turns :
                                    u > job'[q].previous.through /\ u <= t => u \in job'[q].batch
        BY <1>12, <3>1 DEF BatchesAreNext, Pending, Expired
      <3>2. CASE q = p BY <1>2, <1>4, <3>2
      <3>3. CASE q # p BY <1>4, <3>3 DEF ThreadInv, BatchesAreNext
      <3> QED BY <3>2, <3>3
    <2> QED BY <2>1, <2>2
  <1> QED BY <1>6, <1>7, <1>8, <1>10, <1>11, <1>12

\* What went wrong is counted, so that nothing is promised of the compactions any more.
LEMMA FaultIsCounted ==
    ASSUME TypeOK, Fault
    PROVE  faults' # 0 /\ faults' \in 0 .. (MaxFaults + 1)
  BY LimitsAssumption DEF TypeOK, Fault

LEMMA StopWaitingKeeps == ASSUME ThreadInv, NEW f \in inflight, StopWaiting(f) PROVE ThreadInv'
  <1> USE LimitsAssumption
  <1> DEFINE g == <<f[1], f[2], FALSE>>
  <1>1. TypeOK /\ OneAppendEach /\ IsFiniteSet(Due) BY DEF ThreadInv, EnoughAreDue
  <1>2. /\ Fault /\ inflight' = (inflight \ {f}) \cup {g} /\ queued' = Enqueue(f[2])
        /\ stamped' = stamped /\ turns' = turns /\ summary' = summary /\ job' = job
    BY DEF StopWaiting
  <1>3. f \in (1 .. stamped) \X Processes \X BOOLEAN BY <1>1 DEF TypeOK
  <1>4. f[1] \in 1 .. stamped /\ f[2] \in Processes BY <1>3
  <1>5. faults' # 0 /\ faults' \in 0 .. (MaxFaults + 1) BY <1>1, <1>2, FaultIsCounted
  <1>6. g \in (1 .. stamped) \X Processes \X BOOLEAN /\ g[1] = f[1]
    <2>1. FALSE \in BOOLEAN OBVIOUS
    <2> QED BY <1>4, <2>1
  <1> HIDE DEF g
  <1>7. queued' \in [Processes -> Nat] /\ \A p \in Processes : queued[p] > 0 => queued'[p] > 0
    BY <1>1, <1>2, <1>4 DEF TypeOK, Enqueue
  <1>8. TypeOK'
    <2>1. inflight' \subseteq (1 .. stamped') \X Processes \X BOOLEAN
      BY <1>1, <1>2, <1>6 DEF TypeOK
    <2> QED BY <1>1, <1>2, <1>5, <1>7, <2>1 DEF TypeOK
  <1>9. \A h \in inflight' : \E e \in inflight : e[1] = h[1] BY <1>2, <1>6
  <1>10. OneAppendEach' BY <1>1, <1>2, <1>6 DEF OneAppendEach
  <1>11. ReadsAreHonest' /\ BatchesAreNext' BY <1>2, <1>7, JobsStay
  <1>12. EnoughAreDue' BY <1>1, <1>2, <1>4, <1>5, EnqueuedIsDue DEF EnoughAreDue
  <1> QED BY <1>2, <1>8, <1>9, <1>10, <1>11, <1>12, ThreadStays

LEMMA AppendFailsKeeps == ASSUME ThreadInv, NEW f \in inflight, AppendFails(f) PROVE ThreadInv'
  <1> USE LimitsAssumption
  <1>1. TypeOK /\ OneAppendEach /\ IsFiniteSet(Due) BY DEF ThreadInv, EnoughAreDue
  <1>2. /\ Fault /\ inflight' = inflight \ {f} /\ (queued' = queued \/ queued' = Enqueue(f[2]))
        /\ stamped' = stamped /\ turns' = turns /\ summary' = summary /\ job' = job
    BY DEF AppendFails
  <1>3. f[2] \in Processes BY <1>1 DEF TypeOK
  <1>4. faults' # 0 /\ faults' \in 0 .. (MaxFaults + 1) BY <1>1, <1>2, FaultIsCounted
  <1>5. queued' \in [Processes -> Nat] /\ \A p \in Processes : queued[p] > 0 => queued'[p] > 0
    BY <1>1, <1>2, <1>3 DEF TypeOK, Enqueue
  <1>6. TypeOK'
    <2>1. inflight' \subseteq (1 .. stamped') \X Processes \X BOOLEAN BY <1>1, <1>2 DEF TypeOK
    <2> QED BY <1>1, <1>2, <1>4, <1>5, <2>1 DEF TypeOK
  <1>7. \A h \in inflight' : \E e \in inflight : e[1] = h[1] BY <1>2
  <1>8. OneAppendEach' BY <1>1, <1>2 DEF OneAppendEach
  <1>9. ReadsAreHonest' /\ BatchesAreNext' BY <1>2, <1>5, JobsStay
  <1>10. EnoughAreDue'
    <2>1. CASE queued' = queued
      <3>1. Due' = Due BY <2>1 DEF Due
      <3> QED BY <1>1, <1>4, <3>1 DEF EnoughAreDue
    <2>2. CASE queued' = Enqueue(f[2])
      BY <1>1, <1>3, <1>4, <2>2, EnqueuedIsDue DEF EnoughAreDue
    <2> QED BY <1>2, <2>1, <2>2
  <1> QED BY <1>2, <1>6, <1>7, <1>8, <1>9, <1>10, ThreadStays

LEMMA JobFailsKeeps ==
    ASSUME ThreadInv, NEW p \in Processes, JobFails(p) \/ SaveConflict(p)
    PROVE  ThreadInv'
  <1> USE LimitsAssumption
  <1>1. TypeOK /\ OneAppendEach BY DEF ThreadInv
  <1>2. /\ job[p].phase # "idle" /\ job' = [job EXCEPT ![p] = NoJob]
        /\ queued' = [queued EXCEPT ![p] = @ - 1]
        /\ inflight' = inflight /\ stamped' = stamped /\ turns' = turns /\ summary' = summary
    BY DEF JobFails, SaveConflict, EndJob
  <1>3. faults' # 0 /\ faults' \in 0 .. (MaxFaults + 1)
    <2>1. CASE JobFails(p) BY <1>1, <2>1, FaultIsCounted DEF JobFails
    <2>2. CASE SaveConflict(p) BY <1>1, <2>2 DEF SaveConflict, TypeOK
    <2> QED BY <2>1, <2>2
  <1>4. /\ job' \in [Processes -> Job] /\ queued' \in [Processes -> Nat]
        /\ \A q \in Processes : Cardinality(job'[q].batch) <= BatchLimit
        /\ IsFiniteSet(Due') /\ ReadsAreHonest' /\ BatchesAreNext'
    BY <1>2, JobEnds
  <1>5. TypeOK' BY <1>1, <1>2, <1>3, <1>4 DEF TypeOK
  <1>6. OneAppendEach' BY <1>1, <1>2 DEF OneAppendEach
  <1>7. EnoughAreDue' BY <1>3, <1>4 DEF EnoughAreDue
  <1>8. \A h \in inflight' : \E e \in inflight : e[1] = h[1] BY <1>2
  <1> QED BY <1>2, <1>4, <1>5, <1>6, <1>7, <1>8, ThreadStays

LEMMA CrashKeeps == ASSUME ThreadInv, NEW p \in Processes, Crash(p) PROVE ThreadInv'
  <1> USE LimitsAssumption
  <1>1. TypeOK /\ OneAppendEach /\ IsFiniteSet(Due) BY DEF ThreadInv, EnoughAreDue
  <1>2. /\ Fault /\ inflight' = {f \in inflight : f[2] # p} /\ queued' = [queued EXCEPT ![p] = 0]
        /\ job' = [job EXCEPT ![p] = NoJob]
        /\ stamped' = stamped /\ turns' = turns /\ summary' = summary
    BY DEF Crash
  <1>3. faults' # 0 /\ faults' \in 0 .. (MaxFaults + 1) BY <1>1, <1>2, FaultIsCounted
  <1>4. NoJob \in Job /\ NoJob.batch = {} /\ NoJob.phase = "idle"
    BY DEF NoJob, Job, NoSummary, Summary
  <1>5. queued \in [Processes -> Nat] /\ job \in [Processes -> Job] BY <1>1 DEF TypeOK
  <1>6. \A q \in Processes : /\ job'[q] = IF q = p THEN NoJob ELSE job[q]
                             /\ queued'[q] = IF q = p THEN 0 ELSE queued[q]
    BY <1>2, <1>5
  <1>7. TypeOK'
    <2>1. job' \in [Processes -> Job] /\ queued' \in [Processes -> Nat] BY <1>2, <1>4, <1>5
    <2>2. Cardinality({}) <= BatchLimit BY FS_EmptySet
    <2>3. \A q \in Processes : Cardinality(job'[q].batch) <= BatchLimit
      BY <1>1, <1>4, <1>6, <2>2 DEF TypeOK
    <2>4. inflight' \subseteq (1 .. stamped') \X Processes \X BOOLEAN BY <1>1, <1>2 DEF TypeOK
    <2> QED BY <1>1, <1>2, <1>3, <2>1, <2>3, <2>4 DEF TypeOK
  <1>8. OneAppendEach' BY <1>1, <1>2 DEF OneAppendEach
  <1>9. ReadsAreHonest' BY <1>2, <1>4, <1>6 DEF ThreadInv, ReadsAreHonest
  <1>10. BatchesAreNext'
    <2> SUFFICES ASSUME NEW q \in Processes
                 PROVE  /\ job'[q].phase # "writing" => job'[q].batch = {}
                        /\ job'[q].phase = "writing" =>
                            /\ job'[q].batch # {}
                            /\ job'[q].batch \subseteq Pending(job'[q].previous.through)
                            /\ \A t \in job'[q].batch, u \in turns :
                                  u > job'[q].previous.through /\ u <= t => u \in job'[q].batch
      BY <1>2 DEF BatchesAreNext, Pending, Expired
    <2>1. CASE q = p BY <1>4, <1>6, <2>1
    <2>2. CASE q # p BY <1>6, <2>2 DEF ThreadInv, BatchesAreNext
    <2> QED BY <2>1, <2>2
  <1>11. EnoughAreDue'
    <2>1. \A q \in Processes, n \in Nat \ {0} : n <= queued'[q] => n <= queued[q]
      BY <1>5, <1>6
    <2>2. Due' \in SUBSET Due BY <2>1 DEF Due
    <2> QED BY <1>1, <1>3, <2>2, FS_Subset DEF EnoughAreDue
  <1>12. \A h \in inflight' : \E e \in inflight : e[1] = h[1] BY <1>2
  <1> QED BY <1>2, <1>7, <1>8, <1>9, <1>10, <1>11, <1>12, ThreadStays

LEMMA ReadSummaryKeeps == ASSUME ThreadInv, NEW p \in Processes, ReadSummary(p) PROVE ThreadInv'
  <1> USE LimitsAssumption
  <1> DEFINE started == [NoJob EXCEPT !.phase = "reading", !.previous = summary]
  <1>1. TypeOK /\ OneAppendEach BY DEF ThreadInv
  <1>2. /\ queued[p] > 0 /\ job' = [job EXCEPT ![p] = started]
        /\ stamped' = stamped /\ inflight' = inflight /\ turns' = turns /\ summary' = summary
        /\ queued' = queued /\ faults' = faults
    BY DEF ReadSummary
  <1>3. NoJob \in Job /\ NoJob.batch = {} BY DEF NoJob, Job, NoSummary, Summary
  <1>4. started \in Job /\ started.phase = "reading" /\ started.previous = summary
        /\ started.batch = {}
    BY <1>1, <1>3 DEF TypeOK, Job
  <1> HIDE DEF started
  <1>5. job \in [Processes -> Job] BY <1>1 DEF TypeOK
  <1>6. \A q \in Processes : job'[q] = IF q = p THEN started ELSE job[q] BY <1>2, <1>5
  <1>7. TypeOK'
    <2>1. job' \in [Processes -> Job] BY <1>2, <1>4, <1>5
    <2>2. Cardinality({}) <= BatchLimit BY FS_EmptySet
    <2>3. \A q \in Processes : Cardinality(job'[q].batch) <= BatchLimit
      BY <1>1, <1>4, <1>6, <2>2 DEF TypeOK
    <2> QED BY <1>1, <1>2, <2>1, <2>3 DEF TypeOK
  <1>8. summary.through \in Nat BY <1>1 DEF TypeOK, Summary
  <1>9. ReadsAreHonest' BY <1>2, <1>4, <1>6, <1>8 DEF ThreadInv, ReadsAreHonest
  <1>10. BatchesAreNext'
    <2> SUFFICES ASSUME NEW q \in Processes
                 PROVE  /\ job'[q].phase # "writing" => job'[q].batch = {}
                        /\ job'[q].phase = "writing" =>
                            /\ job'[q].batch # {}
                            /\ job'[q].batch \subseteq Pending(job'[q].previous.through)
                            /\ \A t \in job'[q].batch, u \in turns :
                                  u > job'[q].previous.through /\ u <= t => u \in job'[q].batch
      BY <1>2 DEF BatchesAreNext, Pending, Expired
    <2>1. CASE q = p BY <1>4, <1>6, <2>1
    <2>2. CASE q # p BY <1>6, <2>2 DEF ThreadInv, BatchesAreNext
    <2> QED BY <2>1, <2>2
  <1>11. EnoughAreDue'
    <2>1. Due' = Due BY <1>2 DEF Due
    <2>2. Pending(summary.through)' = Pending(summary.through) BY <1>2 DEF Pending, Expired
    <2> QED BY <1>2, <2>1, <2>2 DEF ThreadInv, EnoughAreDue
  <1>12. OneAppendEach' BY <1>1, <1>2 DEF OneAppendEach
  <1>13. \A h \in inflight' : \E e \in inflight : e[1] = h[1] BY <1>2
  <1> QED BY <1>2, <1>7, <1>9, <1>10, <1>11, <1>12, <1>13, ThreadStays

\* A job finds nothing to fold, or takes what follows the summary it has read.
LEMMA ReadTurnsKeeps == ASSUME ThreadInv, NEW p \in Processes, ReadTurns(p) PROVE ThreadInv'
  <1> USE LimitsAssumption
  <1> DEFINE through == job[p].previous.through
             batch == Oldest(Pending(through))
             writing == [job[p] EXCEPT !.phase = "writing", !.batch = batch]
  <1>1. TypeOK /\ OneAppendEach BY DEF ThreadInv
  <1>2. /\ job[p].phase = "reading"
        /\ stamped' = stamped /\ inflight' = inflight /\ turns' = turns /\ summary' = summary
        /\ faults' = faults
        /\ batch = {} => job' = [job EXCEPT ![p] = NoJob] /\ queued' = [queued EXCEPT ![p] = @ - 1]
        /\ batch # {} => job' = [job EXCEPT ![p] = writing] /\ queued' = queued
    BY DEF ReadTurns, EndJob
  <1>3. through \in Nat /\ job[p] \in Job /\ summary.through \in Nat
    BY <1>1 DEF TypeOK, Job, Summary
  <1>4. turns \in SUBSET Nat /\ IsFiniteSet(turns) /\ turns \subseteq Turns
        /\ Expired = Outside(turns) /\ IsFiniteSet(Expired) /\ Expired \in SUBSET Nat
        /\ \A n : Pending(n) = {t \in Outside(turns) : t > n}
    BY <1>1, TurnsAreFinite
  <1>5. Pending(through) \in SUBSET Expired BY DEF Pending
  <1>6. Pending(through) \in SUBSET Nat /\ IsFiniteSet(Pending(through))
    BY <1>4, <1>5, FS_Subset
  <1>7. /\ batch \in SUBSET Pending(through) /\ Cardinality(batch) <= BatchLimit
        /\ batch = {} => Pending(through) = {}
        /\ \A t \in batch, u \in Pending(through) : u <= t => u \in batch
    BY <1>6, OldestAreFirst
  <1>8. \A h \in inflight' : \E e \in inflight : e[1] = h[1] BY <1>2
  <1>9. OneAppendEach' BY <1>1, <1>2 DEF OneAppendEach
  <1>10. through <= summary.through BY <1>2 DEF ThreadInv, ReadsAreHonest
  <1>11. CASE batch = {}
    <2>1. job[p].phase # "idle" BY <1>2
    <2>2. /\ job' \in [Processes -> Job] /\ queued' \in [Processes -> Nat]
          /\ \A q \in Processes : Cardinality(job'[q].batch) <= BatchLimit
          /\ IsFiniteSet(Due') /\ Cardinality(Due') = Cardinality(Due) - 1
          /\ ReadsAreHonest' /\ BatchesAreNext'
      BY <1>2, <1>11, <2>1, JobEnds
    <2>3. TypeOK' BY <1>1, <1>2, <2>2 DEF TypeOK
    <2>4. Pending(summary.through)' = {}
      <3>1. \A t \in Expired : ~ (t > through) BY <1>7, <1>11 DEF Pending
      <3>2. \A t \in Expired : ~ (t > summary.through) BY <1>3, <1>4, <1>10, <3>1
      <3>3. Pending(summary.through) = {} BY <3>2 DEF Pending
      <3> QED BY <1>2, <3>3 DEF Pending, Expired
    <2>5. Cardinality(Due') \in Nat BY <2>2, FS_CardinalityType
    <2>6. Cardinality(Pending(summary.through)') <= Cardinality(Due')
      BY <2>4, <2>5, FS_EmptySet
    <2>7. EnoughAreDue' BY <1>2, <2>2, <2>6 DEF ThreadInv, EnoughAreDue
    <2> QED BY <1>2, <1>8, <1>9, <2>2, <2>3, <2>7, ThreadStays
  <1>12. CASE batch # {}
    <2>1. batch \in SUBSET Turns
      <3>1. Expired \subseteq turns BY DEF Expired
      <3> QED BY <1>4, <1>5, <1>7, <3>1
    <2> HIDE DEF batch
    <2>2. writing \in Job /\ writing.phase = "writing" /\ writing.batch = batch
          /\ writing.previous = job[p].previous
      BY <1>3, <2>1 DEF Job
    <2> HIDE DEF writing
    <2>3. job \in [Processes -> Job] BY <1>1 DEF TypeOK
    <2>4. \A q \in Processes : job'[q] = IF q = p THEN writing ELSE job[q]
      BY <1>2, <1>12, <2>3
    <2>5. TypeOK'
      <3>1. job' \in [Processes -> Job] BY <1>2, <1>12, <2>2, <2>3
      <3>2. \A q \in Processes : Cardinality(job'[q].batch) <= BatchLimit
        BY <1>1, <1>7, <2>2, <2>4 DEF TypeOK
      <3> QED BY <1>1, <1>2, <1>12, <3>1, <3>2 DEF TypeOK
    <2>6. ReadsAreHonest' BY <1>2, <1>12, <2>2, <2>4 DEF ThreadInv, ReadsAreHonest
    <2>7. BatchesAreNext'
      <3>1. \A t \in batch, u \in turns : u > through /\ u <= t => u \in batch
        <4> SUFFICES ASSUME NEW t \in batch, NEW u \in turns, u > through, u <= t
                     PROVE  u \in batch
          OBVIOUS
        <4>1. t \in Outside(turns) BY <1>4, <1>7
        <4>2. u \in Outside(turns) BY <1>4, <4>1, OutsideIsOld
        <4>3. u \in Pending(through) BY <1>4, <4>2
        <4> QED BY <1>7, <4>3
      <3> SUFFICES ASSUME NEW q \in Processes
                   PROVE  /\ job'[q].phase # "writing" => job'[q].batch = {}
                          /\ job'[q].phase = "writing" =>
                              /\ job'[q].batch # {}
                              /\ job'[q].batch \subseteq Pending(job'[q].previous.through)
                              /\ \A t \in job'[q].batch, u \in turns :
                                    u > job'[q].previous.through /\ u <= t => u \in job'[q].batch
        BY <1>2 DEF BatchesAreNext, Pending, Expired
      <3>2. CASE q = p
        <4>1. job'[q].phase = "writing" /\ job'[q].batch = batch
              /\ job'[q].previous.through = through
          BY <2>2, <2>4, <3>2
        <4> HIDE DEF through
        <4> QED BY <1>7, <1>12, <3>1, <4>1
      <3>3. CASE q # p BY <2>4, <3>3 DEF ThreadInv, BatchesAreNext
      <3> QED BY <3>2, <3>3
    <2>8. EnoughAreDue'
      <3>1. Due' = Due BY <1>2, <1>12 DEF Due
      <3>2. Pending(summary.through)' = Pending(summary.through) BY <1>2 DEF Pending, Expired
      <3> QED BY <1>2, <3>1, <3>2 DEF ThreadInv, EnoughAreDue
    <2> QED BY <1>2, <1>8, <1>9, <2>5, <2>6, <2>7, <2>8, ThreadStays
  <1> QED BY <1>11, <1>12

\* A summary is saved over the one its job has read: each turn of the batch goes in once.
LEMMA SaveKeeps == ASSUME ThreadInv, NEW p \in Processes, Save(p) PROVE ThreadInv'
  <1> USE LimitsAssumption
  <1> DEFINE previous == job[p].previous
             batch == job[p].batch
             saved == Continued(previous, batch)
             last == Last(batch)
  <1>1. TypeOK /\ OneAppendEach /\ FoldedOnce BY DEF ThreadInv
  <1>2. /\ job[p].phase = "writing" /\ summary.through = previous.through
        /\ summary' = saved /\ job' = [job EXCEPT ![p] = NoJob]
        /\ queued' = [queued EXCEPT ![p] = @ - 1]
        /\ stamped' = stamped /\ inflight' = inflight /\ turns' = turns /\ faults' = faults
    BY DEF Save, EndJob, Saveable
  <1>3. previous = summary BY <1>2 DEF ThreadInv, ReadsAreHonest
  <1>4. turns \in SUBSET Nat /\ IsFiniteSet(turns) /\ turns \subseteq Turns
        /\ Expired = Outside(turns) /\ IsFiniteSet(Expired) /\ Expired \in SUBSET Nat
        /\ \A n : Pending(n) = {t \in Outside(turns) : t > n}
    BY <1>1, TurnsAreFinite
  <1>5. /\ batch # {} /\ batch \subseteq Pending(summary.through)
        /\ \A t \in batch, u \in turns : u > summary.through /\ u <= t => u \in batch
    BY <1>2 DEF ThreadInv, BatchesAreNext
  <1>6. \A t \in batch : t \in Expired /\ t \in turns /\ t \in Nat /\ t > summary.through
    BY <1>4, <1>5 DEF Pending, Expired
  <1>7. batch \in SUBSET Nat /\ batch \in SUBSET Expired BY <1>6
  <1>8. IsFiniteSet(batch) BY <1>4, <1>7, FS_Subset
  <1>9. last \in batch /\ \A u \in batch : u <= last BY <1>5, <1>7, <1>8, LastIsThere
  <1>10. First(batch) \in batch BY <1>5, <1>7, <1>8, FirstIsThere
  <1>11. summary \in Summary /\ summary.through \in Nat BY <1>1 DEF TypeOK, Summary
  <1> HIDE DEF previous, batch, last
  <1>12. last \in Turns /\ First(batch) \in Turns BY <1>4, <1>6, <1>9, <1>10
  <1>13. saved \in Summary /\ saved.through = last
         /\ \A t \in Turns : saved.folded[t] = summary.folded[t] + IF t \in batch THEN 1 ELSE 0
    <2> DEFINE folded == [t \in Turns |-> previous.folded[t] + IF t \in batch THEN 1 ELSE 0]
               start == IF previous.through = 0 THEN First(batch) ELSE previous.from
    <2>1. saved = [from |-> start, through |-> last, folded |-> folded]
      BY DEF Continued, last
    <2>2. summary.folded \in [Turns -> Nat] /\ summary.from \in 0 .. MaxTurns
      BY <1>11 DEF Summary
    <2>3. folded \in [Turns -> Nat] BY <1>3, <2>2
    <2>4. \A t \in Turns : folded[t] = summary.folded[t] + IF t \in batch THEN 1 ELSE 0
      BY <1>3
    <2>5. start \in 0 .. MaxTurns /\ last \in 0 .. MaxTurns BY <1>3, <1>12, <2>2 DEF Turns
    <2> HIDE DEF folded, start
    <2> QED BY <2>1, <2>3, <2>4, <2>5 DEF Summary
  <1> HIDE DEF saved
  <1>14. summary.through < last /\ last \in Expired /\ last \in Nat BY <1>6, <1>9
  <1>15. job[p].phase # "idle" BY <1>2
  <1>16. /\ job' \in [Processes -> Job] /\ queued' \in [Processes -> Nat]
         /\ \A q \in Processes : Cardinality(job'[q].batch) <= BatchLimit
         /\ IsFiniteSet(Due') /\ Cardinality(Due') = Cardinality(Due) - 1
         /\ Cardinality(Due) \in Nat
    BY <1>2, <1>15, JobEnds
  <1>17. TypeOK' BY <1>1, <1>2, <1>13, <1>16 DEF TypeOK
  <1>18. FoldedOnce'
    <2> SUFFICES ASSUME NEW t \in Turns
                 PROVE  saved.folded[t] = IF t \in turns /\ t <= last THEN 1 ELSE 0
      BY <1>2, <1>13 DEF FoldedOnce
    <2>1. t \in Nat BY DEF Turns
    <2>2. saved.folded[t] = summary.folded[t] + IF t \in batch THEN 1 ELSE 0 BY <1>13
    <2>3. summary.folded[t] = IF t \in turns /\ t <= summary.through THEN 1 ELSE 0
      BY <1>1 DEF FoldedOnce
    <2>4. CASE t \in batch BY <1>6, <1>9, <1>11, <2>1, <2>2, <2>3, <2>4
    <2>5. CASE t \notin batch
      <3>1. t \in turns /\ t <= last <=> t \in turns /\ t <= summary.through
        BY <1>5, <1>9, <1>11, <1>14, <2>1, <2>5
      <3> QED BY <2>2, <2>3, <2>5, <3>1
    <2> QED BY <2>4, <2>5
  <1>19. NotOvertaken' BY <1>2 DEF ThreadInv, NotOvertaken
  <1>20. OneAppendEach' BY <1>1, <1>2 DEF OneAppendEach
  <1>21. job \in [Processes -> Job] /\ queued \in [Processes -> Nat] BY <1>1 DEF TypeOK
  <1>22. NoJob.phase = "idle" /\ NoJob.batch = {} BY DEF NoJob
  <1>23. \A q \in Processes : /\ job'[q] = IF q = p THEN NoJob ELSE job[q]
                              /\ q # p => queued'[q] = queued[q]
    BY <1>2, <1>21
  <1>24. ReadsAreHonest'
    <2>1. \A q \in Processes : job[q].phase # "idle" => job[q].previous.through < last
      <3>1. \A q \in Processes : job[q].previous.through \in Nat
        BY <1>21 DEF Job, Summary
      <3> QED BY <1>11, <1>14, <3>1 DEF ThreadInv, ReadsAreHonest
    <2>2. \A q \in Processes : job[q].previous.through \in Nat BY <1>21 DEF Job, Summary
    <2> SUFFICES ASSUME NEW q \in Processes, job'[q].phase # "idle"
                 PROVE  /\ queued'[q] > 0 /\ job'[q].previous.through <= last
                        /\ job'[q].previous.through # last
      BY <1>2, <1>13 DEF ReadsAreHonest
    <2>3. q # p BY <1>22, <1>23
    <2> QED BY <1>14, <1>23, <2>1, <2>2, <2>3 DEF ThreadInv, ReadsAreHonest
  <1>25. BatchesAreNext'
    <2> SUFFICES ASSUME NEW q \in Processes
                 PROVE  /\ job'[q].phase # "writing" => job'[q].batch = {}
                        /\ job'[q].phase = "writing" =>
                            /\ job'[q].batch # {}
                            /\ job'[q].batch \subseteq Pending(job'[q].previous.through)
                            /\ \A t \in job'[q].batch, u \in turns :
                                  u > job'[q].previous.through /\ u <= t => u \in job'[q].batch
      BY <1>2 DEF BatchesAreNext, Pending, Expired
    <2>1. CASE q = p BY <1>22, <1>23, <2>1
    <2>2. CASE q # p BY <1>23, <2>2 DEF ThreadInv, BatchesAreNext
    <2> QED BY <2>1, <2>2
  <1>26. SummaryIsOutside'
    <2>1. Expired' = Expired BY <1>2 DEF Expired
    <2> QED BY <1>2, <1>13, <1>14, <2>1 DEF SummaryIsOutside
  <1>27. EnoughAreDue'
    <2> DEFINE before == Pending(summary.through)
               after == {t \in Expired : t > last}
    <2>1. IsFiniteSet(before) /\ Cardinality(before) \in Nat
      <3>1. before \in SUBSET Expired BY DEF Pending
      <3> QED BY <1>4, <3>1, FS_Subset, FS_CardinalityType
    <2>2. last \in before BY <1>14 DEF Pending
    <2>3. after \in SUBSET (before \ {last})
      <3>1. \A t \in Expired : t \in Nat BY <1>4
      <3>2. \A t \in Expired : t > last => t > summary.through /\ t # last
        BY <1>11, <1>14, <3>1
      <3> QED BY <3>2 DEF Pending
    <2>4. Pending(summary.through)' = after BY <1>2, <1>13 DEF Pending, Expired
    <2> HIDE DEF before, after
    <2>5. IsFiniteSet(before \ {last}) /\ Cardinality(before \ {last}) = Cardinality(before) - 1
      BY <2>1, <2>2, FS_RemoveElement
    <2>6. Cardinality(after) <= Cardinality(before \ {last}) BY <2>3, <2>5, FS_Subset
    <2>7. Cardinality(after) \in Nat BY <2>3, <2>5, FS_Subset, FS_CardinalityType
    <2>8. ASSUME faults = 0 PROVE Cardinality(after) <= Cardinality(Due')
      <3>1. Cardinality(before) <= Cardinality(Due)
        BY <2>8 DEF ThreadInv, EnoughAreDue, before
      <3> QED BY <1>16, <2>1, <2>5, <2>6, <2>7, <3>1
    <2> QED BY <1>2, <1>16, <2>4, <2>8 DEF ThreadInv, EnoughAreDue
  <1> QED BY <1>17, <1>18, <1>19, <1>20, <1>24, <1>25, <1>26, <1>27 DEF ThreadInv

\* Every step of a thread.
LEMMA ThreadKeeps == ASSUME ThreadInv, [Next]_vars PROVE ThreadInv'
  <1>1. CASE UNCHANGED vars
    <2>1. /\ stamped' = stamped /\ inflight' = inflight /\ turns' = turns /\ summary' = summary
          /\ queued' = queued /\ job' = job /\ faults' = faults
      BY <1>1 DEF vars
    <2>2. TypeOK' /\ OneAppendEach' BY <2>1 DEF ThreadInv, TypeOK, OneAppendEach
    <2>3. ReadsAreHonest' /\ BatchesAreNext' BY <2>1, JobsStay
    <2>4. Due' = Due BY <2>1 DEF Due
    <2>5. Pending(summary.through)' = Pending(summary.through) BY <2>1 DEF Pending, Expired
    <2>6. EnoughAreDue' BY <2>1, <2>4, <2>5 DEF ThreadInv, EnoughAreDue
    <2> QED BY <2>1, <2>2, <2>3, <2>6, ThreadStays
  <1>2. ASSUME NEW p \in Processes, Stamp(p) \/ JobStep(p) \/ JobFails(p) \/ Crash(p)
        PROVE  ThreadInv'
    BY <1>2, StampKeeps, ReadSummaryKeeps, ReadTurnsKeeps, SaveKeeps, JobFailsKeeps, CrashKeeps
       DEF JobStep
  <1>3. ASSUME NEW f \in inflight, AppendTurn(f) \/ StopWaiting(f) \/ AppendFails(f)
        PROVE  ThreadInv'
    BY <1>3, AppendKeeps, StopWaitingKeeps, AppendFailsKeeps
  <1> QED BY <1>1, <1>2, <1>3 DEF Next

\* What the invariant promises: nothing of the window is folded, and nothing outside it waits
\* when the compactions are done.
LEMMA ThreadIsFaithful == ASSUME ThreadInv PROVE SummaryIsFaithful
  <1>1. FoldedOnce BY DEF ThreadInv
  <1>2. WindowKept
    <2>1. summary.through > 0 => Cardinality(Later(summary.through, turns)) >= RecentLimit
      BY DEF ThreadInv, SummaryIsOutside, Expired
    <2>2. ASSUME NEW p \in Processes, NEW t \in Turns, t \in job[p].batch
          PROVE  Cardinality(Later(t, turns)) >= RecentLimit
      BY <2>2 DEF ThreadInv, BatchesAreNext, Pending, Expired
    <2> QED BY <2>1, <2>2 DEF WindowKept
  <1>3. CaughtUp
    <2> SUFFICES ASSUME faults = 0, \A p \in Processes : queued[p] = 0
                 PROVE  Pending(summary.through) = {}
      BY DEF CaughtUp
    <2>1. Due = {} BY DEF Due
    <2>2. Cardinality(Pending(summary.through)) <= 0
      BY <2>1, FS_EmptySet DEF ThreadInv, EnoughAreDue
    <2>3. TypeOK BY DEF ThreadInv
    <2>4. IsFiniteSet(Expired) BY <2>3, TurnsAreFinite
    <2>5. Pending(summary.through) \in SUBSET Expired BY DEF Pending
    <2>6. IsFiniteSet(Pending(summary.through)) /\ Cardinality(Pending(summary.through)) \in Nat
      BY <2>4, <2>5, FS_Subset, FS_CardinalityType
    <2> QED BY <2>2, <2>6, FS_EmptySet
  <1> QED BY <1>1, <1>2, <1>3 DEF SummaryIsFaithful, EachTurnHasItsPlace

\* Every turn of a thread is folded into its summary once, when it leaves the window, and none
\* is forgotten while nothing goes wrong.
THEOREM SummariesStayFaithful == AllSpec => []SummaryIsFaithful
  <1>1. AllInit => ThreadInv BY ThreadStarts DEF AllInit
  <1>2. ThreadInv /\ [AllNext]_all => ThreadInv'
    <2> SUFFICES ASSUME ThreadInv, [AllNext]_all PROVE ThreadInv' OBVIOUS
    <2>1. [Next]_vars BY OnePartMoves
    <2> QED BY <2>1, ThreadKeeps
  <1>3. ThreadInv => SummaryIsFaithful BY ThreadIsFaithful
  <1> QED BY <1>1, <1>2, <1>3, PTL DEF AllSpec

-----------------------------------------------------------------------------
(* Multiples                                                               *)

\* A number is a multiple and a rest in one way.
LEMMA MultipleAndRest ==
    ASSUME NEW x \in Int, NEW m \in Int, m > 0 PROVE x = (x \div m) * m + (x % m)
  OBVIOUS

LEMMA RestIsSmall ==
    ASSUME NEW x \in Int, NEW m \in Int, m > 0 PROVE x \div m \in Int /\ x % m \in 0 .. m - 1
  <1>1. x \div m \in Int OBVIOUS
  <1>2. x % m \in 0 .. m - 1 OBVIOUS
  <1> QED BY <1>1, <1>2

LEMMA OneMultiple ==
    ASSUME NEW m \in Int, m > 0, NEW q \in Int, NEW r \in 0 .. m - 1,
           NEW x \in Int, x = q * m + r
    PROVE  x \div m = q /\ x % m = r
  <1> DEFINE k == x \div m
             s == x % m
  <1>1. k \in Int /\ s \in 0 .. m - 1 /\ x = k * m + s BY MultipleAndRest, RestIsSmall
  <1> HIDE DEF k, s
  <1>2. ASSUME NEW a \in Int, NEW b \in Int, a < b PROVE a * m + m <= b * m
    <2>1. b - a - 1 >= 0 BY <1>2
    <2>2. (b - a - 1) * m >= 0 BY <2>1
    <2> QED BY <2>2
  <1>3. ~ (k < q)
    <2> SUFFICES ASSUME k < q PROVE FALSE OBVIOUS
    <2>1. k * m + m <= q * m BY <1>1, <1>2
    <2>2. k * m \in Int /\ q * m \in Int BY <1>1
    <2> QED BY <1>1, <2>1, <2>2
  <1>4. ~ (q < k)
    <2> SUFFICES ASSUME q < k PROVE FALSE OBVIOUS
    <2>1. q * m + m <= k * m BY <1>1, <1>2
    <2>2. k * m \in Int /\ q * m \in Int BY <1>1
    <2> QED BY <1>1, <2>1, <2>2
  <1>5. k = q BY <1>1, <1>3, <1>4
  <1>6. s = r BY <1>1, <1>5
  <1> QED BY <1>5, <1>6 DEF k, s

\* A set of numbers has a least one.
LEMMA LeastIsThere ==
    ASSUME NEW X \in SUBSET Nat, X # {}
    PROVE  \E m \in X : \A u \in X : m <= u
  <1>1. PICK n \in X : TRUE OBVIOUS
  <1> DEFINE T == {t \in X : t <= n}
  <1>2. T \in SUBSET Nat /\ n \in Nat /\ n \in T
    <2>1. n \in Nat /\ n <= n BY <1>1
    <2> QED BY <2>1
  <1>3. IsFiniteSet(T) BY <1>2, FS_BoundedSetOfNaturals
  <1>4. First(T) \in T /\ Earlier(First(T), T) = {}
    <2> HIDE DEF T
    <2> QED BY <1>2, <1>3, FirstIsThere
  <1>5. ASSUME NEW u \in X PROVE First(T) <= u
    <2>1. First(T) \in Nat /\ First(T) <= n /\ u \in Nat BY <1>2, <1>4
    <2>2. CASE u <= n
      <3>1. u \in T BY <2>2
      <3>2. ~ (u < First(T)) BY <1>4, <3>1 DEF Earlier
      <3> QED BY <2>1, <3>2
    <2>3. CASE ~ (u <= n) BY <1>2, <2>1, <2>3
    <2> QED BY <2>2, <2>3
  <1> QED BY <1>4, <1>5

-----------------------------------------------------------------------------
(* The rules of the scheduler and their ledger                             *)

\* A rule that is stored fires at the time of day it was set to.
Follows(r) == r \in S!Rule /\ (r.state # "absent" => r.next % Period = r.slot)

\* So does every copy of a rule that somebody has read and may write back.
RulesFollow ==
    /\ S!TypeOK
    /\ \A s \in Schedules : Follows(schedules[s])
    /\ \A d \in tick.due : Follows(d.rule) /\ d.rule.state # "absent"
    /\ Follows(tick.rule) /\ Follows(edit.rule)
    /\ edit.phase = "read" => edit.id \in Schedules /\ edit.rule.state # "absent"
    /\ tick.phase = "disarming" => tick.rule.state # "absent"
    /\ tick.phase \in {"idle", "claiming"} => tick.batch = {}
    /\ tick.phase \in {"sending", "disarm", "disarming", "completing", "failing"} => tick.batch # {}

\* The phases in which the fire that is taken, if there is one, is not sent yet.
Waiting == {"idle", "claiming", "running", "sending"}

\* A fire that waits was sent once for every interruption at most; the tick may be about to
\* complete the one it runs, after it was sent once more.
SendsAreCounted ==
    /\ \A f \in S!Fires :
           /\ fires[f].status = "none" => sent[f] = 0
           /\ sent[f] <= 1 + interruptions
           /\ fires[f].status = "pending" => \/ sent[f] <= interruptions
                                             \/ /\ tick.batch # {} /\ f = S!Current
                                                /\ tick.phase \notin Waiting
    /\ tick.phase \in Waiting => \A f \in tick.batch : fires[f].status = "pending"
    /\ \A f \in tick.batch : f # S!Current => fires[f].status = "pending"

LEMMA NextFireHasSlot ==
    ASSUME ScheduleSensible, NEW t \in Nat, NEW slot \in S!Slots
    PROVE  S!NextFireAt(t, slot) \in Nat /\ S!NextFireAt(t, slot) % Period = slot
  <1>1. Period \in Int /\ Period > 0 /\ slot \in 0 .. Period - 1 /\ slot \in Nat
    BY DEF ScheduleSensible, S!Slots
  <1> DEFINE q == t \div Period
  <1>2. q \in Int BY <1>1, RestIsSmall
  <1>3. q >= 0
    <2> SUFFICES ASSUME q < 0 PROVE FALSE BY <1>2
    <2>1. t = q * Period + (t % Period) /\ t % Period \in 0 .. Period - 1
      BY <1>1, MultipleAndRest, RestIsSmall
    <2>2. (-1 - q) * Period >= 0
      <3> HIDE DEF q
      <3>1. -1 - q >= 0 BY <1>2
      <3> QED BY <1>1, <1>2, <3>1
    <2>3. q * Period <= - Period
      <3> HIDE DEF q
      <3> QED BY <1>1, <1>2, <2>2
    <2>4. q * Period \in Int BY <1>1, <1>2
    <2> HIDE DEF q
    <2> QED BY <1>1, <2>1, <2>3, <2>4
  <1>4. S!NextFireAt(t, slot) = q * Period + slot
        \/ S!NextFireAt(t, slot) = q * Period + slot + Period
    BY DEF S!NextFireAt, S!Day
  <1> HIDE DEF q
  <1>5. q * Period \in Nat /\ (q + 1) * Period = q * Period + Period BY <1>1, <1>2, <1>3
  <1>6. CASE S!NextFireAt(t, slot) = q * Period + slot
    <2>1. S!NextFireAt(t, slot) \in Nat BY <1>1, <1>5, <1>6
    <2>2. q \in Int /\ S!NextFireAt(t, slot) \in Int BY <1>2, <2>1
    <2>3. S!NextFireAt(t, slot) % Period = slot BY <1>1, <1>6, <2>2, OneMultiple
    <2> QED BY <2>1, <2>3
  <1>7. CASE S!NextFireAt(t, slot) = q * Period + slot + Period
    <2>1. S!NextFireAt(t, slot) \in Nat BY <1>1, <1>5, <1>7
    <2>2. S!NextFireAt(t, slot) = (q + 1) * Period + slot BY <1>1, <1>5, <1>7
    <2> QED BY <1>1, <1>2, <2>1, <2>2, OneMultiple
  <1> QED BY <1>4, <1>6, <1>7

\* A batch has a first fire, which is the one being run.
LEMMA CurrentIsThere ==
    ASSUME ScheduleSensible, S!TypeOK, tick.batch # {}
    PROVE  S!Current \in tick.batch /\ S!Current \in S!Fires
  <1> DEFINE waiting == tick.batch
  <1>1. tick \in S!Tick /\ fires \in [S!Fires -> S!Fire] BY DEF S!TypeOK
  <1>2. waiting \in SUBSET S!Fires BY <1>1 DEF S!Tick
  <1>3. \A f \in waiting : /\ f \in Schedules \X (0 .. MaxClock) /\ f[1] \in Nat /\ f[2] \in Nat
                     /\ f = <<f[1], f[2]>> /\ fires[f].created \in Nat
    BY <1>1, <1>2 DEF S!Fires, S!Fire, ScheduleSensible
  <1> HIDE DEF waiting
  <1>4. waiting # {} BY DEF waiting
  <1> DEFINE made == {fires[f].created : f \in waiting}
  <1>5. PICK c \in made : \A u \in made : c <= u
    <2>1. made \in SUBSET Nat /\ made # {} BY <1>3, <1>4
    <2> HIDE DEF made
    <2> QED BY <2>1, LeastIsThere
  <1> DEFINE B1 == {f \in waiting : fires[f].created = c}
             I == {f[1] : f \in B1}
  <1>6. PICK i \in I : \A u \in I : i <= u
    <2>1. I \in SUBSET Nat BY <1>3
    <2>2. I # {} BY <1>5
    <2> HIDE DEF I
    <2> QED BY <2>1, <2>2, LeastIsThere
  <1> DEFINE B2 == {f \in B1 : f[1] = i}
             T == {f[2] : f \in B2}
  <1>7. PICK t \in T : \A u \in T : t <= u
    <2>1. T \in SUBSET Nat BY <1>3
    <2>2. T # {} BY <1>6
    <2> HIDE DEF T
    <2> QED BY <2>1, <2>2, LeastIsThere
  <1>8. PICK f \in waiting : fires[f].created = c /\ f[1] = i /\ f[2] = t BY <1>7
  <1>9. ASSUME NEW g \in waiting, g # f PROVE S!Before(fires, f, g)
    <2>1. fires[f].created <= fires[g].created BY <1>5, <1>8
    <2>2. fires[g].created = c => f[1] <= g[1] BY <1>6, <1>8
    <2>3. fires[g].created = c /\ g[1] = i => f[2] <= g[2] BY <1>7, <1>8
    <2>4. ~ (g[1] = f[1] /\ g[2] = f[2]) BY <1>3, <1>9
    <2>5. /\ f[1] \in Nat /\ f[2] \in Nat /\ g[1] \in Nat /\ g[2] \in Nat
          /\ fires[f].created \in Nat /\ fires[g].created \in Nat
      BY <1>3
    <2> HIDE DEF made, B1, I, B2, T
    <2> QED BY <1>8, <2>1, <2>2, <2>3, <2>4, <2>5 DEF S!Before
  <1>10. S!Current \in waiting BY <1>9 DEF S!Current, waiting
  <1> QED BY <1>2, <1>10 DEF waiting

TickPhases == {"idle", "claiming", "running", "sending", "disarm", "disarming", "completing",
               "failing"}

LEMMA TickWithPhase ==
    ASSUME NEW t \in S!Tick, NEW ph \in TickPhases
    PROVE  /\ [t EXCEPT !.phase = ph] \in S!Tick
           /\ [t EXCEPT !.phase = ph].phase = ph /\ [t EXCEPT !.phase = ph].at = t.at
           /\ [t EXCEPT !.phase = ph].due = t.due /\ [t EXCEPT !.phase = ph].batch = t.batch
           /\ [t EXCEPT !.phase = ph].rule = t.rule
  BY DEF S!Tick, TickPhases

\* Nothing is claimed, read or run.
LEMMA NothingIsRunning ==
    ASSUME ScheduleSensible
    PROVE  /\ S!NoRule \in S!Rule /\ Follows(S!NoRule)
           /\ S!NoTick \in S!Tick /\ S!NoTick.phase = "idle" /\ S!NoTick.batch = {}
           /\ S!NoTick.due = {} /\ S!NoTick.rule = S!NoRule
           /\ S!NoEdit \in S!Edit /\ S!NoEdit.phase = "idle" /\ S!NoEdit.rule = S!NoRule
  <1>1. 0 \in S!Slots BY DEF S!Slots, ScheduleSensible
  <1>2. S!NoRule \in S!Rule /\ S!NoRule.state = "absent" BY <1>1 DEF S!NoRule, S!Rule
  <1>3. Follows(S!NoRule) BY <1>2 DEF Follows
  <1>4. /\ S!NoTick \in S!Tick /\ S!NoTick.phase = "idle" /\ S!NoTick.batch = {}
        /\ S!NoTick.due = {} /\ S!NoTick.rule = S!NoRule
    <2> HIDE DEF S!NoRule
    <2> QED BY <1>2 DEF S!NoTick, S!Tick
  <1>5. S!NoEdit \in S!Edit /\ S!NoEdit.phase = "idle" /\ S!NoEdit.rule = S!NoRule
    BY <1>2 DEF S!NoEdit, S!Edit
  <1> QED BY <1>2, <1>3, <1>4, <1>5

LEMMA SwitchedOffFollows ==
    ASSUME NEW r, Follows(r), r.state # "absent"
    PROVE  S!SwitchedOff(r) \in S!Rule /\ Follows(S!SwitchedOff(r))
  BY DEF Follows, S!SwitchedOff, S!Rule

\* Only the rules, or what is in flight, or nothing of either changes: what a step may leave
\* alone keeps its part.
LEMMA RulesStay ==
    ASSUME RulesFollow, clock' \in 0 .. MaxClock, schedules' = schedules,
           fires' \in [S!Fires -> S!Fire], sent' \in [S!Fires -> Nat],
           receipts' \subseteq S!Fires \X Nat, armings' = armings, interruptions' \in Nat,
           tick' \in S!Tick, \A d \in tick'.due : Follows(d.rule) /\ d.rule.state # "absent",
           Follows(tick'.rule), tick'.phase = "disarming" => tick'.rule.state # "absent",
           tick'.phase \in {"idle", "claiming"} => tick'.batch = {},
           tick'.phase \in {"sending", "disarm", "disarming", "completing", "failing"} =>
               tick'.batch # {},
           edit' \in S!Edit, Follows(edit'.rule),
           edit'.phase = "read" => edit'.id \in Schedules /\ edit'.rule.state # "absent"
    PROVE  RulesFollow'
  BY DEF RulesFollow, S!TypeOK

LEMMA ScheduleStarts ==
    ASSUME ScheduleSensible, AllInit
    PROVE  RulesFollow /\ SendsAreCounted
  <1>1. S!Init BY DEF AllInit
  <1>2. /\ clock = 0 /\ tick = S!NoTick /\ edit = S!NoEdit /\ receipts = {} /\ interruptions = 0
        /\ schedules = [s \in Schedules |-> S!NoRule] /\ fires = [f \in S!Fires |-> S!NoFire]
        /\ sent = [f \in S!Fires |-> 0] /\ armings = [s \in Schedules |-> 0]
    BY <1>1 DEF S!Init
  <1>3. S!NoFire \in S!Fire /\ S!NoFire.status = "none" BY DEF S!NoFire, S!Fire
  <1>4. S!TypeOK
    <2>1. clock \in 0 .. MaxClock BY <1>2 DEF ScheduleSensible
    <2> QED BY <1>2, <1>3, <2>1, NothingIsRunning DEF S!TypeOK
  <1>5. RulesFollow BY <1>2, <1>4, NothingIsRunning DEF RulesFollow
  <1>6. SendsAreCounted BY <1>2, <1>3, NothingIsRunning DEF SendsAreCounted, Waiting
  <1> QED BY <1>5, <1>6

\* Reading rules and running a fire write no rule: what is read follows its setting.
LEMMA ReadingKeepsRules ==
    ASSUME ScheduleSensible, RulesFollow,
           \/ S!ClaimRead \/ S!Suppress \/ S!Pass \/ S!Deliver \/ S!RunFails \/ S!DisarmRead
           \/ S!DisarmFails \/ S!TickEnds \/ S!Advance \/ \E s \in Schedules : S!DisableRead(s)
    PROVE  RulesFollow'
  <1>1. /\ clock \in 0 .. MaxClock /\ schedules \in [Schedules -> S!Rule]
        /\ fires \in [S!Fires -> S!Fire] /\ tick \in S!Tick /\ edit \in S!Edit
        /\ sent \in [S!Fires -> Nat] /\ receipts \subseteq S!Fires \X Nat /\ interruptions \in Nat
    BY DEF RulesFollow, S!TypeOK
  <1>2. Period \in Nat /\ Period > 0 /\ MaxClock \in Nat /\ clock \in Nat
    BY <1>1 DEF ScheduleSensible
  <1>3. CASE S!ClaimRead
    <2> DEFINE due == {[id |-> s, rule |-> schedules[s]] : s \in S!Due}
               claiming == [S!NoTick EXCEPT !.phase = "claiming", !.at = clock, !.due = due]
    <2>1. /\ tick' = claiming /\ clock' = clock /\ schedules' = schedules /\ fires' = fires
          /\ edit' = edit /\ sent' = sent /\ receipts' = receipts /\ armings' = armings
          /\ interruptions' = interruptions
      BY <1>3 DEF S!ClaimRead
    <2>2. due \in SUBSET [id : Schedules, rule : S!Rule] BY <1>1 DEF S!Due
    <2>3. \A d \in due : Follows(d.rule) /\ d.rule.state # "absent"
      BY DEF S!Due, RulesFollow
    <2> HIDE DEF due
    <2>4. claiming \in S!Tick
      <3>1. S!NoTick \in S!Tick BY NothingIsRunning
      <3> QED BY <1>2, <2>2, <3>1 DEF S!Tick
    <2>5. claiming.due = due /\ claiming.phase = "claiming" /\ claiming.batch = {}
          /\ claiming.rule = S!NoRule
      <3>1. S!NoTick \in S!Tick /\ S!NoTick.batch = {} /\ S!NoTick.rule = S!NoRule
        BY NothingIsRunning
      <3> QED BY <3>1 DEF S!Tick
    <2> HIDE DEF claiming
    <2>6. /\ Follows(edit'.rule)
          /\ edit'.phase = "read" => edit'.id \in Schedules /\ edit'.rule.state # "absent"
      BY <2>1 DEF RulesFollow
    <2>7. Follows(tick'.rule) BY <2>1, <2>5, NothingIsRunning
    <2> QED BY <1>1, <2>1, <2>3, <2>4, <2>5, <2>6, <2>7, RulesStay
  <1>4. CASE S!Suppress \/ S!Pass \/ S!Deliver \/ S!RunFails \/ S!DisarmFails
    <2>1. /\ clock' = clock /\ schedules' = schedules /\ fires' = fires /\ edit' = edit
          /\ armings' = armings /\ interruptions' = interruptions
      BY <1>4 DEF S!Suppress, S!Pass, S!Deliver, S!RunFails, S!DisarmFails
    <2>2. tick.batch # {}
      BY <1>4 DEF S!Suppress, S!Pass, S!Deliver, S!RunFails, S!DisarmFails, S!Running, RulesFollow
    <2>3. S!Current \in S!Fires BY <2>2, CurrentIsThere DEF RulesFollow
    <2>4. sent' \in [S!Fires -> Nat]
      BY <1>1, <1>4, <2>3 DEF S!Suppress, S!Pass, S!Deliver, S!RunFails, S!DisarmFails
    <2>5. receipts' \subseteq S!Fires \X Nat
      <3>1. S!Day(clock) \in Nat BY <1>2 DEF S!Day
      <3> QED BY <1>1, <1>4, <2>3, <3>1 DEF S!Suppress, S!Pass, S!Deliver, S!RunFails, S!DisarmFails
    <2>6. PICK ph \in {"sending", "disarm", "completing", "failing"} :
              \/ tick' = [tick EXCEPT !.phase = ph]
              \/ tick' = [tick EXCEPT !.phase = ph, !.rule = S!NoRule]
      BY <1>4 DEF S!Suppress, S!Pass, S!Deliver, S!RunFails, S!DisarmFails, S!AfterRun, S!AfterError
    <2>7. /\ tick' \in S!Tick /\ tick'.phase = ph /\ tick'.due = tick.due
          /\ tick'.batch = tick.batch /\ (tick'.rule = tick.rule \/ tick'.rule = S!NoRule)
      <3>1. ph \in TickPhases BY DEF TickPhases
      <3>2. CASE tick' = [tick EXCEPT !.phase = ph] BY <1>1, <3>1, <3>2, TickWithPhase
      <3>3. CASE tick' = [tick EXCEPT !.phase = ph, !.rule = S!NoRule]
        <4> DEFINE new == [tick EXCEPT !.phase = ph, !.rule = S!NoRule]
        <4>1. S!NoRule \in S!Rule BY NothingIsRunning
        <4>2. /\ new \in S!Tick /\ new.phase = ph /\ new.due = tick.due
              /\ new.batch = tick.batch /\ new.rule = S!NoRule
          BY <1>1, <4>1 DEF S!Tick
        <4>3. tick' = new BY <3>3
        <4> HIDE DEF new
        <4> QED BY <4>2, <4>3
      <3> QED BY <2>6, <3>2, <3>3
    <2>8. /\ Follows(edit'.rule)
          /\ edit'.phase = "read" => edit'.id \in Schedules /\ edit'.rule.state # "absent"
      BY <2>1 DEF RulesFollow
    <2>9. Follows(tick'.rule) BY <2>7, NothingIsRunning DEF RulesFollow
    <2>10. \A d \in tick'.due : Follows(d.rule) /\ d.rule.state # "absent"
      BY <2>7 DEF RulesFollow
    <2> QED BY <1>1, <2>1, <2>2, <2>4, <2>5, <2>7, <2>8, <2>9, <2>10, RulesStay
  <1>5. CASE S!DisarmRead
    <2> DEFINE f == S!Current
    <2>1. /\ clock' = clock /\ schedules' = schedules /\ fires' = fires /\ edit' = edit
          /\ sent' = sent /\ receipts' = receipts /\ armings' = armings
          /\ interruptions' = interruptions /\ tick.phase = "disarm"
          /\ tick' = IF schedules[f[1]].state = "enabled"
                     THEN [tick EXCEPT !.phase = "disarming", !.rule = schedules[f[1]]]
                     ELSE [tick EXCEPT !.phase = "completing"]
      BY <1>5 DEF S!DisarmRead
    <2>2. tick.batch # {} BY <2>1 DEF RulesFollow
    <2>3. f[1] \in Schedules
      <3>1. f \in S!Fires BY <2>2, CurrentIsThere DEF RulesFollow
      <3> QED BY <3>1 DEF S!Fires
    <2> HIDE DEF f
    <2>4. schedules[f[1]] \in S!Rule /\ Follows(schedules[f[1]]) BY <1>1, <2>3 DEF RulesFollow
    <2>5. \E ph \in {"disarming", "completing"} :
              /\ tick' \in S!Tick /\ tick'.phase = ph /\ tick'.due = tick.due
              /\ tick'.batch = tick.batch
              /\ tick'.rule = tick.rule \/ tick'.rule = schedules[f[1]]
              /\ ph = "disarming" => tick'.rule.state # "absent"
      <3>1. "disarming" \in TickPhases /\ "completing" \in TickPhases BY DEF TickPhases
      <3>2. CASE schedules[f[1]].state = "enabled"
        <4>1. tick' = [tick EXCEPT !.phase = "disarming", !.rule = schedules[f[1]]] BY <2>1, <3>2
        <4> DEFINE new == [tick EXCEPT !.phase = "disarming", !.rule = schedules[f[1]]]
        <4>2. /\ new \in S!Tick /\ new.phase = "disarming" /\ new.due = tick.due
              /\ new.batch = tick.batch /\ new.rule = schedules[f[1]]
              /\ new.rule.state # "absent"
          BY <1>1, <2>4, <3>2 DEF S!Tick
        <4>3. tick' = new BY <4>1
        <4> HIDE DEF new
        <4> QED BY <4>2, <4>3
      <3>3. CASE schedules[f[1]].state # "enabled"
        <4>1. tick' = [tick EXCEPT !.phase = "completing"] BY <2>1, <3>3
        <4> QED BY <1>1, <3>1, <4>1, TickWithPhase
      <3> QED BY <3>2, <3>3
    <2>6. /\ Follows(edit'.rule)
          /\ edit'.phase = "read" => edit'.id \in Schedules /\ edit'.rule.state # "absent"
      BY <2>1 DEF RulesFollow
    <2>7. Follows(tick'.rule) BY <2>4, <2>5 DEF RulesFollow
    <2>8. \A d \in tick'.due : Follows(d.rule) /\ d.rule.state # "absent"
      BY <2>5 DEF RulesFollow
    <2> QED BY <1>1, <2>1, <2>2, <2>5, <2>6, <2>7, <2>8, RulesStay
  <1>6. CASE S!TickEnds
    <2>1. /\ clock' = clock /\ schedules' = schedules /\ fires' = fires /\ edit' = edit
          /\ sent' = sent /\ receipts' = receipts /\ armings' = armings
          /\ interruptions' = interruptions /\ tick' = S!NoTick
      BY <1>6 DEF S!TickEnds
    <2>2. /\ Follows(edit'.rule)
          /\ edit'.phase = "read" => edit'.id \in Schedules /\ edit'.rule.state # "absent"
      BY <2>1 DEF RulesFollow
    <2> QED BY <1>1, <2>1, <2>2, NothingIsRunning, RulesStay
  <1>7. CASE S!Advance
    <2>1. /\ clock' = clock + 1 /\ clock < MaxClock /\ schedules' = schedules /\ fires' = fires
          /\ edit' = edit /\ sent' = sent /\ receipts' = receipts /\ armings' = armings
          /\ interruptions' = interruptions /\ tick' = tick
      BY <1>7 DEF S!Advance
    <2>2. clock' \in 0 .. MaxClock BY <1>1, <1>2, <2>1
    <2> QED BY <2>1, <2>2 DEF RulesFollow, S!TypeOK
  <1>8. ASSUME NEW s \in Schedules, S!DisableRead(s) PROVE RulesFollow'
    <2> DEFINE read == [phase |-> "read", id |-> s, rule |-> schedules[s]]
    <2>1. /\ clock' = clock /\ schedules' = schedules /\ fires' = fires /\ edit' = read
          /\ sent' = sent /\ receipts' = receipts /\ armings' = armings
          /\ interruptions' = interruptions /\ tick' = tick /\ schedules[s].state # "absent"
      BY <1>8 DEF S!DisableRead
    <2>2. read \in S!Edit /\ read.rule = schedules[s] /\ read.id = s
      BY <1>1 DEF S!Edit
    <2> HIDE DEF read
    <2>3. Follows(edit'.rule) /\ edit'.id \in Schedules /\ edit'.rule.state # "absent"
      BY <2>1, <2>2 DEF RulesFollow
    <2> QED BY <1>1, <2>1, <2>2, <2>3, RulesStay DEF RulesFollow
  <1> QED BY <1>3, <1>4, <1>5, <1>6, <1>7, <1>8

\* A fire is completed, or the tick is given up: no rule is written.
LEMMA CompletingKeepsRules ==
    ASSUME ScheduleSensible, RulesFollow,
           S!Complete \/ S!CompleteFails \/ S!CompleteFailed \/ S!TickAborts \/ S!Crash
    PROVE  RulesFollow'
  <1>1. /\ clock \in 0 .. MaxClock /\ schedules \in [Schedules -> S!Rule]
        /\ fires \in [S!Fires -> S!Fire] /\ tick \in S!Tick /\ edit \in S!Edit
        /\ sent \in [S!Fires -> Nat] /\ receipts \subseteq S!Fires \X Nat /\ interruptions \in Nat
    BY DEF RulesFollow, S!TypeOK
  <1>2. /\ clock' = clock /\ schedules' = schedules /\ sent' = sent /\ receipts' = receipts
        /\ armings' = armings
    BY DEF S!Complete, S!CompleteFails, S!CompleteFailed, S!TickAborts, S!Crash
  <1>3. interruptions' \in Nat
    BY <1>1 DEF S!Complete, S!CompleteFails, S!CompleteFailed, S!TickAborts, S!Crash
  <1>4. /\ edit' \in S!Edit /\ Follows(edit'.rule)
        /\ edit'.phase = "read" => edit'.id \in Schedules /\ edit'.rule.state # "absent"
    <2>1. edit' = edit \/ edit' = S!NoEdit
      BY DEF S!Complete, S!CompleteFails, S!CompleteFailed, S!TickAborts, S!Crash
    <2>2. CASE edit' = edit BY <1>1, <2>2 DEF RulesFollow
    <2>3. CASE edit' = S!NoEdit BY <2>3, NothingIsRunning
    <2> QED BY <2>1, <2>2, <2>3
  <1>5. fires' \in [S!Fires -> S!Fire]
    <2>1. fires' = fires \/ fires' = S!Completed(S!Current, "succeeded")
          \/ fires' = S!Completed(S!Current, "failed")
      BY DEF S!Complete, S!CompleteFails, S!CompleteFailed, S!TickAborts, S!Crash
    <2>2. ASSUME NEW f, NEW st \in {"succeeded", "failed"}
          PROVE  S!Completed(f, st) \in [S!Fires -> S!Fire]
      BY <1>1 DEF S!Completed, S!Fire
    <2> QED BY <1>1, <2>1, <2>2
  <1>6. /\ tick' \in S!Tick /\ Follows(tick'.rule)
        /\ tick'.phase = "disarming" => tick'.rule.state # "absent"
        /\ \A d \in tick'.due : Follows(d.rule) /\ d.rule.state # "absent"
        /\ tick'.phase \in {"idle", "claiming"} => tick'.batch = {}
        /\ tick'.phase \in {"sending", "disarm", "disarming", "completing", "failing"} =>
               tick'.batch # {}
    <2>1. CASE S!TickAborts \/ S!Crash
      <3>1. tick' = S!NoTick BY <2>1 DEF S!TickAborts, S!Crash
      <3> QED BY <3>1, NothingIsRunning
    <2>2. CASE S!CompleteFails
      <3> DEFINE new == [tick EXCEPT !.phase = "failing"]
      <3>1. "failing" \in TickPhases BY DEF TickPhases
      <3>2. tick' = new /\ tick.phase = "completing" BY <2>2 DEF S!CompleteFails
      <3>3. /\ new \in S!Tick /\ new.phase = "failing" /\ new.due = tick.due
            /\ new.batch = tick.batch /\ new.rule = tick.rule
        BY <1>1, <3>1, TickWithPhase
      <3> HIDE DEF new
      <3> QED BY <3>2, <3>3 DEF RulesFollow
    <2>3. CASE S!Complete \/ S!CompleteFailed
      <3> DEFINE rest == tick.batch \ {S!Current}
                 new == [tick EXCEPT !.phase = "running", !.batch = rest]
      <3>1. "running" \in TickPhases BY DEF TickPhases
      <3>2. tick' = new BY <2>3 DEF S!Complete, S!CompleteFailed, S!NextFire
      <3>3. rest \in SUBSET S!Fires BY <1>1 DEF S!Tick
      <3> HIDE DEF rest
      <3>4. /\ new \in S!Tick /\ new.phase = "running" /\ new.due = tick.due
            /\ new.rule = tick.rule
        BY <1>1, <3>3 DEF S!Tick
      <3> HIDE DEF new
      <3> QED BY <3>2, <3>4 DEF RulesFollow
    <2> QED BY <2>1, <2>2, <2>3
  <1> QED BY <1>1, <1>2, <1>3, <1>4, <1>5, <1>6, RulesStay

\* A rule that was read is written back switched off.
LEMMA WrittenFollows ==
    ASSUME RulesFollow, NEW s \in Schedules, NEW r, Follows(r), r.state # "absent",
           schedules' = [schedules EXCEPT ![s] = S!SwitchedOff(r)],
           clock' = clock, fires' = fires, sent' = sent, receipts' = receipts,
           armings' = armings, interruptions' = interruptions,
           tick' \in S!Tick, \A d \in tick'.due : Follows(d.rule) /\ d.rule.state # "absent",
           Follows(tick'.rule), tick'.phase = "disarming" => tick'.rule.state # "absent",
           tick'.phase \in {"idle", "claiming"} => tick'.batch = {},
           tick'.phase \in {"sending", "disarm", "disarming", "completing", "failing"} =>
               tick'.batch # {},
           edit' \in S!Edit, Follows(edit'.rule),
           edit'.phase = "read" => edit'.id \in Schedules /\ edit'.rule.state # "absent"
    PROVE  RulesFollow'
  <1>1. schedules \in [Schedules -> S!Rule] BY DEF RulesFollow, S!TypeOK
  <1>2. S!SwitchedOff(r) \in S!Rule /\ Follows(S!SwitchedOff(r)) BY SwitchedOffFollows
  <1>3. \A t \in Schedules : Follows(schedules'[t]) BY <1>1, <1>2 DEF RulesFollow
  <1>4. schedules' \in [Schedules -> S!Rule] BY <1>1, <1>2
  <1> QED BY <1>3, <1>4 DEF RulesFollow, S!TypeOK

\* Whoever writes a rule writes one that follows its setting.
LEMMA WritingKeepsRules ==
    ASSUME ScheduleSensible, RulesFollow,
           \/ S!DisableSave \/ S!DisarmSave
           \/ \E s \in Schedules, slot \in S!Slots :
                  \E shot \in {"daily", "once"} : S!SaveDaily(s, slot, shot)
    PROVE  RulesFollow'
  <1>1. /\ clock \in 0 .. MaxClock /\ schedules \in [Schedules -> S!Rule]
        /\ fires \in [S!Fires -> S!Fire] /\ tick \in S!Tick /\ edit \in S!Edit
        /\ armings \in [Schedules -> Nat]
    BY DEF RulesFollow, S!TypeOK
  <1>2. CASE S!DisableSave
    <2>1. /\ clock' = clock /\ fires' = fires /\ tick' = tick /\ sent' = sent
          /\ receipts' = receipts /\ armings' = armings /\ interruptions' = interruptions
          /\ edit' = S!NoEdit /\ edit.phase = "read"
          /\ schedules' = [schedules EXCEPT ![edit.id] = S!SwitchedOff(edit.rule)]
      BY <1>2 DEF S!DisableSave
    <2>2. edit.id \in Schedules /\ Follows(edit.rule) /\ edit.rule.state # "absent"
      BY <2>1 DEF RulesFollow
    <2> QED BY <1>1, <2>1, <2>2, WrittenFollows, NothingIsRunning DEF RulesFollow
  <1>3. CASE S!DisarmSave
    <2> DEFINE new == [tick EXCEPT !.phase = "completing", !.rule = S!NoRule]
               s == S!Current[1]
    <2>1. /\ clock' = clock /\ fires' = fires /\ tick' = new /\ sent' = sent /\ edit' = edit
          /\ receipts' = receipts /\ armings' = armings /\ interruptions' = interruptions
          /\ tick.phase = "disarming"
          /\ schedules' = [schedules EXCEPT ![s] = S!SwitchedOff(tick.rule)]
      BY <1>3 DEF S!DisarmSave
    <2>2. Follows(tick.rule) /\ tick.rule.state # "absent" /\ tick.batch # {}
      BY <2>1 DEF RulesFollow
    <2>3. s \in Schedules
      <3>1. S!Current \in S!Fires BY <2>2, CurrentIsThere DEF RulesFollow
      <3> QED BY <3>1 DEF S!Fires
    <2>4. S!NoRule \in S!Rule /\ Follows(S!NoRule) BY NothingIsRunning
    <2>5. /\ new \in S!Tick /\ new.phase = "completing" /\ new.due = tick.due
          /\ new.batch = tick.batch /\ new.rule = S!NoRule
      BY <1>1, <2>4 DEF S!Tick
    <2> HIDE DEF new, s
    <2>6. /\ Follows(tick'.rule) /\ tick'.phase # "disarming" /\ tick'.batch # {}
          /\ \A d \in tick'.due : Follows(d.rule) /\ d.rule.state # "absent"
      BY <2>1, <2>2, <2>4, <2>5 DEF RulesFollow
    <2> QED BY <1>1, <2>1, <2>2, <2>3, <2>5, <2>6, WrittenFollows DEF RulesFollow
  <1>4. ASSUME NEW s \in Schedules, NEW slot \in S!Slots, NEW shot \in {"daily", "once"},
               S!SaveDaily(s, slot, shot)
        PROVE  RulesFollow'
    <2> DEFINE r == [state |-> "enabled", slot |-> slot, shot |-> shot,
                     next |-> S!NextFireAt(clock, slot)]
    <2>1. /\ clock' = clock /\ fires' = fires /\ tick' = tick /\ sent' = sent /\ edit' = edit
          /\ receipts' = receipts /\ interruptions' = interruptions
          /\ armings' = [armings EXCEPT ![s] = @ + 1]
          /\ schedules' = [schedules EXCEPT ![s] = r]
      BY <1>4 DEF S!SaveDaily
    <2>2. clock \in Nat BY <1>1 DEF ScheduleSensible
    <2>3. S!NextFireAt(clock, slot) \in Nat /\ S!NextFireAt(clock, slot) % Period = slot
      BY <2>2, NextFireHasSlot
    <2>4. Follows(r) BY <2>3 DEF Follows, S!Rule
    <2> HIDE DEF r
    <2>5. \A t \in Schedules : Follows(schedules'[t]) BY <1>1, <2>1, <2>4 DEF RulesFollow
    <2>6. schedules' \in [Schedules -> S!Rule] BY <1>1, <2>1, <2>4 DEF Follows
    <2>7. armings' \in [Schedules -> Nat] BY <1>1, <2>1
    <2> QED BY <2>1, <2>5, <2>6, <2>7 DEF RulesFollow, S!TypeOK
  <1> QED BY <1>2, <1>3, <1>4

\* A claim moves a rule on only from the occurrence it has read: the setting is the one read.
LEMMA ClaimingKeepsRules == ASSUME ScheduleSensible, RulesFollow, S!ClaimCommit PROVE RulesFollow'
  <1> DEFINE batch == S!Oldest(S!Claimed)
             new == [S!NoTick EXCEPT !.phase = "running", !.batch = batch]
  <1>1. /\ schedules \in [Schedules -> S!Rule] /\ tick \in S!Tick
        /\ fires \in [S!Fires -> S!Fire] /\ tick.at \in Nat
    BY DEF RulesFollow, S!TypeOK, S!Tick
  <1>2. /\ clock' = clock /\ edit' = edit /\ sent' = sent /\ receipts' = receipts
        /\ armings' = armings /\ interruptions' = interruptions
        /\ tick' = new /\ fires' = S!Claimed /\ schedules' = S!MovedOn
    BY DEF S!ClaimCommit
  <1>3. \A d \in tick.due : d.rule \in S!Rule /\ d.rule.slot \in S!Slots
                            /\ d.rule.shot \in {"daily", "once"} /\ Follows(d.rule)
                            /\ d.rule.state # "absent"
    BY DEF RulesFollow, Follows, S!Rule
  <1>4. S!Claimed \in [S!Fires -> S!Fire]
    <2> SUFFICES ASSUME NEW f \in S!Fires PROVE S!Claimed[f] \in S!Fire BY DEF S!Claimed
    <2> DEFINE mine == {d \in tick.due : f = <<d.id, d.rule.next>>}
               d == CHOOSE d \in mine : TRUE
               added == [status |-> "pending", created |-> tick.at, shot |-> d.rule.shot]
    <2>1. S!Claimed[f] = IF fires[f].status # "none" THEN fires[f]
                         ELSE IF mine = {} THEN S!NoFire ELSE added
      BY DEF S!Claimed
    <2>2. S!NoFire \in S!Fire BY DEF S!NoFire, S!Fire
    <2>3. mine # {} => d \in mine OBVIOUS
    <2> HIDE DEF d
    <2>4. mine # {} => added \in S!Fire BY <1>1, <1>3, <2>3 DEF S!Fire
    <2> HIDE DEF mine, added
    <2> QED BY <1>1, <2>1, <2>2, <2>4
  <1>5. ASSUME NEW s \in Schedules PROVE S!MovedOn[s] \in S!Rule /\ Follows(S!MovedOn[s])
    <2> DEFINE mine == {d \in tick.due : d.id = s /\ schedules[s].next = d.rule.next}
               d == CHOOSE d \in mine : TRUE
               at == S!NextFireAt(tick.at, d.rule.slot)
               moved == [schedules[s] EXCEPT !.next = at]
    <2>1. S!MovedOn[s] = IF mine = {} THEN schedules[s] ELSE moved BY DEF S!MovedOn
    <2>2. schedules[s] \in S!Rule /\ Follows(schedules[s]) BY <1>1 DEF RulesFollow
    <2>3. CASE mine = {} BY <2>1, <2>2, <2>3
    <2>4. CASE mine # {}
      <3>1. d \in mine BY <2>4
      <3>2. d \in tick.due /\ schedules[s].next = d.rule.next BY <3>1
      <3> HIDE DEF d, mine
      <3>3. at \in Nat /\ at % Period = d.rule.slot BY <1>1, <1>3, <3>2, NextFireHasSlot
      <3> HIDE DEF at
      <3>4. schedules[s].state # "absent" => schedules[s].slot = d.rule.slot
        BY <1>3, <2>2, <3>2 DEF Follows
      <3>5. moved \in S!Rule /\ moved.state = schedules[s].state /\ moved.next = at
            /\ moved.slot = schedules[s].slot
        BY <2>2, <3>3 DEF S!Rule
      <3> HIDE DEF moved
      <3>6. S!MovedOn[s] = moved BY <2>1, <2>4
      <3>7. Follows(moved) BY <3>3, <3>4, <3>5 DEF Follows
      <3> QED BY <3>5, <3>6, <3>7
    <2> QED BY <2>3, <2>4
  <1>6. S!MovedOn \in [Schedules -> S!Rule] BY <1>5 DEF S!MovedOn
  <1>7. batch \in SUBSET S!Fires BY DEF S!Oldest
  <1> HIDE DEF batch
  <1>8. /\ new \in S!Tick /\ new.phase = "running" /\ new.due = {} /\ new.rule = S!NoRule
    <2>1. S!NoTick \in S!Tick /\ S!NoTick.due = {} /\ S!NoTick.rule = S!NoRule
      BY NothingIsRunning
    <2> QED BY <1>7, <2>1 DEF S!Tick
  <1> HIDE DEF new
  <1>9. S!TypeOK' BY <1>2, <1>4, <1>6, <1>8 DEF RulesFollow, S!TypeOK
  <1>10. \A s \in Schedules : Follows(schedules'[s]) BY <1>2, <1>5
  <1> QED BY <1>2, <1>8, <1>9, <1>10, NothingIsRunning DEF RulesFollow

LEMMA ScheduleKeepsRules ==
    ASSUME ScheduleSensible, RulesFollow, [S!Next]_(S!vars)
    PROVE  RulesFollow'
  <1>1. CASE UNCHANGED S!vars BY <1>1 DEF S!vars, RulesFollow, S!TypeOK
  <1>2. CASE S!Next
    <2>1. \A s \in Schedules : [x \in Schedules |-> {"daily", "once"}][s] = {"daily", "once"}
      OBVIOUS
    <2> QED
      BY <1>2, <2>1, ReadingKeepsRules, CompletingKeepsRules, WritingKeepsRules, ClaimingKeepsRules
      DEF S!Next, S!TickStep
  <1> QED BY <1>1, <1>2

-----------------------------------------------------------------------------
(* Messages of the scheduler                                               *)

\* The fire being run is the same while the order in the ledger is.
LEMMA CurrentStays ==
    ASSUME tick'.batch = tick.batch, \A f \in tick.batch : fires'[f].created = fires[f].created
    PROVE  S!Current' = S!Current
  BY DEF S!Current, S!Before

\* What Completed leaves of the ledger.
LEMMA CompletedFires ==
    ASSUME fires \in [S!Fires -> S!Fire], NEW c \in S!Fires, NEW st \in {"succeeded", "failed"},
           fires' = S!Completed(c, st)
    PROVE  /\ \A f \in S!Fires : /\ fires'[f].created = fires[f].created
                                 /\ fires'[f].status = "none" <=> fires[f].status = "none"
                                 /\ fires'[f].status = "pending" => fires[f].status = "pending"
                                 /\ f # c => fires'[f] = fires[f]
           /\ fires'[c].status # "pending"
  <1>1. fires' = IF fires[c].status = "pending" THEN [fires EXCEPT ![c].status = st] ELSE fires
    BY DEF S!Completed
  <1>2. CASE fires[c].status # "pending" BY <1>1, <1>2
  <1>3. CASE fires[c].status = "pending"
    <2> DEFINE done == [fires[c] EXCEPT !.status = st]
    <2>1. fires' = [fires EXCEPT ![c] = done] BY <1>1, <1>3
    <2>2. done.status = st /\ done.created = fires[c].created /\ done \in S!Fire BY DEF S!Fire
    <2> HIDE DEF done
    <2>3. \A f \in S!Fires : fires'[f] = IF f = c THEN done ELSE fires[f] BY <2>1
    <2> QED BY <1>3, <2>2, <2>3
  <1> QED BY <1>2, <1>3

\* The fire being run is sent once more, at most, and stays the one being run.
LEMMA RunningKeepsCount ==
    ASSUME ScheduleSensible, RulesFollow, SendsAreCounted, tick.batch # {},
           tick'.batch = tick.batch,
           tick'.phase \in {"disarm", "disarming", "completing", "failing"},
           interruptions' = interruptions,
           \/ fires' = fires /\ sent' = sent
           \/ /\ fires' = fires /\ tick.phase = "sending"
              /\ sent' = [sent EXCEPT ![S!Current] = @ + 1]
           \/ fires' = S!Completed(S!Current, "succeeded") /\ sent' = sent
    PROVE  SendsAreCounted'
  <1>1. /\ fires \in [S!Fires -> S!Fire] /\ tick \in S!Tick /\ sent \in [S!Fires -> Nat]
        /\ interruptions \in Nat
    BY DEF RulesFollow, S!TypeOK
  <1>2. PICK c : c = S!Current OBVIOUS
  <1>3. c \in tick.batch /\ c \in S!Fires BY <1>2, CurrentIsThere DEF RulesFollow
  <1>4. tick.batch \in SUBSET S!Fires BY <1>1 DEF S!Tick
  <1>5. /\ \A f \in S!Fires : /\ fires'[f].created = fires[f].created
                              /\ fires'[f].status = "none" <=> fires[f].status = "none"
                              /\ fires'[f].status = "pending" => fires[f].status = "pending"
                              /\ f # c => fires'[f] = fires[f]
    BY <1>1, <1>2, <1>3, CompletedFires
  <1>6. S!Current' = c BY <1>2, <1>4, <1>5, CurrentStays
  <1>7. ASSUME NEW f \in S!Fires
        PROVE  /\ f # c => sent'[f] = sent[f]
               /\ fires'[f].status = "none" => sent'[f] = 0
               /\ sent'[f] <= 1 + interruptions
    <2>1. sent[f] \in Nat /\ sent[f] <= 1 + interruptions
          /\ (fires[f].status = "none" => sent[f] = 0)
      BY <1>1 DEF SendsAreCounted
    <2>2. CASE sent' = sent BY <1>5, <2>1, <2>2
    <2>3. CASE tick.phase = "sending" /\ sent' = [sent EXCEPT ![c] = @ + 1]
      <3>1. fires[c].status = "pending" BY <1>3, <2>3 DEF SendsAreCounted, Waiting
      <3>2. sent[c] <= interruptions BY <1>3, <2>3, <3>1 DEF SendsAreCounted, Waiting
      <3>3. CASE f = c BY <1>1, <1>3, <1>5, <2>3, <3>1, <3>2, <3>3
      <3>4. CASE f # c BY <1>1, <1>5, <2>1, <2>3, <3>4
      <3> QED BY <3>3, <3>4
    <2> QED BY <1>2, <2>2, <2>3
  <1>8. ASSUME NEW f \in S!Fires, fires'[f].status = "pending", f # c
        PROVE  sent'[f] <= interruptions
    BY <1>2, <1>5, <1>7, <1>8 DEF SendsAreCounted
  <1>9. ASSUME NEW f \in tick'.batch, f # c PROVE fires'[f].status = "pending"
    BY <1>2, <1>4, <1>5, <1>9 DEF SendsAreCounted
  <1> QED BY <1>6, <1>7, <1>8, <1>9 DEF SendsAreCounted, Waiting

\* The fire that was run is completed, and the rest of the batch waits as before.
LEMMA CompletingKeepsCount ==
    ASSUME ScheduleSensible, RulesFollow, SendsAreCounted, S!Complete \/ S!CompleteFailed
    PROVE  SendsAreCounted'
  <1> DEFINE rest == tick.batch \ {S!Current}
             new == [tick EXCEPT !.phase = "running", !.batch = rest]
  <1>1. /\ fires \in [S!Fires -> S!Fire] /\ tick \in S!Tick /\ sent \in [S!Fires -> Nat]
        /\ interruptions \in Nat
    BY DEF RulesFollow, S!TypeOK
  <1>2. /\ sent' = sent /\ interruptions' = interruptions /\ tick' = new
        /\ tick.phase \in {"completing", "failing"}
    BY DEF S!Complete, S!CompleteFailed, S!NextFire
  <1>3. tick.batch # {} BY <1>2 DEF RulesFollow
  <1>4. PICK c : c = S!Current OBVIOUS
  <1>5. c \in S!Fires BY <1>3, <1>4, CurrentIsThere DEF RulesFollow
  <1>6. \E st \in {"succeeded", "failed"} : fires' = S!Completed(c, st)
    BY <1>4 DEF S!Complete, S!CompleteFailed
  <1>7. /\ \A f \in S!Fires : /\ fires'[f].status = "none" <=> fires[f].status = "none"
                              /\ fires'[f].status = "pending" => fires[f].status = "pending"
                              /\ f # c => fires'[f] = fires[f]
        /\ fires'[c].status # "pending"
    BY <1>1, <1>5, <1>6, CompletedFires
  <1>8. tick.batch \in SUBSET S!Fires BY <1>1 DEF S!Tick
  <1>9. rest \in SUBSET S!Fires /\ \A f \in rest : f \in tick.batch /\ f # c BY <1>4, <1>8
  <1> HIDE DEF rest
  <1>10. new.phase = "running" /\ new.batch = rest BY <1>1, <1>9 DEF S!Tick
  <1> HIDE DEF new
  <1>11. \A f \in rest : fires'[f].status = "pending"
    BY <1>4, <1>7, <1>9 DEF SendsAreCounted, Waiting
  <1>12. ASSUME NEW f \in S!Fires, fires'[f].status = "pending"
         PROVE  sent[f] <= interruptions
    <2>1. f # c /\ fires[f].status = "pending" BY <1>7, <1>12
    <2> QED BY <1>4, <2>1 DEF SendsAreCounted, Waiting
  <1> QED BY <1>2, <1>7, <1>10, <1>11, <1>12 DEF SendsAreCounted, Waiting

\* The tick ends or is given up: what it was about to complete was sent before an interruption.
LEMMA EndingKeepsCount ==
    ASSUME ScheduleSensible, RulesFollow, SendsAreCounted, S!TickEnds \/ S!TickAborts \/ S!Crash
    PROVE  SendsAreCounted'
  <1>1. /\ fires \in [S!Fires -> S!Fire] /\ sent \in [S!Fires -> Nat] /\ interruptions \in Nat
    BY DEF RulesFollow, S!TypeOK
  <1>2. /\ sent' = sent /\ tick' = S!NoTick
    BY DEF S!TickEnds, S!TickAborts, S!Crash
  <1>3. tick'.batch = {} /\ tick'.phase = "idle" BY <1>2, NothingIsRunning
  <1>4. \A f \in S!Fires : /\ fires'[f].status = "none" <=> fires[f].status = "none"
                           /\ fires'[f].status = "pending" => fires[f].status = "pending"
    <2>1. CASE fires' = fires BY <2>1
    <2>2. CASE fires' # fires
      <3>1. S!TickAborts /\ tick.phase = "failing" /\ fires' = S!Completed(S!Current, "failed")
        BY <2>2 DEF S!TickEnds, S!TickAborts, S!Crash
      <3>2. S!Current \in S!Fires BY <3>1, CurrentIsThere DEF RulesFollow
      <3> QED BY <1>1, <3>1, <3>2, CompletedFires
    <2> QED BY <2>1, <2>2
  <1>5. CASE S!TickEnds
    <2>1. tick.batch = {} /\ interruptions' = interruptions BY <1>5 DEF S!TickEnds
    <2> QED BY <1>2, <1>3, <1>4, <2>1 DEF SendsAreCounted, Waiting
  <1>6. CASE S!TickAborts \/ S!Crash
    <2>1. interruptions' = interruptions + 1 BY <1>6 DEF S!TickAborts, S!Crash
    <2>2. \A f \in S!Fires : sent[f] \in Nat /\ sent[f] <= interruptions + 1
      BY <1>1 DEF SendsAreCounted, Waiting
    <2>3. \A f \in S!Fires : sent'[f] <= interruptions' /\ sent'[f] <= 1 + interruptions'
      BY <1>1, <1>2, <2>1, <2>2
    <2> QED BY <1>2, <1>3, <1>4, <2>3 DEF SendsAreCounted, Waiting
  <1> QED BY <1>5, <1>6

\* What a claim adds to the ledger was never sent, and what it takes waits.
LEMMA ClaimingKeepsCount ==
    ASSUME ScheduleSensible, RulesFollow, SendsAreCounted, S!ClaimRead \/ S!ClaimCommit
    PROVE  SendsAreCounted'
  <1>1. tick \in S!Tick /\ tick.batch = {}
    BY DEF RulesFollow, S!TypeOK, S!ClaimRead, S!ClaimCommit
  <1>2. \A f \in S!Fires : fires[f].status = "pending" => sent[f] <= interruptions
    BY <1>1 DEF SendsAreCounted, Waiting
  <1>3. CASE S!ClaimRead
    <2> DEFINE due == {[id |-> s, rule |-> schedules[s]] : s \in S!Due}
               new == [S!NoTick EXCEPT !.phase = "claiming", !.at = clock, !.due = due]
    <2>1. tick' = new /\ fires' = fires /\ sent' = sent /\ interruptions' = interruptions
      BY <1>3 DEF S!ClaimRead
    <2>2. S!NoTick \in S!Tick /\ S!NoTick.batch = {} BY NothingIsRunning
    <2> HIDE DEF due
    <2>3. new.batch = {} /\ new.phase = "claiming" BY <2>2 DEF S!Tick
    <2> HIDE DEF new
    <2> QED BY <1>2, <2>1, <2>3 DEF SendsAreCounted, Waiting
  <1>4. CASE S!ClaimCommit
    <2> DEFINE batch == S!Oldest(S!Claimed)
               new == [S!NoTick EXCEPT !.phase = "running", !.batch = batch]
    <2>1. tick' = new /\ fires' = S!Claimed /\ sent' = sent /\ interruptions' = interruptions
      BY <1>4 DEF S!ClaimCommit
    <2>2. \A f \in S!Fires : \/ fires'[f] = fires[f]
                             \/ fires[f].status = "none" /\ fires'[f].status \in {"none", "pending"}
      BY <2>1 DEF S!Claimed, S!NoFire
    <2>3. \A f \in batch : f \in S!Fires /\ fires'[f].status = "pending"
      BY <2>1 DEF S!Oldest
    <2>4. batch \in SUBSET S!Fires BY <2>3
    <2> HIDE DEF batch
    <2>5. new.phase = "running" /\ new.batch = batch
      <3>1. S!NoTick \in S!Tick BY NothingIsRunning
      <3> QED BY <2>4, <3>1 DEF S!Tick
    <2> HIDE DEF new
    <2>6. \A f \in S!Fires : fires[f].status = "none" => sent[f] = 0 BY DEF SendsAreCounted, Waiting
    <2>7. \A f \in S!Fires : /\ fires'[f].status = "none" => sent[f] = 0
                             /\ fires'[f].status = "pending" => sent[f] <= interruptions
                             /\ sent[f] <= 1 + interruptions
      <3>1. interruptions \in Nat BY DEF RulesFollow, S!TypeOK
      <3> QED BY <1>2, <2>2, <2>6, <3>1 DEF SendsAreCounted, Waiting
    <2> QED BY <2>1, <2>3, <2>5, <2>7 DEF SendsAreCounted, Waiting
  <1> QED BY <1>3, <1>4

LEMMA ScheduleKeepsCount ==
    ASSUME ScheduleSensible, RulesFollow, SendsAreCounted, [S!Next]_(S!vars)
    PROVE  SendsAreCounted'
  <1>1. ASSUME tick' = tick, fires' = fires, sent' = sent, interruptions' = interruptions
        PROVE  SendsAreCounted'
    <2>1. S!Current' = S!Current BY <1>1, CurrentStays
    <2> QED BY <1>1, <2>1 DEF SendsAreCounted
  <1>2. CASE S!Suppress \/ S!Deliver \/ S!RunFails \/ S!DisarmFails
    <2>1. tick.batch # {}
      BY <1>2 DEF S!Suppress, S!Deliver, S!RunFails, S!DisarmFails, S!Running, RulesFollow
    <2>2. PICK ph \in {"disarm", "completing", "failing"} :
              \/ tick' = [tick EXCEPT !.phase = ph]
              \/ tick' = [tick EXCEPT !.phase = ph, !.rule = S!NoRule]
      BY <1>2 DEF S!Suppress, S!Deliver, S!RunFails, S!DisarmFails, S!AfterRun, S!AfterError
    <2>3. tick \in S!Tick BY DEF RulesFollow, S!TypeOK
    <2>4. tick'.phase = ph /\ tick'.batch = tick.batch
      <3> DEFINE one == [tick EXCEPT !.phase = ph]
                 two == [tick EXCEPT !.phase = ph, !.rule = S!NoRule]
      <3>1. one.phase = ph /\ one.batch = tick.batch BY <2>3 DEF S!Tick
      <3>2. two.phase = ph /\ two.batch = tick.batch BY <2>3 DEF S!Tick
      <3>3. tick' = one \/ tick' = two BY <2>2
      <3> HIDE DEF one, two
      <3> QED BY <3>1, <3>2, <3>3
    <2>5. interruptions' = interruptions /\ fires' = fires
      BY <1>2 DEF S!Suppress, S!Deliver, S!RunFails, S!DisarmFails
    <2>6. \/ sent' = sent
          \/ tick.phase = "sending" /\ sent' = [sent EXCEPT ![S!Current] = @ + 1]
      <3> DEFINE more == [sent EXCEPT ![S!Current] = @ + 1]
      <3>1. S!Suppress => sent' = sent BY DEF S!Suppress
      <3>2. S!DisarmFails => sent' = sent BY DEF S!DisarmFails
      <3>3. S!Deliver => tick.phase = "sending" /\ sent' = more BY DEF S!Deliver
      <3>4. S!RunFails => sent' = sent \/ (tick.phase = "sending" /\ sent' = more)
        BY DEF S!RunFails
      <3> HIDE DEF more
      <3>5. sent' = sent \/ (tick.phase = "sending" /\ sent' = more)
        BY <1>2, <3>1, <3>2, <3>3, <3>4
      <3> QED BY <3>5 DEF more
    <2> QED BY <2>1, <2>4, <2>5, <2>6, RunningKeepsCount
  <1>3. CASE S!DisarmRead \/ S!DisarmSave \/ S!CompleteFails
    <2>1. tick.batch # {} BY <1>3 DEF S!DisarmRead, S!DisarmSave, S!CompleteFails, RulesFollow
    <2>2. interruptions' = interruptions /\ sent' = sent
          /\ (fires' = fires \/ fires' = S!Completed(S!Current, "succeeded"))
      BY <1>3 DEF S!DisarmRead, S!DisarmSave, S!CompleteFails
    <2>3. tick \in S!Tick BY DEF RulesFollow, S!TypeOK
    <2>4. tick'.batch = tick.batch /\ tick'.phase \in {"disarming", "completing", "failing"}
      <3> DEFINE q == schedules[S!Current[1]]
                 a == [tick EXCEPT !.phase = "disarming", !.rule = q]
                 b == [tick EXCEPT !.phase = "completing", !.rule = S!NoRule]
                 c == [tick EXCEPT !.phase = "completing"]
                 d == [tick EXCEPT !.phase = "failing"]
      <3>1. S!DisarmRead => tick' = a \/ tick' = c
        <4>1. S!DisarmRead => tick' = IF q.state = "enabled" THEN a ELSE c BY DEF S!DisarmRead
        <4> HIDE DEF a, c, q
        <4> QED BY <4>1
      <3>2. S!DisarmSave => tick' = b BY DEF S!DisarmSave
      <3>3. S!CompleteFails => tick' = d BY DEF S!CompleteFails
      <3> HIDE DEF q
      <3>4. a.batch = tick.batch /\ a.phase = "disarming" BY <2>3 DEF S!Tick
      <3>5. b.batch = tick.batch /\ b.phase = "completing" BY <2>3 DEF S!Tick
      <3>6. c.batch = tick.batch /\ c.phase = "completing" BY <2>3 DEF S!Tick
      <3>7. d.batch = tick.batch /\ d.phase = "failing" BY <2>3 DEF S!Tick
      <3> HIDE DEF a, b, c, d
      <3> QED BY <1>3, <3>1, <3>2, <3>3, <3>4, <3>5, <3>6, <3>7
    <2> QED BY <2>1, <2>2, <2>4, RunningKeepsCount
  <1>4. CASE \/ S!Advance \/ S!DisableSave \/ \E s \in Schedules : S!DisableRead(s)
             \/ UNCHANGED S!vars
             \/ \E s \in Schedules, slot \in S!Slots :
                    \E shot \in {"daily", "once"} : S!SaveDaily(s, slot, shot)
    <2>1. tick' = tick /\ fires' = fires /\ sent' = sent /\ interruptions' = interruptions
      BY <1>4 DEF S!Advance, S!DisableSave, S!DisableRead, S!SaveDaily, S!vars
    <2> QED BY <1>1, <2>1
  <1>5. CASE S!Pass
    <2>1. /\ tick.phase = "running" /\ tick' = [tick EXCEPT !.phase = "sending"]
          /\ fires' = fires /\ sent' = sent /\ interruptions' = interruptions
      BY <1>5 DEF S!Pass, S!Running
    <2>2. tick'.phase = "sending" /\ tick'.batch = tick.batch
      <3>1. tick \in S!Tick BY DEF RulesFollow, S!TypeOK
      <3>2. "sending" \in TickPhases BY DEF TickPhases
      <3> QED BY <2>1, <3>1, <3>2, TickWithPhase
    <2>3. S!Current' = S!Current BY <2>1, <2>2, CurrentStays
    <2> QED BY <2>1, <2>2, <2>3 DEF SendsAreCounted, Waiting
  <1>6. \A s \in Schedules : [x \in Schedules |-> {"daily", "once"}][s] = {"daily", "once"}
    OBVIOUS
  <1> QED
    BY <1>2, <1>3, <1>4, <1>5, <1>6, CompletingKeepsCount, EndingKeepsCount, ClaimingKeepsCount
    DEF S!Next, S!TickStep

-----------------------------------------------------------------------------
(* The parts of the specification                                          *)

\* A behaviour about the scheduler takes its steps; any other leaves it alone.
LEMMA ScheduleMoves ==
    ASSUME [AllNext]_all
    PROVE  /\ about' = about
           /\ about = "schedule" => [S!Next]_(S!vars)
           /\ about # "schedule" => sent' = sent /\ interruptions' = interruptions
  BY DEF AllNext, all, scheduleVars, S!vars

ScheduleInv == IF about = "schedule" THEN RulesFollow /\ SendsAreCounted
               ELSE sent = [f \in S!Fires |-> 0] /\ interruptions = 0

\* However often a scheduler is interrupted, an occurrence is sent once, and once more for
\* every interruption, at most.
THEOREM SendsAreNotRepeated == ScheduleSensible => (AllSpec => []S!RepeatsAreInterruptions)
  <1> SUFFICES ASSUME ScheduleSensible PROVE AllSpec => []S!RepeatsAreInterruptions OBVIOUS
  <1>1. AllInit => ScheduleInv
    <2> SUFFICES ASSUME AllInit PROVE ScheduleInv OBVIOUS
    <2>1. sent = [f \in S!Fires |-> 0] /\ interruptions = 0 BY DEF AllInit, S!Init
    <2> QED BY <2>1, ScheduleStarts DEF ScheduleInv
  <1>2. ScheduleInv /\ [AllNext]_all => ScheduleInv'
    <2> SUFFICES ASSUME ScheduleInv, [AllNext]_all PROVE ScheduleInv' OBVIOUS
    <2>1. CASE about = "schedule"
      BY <2>1, ScheduleMoves, ScheduleKeepsRules, ScheduleKeepsCount DEF ScheduleInv
    <2>2. CASE about # "schedule" BY <2>2, ScheduleMoves DEF ScheduleInv
    <2> QED BY <2>1, <2>2
  <1>3. ScheduleInv => S!RepeatsAreInterruptions
    <2>1. CASE about = "schedule" BY <2>1 DEF ScheduleInv, SendsAreCounted, S!RepeatsAreInterruptions
    <2>2. CASE about # "schedule" BY <2>2 DEF ScheduleInv, S!RepeatsAreInterruptions
    <2> QED BY <2>1, <2>2
  <1> QED BY <1>1, <1>2, <1>3, PTL DEF AllSpec

-----------------------------------------------------------------------------
(* The calendar                                                            *)

Zone == [before : -DaySlots .. DaySlots, after : -DaySlots .. DaySlots, at : Int]

LEMMA ZonesAreZones == CalendarSensible => SomeZones \subseteq Zone
  <1> SUFFICES ASSUME CalendarSensible, NEW z \in SomeZones PROVE z \in Zone OBVIOUS
  <1>1. PICK b \in Clocks, a \in Clocks, t \in Changes :
            z = [before |-> b - DaySlots, after |-> a - DaySlots, at |-> t]
    BY DEF SomeZones
  <1>2. /\ b \in Nat /\ a \in Nat /\ b <= 2 * DaySlots /\ a <= 2 * DaySlots /\ t \in Int
        /\ DaySlots \in Nat
    BY DEF CalendarSensible
  <1>3. b - DaySlots \in -DaySlots .. DaySlots /\ a - DaySlots \in -DaySlots .. DaySlots
    BY <1>2
  <1> QED BY <1>1, <1>2, <1>3 DEF Zone

\* An instant has a wall clock, and that a date and a time.
LEMMA ClocksAreThere ==
    ASSUME CalendarSensible, NEW z \in Zone, NEW t \in Int
    PROVE  /\ K!LocalIn(z, t) \in t - DaySlots .. t + DaySlots
           /\ K!DateIn(z, t) \in Int /\ K!TimeIn(z, t) \in 0 .. DaySlots - 1
           /\ K!LocalIn(z, t) = K!DateIn(z, t) * DaySlots + K!TimeIn(z, t)
  <1>1. /\ DaySlots \in Int /\ DaySlots > 0 /\ z.at \in Int
        /\ z.before \in -DaySlots .. DaySlots /\ z.after \in -DaySlots .. DaySlots
    BY DEF CalendarSensible, Zone
  <1>2. K!LocalIn(z, t) \in Int /\ K!LocalIn(z, t) \in t - DaySlots .. t + DaySlots
    BY <1>1 DEF K!LocalIn
  <1> QED BY <1>1, <1>2, MultipleAndRest, RestIsSmall DEF K!DateIn, K!TimeIn

\* What a wall clock of a date and a time means.
LEMMA ClockOfDate ==
    ASSUME CalendarSensible, NEW z \in Zone, NEW t \in Int, NEW d \in Int,
           NEW s \in 0 .. DaySlots - 1, K!LocalIn(z, t) = d * DaySlots + s
    PROVE  K!DateIn(z, t) = d /\ K!TimeIn(z, t) = s
  <1>1. DaySlots \in Int /\ DaySlots > 0 BY DEF CalendarSensible
  <1>2. K!LocalIn(z, t) \in Int BY ClocksAreThere
  <1>3. PICK x : x = K!LocalIn(z, t) OBVIOUS
  <1>4. x \in Int /\ x = d * DaySlots + s BY <1>2, <1>3
  <1>5. x \div DaySlots = d /\ x % DaySlots = s BY <1>1, <1>4, OneMultiple, Zenon
  <1> QED BY <1>3, <1>5 DEF K!DateIn, K!TimeIn

\* Later dates come later on the wall clock.
LEMMA DatesAreOrdered ==
    ASSUME CalendarSensible, NEW z \in Zone, NEW t \in Int, NEW d \in Int
    PROVE  K!DateIn(z, t) < d <=> K!LocalIn(z, t) < d * DaySlots
  <1> DEFINE k == K!DateIn(z, t)
             s == K!TimeIn(z, t)
  <1>1. DaySlots \in Int /\ DaySlots > 0 BY DEF CalendarSensible
  <1>2. k \in Int /\ s \in 0 .. DaySlots - 1 /\ K!LocalIn(z, t) = k * DaySlots + s
    BY ClocksAreThere
  <1> HIDE DEF k, s
  <1>3. ASSUME NEW a \in Int, NEW b \in Int, a < b PROVE a * DaySlots + DaySlots <= b * DaySlots
    <2>1. b - a - 1 >= 0 BY <1>3
    <2>2. (b - a - 1) * DaySlots >= 0 BY <1>1, <2>1
    <2> QED BY <1>1, <2>2
  <1>4. k * DaySlots \in Int /\ d * DaySlots \in Int BY <1>1, <1>2
  <1>5. CASE k < d
    <2>1. k * DaySlots + DaySlots <= d * DaySlots BY <1>2, <1>3, <1>5
    <2> QED BY <1>1, <1>2, <1>4, <1>5, <2>1 DEF k
  <1>6. CASE k = d BY <1>1, <1>2, <1>4, <1>6 DEF k
  <1>7. CASE d < k
    <2>1. d * DaySlots + DaySlots <= k * DaySlots BY <1>2, <1>3, <1>7
    <2> QED BY <1>1, <1>2, <1>4, <1>7, <2>1 DEF k
  <1> QED BY <1>2, <1>5, <1>6, <1>7

\* The guesses at an instant, one corrected from the other.
LEMMA GuessesAreThere ==
    ASSUME CalendarSensible, NEW z \in Zone, NEW target \in Int
    PROVE  \E g \in [0 .. 6 -> Int] :
               /\ K!InstantFor(z, target) =
                      IF K!LocalIn(z, g[6]) = target THEN g[6] ELSE K!Never
               /\ g[0] = target
               /\ \A n \in 1 .. 6 : g[n] = K!Corrected(z, target, g[n - 1])
  <1> DEFINE Step(g) == [n \in 0 .. 6 |-> IF n = 0 THEN target
                                          ELSE K!Corrected(z, target, g[n - 1])]
             G == CHOOSE g : g = Step(g)
             w1 == K!Corrected(z, target, target)
             w2 == K!Corrected(z, target, w1)
             w3 == K!Corrected(z, target, w2)
             w4 == K!Corrected(z, target, w3)
             w5 == K!Corrected(z, target, w4)
             w6 == K!Corrected(z, target, w5)
             w == [n \in 0 .. 6 |-> IF n = 0 THEN target ELSE IF n = 1 THEN w1
                                    ELSE IF n = 2 THEN w2 ELSE IF n = 3 THEN w3
                                    ELSE IF n = 4 THEN w4 ELSE IF n = 5 THEN w5 ELSE w6]
  <1>1. \A x \in Int : K!Corrected(z, target, x) \in Int
    BY ClocksAreThere DEF K!Corrected
  <1>2. w = Step(w)
    <2> HIDE DEF w1, w2, w3, w4, w5, w6
    <2>1. \A n \in 0 .. 6 : w[n] = Step(w)[n]
      <3> SUFFICES ASSUME NEW n \in 0 .. 6 PROVE w[n] = Step(w)[n] OBVIOUS
      <3>0. n = 0 \/ n = 1 \/ n = 2 \/ n = 3 \/ n = 4 \/ n = 5 \/ n = 6 OBVIOUS
      <3>1. CASE n = 0 BY <3>1
      <3>2. CASE n = 1 BY <3>2 DEF w1
      <3>3. CASE n = 2 BY <3>3 DEF w2
      <3>4. CASE n = 3 BY <3>4 DEF w3
      <3>5. CASE n = 4 BY <3>5 DEF w4
      <3>6. CASE n = 5 BY <3>6 DEF w5
      <3>7. CASE n = 6 BY <3>7 DEF w6
      <3> QED BY <3>0, <3>1, <3>2, <3>3, <3>4, <3>5, <3>6, <3>7
    <2> QED BY <2>1
  <1>3. G = Step(G)
    <2> HIDE DEF w, Step
    <2> QED BY <1>2
  <1>4. K!InstantFor(z, target) = IF K!LocalIn(z, G[6]) = target THEN G[6] ELSE K!Never
    BY DEF K!InstantFor, K!Attempts
  <1> HIDE DEF G, w
  <1>5. /\ G[0] = target /\ \A n \in 1 .. 6 : G[n] = K!Corrected(z, target, G[n - 1])
    BY <1>3
  <1>6. G \in [0 .. 6 -> Int]
    <2>1. G[0] \in Int BY <1>5
    <2>2. G[1] \in Int BY <1>1, <1>5, <2>1
    <2>3. G[2] \in Int BY <1>1, <1>5, <2>2
    <2>4. G[3] \in Int BY <1>1, <1>5, <2>3
    <2>5. G[4] \in Int BY <1>1, <1>5, <2>4
    <2>6. G[5] \in Int BY <1>1, <1>5, <2>5
    <2>7. G[6] \in Int BY <1>1, <1>5, <2>6
    <2>8. \A n \in 0 .. 6 : G[n] \in Int BY <2>1, <2>2, <2>3, <2>4, <2>5, <2>6, <2>7
    <2>9. G = [n \in 0 .. 6 |-> G[n]] BY <1>3
    <2> QED BY <2>8, <2>9
  <1> QED BY <1>4, <1>5, <1>6

\* The instant found has the wall clock asked for; one is found whenever there is one, and of
\* two the one that counts.
LEMMA InstantIsFound ==
    ASSUME CalendarSensible, NEW z \in Zone, NEW target \in Int
    PROVE  /\ K!InstantFor(z, target) \in Int
           /\ K!InstantFor(z, target) # K!Never =>
                  K!LocalIn(z, K!InstantFor(z, target)) = target
           /\ \A t \in Int : K!LocalIn(z, t) = target =>
                  /\ K!LocalIn(z, K!InstantFor(z, target)) = target
                  /\ IF target < z.at THEN K!InstantFor(z, target) <= t
                     ELSE t <= K!InstantFor(z, target)
  <1>1. PICK g \in [0 .. 6 -> Int] :
               /\ K!InstantFor(z, target) =
                      IF K!LocalIn(z, g[6]) = target THEN g[6] ELSE K!Never
               /\ g[0] = target
               /\ \A n \in 1 .. 6 : g[n] = K!Corrected(z, target, g[n - 1])
    BY GuessesAreThere
  <1>2. z.before \in Int /\ z.after \in Int /\ z.at \in Int BY DEF CalendarSensible, Zone
  <1> DEFINE good(x) == K!LocalIn(z, x) = target
  <1>3. \A x \in Int : good(x) => K!Corrected(z, target, x) = x BY DEF K!Corrected
  <1>4. \A x \in Int : K!Corrected(z, target, x) =
                           target - (IF x < z.at THEN z.before ELSE z.after)
    BY <1>2 DEF K!Corrected, K!LocalIn
  <1>5. ASSUME NEW t \in Int, good(t)
        PROVE  good(g[6]) /\ IF target < z.at THEN g[6] <= t ELSE t <= g[6]
    <2>1. t = target - z.before \/ t = target - z.after BY <1>2, <1>5 DEF K!LocalIn
    <2>2. /\ g[0] \in Int /\ g[1] \in Int /\ g[2] \in Int
          /\ g[1] = K!Corrected(z, target, g[0]) /\ g[2] = K!Corrected(z, target, g[1])
      BY <1>1
    <2>3. good(g[1]) \/ good(g[2])
      BY <1>2, <1>4, <1>5, <2>1, <2>2 DEF K!LocalIn
    <2>9. good(g[1]) => IF target < z.at THEN g[1] <= t ELSE t <= g[1]
      BY <1>1, <1>2, <1>4, <1>5, <2>1, <2>2 DEF K!LocalIn
    <2>10. ~ good(g[1]) => g[2] = t
      BY <1>1, <1>2, <1>4, <1>5, <2>1, <2>2 DEF K!LocalIn
    <2> HIDE DEF good
    <2>4. good(g[2]) BY <1>3, <2>2, <2>3
    <2>11. good(g[1]) => g[2] = g[1] BY <1>3, <2>2
    <2>5. g[3] = g[2] BY <1>1, <1>3, <2>2, <2>4
    <2>6. g[4] = g[2] BY <1>1, <1>3, <2>2, <2>4, <2>5
    <2>7. g[5] = g[2] BY <1>1, <1>3, <2>2, <2>4, <2>6
    <2>8. g[6] = g[2] BY <1>1, <1>3, <2>2, <2>4, <2>7
    <2> QED BY <2>2, <2>4, <2>8, <2>9, <2>10, <2>11
  <1>6. K!InstantFor(z, target) \in Int BY <1>1 DEF K!Never
  <1> QED BY <1>1, <1>5, <1>6

-----------------------------------------------------------------------------
(* The next occurrence of a rule                                           *)

\* The dates of a rule after an instant: what makes a candidate, and that the least is taken.
LEMMA NextIsACandidate ==
    ASSUME CalendarSensible, NEW z \in Zone, NEW r, NEW after \in Nat,
           r.time \in 0 .. DaySlots - 1
    PROVE  /\ K!NextDailyFireAt(z, r, after) \in Int
           /\ K!NextDailyFireAt(z, r, after) # K!Never => \E d \in Int :
                  /\ d \in K!DateIn(z, after) .. K!DateIn(z, after) + WeekDays
                  /\ d % WeekDays \in r.days
                  /\ K!NextDailyFireAt(z, r, after) = K!InstantFor(z, d * DaySlots + r.time)
                  /\ K!NextDailyFireAt(z, r, after) > after
                  /\ \A e \in K!Candidates(z, r, after) : d <= e
           /\ K!NextDailyFireAt(z, r, after) = K!Never => K!Candidates(z, r, after) = {}
  <1>1. DaySlots \in Int /\ WeekDays \in Nat BY DEF CalendarSensible
  <1>2. PICK today : today = K!DateIn(z, after) OBVIOUS
  <1>3. today \in Int BY <1>2, ClocksAreThere
  <1> DEFINE dates == K!Candidates(z, r, after)
             at(d) == K!InstantFor(z, d * DaySlots + r.time)
  <1>4. \A d : d \in dates <=> /\ \E o \in 0 .. WeekDays : d = today + o
                               /\ d % WeekDays \in r.days
                               /\ at(d) # K!Never /\ at(d) > after
    BY <1>2 DEF K!Candidates, K!Offsets, K!Weekday
  <1>5. \A d \in dates : d \in today .. today + WeekDays /\ d \in Int BY <1>1, <1>3, <1>4
  <1>6. \A d \in dates : d * DaySlots + r.time \in Int BY <1>1, <1>5
  <1>7. \A d \in dates : at(d) \in Int BY <1>6, InstantIsFound
  <1>8. K!NextDailyFireAt(z, r, after) = IF dates = {} THEN K!Never ELSE at(K!Min(dates))
    BY DEF K!NextDailyFireAt
  <1>9. CASE dates = {}
    <2>1. K!Never \in Int BY DEF K!Never
    <2> QED BY <1>8, <1>9, <2>1
  <1>10. CASE dates # {}
    <2>1. \E m \in dates : \A e \in dates : m <= e
      <3> DEFINE X == {o \in 0 .. WeekDays : today + o \in dates}
      <3>1. X \in SUBSET Nat OBVIOUS
      <3>2. X # {} BY <1>4, <1>10
      <3> HIDE DEF dates
      <3>3. PICK m \in X : \A u \in X : m <= u BY <3>1, <3>2, LeastIsThere
      <3>4. m \in Nat /\ today + m \in dates BY <3>1, <3>3
      <3>5. ASSUME NEW e \in dates PROVE today + m <= e
        <4>1. PICK o \in 0 .. WeekDays : e = today + o BY <1>4
        <4>2. m <= o BY <3>3, <4>1
        <4> QED BY <1>1, <1>3, <3>4, <4>1, <4>2
      <3> QED BY <3>4, <3>5
    <2> DEFINE d == K!Min(dates)
    <2>2. d \in dates /\ \A e \in dates : d <= e
      <3> HIDE DEF dates
      <3> QED BY <2>1 DEF K!Min
    <2> HIDE DEF d, dates
    <2>3. K!NextDailyFireAt(z, r, after) = at(d) BY <1>8, <1>10 DEF d
    <2>4. d \in Int /\ d \in today .. today + WeekDays /\ at(d) \in Int BY <1>5, <1>7, <2>2
    <2>5. d % WeekDays \in r.days /\ at(d) # K!Never /\ at(d) > after BY <1>4, <2>2
    <2> QED BY <1>2, <2>2, <2>3, <2>4, <2>5 DEF dates
  <1> QED BY <1>9, <1>10

\* A date of the rule with an instant to come is a candidate.
LEMMA CandidatesAreFound ==
    ASSUME CalendarSensible, NEW z \in Zone, NEW r, NEW after \in Nat,
           r.time \in 0 .. DaySlots - 1,
           NEW d \in K!DateIn(z, after) .. K!DateIn(z, after) + WeekDays,
           d % WeekDays \in r.days, NEW t \in Int, K!LocalIn(z, t) = d * DaySlots + r.time,
           K!InstantFor(z, d * DaySlots + r.time) > after
    PROVE  d \in K!Candidates(z, r, after)
  <1>1. DaySlots \in Int /\ WeekDays \in Nat BY DEF CalendarSensible
  <1>2. PICK today : today = K!DateIn(z, after) OBVIOUS
  <1>3. today \in Int BY <1>2, ClocksAreThere
  <1>4. d \in Int /\ d * DaySlots + r.time \in Int BY <1>1, <1>2, <1>3
  <1>5. PICK i : i = K!InstantFor(z, d * DaySlots + r.time) OBVIOUS
  <1>6. i \in Int /\ K!LocalIn(z, i) = d * DaySlots + r.time
    BY <1>4, <1>5, InstantIsFound
  <1>7. i > after /\ i # K!Never BY <1>5, <1>6 DEF K!Never
  <1>8. \E o \in 0 .. WeekDays : d = today + o
    <2>1. d - today \in 0 .. WeekDays /\ d = today + (d - today) BY <1>1, <1>2, <1>3, <1>4
    <2> QED BY <2>1
  <1> QED BY <1>2, <1>5, <1>7, <1>8 DEF K!Candidates, K!Offsets, K!Weekday

\* What a stored occurrence is, and what was recorded of those that were claimed.
IsFor(t, d) == t = K!InstantFor(zone, d * DaySlots + rule.time) /\ t # K!Never

CalendarInv ==
    /\ zone \in Zone
    /\ rule.time \in 0 .. DaySlots - 1
    /\ moment \in Nat /\ from \in Int /\ next \in Int
    /\ next # K!Never => from \in Nat /\ next = K!NextDailyFireAt(zone, rule, from)
    /\ \A f \in fired : f = <<f[1], f[2]>> /\ f[2] \in Int /\ IsFor(f[1], f[2])

\* The occurrence of a rule falls on a date and at the time of the rule.
LEMMA OccurrenceIsThere ==
    ASSUME CalendarSensible, CalendarInv, next # K!Never
    PROVE  /\ next > from /\ K!TimeIn(zone, next) = rule.time
           /\ K!DateIn(zone, next) \in Int /\ IsFor(next, K!DateIn(zone, next))
           /\ K!DateIn(zone, next)
                  \in K!DateIn(zone, from) .. K!DateIn(zone, from) + WeekDays
           /\ K!DateIn(zone, next) % WeekDays \in rule.days
           /\ \A e \in K!Candidates(zone, rule, from) : K!DateIn(zone, next) <= e
  <1>1. /\ zone \in Zone /\ from \in Nat /\ next = K!NextDailyFireAt(zone, rule, from)
        /\ rule.time \in 0 .. DaySlots - 1
    BY DEF CalendarInv
  <1>2. PICK d \in Int :
            /\ d \in K!DateIn(zone, from) .. K!DateIn(zone, from) + WeekDays
            /\ d % WeekDays \in rule.days
            /\ next = K!InstantFor(zone, d * DaySlots + rule.time)
            /\ next > from
            /\ \A e \in K!Candidates(zone, rule, from) : d <= e
    BY <1>1, NextIsACandidate
  <1>3. DaySlots \in Int /\ next \in Int BY DEF CalendarSensible, CalendarInv
  <1>4. d * DaySlots + rule.time \in Int BY <1>1, <1>3
  <1>5. K!LocalIn(zone, next) = d * DaySlots + rule.time
    BY <1>1, <1>2, <1>4, InstantIsFound
  <1>6. K!DateIn(zone, next) = d /\ K!TimeIn(zone, next) = rule.time
    BY <1>1, <1>3, <1>5, ClockOfDate
  <1> QED BY <1>2, <1>6 DEF IsFor

\* The instant that counts of a wall clock is the one found.
LEMMA CountedIsFound ==
    ASSUME CalendarSensible, zone \in Zone, NEW target \in Int, NEW t \in K!Counted(target)
    PROVE  t \in Int /\ K!LocalIn(zone, t) = target /\ K!InstantFor(zone, target) = t
  <1>1. zone.before \in Int /\ zone.after \in Int /\ zone.at \in Int
    BY DEF Zone, CalendarSensible
  <1>2. t \in Int /\ K!LocalIn(zone, t) = target BY <1>1 DEF K!Counted, K!Instants
  <1>3. PICK i : i = K!InstantFor(zone, target) OBVIOUS
  <1>4. /\ i \in Int /\ K!LocalIn(zone, i) = target
        /\ IF target < zone.at THEN i <= t ELSE t <= i
    BY <1>2, <1>3, InstantIsFound
  <1>5. i \in K!Instants(target) BY <1>1, <1>4 DEF K!Instants, K!LocalIn
  <1>6. IF target < zone.at THEN t <= i ELSE i <= t BY <1>5 DEF K!Counted
  <1> QED BY <1>2, <1>3, <1>4, <1>6

LEMMA FirstIsFollowed == CalendarSensible /\ CalendarInv => K!FirstOccurrence
  <1> SUFFICES ASSUME CalendarSensible, CalendarInv, next # K!Never
               PROVE  K!FirstOccurrence
    BY DEF K!FirstOccurrence
  <1>1. /\ zone \in Zone /\ rule.time \in 0 .. DaySlots - 1 /\ DaySlots \in Int
        /\ from \in Nat /\ next \in Int /\ WeekDays \in Nat
    BY DEF CalendarInv, CalendarSensible
  <1>2. PICK today, last : today = K!DateIn(zone, from) /\ last = K!DateIn(zone, next) OBVIOUS
  <1>3. today \in Int /\ last \in Int /\ last \in today .. today + WeekDays
    BY <1>1, <1>2, ClocksAreThere, OccurrenceIsThere
  <1>4. ASSUME NEW d \in today .. last, K!Missed(d, from, next) PROVE FALSE
    <2>1. d \in Int /\ d \in today .. today + WeekDays /\ d <= last BY <1>1, <1>3
    <2>2. PICK target : target = d * DaySlots + rule.time OBVIOUS
    <2>3. target \in Int BY <1>1, <2>1, <2>2
    <2>4. PICK t \in K!Counted(target) : from < t /\ t < next BY <1>4, <2>2 DEF K!Missed
    <2>5. d % WeekDays \in rule.days BY <1>4 DEF K!Missed, K!Weekday
    <2>6. /\ K!LocalIn(zone, t) = target /\ t \in Int
          /\ K!InstantFor(zone, target) = t
      BY <1>1, <2>3, CountedIsFound
    <2>7. d \in K!Candidates(zone, rule, from)
      BY <1>1, <1>2, <2>1, <2>2, <2>4, <2>5, <2>6, CandidatesAreFound
    <2>8. last = d BY <1>2, <1>3, <2>1, <2>7, OccurrenceIsThere
    <2>9. next = K!InstantFor(zone, target) BY <1>2, <2>2, <2>8, OccurrenceIsThere DEF IsFor
    <2> QED BY <1>1, <2>4, <2>6, <2>9
  <1>5. ASSUME NEW t \in K!Instants(K!LocalIn(zone, next))
        PROVE  /\ zone.before >= 0 /\ zone.after >= 0 => t <= next
               /\ zone.before <= 0 /\ zone.after <= 0 => next <= t
    <2>1. PICK target : target = K!LocalIn(zone, next) OBVIOUS
    <2>2. zone.before \in Int /\ zone.after \in Int /\ zone.at \in Int
      BY <1>1 DEF Zone, CalendarSensible
    <2>3. target \in Int BY <1>1, <2>1, ClocksAreThere
    <2>4. t \in Int /\ K!LocalIn(zone, t) = target /\ t \in {target - zone.before, target - zone.after}
      BY <1>5, <2>1, <2>2, <2>3 DEF K!Instants
    <2>5. next = K!InstantFor(zone, target)
      <3>1. target = last * DaySlots + K!TimeIn(zone, next) BY <1>1, <1>2, <2>1, ClocksAreThere
      <3>2. K!TimeIn(zone, next) = rule.time BY OccurrenceIsThere
      <3> QED BY <1>2, <3>1, <3>2, OccurrenceIsThere DEF IsFor
    <2>6. IF target < zone.at THEN next <= t ELSE t <= next
      BY <1>1, <2>3, <2>4, <2>5, InstantIsFound
    <2> QED BY <1>1, <2>1, <2>2, <2>3, <2>4, <2>6 DEF K!LocalIn
  <1> QED BY <1>2, <1>4, <1>5, OccurrenceIsThere DEF K!FirstOccurrence, K!Weekday

LEMMA NothingIsOverlooked == CalendarSensible /\ CalendarInv => K!FoundIfThere
  <1> SUFFICES ASSUME CalendarSensible, CalendarInv,
                      K!NextDailyFireAt(zone, rule, moment) = K!Never,
                      NEW d \in K!DateIn(zone, moment) .. K!DateIn(zone, moment) + WeekDays,
                      K!Missed(d, moment, Horizon + moment + 10 * WeekDays * DaySlots)
               PROVE  FALSE
    BY DEF K!FoundIfThere
  <1>1. /\ zone \in Zone /\ rule.time \in 0 .. DaySlots - 1 /\ DaySlots \in Int
        /\ moment \in Nat /\ WeekDays \in Nat
    BY DEF CalendarInv, CalendarSensible
  <1>2. K!DateIn(zone, moment) \in Int BY <1>1, ClocksAreThere
  <1>3. d \in Int BY <1>1, <1>2
  <1>4. PICK target : target = d * DaySlots + rule.time OBVIOUS
  <1>5. target \in Int BY <1>1, <1>3, <1>4
  <1>6. d % WeekDays \in rule.days BY DEF K!Missed, K!Weekday
  <1>7. PICK t \in K!Counted(target) : moment < t BY <1>4 DEF K!Missed
  <1>8. t \in Int /\ K!LocalIn(zone, t) = target /\ K!InstantFor(zone, target) = t
    BY <1>1, <1>5, CountedIsFound
  <1>10. d \in K!Candidates(zone, rule, moment)
    BY <1>1, <1>4, <1>6, <1>7, <1>8, CandidatesAreFound
  <1>11. K!Candidates(zone, rule, moment) = {} BY <1>1, NextIsACandidate
  <1> QED BY <1>10, <1>11

LEMMA DatesFireOnce == CalendarInv => K!OnceADate
  BY DEF CalendarInv, K!OnceADate, IsFor

-----------------------------------------------------------------------------
(* The first instant of a date                                             *)

\* The middle of a stretch of instants leaves two that are shorter.
LEMMA MiddleIsBetween ==
    ASSUME NEW l \in Int, NEW h \in Int, l < h
    PROVE  (l + h) \div 2 \in Int /\ l <= (l + h) \div 2 /\ (l + h) \div 2 < h
  OBVIOUS

\* One look at the middle of every stretch between two instants, with what f says of the rest.
Halving(z, d, low, high, f) ==
    [s \in (low .. high) \X (low .. high) |->
        LET mid == (s[1] + s[2]) \div 2
        IN  IF s[1] >= s[2] THEN s[1]
            ELSE IF K!DateIn(z, mid) < d THEN f[<<mid + 1, s[2]>>] ELSE f[<<s[1], mid>>]]

\* Two searches that agree on the shorter stretches halve alike.
LEMMA HalvesAlike ==
    ASSUME NEW z, NEW d, NEW low \in Int, NEW high \in Int, NEW f, NEW g, NEW n \in Int,
           NEW s \in (low .. high) \X (low .. high), s[2] - s[1] <= n,
           \A r \in (low .. high) \X (low .. high) : r[2] - r[1] < n => f[r] = g[r]
    PROVE  Halving(z, d, low, high, f)[s] = Halving(z, d, low, high, g)[s]
  <1>1. PICK l \in low .. high, h \in low .. high : l = s[1] /\ h = s[2] OBVIOUS
  <1>2. PICK mid : mid = (l + h) \div 2 OBVIOUS
  <1>3. \A k : Halving(z, d, low, high, k)[s] =
                   IF l >= h THEN l
                   ELSE IF K!DateIn(z, mid) < d THEN k[<<mid + 1, h>>] ELSE k[<<l, mid>>]
    BY <1>1, <1>2 DEF Halving
  <1>4. CASE l >= h BY <1>3, <1>4
  <1>5. CASE ~ (l >= h)
    <2>1. mid \in Int /\ l <= mid /\ mid < h BY <1>2, <1>5, MiddleIsBetween
    <2>2. mid \in low .. high /\ mid + 1 \in low .. high /\ h - (mid + 1) < n /\ mid - l < n
      BY <1>1, <1>5, <2>1
    <2>3. PICK right, lefts : right = <<mid + 1, h>> /\ lefts = <<l, mid>> OBVIOUS
    <2>4. /\ right \in (low .. high) \X (low .. high) /\ right[2] - right[1] < n
          /\ lefts \in (low .. high) \X (low .. high) /\ lefts[2] - lefts[1] < n
      BY <2>2, <2>3
    <2>5. f[right] = g[right] /\ f[lefts] = g[lefts] BY <2>4
    <2> QED BY <1>3, <2>3, <2>5
  <1> QED BY <1>4, <1>5

LEMMA SearchIsDefined ==
    ASSUME NEW z, NEW d, NEW low \in Int, NEW high \in Int, low <= high
    PROVE  \E f : f = Halving(z, d, low, high, f)
  <1> DEFINE D == (low .. high) \X (low .. high)
             Up(n, f) == /\ f = [s \in D |-> f[s]]
                         /\ \A s \in D : s[2] - s[1] <= n => f[s] = Halving(z, d, low, high, f)[s]
             Bad == {n \in Nat : ~ \E f : Up(n, f)}
  <1>1. \A s \in D : s[1] \in low .. high /\ s[2] \in low .. high OBVIOUS
  <1>2. \A k : \A s \in D : s[1] >= s[2] => Halving(z, d, low, high, k)[s] = s[1]
    BY DEF Halving
  <1>3. \A k, j : \A n \in Int : \A s \in D :
            /\ s[2] - s[1] <= n /\ \A r \in D : r[2] - r[1] < n => k[r] = j[r]
            => Halving(z, d, low, high, k)[s] = Halving(z, d, low, high, j)[s]
    <2> SUFFICES ASSUME NEW k, NEW j, NEW n \in Int, NEW s \in D, s[2] - s[1] <= n,
                        \A r \in D : r[2] - r[1] < n => k[r] = j[r]
                 PROVE  Halving(z, d, low, high, k)[s] = Halving(z, d, low, high, j)[s]
      OBVIOUS
    <2> QED BY HalvesAlike
  <1>4. \A k : Halving(z, d, low, high, k) = [s \in D |-> Halving(z, d, low, high, k)[s]]
    BY DEF Halving
  <1> HIDE DEF D
  <1>5. Bad = {}
    <2> SUFFICES ASSUME Bad # {} PROVE FALSE OBVIOUS
    <2>1. PICK n \in Bad : \A u \in Bad : n <= u
      <3>1. Bad \in SUBSET Nat OBVIOUS
      <3> HIDE DEF Bad
      <3> QED BY <3>1, LeastIsThere
    <2>2. n \in Nat /\ ~ \E f : Up(n, f) OBVIOUS
    <2>3. CASE n = 0
      <3> DEFINE f == [s \in D |-> s[1]]
      <3>1. (\A s \in D : f[s] = s[1]) /\ f = [s \in D |-> f[s]] OBVIOUS
      <3> HIDE DEF f
      <3>2. \A s \in D : s[2] - s[1] <= n => s[1] >= s[2] BY <1>1, <2>3
      <3>3. Up(n, f) BY <1>2, <3>1, <3>2
      <3> QED BY <2>2, <3>3
    <2>4. CASE n # 0
      <3>1. n - 1 \in Nat /\ n - 1 < n BY <2>2, <2>4
      <3>2. n - 1 \notin Bad
        <4> HIDE DEF Bad
        <4> QED BY <2>1, <2>2, <3>1
      <3>3. PICK f : Up(n - 1, f) BY <3>1, <3>2
      <3> DEFINE H == Halving(z, d, low, high, f)
                 g == [s \in D |-> IF s[2] - s[1] <= n - 1 THEN f[s] ELSE H[s]]
      <3>4. /\ g = [s \in D |-> g[s]]
            /\ \A s \in D : g[s] = IF s[2] - s[1] <= n - 1 THEN f[s] ELSE H[s]
        OBVIOUS
      <3> HIDE DEF g
      <3>5. \A s \in D : s[2] - s[1] <= n - 1 => f[s] = H[s] BY <3>3
      <3>6. \A s \in D : g[s] = H[s] BY <3>4, <3>5
      <3>7. \A s \in D : s[2] - s[1] < n => f[s] = g[s] BY <1>1, <2>2, <3>4
      <3>8. \A s \in D : s[2] - s[1] <= n => H[s] = Halving(z, d, low, high, g)[s]
        BY <1>3, <2>2, <3>7
      <3>9. Up(n, g) BY <3>4, <3>6, <3>8
      <3> QED BY <2>2, <3>9
    <2> QED BY <2>3, <2>4
  <1>6. high - low \in Nat /\ \A s \in D : s[2] - s[1] <= high - low BY <1>1
  <1>7. PICK n \in Nat : n = high - low BY <1>6
  <1>8. n \notin Bad BY <1>5
  <1>9. PICK f : Up(n, f) BY <1>8
  <1> DEFINE H == Halving(z, d, low, high, f)
  <1>10. f = [s \in D |-> f[s]] /\ H = [s \in D |-> H[s]] BY <1>4, <1>9
  <1>11. \A s \in D : f[s] = H[s] BY <1>6, <1>7, <1>9
  <1> HIDE DEF H
  <1>12. f = H BY <1>10, <1>11
  <1> QED BY <1>12 DEF H

\* Between an instant before a date and one that is not, the search ends where the date starts.
LEMMA SearchEndsAtStart ==
    ASSUME NEW z, NEW d, NEW low \in Int, NEW high \in Int,
           NEW f, f = Halving(z, d, low, high, f),
           low <= high, K!DateIn(z, low - 1) < d, ~ (K!DateIn(z, high) < d)
    PROVE  /\ f[<<low, high>>] \in low .. high
           /\ K!DateIn(z, f[<<low, high>>] - 1) < d /\ ~ (K!DateIn(z, f[<<low, high>>]) < d)
  <1> DEFINE early(t) == K!DateIn(z, t) < d
             at(l, h) == f[<<l, h>>]
             Right(l, h) == at(l, h) \in l .. h /\ early(at(l, h) - 1) /\ ~ early(at(l, h))
             Asked(l, h) == /\ l \in low .. high /\ h \in low .. high /\ l <= h
                            /\ early(l - 1) /\ ~ early(h)
             Bad == {n \in Nat : \E l, h \in low .. high : h - l = n /\ Asked(l, h) /\ ~ Right(l, h)}
  <1>1. ASSUME NEW l \in low .. high, NEW h \in low .. high, NEW mid, mid = (l + h) \div 2
        PROVE  at(l, h) = IF l >= h THEN l
                             ELSE IF early(mid) THEN at(mid + 1, h) ELSE at(l, mid)
    <2>1. PICK s \in (low .. high) \X (low .. high) : s = <<l, h>> OBVIOUS
    <2>2. s[1] = l /\ s[2] = h BY <2>1
    <2>3. Halving(z, d, low, high, f)[s] =
              IF s[1] >= s[2] THEN s[1]
              ELSE IF K!DateIn(z, (s[1] + s[2]) \div 2) < d
                   THEN f[<<(s[1] + s[2]) \div 2 + 1, s[2]>>]
              ELSE f[<<s[1], (s[1] + s[2]) \div 2>>]
      BY DEF Halving
    <2>4. f[s] = IF l >= h THEN l
                 ELSE IF early(mid) THEN at(mid + 1, h) ELSE at(l, mid)
      BY <1>1, <2>2, <2>3
    <2> QED BY <2>1, <2>4
  <1> HIDE DEF at, early
  <1>2. Bad = {}
    <2> SUFFICES ASSUME Bad # {} PROVE FALSE OBVIOUS
    <2>1. PICK n \in Bad : \A u \in Bad : n <= u
      <3>1. Bad \in SUBSET Nat OBVIOUS
      <3> HIDE DEF Bad
      <3> QED BY <3>1, LeastIsThere
    <2>2. PICK l \in low .. high, h \in low .. high : h - l = n /\ Asked(l, h) /\ ~ Right(l, h)
      BY <2>1
    <2>3. l \in Int /\ h \in Int /\ n \in Nat OBVIOUS
    <2>4. \A a, b \in low .. high : b - a < n /\ b - a \in Nat /\ Asked(a, b) => Right(a, b)
      <3> SUFFICES ASSUME NEW a \in low .. high, NEW b \in low .. high, b - a < n,
                          b - a \in Nat, Asked(a, b), ~ Right(a, b)
                   PROVE  FALSE
        OBVIOUS
      <3> HIDE DEF Asked, Right
      <3>1. b - a \in Bad OBVIOUS
      <3> HIDE DEF Bad
      <3> QED BY <2>1, <2>3, <3>1
    <2>5. CASE l = h
      <3>1. PICK mid : mid = (l + h) \div 2 OBVIOUS
      <3>2. at(l, h) = IF l >= h THEN l
                          ELSE IF early(mid) THEN at(mid + 1, h) ELSE at(l, mid)
        BY <1>1, <3>1
      <3>3. at(l, h) = l BY <2>3, <2>5, <3>2
      <3> QED BY <2>2, <2>3, <2>5, <3>3
    <2>6. CASE l < h
      <3>1. PICK mid : mid = (l + h) \div 2 OBVIOUS
      <3>2. mid \in Int /\ l <= mid /\ mid < h BY <2>3, <2>6, <3>1, MiddleIsBetween
      <3>3. at(l, h) = IF l >= h THEN l
                          ELSE IF early(mid) THEN at(mid + 1, h) ELSE at(l, mid)
        BY <1>1, <3>1
      <3>4. CASE early(mid)
        <4>1. at(l, h) = at(mid + 1, h) BY <2>3, <2>6, <3>3, <3>4
        <4>2. /\ mid + 1 \in low .. high /\ h - (mid + 1) < n /\ h - (mid + 1) \in Nat
              /\ mid + 1 <= h /\ (mid + 1) - 1 = mid
          BY <2>2, <2>3, <3>2
        <4>3. Asked(mid + 1, h) BY <2>2, <3>4, <4>2
        <4>4. Right(mid + 1, h)
          <5> HIDE DEF Asked, Right
          <5> QED BY <2>4, <4>2, <4>3
        <4> QED BY <2>2, <2>3, <3>2, <4>1, <4>4
      <3>5. CASE ~ early(mid)
        <4>1. at(l, h) = at(l, mid) BY <2>3, <2>6, <3>3, <3>5
        <4>2. mid \in low .. high /\ mid - l < n /\ mid - l \in Nat BY <2>2, <2>3, <3>2
        <4>3. Asked(l, mid) BY <2>2, <3>2, <3>5, <4>2
        <4>4. Right(l, mid)
          <5> HIDE DEF Asked, Right
          <5> QED BY <2>4, <4>2, <4>3
        <4> QED BY <2>2, <2>3, <3>2, <4>1, <4>4
      <3> QED BY <3>4, <3>5
    <2> QED BY <2>2, <2>3, <2>5, <2>6
  <1>3. low \in low .. high /\ high \in low .. high /\ high - low \in Nat OBVIOUS
  <1>4. Asked(low, high) BY <1>3 DEF early
  <1>5. Right(low, high)
    <2> HIDE DEF Asked, Right
    <2> QED BY <1>2, <1>3, <1>4
  <1> QED BY <1>5 DEF at, early

\* The first instant of a date: before it the date was another one.
LEMMA StartIsRight ==
    ASSUME CalendarSensible, NEW z \in Zone, NEW d \in Int
    PROVE  /\ K!StartOfDate(z, d) \in Int
           /\ K!DateIn(z, K!StartOfDate(z, d) - 1) < d
           /\ ~ (K!DateIn(z, K!StartOfDate(z, d)) < d)
  <1>1. DaySlots \in Int /\ DaySlots > 0 BY DEF CalendarSensible
  <1> DEFINE low == (d - 2) * DaySlots
             high == (d + 2) * DaySlots
             F == CHOOSE f : f = Halving(z, d, low, high, f)
  <1>2. low \in Int /\ high \in Int /\ d * DaySlots \in Int
        /\ low = d * DaySlots - 2 * DaySlots /\ high = d * DaySlots + 2 * DaySlots
    BY <1>1
  <1>3. K!StartOfDate(z, d) = F[<<low, high>>] BY DEF K!StartOfDate, Halving
  <1> HIDE DEF low, high
  <1>4. low <= high BY <1>1, <1>2
  <1>5. F = Halving(z, d, low, high, F) BY <1>2, <1>4, SearchIsDefined
  <1> HIDE DEF F
  <1>6. K!LocalIn(z, low - 1) < d * DaySlots /\ ~ (K!LocalIn(z, high) < d * DaySlots)
    <2>1. /\ K!LocalIn(z, low - 1) \in low - 1 - DaySlots .. low - 1 + DaySlots
          /\ K!LocalIn(z, high) \in high - DaySlots .. high + DaySlots
      BY <1>2, ClocksAreThere
    <2> QED BY <1>1, <1>2, <2>1
  <1>7. K!DateIn(z, low - 1) < d /\ ~ (K!DateIn(z, high) < d)
    BY <1>2, <1>6, DatesAreOrdered
  <1>8. F[<<low, high>>] \in low .. high /\ K!DateIn(z, F[<<low, high>>] - 1) < d
        /\ ~ (K!DateIn(z, F[<<low, high>>]) < d)
    BY <1>2, <1>4, <1>5, <1>7, SearchEndsAtStart
  <1> QED BY <1>2, <1>3, <1>8

LEMMA DatesStartOnce == CalendarSensible /\ CalendarInv => K!DatesStart
  <1> SUFFICES ASSUME CalendarSensible, CalendarInv,
                      NEW d \in {K!DateIn(zone, moment) - 1, K!DateIn(zone, moment),
                                 K!DateIn(zone, moment) + 1}
               PROVE  /\ K!DateIn(zone, K!StartOfDate(zone, d)) >= d
                      /\ K!DateIn(zone, K!StartOfDate(zone, d) - 1) < d
                      /\ zone.before <= zone.after =>
                             \A t \in (K!StartOfDate(zone, d) - 3 * DaySlots)
                                         .. K!StartOfDate(zone, d) - 1 : K!DateIn(zone, t) < d
    BY DEF K!DatesStart
  <1>1. zone \in Zone /\ moment \in Int /\ DaySlots \in Int
    BY DEF CalendarInv, CalendarSensible
  <1>2. d \in Int BY <1>1, ClocksAreThere
  <1>3. PICK start : start = K!StartOfDate(zone, d) OBVIOUS
  <1>4. start \in Int /\ K!DateIn(zone, start - 1) < d /\ ~ (K!DateIn(zone, start) < d)
    BY <1>1, <1>2, <1>3, StartIsRight
  <1>5. K!DateIn(zone, start) \in Int BY <1>1, <1>4, ClocksAreThere
  <1>6. ASSUME zone.before <= zone.after, NEW t \in (start - 3 * DaySlots) .. start - 1
        PROVE  K!DateIn(zone, t) < d
    <2>1. t \in Int /\ t <= start - 1 /\ start - 1 \in Int /\ d * DaySlots \in Int
      BY <1>1, <1>2, <1>4, <1>6
    <2>2. zone.before \in Int /\ zone.after \in Int /\ zone.at \in Int
      BY <1>1 DEF Zone, CalendarSensible
    <2>3. K!LocalIn(zone, t) <= K!LocalIn(zone, start - 1)
      BY <1>6, <2>1, <2>2 DEF K!LocalIn
    <2>4. K!LocalIn(zone, start - 1) < d * DaySlots
      BY <1>1, <1>2, <1>4, <2>1, DatesAreOrdered
    <2>5. K!LocalIn(zone, t) \in Int /\ K!LocalIn(zone, start - 1) \in Int
      BY <1>1, <2>1, ClocksAreThere
    <2> QED BY <1>1, <1>2, <2>1, <2>3, <2>4, <2>5, DatesAreOrdered
  <1> QED BY <1>2, <1>3, <1>4, <1>5, <1>6

-----------------------------------------------------------------------------
(* Every occurrence follows its rule                                       *)

LEMMA CalendarStarts == CalendarSensible /\ K!Init => CalendarInv
  <1> SUFFICES ASSUME CalendarSensible, K!Init PROVE CalendarInv OBVIOUS
  <1>1. zone \in Zone BY ZonesAreZones DEF K!Init
  <1>2. rule.time \in 0 .. DaySlots - 1 BY DEF K!Init
  <1>3. moment = 0 /\ from = K!Never /\ next = K!Never /\ fired = {} /\ K!Never \in Int
    BY DEF K!Init, K!Never
  <1> QED BY <1>1, <1>2, <1>3 DEF CalendarInv

LEMMA CalendarStays ==
    ASSUME CalendarSensible, CalendarInv, [K!Next]_(K!vars)
    PROVE  CalendarInv'
  <1>1. /\ zone \in Zone /\ rule.time \in 0 .. DaySlots - 1
        /\ moment \in Nat /\ from \in Int /\ next \in Int
    BY DEF CalendarInv
  <1>2. zone' = zone /\ rule' = rule BY DEF K!Next, K!Save, K!Claim, K!Advance, K!vars
  <1>3. K!NextDailyFireAt(zone, rule, moment) \in Int BY <1>1, NextIsACandidate
  <1>4. \A t, d : IsFor(t, d)' <=> IsFor(t, d) BY <1>2 DEF IsFor
  <1>5. CASE K!Save
    <2>1. /\ next' = K!NextDailyFireAt(zone, rule, moment) /\ from' = moment
          /\ moment' = moment /\ fired' = fired
      BY <1>5 DEF K!Save
    <2> QED BY <1>1, <1>2, <1>3, <1>4, <2>1 DEF CalendarInv
  <1>6. CASE K!Claim
    <2>1. /\ next' = K!NextDailyFireAt(zone, rule, moment) /\ from' = moment
          /\ moment' = moment /\ fired' = fired \cup {<<next, K!DateIn(zone, next)>>}
          /\ next # K!Never
      BY <1>6 DEF K!Claim
    <2>2. PICK d : d = K!DateIn(zone, next) OBVIOUS
    <2>3. d \in Int /\ IsFor(next, d) BY <2>1, <2>2, OccurrenceIsThere
    <2>4. \A f \in fired' : f \in fired \/ f = <<next, d>> BY <2>1, <2>2
    <2>5. \A f \in fired' : f = <<f[1], f[2]>> /\ f[2] \in Int /\ IsFor(f[1], f[2])
      BY <2>3, <2>4 DEF CalendarInv
    <2> QED BY <1>1, <1>2, <1>3, <1>4, <2>1, <2>5 DEF CalendarInv
  <1>7. CASE K!Advance
    <2>1. moment' = moment + 1 /\ next' = next /\ from' = from /\ fired' = fired
      BY <1>7 DEF K!Advance
    <2> QED BY <1>1, <1>2, <1>4, <2>1 DEF CalendarInv
  <1>8. CASE UNCHANGED K!vars
    <2>1. moment' = moment /\ next' = next /\ from' = from /\ fired' = fired
      BY <1>8 DEF K!vars
    <2> QED BY <1>1, <1>2, <1>4, <2>1 DEF CalendarInv
  <1> QED BY <1>5, <1>6, <1>7, <1>8 DEF K!Next

\* A behaviour about the calendar takes its steps.
LEMMA CalendarMoves ==
    ASSUME [AllNext]_all PROVE about' = about /\ (about = "calendar" => [K!Next]_(K!vars))
  BY DEF AllNext, all, calendarVars, K!vars

\* A rule that is kept, claimed, or written back from a copy fires next at the time of day it
\* is set to; its occurrence is the first its weekdays, its time and the clocks of its owner
\* allow, for all clocks and lengths of days and weeks; and a date fires once.
THEOREM OccurrencesFollowRules ==
    ScheduleSensible /\ CalendarSensible => (AllSpec => []NextFireFollowsRule)
  <1> SUFFICES ASSUME ScheduleSensible, CalendarSensible PROVE AllSpec => []NextFireFollowsRule
    OBVIOUS
  <1> DEFINE Inv == /\ about = "schedule" => RulesFollow
                    /\ about = "calendar" => CalendarInv
  <1>1. AllInit => Inv
    <2> SUFFICES ASSUME AllInit PROVE Inv OBVIOUS
    <2>1. about = "calendar" => K!Init BY DEF AllInit
    <2> QED BY <2>1, ScheduleStarts, CalendarStarts
  <1>2. Inv /\ [AllNext]_all => Inv'
    <2> SUFFICES ASSUME Inv, [AllNext]_all PROVE Inv' OBVIOUS
    <2>1. about = "schedule" => RulesFollow'
      BY ScheduleMoves, ScheduleKeepsRules
    <2>2. about = "calendar" => CalendarInv' BY CalendarMoves, CalendarStays
    <2> QED BY <2>1, <2>2, CalendarMoves
  <1>3. Inv => NextFireFollowsRule
    <2> SUFFICES ASSUME Inv PROVE NextFireFollowsRule OBVIOUS
    <2>1. about = "schedule" => S!NextFireFollowsRule
      BY DEF RulesFollow, Follows, S!NextFireFollowsRule
    <2>2. about = "calendar" => K!NextFireIsRight
      BY FirstIsFollowed, NothingIsOverlooked, DatesFireOnce, DatesStartOnce
      DEF K!NextFireIsRight
    <2> QED BY <2>1, <2>2 DEF NextFireFollowsRule
  <1> QED BY <1>1, <1>2, <1>3, PTL DEF AllSpec

-----------------------------------------------------------------------------
(* The reminders                                                           *)

\* The numbers of the elements of a set, here and in the module of the reminders, are the same.
LEMMA SameSize == \A X : R!Cardinality(X) = Cardinality(X)
  BY DEF R!Cardinality, Cardinality

Entries(q) == {q[i] : i \in 1 .. Len(q)}

\* The candidates a sweep may still send a reminder to.
LeftOf(w) == IF w.phase = "recording" THEN Entries(Tail(w.todo)) ELSE Entries(w.todo)

\* A sweep lists a participant once; it decides in the window, on a day after the last reminder
\* it has read of, and below the number of reminders.
SweepRight(w) ==
    /\ w \in R!Sweep
    /\ w.phase = "idle" <=> w.todo = <<>>
    /\ \A i, j \in 1 .. Len(w.todo) : w.todo[i].employee = w.todo[j].employee => i = j
    /\ w.phase \in {"delivering", "recording"} => w.at % DayLength = DayLength - 1
    /\ w.phase = "delivering" =>
           /\ Head(w.todo).sent < MaxReminders
           /\ Head(w.todo).last = R!Never \/ w.at - Head(w.todo).last >= DayLength

Active == {s \in Sweeps : sweeps[s].phase # "idle"}
Waits(e) == {s \in Sweeps : \E c \in LeftOf(sweeps[s]) : c.employee = e}
MaySend(e) == {s \in Sweeps : \E c \in LeftOf(sweeps[s]) : c.employee = e /\ c.sent < MaxReminders}
Records(e) == {s \in Sweeps : sweeps[s].phase = "recording" /\ R!Target(s).employee = e}

\* What is left of a list without its head.
LEMMA TailIsTheRest ==
    ASSUME NEW q \in Seq(R!Candidate), q # <<>>,
           \A i, j \in 1 .. Len(q) : q[i].employee = q[j].employee => i = j
    PROVE  /\ Tail(q) \in Seq(R!Candidate) /\ Head(q) \in R!Candidate
           /\ Tail(q) = <<>> <=> Len(q) = 1
           /\ \A i, j \in 1 .. Len(Tail(q)) : Tail(q)[i].employee = Tail(q)[j].employee => i = j
           /\ \A d : d \in Entries(Tail(q)) <=>
                         d \in Entries(q) /\ d.employee # Head(q).employee
           /\ Head(q) \in Entries(q)
  <1>1. Len(q) \in Nat /\ Len(q) >= 1 /\ Head(q) = q[1] /\ Head(q) \in R!Candidate OBVIOUS
  <1>2. /\ Tail(q) \in Seq(R!Candidate) /\ Len(Tail(q)) = Len(q) - 1
        /\ \A i \in 1 .. Len(q) - 1 : Tail(q)[i] = q[i + 1]
    OBVIOUS
  <1>3. Tail(q) = <<>> <=> Len(q) = 1
    <2>1. \A t \in Seq(R!Candidate) : t = <<>> <=> Len(t) = 0 OBVIOUS
    <2> QED BY <1>1, <1>2, <2>1
  <1>4. \A i, j \in 1 .. Len(Tail(q)) : Tail(q)[i].employee = Tail(q)[j].employee => i = j
    <2> SUFFICES ASSUME NEW i \in 1 .. Len(q) - 1, NEW j \in 1 .. Len(q) - 1,
                        q[i + 1].employee = q[j + 1].employee
                 PROVE  i = j
      BY <1>2
    <2>1. i + 1 \in 1 .. Len(q) /\ j + 1 \in 1 .. Len(q) BY <1>1
    <2>2. i + 1 = j + 1 BY <2>1
    <2> QED BY <2>2
  <1>5. ASSUME NEW d \in Entries(Tail(q)) PROVE d \in Entries(q) /\ d.employee # Head(q).employee
    <2>1. PICK i \in 1 .. Len(q) - 1 : d = q[i + 1] BY <1>2 DEF Entries
    <2>2. i + 1 \in 1 .. Len(q) /\ 1 \in 1 .. Len(q) /\ i + 1 # 1 BY <1>1
    <2> QED BY <1>1, <2>1, <2>2 DEF Entries
  <1>6. ASSUME NEW d \in Entries(q), d.employee # Head(q).employee PROVE d \in Entries(Tail(q))
    <2>1. PICK i \in 1 .. Len(q) : d = q[i] BY DEF Entries
    <2>2. i # 1 BY <1>1, <1>6, <2>1
    <2>3. i - 1 \in 1 .. Len(q) - 1 /\ (i - 1) + 1 = i BY <1>1, <2>2
    <2>4. Tail(q)[i - 1] = d BY <1>2, <2>1, <2>3
    <2> QED BY <1>2, <2>3, <2>4 DEF Entries
  <1>7. Head(q) \in Entries(q) BY <1>1 DEF Entries
  <1> QED BY <1>1, <1>2, <1>3, <1>4, <1>5, <1>6, <1>7

\* Who is left of a sweep are candidates, one for a participant.
LEMMA LeftAreCandidates ==
    ASSUME NEW w, SweepRight(w)
    PROVE  /\ \A c \in LeftOf(w) : c \in R!Candidate
           /\ w.phase # "idle" => Head(w.todo) \in R!Candidate
           /\ w.phase \in {"next", "delivering"} => Head(w.todo) \in LeftOf(w)
           /\ w.phase = "idle" => LeftOf(w) = {}
           /\ \A c, d \in LeftOf(w) : c.employee = d.employee => c = d
           /\ w.phase = "recording" => \A c \in LeftOf(w) : c.employee # Head(w.todo).employee
  <1>1. w.todo \in Seq(R!Candidate) /\ w.phase \in {"idle", "next", "delivering", "recording"}
    BY DEF SweepRight, R!Sweep
  <1>2. \A c \in Entries(w.todo) : c \in R!Candidate BY <1>1 DEF Entries
  <1>3. \A c, d \in Entries(w.todo) : c.employee = d.employee => c = d
    BY DEF Entries, SweepRight
  <1>4. CASE w.phase = "idle"
    <2>1. w.todo = <<>> BY <1>4 DEF SweepRight
    <2>2. LeftOf(w) = {} BY <1>4, <2>1 DEF LeftOf, Entries
    <2> QED BY <1>4, <2>2
  <1>5. CASE w.phase # "idle"
    <2>1. w.todo # <<>> BY <1>5 DEF SweepRight
    <2>2. /\ \A d : d \in Entries(Tail(w.todo)) <=>
                        d \in Entries(w.todo) /\ d.employee # Head(w.todo).employee
          /\ Head(w.todo) \in Entries(w.todo) /\ Head(w.todo) \in R!Candidate
      BY <1>1, <2>1, TailIsTheRest DEF SweepRight
    <2> QED BY <1>2, <1>3, <1>5, <2>2 DEF LeftOf
  <1> QED BY <1>4, <1>5

\* A sweep goes on to the next of its list.
LEMMA RestIsRight ==
    ASSUME RemindersSensible, NEW s, SweepRight(sweeps[s]), sweeps[s].phase # "idle"
    PROVE  /\ SweepRight(R!Rest(s)) /\ R!Rest(s).phase \in {"idle", "next"}
           /\ \A d : d \in LeftOf(R!Rest(s)) <=>
                         d \in LeftOf(sweeps[s]) /\ d.employee # R!Target(s).employee
  <1> DEFINE q == sweeps[s].todo
             more == [phase |-> "next", todo |-> Tail(q), at |-> 0]
  <1>1. q \in Seq(R!Candidate) /\ q # <<>> /\ R!Target(s) = Head(q)
    BY DEF SweepRight, R!Sweep, R!Target
  <1>2. /\ Tail(q) \in Seq(R!Candidate) /\ (Tail(q) = <<>> <=> Len(q) = 1)
        /\ \A i, j \in 1 .. Len(Tail(q)) : Tail(q)[i].employee = Tail(q)[j].employee => i = j
        /\ \A d : d \in Entries(Tail(q)) <=> d \in Entries(q) /\ d.employee # Head(q).employee
    BY <1>1, TailIsTheRest DEF SweepRight
  <1>3. R!Rest(s) = IF Len(q) = 1 THEN R!Idle ELSE more BY DEF R!Rest
  <1>4. \A d : d \in Entries(Tail(q)) <=>
                   d \in LeftOf(sweeps[s]) /\ d.employee # R!Target(s).employee
    BY <1>1, <1>2 DEF LeftOf
  <1>5. 0 \in 0 .. MaxNow BY DEF RemindersSensible
  <1>6. CASE Len(q) = 1
    <2>1. R!Rest(s) = R!Idle /\ Tail(q) = <<>> BY <1>2, <1>3, <1>6
    <2>2. /\ R!Idle.phase = "idle" /\ R!Idle.todo = <<>> /\ R!Idle \in R!Sweep
          /\ Len(R!Idle.todo) = 0
      BY <1>5 DEF R!Idle, R!Sweep
    <2>3. SweepRight(R!Idle) BY <2>2 DEF SweepRight
    <2>4. LeftOf(R!Idle) = Entries(Tail(q)) BY <2>1, <2>2 DEF LeftOf
    <2> QED BY <1>4, <2>1, <2>2, <2>3, <2>4
  <1>7. CASE Len(q) # 1
    <2>1. R!Rest(s) = more /\ Tail(q) # <<>> BY <1>2, <1>3, <1>7
    <2>2. more.phase = "next" /\ more.todo = Tail(q) /\ more \in R!Sweep
      BY <1>2, <1>5 DEF R!Sweep
    <2> HIDE DEF more
    <2>3. SweepRight(more) BY <1>2, <2>1, <2>2 DEF SweepRight
    <2>4. LeftOf(more) = Entries(Tail(q)) BY <2>2 DEF LeftOf
    <2> QED BY <1>4, <2>1, <2>2, <2>3, <2>4
  <1> QED BY <1>6, <1>7

\* It decides for the first of its list.
LEMMA DecidingIsRight ==
    ASSUME RemindersSensible, NEW s, SweepRight(sweeps[s]), sweeps[s].phase = "next",
           R!Decides(R!Target(s)), clock \in 0 .. MaxNow, NEW new,
           new = [sweeps[s] EXCEPT !.phase = "delivering", !.at = clock]
    PROVE  /\ SweepRight(new) /\ new.phase = "delivering"
           /\ LeftOf(new) = LeftOf(sweeps[s])
  <1> DEFINE made == [sweeps[s] EXCEPT !.phase = "delivering", !.at = clock]
  <1>1. sweeps[s] \in R!Sweep BY DEF SweepRight
  <1>2. /\ made \in R!Sweep /\ made.phase = "delivering" /\ made.at = clock
        /\ made.todo = sweeps[s].todo
    BY <1>1 DEF R!Sweep
  <1> HIDE DEF made
  <1>3. new = made BY DEF made
  <1>4. /\ R!Target(s) = Head(new.todo) /\ R!Target(s).sent < MaxReminders
        /\ clock % DayLength = DayLength - 1
        /\ ~ (R!Target(s).last # R!Never /\ clock - R!Target(s).last < DayLength)
    BY <1>2, <1>3 DEF R!Decides, R!RemindedRecently, R!InLocalWindow, R!Target
  <1>5. R!Target(s) \in R!Candidate BY LeftAreCandidates DEF R!Target
  <1>6. R!Target(s).last = R!Never \/ clock - R!Target(s).last >= DayLength
    <2>1. R!Never \in Nat /\ DayLength \in Nat /\ clock \in Nat
      BY DEF RemindersSensible, R!Never
    <2>2. R!Target(s).last \in 0 .. R!Never BY <1>5 DEF R!Candidate
    <2>3. R!Target(s).last \in Nat BY <2>1, <2>2
    <2> QED BY <1>4, <2>1, <2>3
  <1>7. SweepRight(new) BY <1>2, <1>3, <1>4, <1>6 DEF SweepRight
  <1>8. LeftOf(new) = LeftOf(sweeps[s]) BY <1>2, <1>3 DEF LeftOf
  <1> QED BY <1>2, <1>3, <1>7, <1>8

\* What it has sent is to be recorded.
LEMMA DeliveringIsRight ==
    ASSUME RemindersSensible, NEW s, SweepRight(sweeps[s]), R!Deliver(s)
    PROVE  \E new :
              /\ SweepRight(new) /\ sweeps' = [sweeps EXCEPT ![s] = new]
              /\ sweeps[s].phase = "delivering" /\ new.phase = "recording"
              /\ new.at = sweeps[s].at /\ new.todo = sweeps[s].todo
              /\ \A d : d \in LeftOf(new) <=>
                     d \in LeftOf(sweeps[s]) /\ d.employee # R!Target(s).employee
  <1> DEFINE new == [sweeps[s] EXCEPT !.phase = "recording"]
  <1>1. sweeps' = [sweeps EXCEPT ![s] = new] /\ sweeps[s].phase = "delivering"
    BY Zenon DEF R!Deliver, R!Goes
  <1>2. sweeps[s] \in R!Sweep BY DEF SweepRight
  <1>3. /\ new \in R!Sweep /\ new.phase = "recording" /\ new.at = sweeps[s].at
        /\ new.todo = sweeps[s].todo
    BY <1>2 DEF R!Sweep
  <1> HIDE DEF new
  <1>4. SweepRight(new) BY <1>1, <1>3 DEF SweepRight
  <1>5. sweeps[s].todo \in Seq(R!Candidate) /\ sweeps[s].todo # <<>>
    BY <1>1, <1>2 DEF SweepRight, R!Sweep
  <1>6. \A d : d \in Entries(Tail(sweeps[s].todo)) <=>
                   d \in Entries(sweeps[s].todo) /\ d.employee # Head(sweeps[s].todo).employee
    BY <1>5, TailIsTheRest DEF SweepRight
  <1>7. LeftOf(new) = Entries(Tail(sweeps[s].todo)) /\ LeftOf(sweeps[s]) = Entries(sweeps[s].todo)
    BY <1>1, <1>3 DEF LeftOf
  <1>8. \A d : d \in LeftOf(new) <=>
                   d \in LeftOf(sweeps[s]) /\ d.employee # R!Target(s).employee
    BY <1>6, <1>7 DEF R!Target
  <1> QED BY <1>1, <1>3, <1>4, <1>8, Zenon

\* An order of a set lists every member once.
LEMMA OrderListsOnce ==
    ASSUME NEW P, NEW order \in R!SetToSeqs(P)
    PROVE  /\ order \in [1 .. Cardinality(P) -> P]
           /\ \A i, j \in 1 .. Cardinality(P) : order[i] = order[j] => i = j
  BY SameSize DEF R!SetToSeqs

\* A sweep that starts has read of every participant what is recorded.
LEMMA StartingIsRight ==
    ASSUME RemindersSensible, R!TypeOK, Participants # {},
           NEW order \in R!SetToSeqs(Participants), NEW new,
           new = [R!Idle EXCEPT !.phase = "next", !.todo = [i \in DOMAIN order |->
                     [employee |-> order[i], touched |-> participants[order[i]].touched,
                      sent |-> participants[order[i]].sent, last |-> participants[order[i]].last]]]
    PROVE  /\ SweepRight(new) /\ new.phase = "next"
           /\ \A c \in LeftOf(new) : /\ c.employee \in Participants
                                     /\ c.sent = participants[c.employee].sent
                                     /\ c.last = participants[c.employee].last
  <1> DEFINE n == Cardinality(Participants)
             entry(i) == [employee |-> order[i], touched |-> participants[order[i]].touched,
                          sent |-> participants[order[i]].sent,
                          last |-> participants[order[i]].last]
             q == [i \in DOMAIN order |-> entry(i)]
             made == [R!Idle EXCEPT !.phase = "next", !.todo = q]
  <1>1. n \in Nat /\ n # 0 BY FS_CardinalityType, FS_EmptySet DEF RemindersSensible
  <1>2. /\ order \in [1 .. n -> Participants]
        /\ \A i, j \in 1 .. n : order[i] = order[j] => i = j
    BY OrderListsOnce, Zenon
  <1>3. participants \in [Participants -> R!Participant] BY DEF R!TypeOK
  <1>4. ASSUME NEW i \in 1 .. n
        PROVE  /\ entry(i) \in R!Candidate /\ entry(i).employee = order[i]
               /\ order[i] \in Participants
               /\ entry(i).sent = participants[order[i]].sent
               /\ entry(i).last = participants[order[i]].last
    <2>1. order[i] \in Participants BY <1>2
    <2>2. participants[order[i]] \in R!Participant BY <1>3, <2>1
    <2> QED BY <2>1, <2>2 DEF R!Candidate, R!Participant
  <1> HIDE DEF entry
  <1>5. q = [i \in 1 .. n |-> entry(i)] BY <1>2
  <1> HIDE DEF n
  <1>6. q \in Seq(R!Candidate) /\ Len(q) = n /\ \A i \in 1 .. n : q[i] = entry(i)
    BY <1>1, <1>4, <1>5
  <1> HIDE DEF q
  <1>7. q # <<>> BY <1>1, <1>6
  <1>8. 0 \in 0 .. MaxNow BY DEF RemindersSensible
  <1>9. made.phase = "next" /\ made.todo = q /\ made \in R!Sweep
    BY <1>6, <1>8 DEF R!Idle, R!Sweep
  <1>10. new = made BY DEF q, entry
  <1> HIDE DEF made
  <1>11. SweepRight(new)
    <2>1. ASSUME NEW i \in 1 .. n, NEW j \in 1 .. n, q[i].employee = q[j].employee PROVE i = j
      <3>1. q[i].employee = order[i] /\ q[j].employee = order[j] BY <1>4, <1>6
      <3> QED BY <1>2, <2>1, <3>1
    <2> QED BY <1>6, <1>7, <1>9, <1>10, <2>1 DEF SweepRight
  <1>12. LeftOf(new) = Entries(q) BY <1>9, <1>10 DEF LeftOf
  <1>13. ASSUME NEW c \in Entries(q)
         PROVE  /\ c.employee \in Participants
                /\ c.sent = participants[c.employee].sent
                /\ c.last = participants[c.employee].last
    <2>1. PICK i \in 1 .. n : c = q[i] BY <1>6 DEF Entries
    <2> QED BY <1>4, <1>6, <2>1
  <1>14. new.phase = "next" BY <1>9, <1>10
  <1> QED BY <1>11, <1>12, <1>13, <1>14, Zenon

\* One sweep moves.
LEMMA OneSweepMoves ==
    ASSUME sweeps \in [Sweeps -> R!Sweep], NEW s \in Sweeps, NEW new,
           sweeps' = [sweeps EXCEPT ![s] = new]
    PROVE  /\ sweeps'[s] = new /\ \A t \in Sweeps : t # s => sweeps'[t] = sweeps[t]
           /\ Active' = IF new.phase # "idle" THEN Active \cup {s} ELSE Active \ {s}
           /\ \A e : Waits(e)' = IF \E c \in LeftOf(new) : c.employee = e
                                 THEN Waits(e) \cup {s} ELSE Waits(e) \ {s}
           /\ \A e : MaySend(e)' =
                  IF \E c \in LeftOf(new) : c.employee = e /\ c.sent < MaxReminders
                  THEN MaySend(e) \cup {s} ELSE MaySend(e) \ {s}
           /\ \A e : Records(e)' = IF new.phase = "recording" /\ Head(new.todo).employee = e
                                   THEN Records(e) \cup {s} ELSE Records(e) \ {s}
  <1>1. sweeps'[s] = new /\ \A t \in Sweeps : t # s => sweeps'[t] = sweeps[t] OBVIOUS
  <1>2. Active' = IF new.phase # "idle" THEN Active \cup {s} ELSE Active \ {s}
    BY <1>1 DEF Active
  <1>3. ASSUME NEW e
        PROVE  Waits(e)' = IF \E c \in LeftOf(new) : c.employee = e
                           THEN Waits(e) \cup {s} ELSE Waits(e) \ {s}
    BY <1>1 DEF Waits
  <1>4. ASSUME NEW e
        PROVE  MaySend(e)' = IF \E c \in LeftOf(new) : c.employee = e /\ c.sent < MaxReminders
                             THEN MaySend(e) \cup {s} ELSE MaySend(e) \ {s}
    BY <1>1 DEF MaySend
  <1>5. ASSUME NEW e
        PROVE  Records(e)' = IF new.phase = "recording" /\ Head(new.todo).employee = e
                             THEN Records(e) \cup {s} ELSE Records(e) \ {s}
    BY <1>1 DEF Records, R!Target
  <1> QED BY <1>1, <1>2, <1>3, <1>4, <1>5

\* Sweeps are right, and every reminder was decided on in the window.
RemindersRight ==
    /\ R!TypeOK
    /\ \A s \in Sweeps : SweepRight(sweeps[s])
    /\ \A e \in Participants : \A i \in 1 .. Len(reminded[e]) :
           reminded[e][i] % DayLength = DayLength - 1

LEMMA RemindersStart == RemindersSensible /\ R!Init => RemindersRight
  <1> SUFFICES ASSUME RemindersSensible, R!Init PROVE RemindersRight OBVIOUS
  <1>1. /\ clock = 0 /\ mishaps = 0 /\ reminded = [e \in Participants |-> <<>>]
        /\ sweeps = [s \in Sweeps |-> R!Idle]
        /\ participants = [e \in Participants |-> [touched |-> 0, sent |-> 0, last |-> R!Never]]
    BY DEF R!Init
  <1>2. /\ 0 \in 0 .. MaxNow /\ 0 \in 0 .. MaxMishaps /\ R!Never \in 0 .. R!Never
    BY DEF RemindersSensible, R!Never
  <1>3. [touched |-> 0, sent |-> 0, last |-> R!Never] \in R!Participant
    BY <1>2 DEF R!Participant
  <1>4. R!Idle \in R!Sweep /\ R!Idle.phase = "idle" /\ R!Idle.todo = <<>> /\ Len(R!Idle.todo) = 0
    BY <1>2 DEF R!Idle, R!Sweep
  <1>5. SweepRight(R!Idle) BY <1>4 DEF SweepRight
  <1>6. R!TypeOK
    <2>1. participants \in [Participants -> R!Participant] BY <1>1, <1>3
    <2>2. sweeps \in [Sweeps -> R!Sweep] BY <1>1, <1>4
    <2>3. reminded \in [Participants -> Seq(0 .. MaxNow)] BY <1>1
    <2> QED BY <1>1, <1>2, <2>1, <2>2, <2>3 DEF R!TypeOK
  <1> QED BY <1>1, <1>5, <1>6 DEF RemindersRight

\* A participant gets a reminder that was decided on at an instant.
GotOne(e, a) ==
    reminded' = [f \in Participants |-> IF f = e THEN Append(reminded[f], a) ELSE reminded[f]]

\* Where a sweep goes, in each of its steps: to a right one.
LEMMA OneStaysRight ==
    ASSUME RemindersSensible, RemindersRight, NEW s \in Sweeps, NEW new, SweepRight(new),
           sweeps' = [sweeps EXCEPT ![s] = new], clock' \in 0 .. MaxNow,
           participants' \in [Participants -> R!Participant], mishaps' \in 0 .. MaxMishaps,
           \/ reminded' = reminded
           \/ \E e \in Participants, a \in 0 .. MaxNow :
                  /\ a % DayLength = DayLength - 1
                  /\ GotOne(e, a)
    PROVE  RemindersRight'
  <1>1. /\ sweeps \in [Sweeps -> R!Sweep] /\ reminded \in [Participants -> Seq(0 .. MaxNow)]
        /\ \A t \in Sweeps : SweepRight(sweeps[t])
    BY DEF RemindersRight, R!TypeOK
  <1>2. new \in R!Sweep BY DEF SweepRight
  <1>3. /\ sweeps' \in [Sweeps -> R!Sweep]
        /\ \A t \in Sweeps : sweeps'[t] = IF t = s THEN new ELSE sweeps[t]
    BY <1>1, <1>2
  <1>4. \A t \in Sweeps : SweepRight(sweeps'[t]) BY <1>1, <1>3
  <1>5. /\ reminded' \in [Participants -> Seq(0 .. MaxNow)]
        /\ \A e \in Participants : \A i \in 1 .. Len(reminded'[e]) :
               reminded'[e][i] % DayLength = DayLength - 1
    <2>1. CASE reminded' = reminded BY <1>1, <2>1 DEF RemindersRight
    <2>2. ASSUME NEW e \in Participants, NEW a \in 0 .. MaxNow, a % DayLength = DayLength - 1,
                 GotOne(e, a)
          PROVE  /\ reminded' \in [Participants -> Seq(0 .. MaxNow)]
                 /\ \A f \in Participants : \A i \in 1 .. Len(reminded'[f]) :
                        reminded'[f][i] % DayLength = DayLength - 1
      <3> DEFINE q == reminded[e]
      <3>1. q \in Seq(0 .. MaxNow) BY <1>1
      <3> HIDE DEF q
      <3>2. /\ Append(q, a) \in Seq(0 .. MaxNow) /\ Len(Append(q, a)) = Len(q) + 1
            /\ \A i \in 1 .. Len(q) : Append(q, a)[i] = q[i]
            /\ Append(q, a)[Len(q) + 1] = a /\ Len(q) \in Nat
        BY <3>1
      <3>3. \A i \in 1 .. Len(q) : q[i] % DayLength = DayLength - 1
        BY DEF q, RemindersRight
      <3>4. \A i \in 1 .. Len(Append(q, a)) : Append(q, a)[i] % DayLength = DayLength - 1
        <4> SUFFICES ASSUME NEW i \in 1 .. Len(q) + 1
                     PROVE  Append(q, a)[i] % DayLength = DayLength - 1
          BY <3>2
        <4>1. CASE i = Len(q) + 1 BY <2>2, <3>2, <4>1
        <4>2. CASE i # Len(q) + 1
          <5>1. i \in 1 .. Len(q) BY <3>2, <4>2
          <5> QED BY <3>2, <3>3, <5>1
        <4> QED BY <4>1, <4>2
      <3>5. \A f \in Participants : reminded'[f] = IF f = e THEN Append(q, a) ELSE reminded[f]
        BY <1>1, <2>2 DEF q, GotOne
      <3>6. reminded' \in [Participants -> Seq(0 .. MaxNow)] BY <1>1, <2>2, <3>2 DEF q, GotOne
      <3> QED BY <3>4, <3>5, <3>6 DEF RemindersRight
    <2> QED BY <2>1, <2>2
  <1> QED BY <1>3, <1>4, <1>5 DEF RemindersRight, R!TypeOK

\* Each step of a sweep, with the sweep it makes of it.
LEMMA SweepsMoveRight ==
    ASSUME RemindersSensible, RemindersRight, NEW s \in Sweeps
    PROVE  /\ R!StartSweep(s) => \E new :
                  /\ SweepRight(new) /\ sweeps' = [sweeps EXCEPT ![s] = new]
                  /\ new.phase = "next" /\ sweeps[s].phase = "idle"
                  /\ \A c \in LeftOf(new) : /\ c.sent = participants[c.employee].sent
                                            /\ c.last = participants[c.employee].last
                  /\ \/ mishaps' = mishaps /\ Active = {}
                     \/ mishaps' = mishaps + 1 /\ mishaps < MaxMishaps
           /\ R!Consider(s) => \E new :
                  /\ SweepRight(new) /\ sweeps' = [sweeps EXCEPT ![s] = new]
                  /\ new.phase # "recording" /\ sweeps[s].phase = "next"
                  /\ \A c \in LeftOf(new) : c \in LeftOf(sweeps[s])
           /\ R!Deliver(s) => \E new :
                  /\ SweepRight(new) /\ sweeps' = [sweeps EXCEPT ![s] = new]
                  /\ sweeps[s].phase = "delivering" /\ new.phase = "recording"
                  /\ new.at = sweeps[s].at /\ new.todo = sweeps[s].todo
                  /\ \A d : d \in LeftOf(new) <=>
                         d \in LeftOf(sweeps[s]) /\ d.employee # R!Target(s).employee
           /\ R!NotDelivered(s) \/ R!Record(s) \/ R!NotRecorded(s) => \E new :
                  /\ SweepRight(new) /\ sweeps' = [sweeps EXCEPT ![s] = new]
                  /\ sweeps[s].phase \in {"delivering", "recording"}
                  /\ new.phase \in {"idle", "next"}
                  /\ \A d : d \in LeftOf(new) <=>
                         d \in LeftOf(sweeps[s]) /\ d.employee # R!Target(s).employee
  <1>1. /\ SweepRight(sweeps[s]) /\ clock \in 0 .. MaxNow /\ R!TypeOK
        /\ sweeps[s].phase \in {"idle", "next", "delivering", "recording"}
    BY DEF RemindersRight, R!TypeOK, R!Sweep, SweepRight
  <1>2. ASSUME R!StartSweep(s)
        PROVE  \E new :
                  /\ SweepRight(new) /\ sweeps' = [sweeps EXCEPT ![s] = new]
                  /\ new.phase = "next" /\ sweeps[s].phase = "idle"
                  /\ \A c \in LeftOf(new) : /\ c.sent = participants[c.employee].sent
                                            /\ c.last = participants[c.employee].last
                  /\ \/ mishaps' = mishaps /\ Active = {}
                     \/ mishaps' = mishaps + 1 /\ mishaps < MaxMishaps
    <2>1. Participants # {} /\ sweeps[s] = R!Idle BY <1>2 DEF R!StartSweep
    <2>2. PICK order \in R!SetToSeqs(Participants) :
              R!Goes(s, [R!Idle EXCEPT !.phase = "next", !.todo = [i \in DOMAIN order |->
                     [employee |-> order[i], touched |-> participants[order[i]].touched,
                      sent |-> participants[order[i]].sent, last |-> participants[order[i]].last]]])
      BY <1>2, Zenon DEF R!StartSweep
    <2>3. PICK new : new = [R!Idle EXCEPT !.phase = "next", !.todo = [i \in DOMAIN order |->
                     [employee |-> order[i], touched |-> participants[order[i]].touched,
                      sent |-> participants[order[i]].sent, last |-> participants[order[i]].last]]]
      BY Zenon
    <2>4. sweeps' = [sweeps EXCEPT ![s] = new] BY <2>2, <2>3, Zenon DEF R!Goes
    <2>5. /\ SweepRight(new) /\ new.phase = "next"
          /\ \A c \in LeftOf(new) : /\ c.sent = participants[c.employee].sent
                                    /\ c.last = participants[c.employee].last
      BY <1>1, <2>1, <2>3, StartingIsRight, Zenon
    <2>6. sweeps[s].phase = "idle" BY <2>1 DEF R!Idle
    <2>7. \/ mishaps' = mishaps /\ Active = {}
          \/ mishaps' = mishaps + 1 /\ mishaps < MaxMishaps
      <3>1. CASE \A t \in Sweeps : sweeps[t] = R!Idle
        <4>1. \A t \in Sweeps : sweeps[t].phase = "idle" BY <3>1 DEF R!Idle
        <4>2. Active = {} BY <4>1 DEF Active
        <4>3. mishaps' = mishaps BY <1>2, <3>1 DEF R!StartSweep
        <4> QED BY <4>2, <4>3
      <3>2. CASE ~ \A t \in Sweeps : sweeps[t] = R!Idle
        BY <1>2, <3>2 DEF R!StartSweep, R!Mishap
      <3> QED BY <3>1, <3>2
    <2> QED BY <2>4, <2>5, <2>6, <2>7, Zenon
  <1>3. ASSUME R!Consider(s)
        PROVE  \E new :
                  /\ SweepRight(new) /\ sweeps' = [sweeps EXCEPT ![s] = new]
                  /\ new.phase # "recording" /\ sweeps[s].phase = "next"
                  /\ \A c \in LeftOf(new) : c \in LeftOf(sweeps[s])
    <2>1. sweeps[s].phase = "next" BY <1>3 DEF R!Consider
    <2>2. CASE R!Decides(R!Target(s))
      <3>1. PICK new : new = [sweeps[s] EXCEPT !.phase = "delivering", !.at = clock] OBVIOUS
      <3>2. sweeps' = [sweeps EXCEPT ![s] = new]
        BY <1>3, <2>2, <3>1, Zenon DEF R!Consider, R!Goes
      <3>3. /\ SweepRight(new) /\ new.phase = "delivering"
            /\ LeftOf(new) = LeftOf(sweeps[s])
        BY <1>1, <2>1, <2>2, <3>1, DecidingIsRight, Zenon
      <3>4. new.phase # "recording" BY <3>3, Zenon
      <3> QED BY <2>1, <3>2, <3>3, <3>4, Zenon
    <2>3. CASE ~ R!Decides(R!Target(s))
      <3>1. PICK new : new = R!Rest(s) OBVIOUS
      <3>2. sweeps' = [sweeps EXCEPT ![s] = new]
        BY <1>3, <2>3, <3>1, Zenon DEF R!Consider, R!Goes
      <3>3. /\ SweepRight(new) /\ new.phase \in {"idle", "next"}
            /\ \A d : d \in LeftOf(new) => d \in LeftOf(sweeps[s])
        BY <1>1, <2>1, <3>1, RestIsRight
      <3> QED BY <2>1, <3>2, <3>3
    <2> QED BY <2>2, <2>3
  <1>4. ASSUME R!Deliver(s)
        PROVE  \E new :
                  /\ SweepRight(new) /\ sweeps' = [sweeps EXCEPT ![s] = new]
                  /\ sweeps[s].phase = "delivering" /\ new.phase = "recording"
                  /\ new.at = sweeps[s].at /\ new.todo = sweeps[s].todo
                  /\ \A d : d \in LeftOf(new) <=>
                         d \in LeftOf(sweeps[s]) /\ d.employee # R!Target(s).employee
    BY <1>1, <1>4, DeliveringIsRight, Zenon
  <1>5. ASSUME R!NotDelivered(s) \/ R!Record(s) \/ R!NotRecorded(s)
        PROVE  \E new :
                  /\ SweepRight(new) /\ sweeps' = [sweeps EXCEPT ![s] = new]
                  /\ sweeps[s].phase \in {"delivering", "recording"}
                  /\ new.phase \in {"idle", "next"}
                  /\ \A d : d \in LeftOf(new) <=>
                         d \in LeftOf(sweeps[s]) /\ d.employee # R!Target(s).employee
    <2>1. PICK new : new = R!Rest(s) OBVIOUS
    <2>2. /\ sweeps' = [sweeps EXCEPT ![s] = new]
          /\ sweeps[s].phase \in {"delivering", "recording"}
      BY <1>5, <2>1 DEF R!NotDelivered, R!Record, R!NotRecorded, R!Goes
    <2>3. /\ SweepRight(new) /\ new.phase \in {"idle", "next"}
          /\ \A d : d \in LeftOf(new) <=>
                         d \in LeftOf(sweeps[s]) /\ d.employee # R!Target(s).employee
      BY <1>1, <2>1, <2>2, RestIsRight
    <2> QED BY <2>2, <2>3
  <1> QED BY <1>2, <1>3, <1>4, <1>5, Zenon

\* Reminders of a list that come too early after the one before.
CloseIn(r) == {i \in 2 .. Len(r) : r[i] - r[i - 1] < DayLength}

LastOf(e) == reminded[e][Len(reminded[e])]

\* Whoever is still to be reminded was read of with the last reminder, which is recorded.
Fresh(e) ==
    \/ reminded[e] = <<>>
    \/ /\ participants[e].last # R!Never /\ participants[e].last >= LastOf(e)
       /\ \A s \in Sweeps : \A c \in LeftOf(sweeps[s]) :
              c.employee = e => c.last # R!Never /\ c.last >= LastOf(e)

\* A reminder that is not the last is still to be recorded.
Backward(e) == reminded[e] # <<>> /\ \E s \in Records(e) : sweeps[s].at < LastOf(e)

\* The early reminders that may come without another mishap, with one for a record that ends
\* up behind the last reminder.
Burden(e) ==
    IF Records(e) = {}
    THEN (IF Waits(e) = {} THEN 1 ELSE Cardinality(Waits(e))) - (IF Fresh(e) THEN 1 ELSE 0)
    ELSE Cardinality(Waits(e)) + (IF Backward(e) THEN 1 ELSE 0)

\* Early reminders, past and to come, are paid for by mishaps.
Paid(e) == Cardinality(CloseIn(reminded[e])) + Burden(e) <= mishaps

\* A reminder is counted, or about to be, or a mishap. Sweeps that may send find room.
Enough(e) ==
    /\ Len(reminded[e]) + Cardinality(Active)
           <= participants[e].sent + Cardinality(Records(e)) + mishaps + 1
    /\ Len(reminded[e]) <= participants[e].sent + Cardinality(Records(e)) + mishaps
    /\ Len(reminded[e]) + Cardinality(MaySend(e)) <= MaxReminders + mishaps

\* Sets of sweeps are finite.
LEMMA SweepsAreFew ==
    ASSUME RemindersSensible, NEW X \in SUBSET Sweeps, NEW s
    PROVE  /\ IsFiniteSet(X) /\ Cardinality(X) \in Nat /\ (Cardinality(X) = 0 <=> X = {})
           /\ Cardinality(X \cup {s}) = IF s \in X THEN Cardinality(X) ELSE Cardinality(X) + 1
           /\ Cardinality(X \ {s}) = IF s \in X THEN Cardinality(X) - 1 ELSE Cardinality(X)
           /\ \A Y \in SUBSET X : Cardinality(Y) <= Cardinality(X) /\ Cardinality(Y) \in Nat
  <1>1. IsFiniteSet(Sweeps) BY DEF RemindersSensible
  <1>2. IsFiniteSet(X) BY <1>1, FS_Subset
  <1>3. \A Y \in SUBSET X : Cardinality(Y) <= Cardinality(X) /\ Cardinality(Y) \in Nat
    BY <1>2, FS_Subset, FS_CardinalityType
  <1> QED BY <1>2, <1>3, FS_CardinalityType, FS_EmptySet, FS_AddElement, FS_RemoveElement

LEMMA SetsOfSweeps ==
    ASSUME NEW e
    PROVE  /\ Active \in SUBSET Sweeps /\ Waits(e) \in SUBSET Sweeps
           /\ MaySend(e) \in SUBSET Waits(e) /\ Records(e) \in SUBSET Active
           /\ Active' \in SUBSET Sweeps /\ Waits(e)' \in SUBSET Sweeps
           /\ MaySend(e)' \in SUBSET Waits(e)' /\ Records(e)' \in SUBSET Active'
  BY DEF Active, Waits, MaySend, Records

LEMMA MembersAreThere ==
    ASSUME NEW T, NEW q \in Seq(T), NEW i \in 1 .. Len(q) PROVE q[i] \in T
  OBVIOUS

\* One more reminder is close to the last one, or no more are close than before.
LEMMA OneMoreIsClose ==
    ASSUME RemindersSensible, NEW r \in Seq(0 .. MaxNow), NEW a \in 0 .. MaxNow
    PROVE  /\ Cardinality(CloseIn(r)) \in Nat
           /\ Cardinality(CloseIn(Append(r, a))) = Cardinality(CloseIn(r))
                  + (IF r # <<>> /\ a - r[Len(r)] < DayLength THEN 1 ELSE 0)
  <1> DEFINE q == Append(r, a)
             n == Len(r)
  <1>1. n \in Nat /\ (r = <<>> <=> n = 0) /\ \A i \in 1 .. n : r[i] \in Int
    <2>1. n \in Nat /\ (r = <<>> <=> n = 0) OBVIOUS
    <2>2. \A i \in 1 .. n : r[i] \in 0 .. MaxNow BY MembersAreThere
    <2>3. MaxNow \in Nat BY DEF RemindersSensible
    <2> QED BY <2>1, <2>2, <2>3
  <1>2. Len(q) = n + 1 /\ (\A i \in 1 .. n : q[i] = r[i]) /\ q[n + 1] = a
    OBVIOUS
  <1>3. IsFiniteSet(CloseIn(r)) /\ Cardinality(CloseIn(r)) \in Nat
    <2>1. IsFiniteSet(2 .. n) BY <1>1, FS_Interval
    <2>2. CloseIn(r) \in SUBSET (2 .. n) BY DEF CloseIn
    <2> QED BY <2>1, <2>2, FS_Subset, FS_CardinalityType
  <1> HIDE DEF q
  <1>4. ASSUME NEW i \in 2 .. n PROVE i \in CloseIn(q) <=> i \in CloseIn(r)
    <2>1. i \in 1 .. n /\ i - 1 \in 1 .. n /\ i \in 2 .. n + 1 BY <1>1
    <2> QED BY <1>2, <2>1 DEF CloseIn
  <1>5. n + 1 \in CloseIn(q) <=> (n # 0 /\ a - r[n] < DayLength)
    <2>1. CASE n = 0 BY <1>2, <2>1 DEF CloseIn
    <2>2. CASE n # 0
      <3>1. n + 1 \in 2 .. n + 1 /\ (n + 1) - 1 = n /\ n \in 1 .. n BY <1>1, <2>2
      <3> QED BY <1>2, <2>2, <3>1 DEF CloseIn
    <2> QED BY <2>1, <2>2
  <1>6. n + 1 \notin CloseIn(r) /\ \A i \in CloseIn(r) : i \in 2 .. n BY <1>1 DEF CloseIn
  <1>7. \A i \in CloseIn(q) : i \in 2 .. n \/ i = n + 1 BY <1>1, <1>2 DEF CloseIn
  <1>8. CloseIn(q) = IF n # 0 /\ a - r[n] < DayLength THEN CloseIn(r) \cup {n + 1}
                     ELSE CloseIn(r)
    <2>1. CASE n # 0 /\ a - r[n] < DayLength
      <3>1. \A i : i \in CloseIn(q) <=> i \in CloseIn(r) \cup {n + 1}
        BY <1>4, <1>5, <1>6, <1>7, <2>1
      <3> QED BY <2>1, <3>1
    <2>2. CASE ~ (n # 0 /\ a - r[n] < DayLength)
      <3>1. \A i : i \in CloseIn(q) <=> i \in CloseIn(r)
        BY <1>4, <1>5, <1>6, <1>7, <2>2
      <3> QED BY <2>2, <3>1
    <2> QED BY <2>1, <2>2
  <1>9. Cardinality(CloseIn(q)) = Cardinality(CloseIn(r))
            + (IF n # 0 /\ a - r[n] < DayLength THEN 1 ELSE 0)
    <2>1. CASE n # 0 /\ a - r[n] < DayLength
      <3>1. CloseIn(q) = CloseIn(r) \cup {n + 1} BY <1>8, <2>1
      <3>2. Cardinality(CloseIn(q)) = Cardinality(CloseIn(r)) + 1
        BY <1>3, <1>6, <3>1, FS_AddElement
      <3> QED BY <2>1, <3>2
    <2>2. CASE ~ (n # 0 /\ a - r[n] < DayLength) BY <1>3, <1>8, <2>2
    <2> QED BY <2>1, <2>2
  <1> QED BY <1>1, <1>3, <1>9 DEF q

\* Instants of the window are the same, or days apart.
LEMMA DaysApart ==
    ASSUME RemindersSensible, NEW a \in Int, NEW b \in Int,
           a % DayLength = DayLength - 1, b % DayLength = DayLength - 1, a - b < DayLength
    PROVE  a <= b
  <1>1. DayLength \in Int /\ DayLength > 0 BY DEF RemindersSensible
  <1>2. PICK k \in Int, l \in Int : k = a \div DayLength /\ l = b \div DayLength
    BY <1>1, RestIsSmall
  <1>3. a = k * DayLength + (DayLength - 1) /\ b = l * DayLength + (DayLength - 1)
    <2>1. a = (a \div DayLength) * DayLength + (a % DayLength) BY <1>1, MultipleAndRest
    <2>2. b = (b \div DayLength) * DayLength + (b % DayLength) BY <1>1, MultipleAndRest
    <2> QED BY <1>2, <2>1, <2>2
  <1>4. k * DayLength \in Int /\ l * DayLength \in Int BY <1>1, <1>2
  <1>5. k <= l
    <2> SUFFICES ASSUME l < k PROVE FALSE BY <1>2
    <2>1. k - l - 1 >= 0 BY <1>2
    <2>2. (k - l - 1) * DayLength >= 0 BY <1>1, <2>1
    <2>3. k * DayLength - l * DayLength - DayLength >= 0 BY <1>1, <1>2, <2>2
    <2> QED BY <1>1, <1>3, <1>4, <2>3
  <1>6. (l - k) * DayLength >= 0 BY <1>1, <1>2, <1>5
  <1>7. l * DayLength - k * DayLength >= 0 BY <1>1, <1>2, <1>6
  <1> QED BY <1>1, <1>3, <1>4, <1>7

\* What the numbers are.
LEMMA NumbersAreThere ==
    ASSUME RemindersSensible, RemindersRight, NEW e \in Participants
    PROVE  /\ mishaps \in Nat /\ MaxReminders \in Nat
           /\ participants[e].sent \in Nat /\ participants[e].last \in 0 .. R!Never
           /\ R!Never = MaxNow + 1 /\ MaxNow \in Nat /\ DayLength \in Nat
           /\ reminded[e] \in Seq(0 .. MaxNow) /\ Len(reminded[e]) \in Nat
           /\ reminded[e] # <<>> => /\ LastOf(e) \in 0 .. MaxNow
                                    /\ LastOf(e) % DayLength = DayLength - 1
           /\ Cardinality(CloseIn(reminded[e])) \in Nat
           /\ Cardinality(Active) \in Nat /\ Cardinality(Waits(e)) \in Nat
           /\ Cardinality(MaySend(e)) \in Nat /\ Cardinality(Records(e)) \in Nat
           /\ Cardinality(Waits(e)) = 0 <=> Waits(e) = {}
           /\ \A s \in Sweeps : sweeps[s].at \in 0 .. MaxNow
           /\ \A s \in Sweeps : \A c \in LeftOf(sweeps[s]) : c.last \in 0 .. R!Never
  <1>1. /\ participants \in [Participants -> R!Participant] /\ mishaps \in 0 .. MaxMishaps
        /\ reminded \in [Participants -> Seq(0 .. MaxNow)]
        /\ \A s \in Sweeps : SweepRight(sweeps[s])
    BY DEF RemindersRight, R!TypeOK
  <1>2. /\ participants[e] \in R!Participant /\ MaxNow \in Nat /\ MaxMishaps \in Nat
        /\ MaxReminders \in Nat /\ DayLength \in Nat
    BY <1>1 DEF RemindersSensible
  <1>3. /\ participants[e].sent \in Nat /\ participants[e].last \in 0 .. R!Never
        /\ R!Never = MaxNow + 1 /\ mishaps \in Nat
    BY <1>1, <1>2 DEF R!Participant, R!Never
  <1>4. reminded[e] \in Seq(0 .. MaxNow) /\ Len(reminded[e]) \in Nat BY <1>1
  <1>5. ASSUME reminded[e] # <<>>
        PROVE  LastOf(e) \in 0 .. MaxNow /\ LastOf(e) % DayLength = DayLength - 1
    <2>1. Len(reminded[e]) \in 1 .. Len(reminded[e]) BY <1>4, <1>5
    <2>4. LastOf(e) \in 0 .. MaxNow BY <1>4, <2>1, MembersAreThere DEF LastOf
    <2>3. LastOf(e) % DayLength = DayLength - 1 BY <2>1 DEF LastOf, RemindersRight
    <2> QED BY <2>3, <2>4
  <1>6. Cardinality(CloseIn(reminded[e])) \in Nat
    <2>1. 0 \in 0 .. MaxNow BY <1>2
    <2> QED BY <1>4, <2>1, OneMoreIsClose
  <1>7. /\ Active \in SUBSET Sweeps /\ Waits(e) \in SUBSET Sweeps
        /\ MaySend(e) \in SUBSET Sweeps /\ Records(e) \in SUBSET Sweeps
    BY SetsOfSweeps
  <1>8. /\ Cardinality(Active) \in Nat /\ Cardinality(Waits(e)) \in Nat
        /\ Cardinality(MaySend(e)) \in Nat /\ Cardinality(Records(e)) \in Nat
        /\ Cardinality(Waits(e)) = 0 <=> Waits(e) = {}
    BY <1>7, SweepsAreFew
  <1>9. \A s \in Sweeps : sweeps[s].at \in 0 .. MaxNow BY <1>1 DEF SweepRight, R!Sweep
  <1>10. ASSUME NEW s \in Sweeps, NEW c \in LeftOf(sweeps[s]) PROVE c.last \in 0 .. R!Never
    <2>1. c \in R!Candidate BY <1>1, LeftAreCandidates
    <2> QED BY <2>1 DEF R!Candidate
  <1> QED BY <1>2, <1>3, <1>4, <1>5, <1>6, <1>8, <1>9, <1>10

\* The burden in numbers.
LEMMA BurdenIsThere ==
    ASSUME RemindersSensible, RemindersRight, NEW e \in Participants
    PROVE  \E w \in Nat, f \in {0, 1}, g \in {0, 1}, b \in Int :
               /\ w = Cardinality(Waits(e)) /\ (w = 0 <=> Waits(e) = {})
               /\ (f = 1 <=> Fresh(e)) /\ (g = 1 <=> Backward(e)) /\ b = Burden(e)
               /\ Records(e) = {} => b = (IF w = 0 THEN 1 ELSE w) - f
               /\ Records(e) # {} => b = w + g
               /\ b >= 0
  <1>1. PICK w \in Nat : w = Cardinality(Waits(e)) /\ (w = 0 <=> Waits(e) = {})
    BY NumbersAreThere
  <1>2. PICK f \in {0, 1} : f = 1 <=> Fresh(e)
    <2>1. CASE Fresh(e) BY <2>1
    <2>2. CASE ~ Fresh(e) BY <2>2
    <2> QED BY <2>1, <2>2
  <1>3. PICK g \in {0, 1} : g = 1 <=> Backward(e)
    <2>1. CASE Backward(e) BY <2>1
    <2>2. CASE ~ Backward(e) BY <2>2
    <2> QED BY <2>1, <2>2
  <1>4. PICK b \in Int : b = IF Records(e) = {} THEN (IF w = 0 THEN 1 ELSE w) - f ELSE w + g
    OBVIOUS
  <1>5. b >= 0 BY <1>4
  <1>6. b = Burden(e) BY <1>1, <1>2, <1>3, <1>4 DEF Burden
  <1> QED BY <1>1, <1>2, <1>3, <1>4, <1>5, <1>6

\* And after a step.
LEMMA BurdenIsThereThen ==
    ASSUME RemindersSensible, NEW e \in Participants
    PROVE  \E w \in Nat, f \in {0, 1}, g \in {0, 1}, b \in Int :
               /\ w = Cardinality(Waits(e)') /\ (w = 0 <=> Waits(e)' = {})
               /\ (f = 1 <=> Fresh(e)') /\ (g = 1 <=> Backward(e)') /\ b = Burden(e)'
               /\ Records(e)' = {} => b = (IF w = 0 THEN 1 ELSE w) - f
               /\ Records(e)' # {} => b = w + g
  <1>1. PICK w \in Nat : w = Cardinality(Waits(e)') /\ (w = 0 <=> Waits(e)' = {})
    BY SetsOfSweeps, SweepsAreFew
  <1>2. PICK f \in {0, 1} : f = 1 <=> Fresh(e)'
    <2>1. CASE Fresh(e)' BY <2>1
    <2>2. CASE ~ Fresh(e)' BY <2>2
    <2> QED BY <2>1, <2>2
  <1>3. PICK g \in {0, 1} : g = 1 <=> Backward(e)'
    <2>1. CASE Backward(e)' BY <2>1
    <2>2. CASE ~ Backward(e)' BY <2>2
    <2> QED BY <2>1, <2>2
  <1>4. PICK b \in Int : b = IF Records(e)' = {} THEN (IF w = 0 THEN 1 ELSE w) - f ELSE w + g
    OBVIOUS
  <1>6. b = Burden(e)' BY <1>1, <1>2, <1>3, <1>4 DEF Burden
  <1> QED BY <1>1, <1>2, <1>3, <1>4, <1>6

\* The invariants in numbers.
LEMMA InNumbers ==
    ASSUME RemindersSensible, RemindersRight, NEW e \in Participants, Enough(e), Paid(e)
    PROVE  \E l \in Nat, t \in Nat, i \in Nat, a \in Nat, r \in Nat, y \in Nat, c \in Nat,
              most \in Nat, w \in Nat, f \in {0, 1}, g \in {0, 1} :
               /\ l = Len(reminded[e]) /\ t = participants[e].sent /\ i = mishaps
               /\ a = Cardinality(Active) /\ r = Cardinality(Records(e))
               /\ y = Cardinality(MaySend(e)) /\ c = Cardinality(CloseIn(reminded[e]))
               /\ most = MaxReminders /\ w = Cardinality(Waits(e)) /\ (w = 0 <=> Waits(e) = {})
               /\ (f = 1 <=> Fresh(e)) /\ (g = 1 <=> Backward(e))
               /\ l + a <= t + r + i + 1 /\ l <= t + r + i /\ l + y <= most + i
               /\ Records(e) = {} => c + (IF w = 0 THEN 1 ELSE w) - f <= i
               /\ Records(e) # {} => c + w + g <= i
  <1>1. PICK w \in Nat, f \in {0, 1}, g \in {0, 1}, b \in Int :
               /\ w = Cardinality(Waits(e)) /\ (w = 0 <=> Waits(e) = {})
               /\ (f = 1 <=> Fresh(e)) /\ (g = 1 <=> Backward(e)) /\ b = Burden(e)
               /\ Records(e) = {} => b = (IF w = 0 THEN 1 ELSE w) - f
               /\ Records(e) # {} => b = w + g
               /\ b >= 0
    BY BurdenIsThere
  <1>2. PICK l \in Nat, t \in Nat, i \in Nat, a \in Nat, r \in Nat, y \in Nat, c \in Nat,
             most \in Nat :
             /\ l = Len(reminded[e]) /\ t = participants[e].sent /\ i = mishaps
             /\ a = Cardinality(Active) /\ r = Cardinality(Records(e))
             /\ y = Cardinality(MaySend(e)) /\ c = Cardinality(CloseIn(reminded[e]))
             /\ most = MaxReminders
    BY NumbersAreThere, Zenon
  <1>3. l + a <= t + r + i + 1 /\ l <= t + r + i /\ l + y <= most + i BY <1>2 DEF Enough
  <1>4. c + b <= i BY <1>1, <1>2 DEF Paid
  <1>5. Records(e) = {} => c + (IF w = 0 THEN 1 ELSE w) - f <= i
    <2> SUFFICES ASSUME Records(e) = {} PROVE c + (IF w = 0 THEN 1 ELSE w) - f <= i OBVIOUS
    <2>1. b = (IF w = 0 THEN 1 ELSE w) - f BY <1>1
    <2> QED BY <1>4, <2>1
  <1>6. Records(e) # {} => c + w + g <= i
    <2> SUFFICES ASSUME Records(e) # {} PROVE c + w + g <= i OBVIOUS
    <2>1. b = w + g BY <1>1
    <2> QED BY <1>4, <2>1
  <1>7. \E w2 \in Nat, f2 \in {0, 1}, g2 \in {0, 1} :
               /\ l = Len(reminded[e]) /\ t = participants[e].sent /\ i = mishaps
               /\ a = Cardinality(Active) /\ r = Cardinality(Records(e))
               /\ y = Cardinality(MaySend(e)) /\ c = Cardinality(CloseIn(reminded[e]))
               /\ most = MaxReminders /\ w2 = Cardinality(Waits(e)) /\ (w2 = 0 <=> Waits(e) = {})
               /\ (f2 = 1 <=> Fresh(e)) /\ (g2 = 1 <=> Backward(e))
               /\ l + a <= t + r + i + 1 /\ l <= t + r + i /\ l + y <= most + i
               /\ Records(e) = {} => c + (IF w2 = 0 THEN 1 ELSE w2) - f2 <= i
               /\ Records(e) # {} => c + w2 + g2 <= i
    BY <1>1, <1>2, <1>3, <1>5, <1>6, Zenon
  <1> QED BY <1>7, Zenon

\* And after a step.
LEMMA NumbersThen ==
    ASSUME RemindersSensible, NEW e \in Participants
    PROVE  \E a \in Nat, r \in Nat, y \in Nat, w \in Nat, f \in {0, 1}, g \in {0, 1}, b \in Int :
               /\ a = Cardinality(Active') /\ r = Cardinality(Records(e)')
               /\ y = Cardinality(MaySend(e)')
               /\ w = Cardinality(Waits(e)') /\ (w = 0 <=> Waits(e)' = {})
               /\ (f = 1 <=> Fresh(e)') /\ (g = 1 <=> Backward(e)') /\ b = Burden(e)'
               /\ Records(e)' = {} => b = (IF w = 0 THEN 1 ELSE w) - f
               /\ Records(e)' # {} => b = w + g
  <1>1. /\ Active' \in SUBSET Sweeps /\ Records(e)' \in SUBSET Sweeps
        /\ MaySend(e)' \in SUBSET Sweeps
    BY SetsOfSweeps
  <1>2. /\ Cardinality(Active') \in Nat /\ Cardinality(Records(e)') \in Nat
        /\ Cardinality(MaySend(e)') \in Nat
    BY <1>1, SweepsAreFew
  <1> QED BY <1>2, BurdenIsThereThen, Zenon

LEMMA FewerSweeps ==
    ASSUME RemindersSensible, NEW X \in SUBSET Sweeps, NEW Y \in SUBSET X
    PROVE  Cardinality(Y) <= Cardinality(X)
  BY SweepsAreFew

\* A participant is left alone, but for sweeps that end or pass over the participant.
PassesBy(e) ==
    /\ reminded'[e] = reminded[e]
    /\ participants'[e].sent = participants[e].sent
    /\ participants'[e].last = participants[e].last
    /\ mishaps' \in Nat /\ mishaps' >= mishaps
    /\ Records(e)' = Records(e)
    /\ \A s \in Records(e) : sweeps'[s].at = sweeps[s].at
    /\ Active' \in SUBSET Active
    /\ \A s \in Sweeps : \A c \in LeftOf(sweeps'[s]) :
           c.employee = e => c \in LeftOf(sweeps[s])

LEMMA PassingKeepsAll ==
    ASSUME RemindersSensible, RemindersRight, NEW e \in Participants,
           Enough(e), Paid(e), PassesBy(e)
    PROVE  Enough(e)' /\ Paid(e)'
  <1>1. PICK l \in Nat, t \in Nat, i \in Nat, a \in Nat, r \in Nat, y \in Nat, c \in Nat,
             most \in Nat, w \in Nat, f \in {0, 1}, g \in {0, 1} :
               /\ l = Len(reminded[e]) /\ t = participants[e].sent /\ i = mishaps
               /\ a = Cardinality(Active) /\ r = Cardinality(Records(e))
               /\ y = Cardinality(MaySend(e)) /\ c = Cardinality(CloseIn(reminded[e]))
               /\ most = MaxReminders /\ w = Cardinality(Waits(e)) /\ (w = 0 <=> Waits(e) = {})
               /\ (f = 1 <=> Fresh(e)) /\ (g = 1 <=> Backward(e))
               /\ l + a <= t + r + i + 1 /\ l <= t + r + i /\ l + y <= most + i
               /\ Records(e) = {} => c + (IF w = 0 THEN 1 ELSE w) - f <= i
               /\ Records(e) # {} => c + w + g <= i
    BY InNumbers
  <1>2. PICK a2 \in Nat, r2 \in Nat, y2 \in Nat, w2 \in Nat, f2 \in {0, 1}, g2 \in {0, 1},
             b2 \in Int :
               /\ a2 = Cardinality(Active') /\ r2 = Cardinality(Records(e)')
               /\ y2 = Cardinality(MaySend(e)')
               /\ w2 = Cardinality(Waits(e)') /\ (w2 = 0 <=> Waits(e)' = {})
               /\ (f2 = 1 <=> Fresh(e)') /\ (g2 = 1 <=> Backward(e)') /\ b2 = Burden(e)'
               /\ Records(e)' = {} => b2 = (IF w2 = 0 THEN 1 ELSE w2) - f2
               /\ Records(e)' # {} => b2 = w2 + g2
    BY NumbersThen
  <1>3. PICK i2 \in Nat : i2 = mishaps' /\ i2 >= i BY <1>1 DEF PassesBy
  <1>4. Waits(e)' \in SUBSET Waits(e) /\ MaySend(e)' \in SUBSET MaySend(e)
    BY DEF Waits, MaySend, PassesBy
  <1>5. a2 <= a /\ w2 <= w /\ y2 <= y /\ r2 = r
    <2>1. Waits(e) \in SUBSET Sweeps /\ MaySend(e) \in SUBSET Sweeps /\ Active \in SUBSET Sweeps
      BY SetsOfSweeps
    <2>2. Cardinality(Active') <= Cardinality(Active) BY <2>1, FewerSweeps DEF PassesBy
    <2>3. Cardinality(Waits(e)') <= Cardinality(Waits(e)) BY <1>4, <2>1, FewerSweeps
    <2>4. Cardinality(MaySend(e)') <= Cardinality(MaySend(e)) BY <1>4, <2>1, FewerSweeps
    <2> QED BY <1>1, <1>2, <2>2, <2>3, <2>4 DEF PassesBy
  <1>6. g2 <= g
    <2>1. Backward(e)' => Backward(e) BY DEF Backward, LastOf, PassesBy
    <2>2. g2 = 1 => g = 1 BY <1>1, <1>2, <2>1, Zenon
    <2> QED BY <2>2
  <1>7. f2 >= f
    <2>1. Fresh(e) => Fresh(e)' BY DEF Fresh, LastOf, PassesBy
    <2>2. f = 1 => f2 = 1 BY <1>1, <1>2, <2>1, Zenon
    <2> QED BY <2>2
  <1>8. c + b2 <= i2
    <2>1. CASE Records(e)' = {}
      <3>1. c + (IF w = 0 THEN 1 ELSE w) - f <= i BY <1>1, <2>1 DEF PassesBy
      <3>2. b2 = (IF w2 = 0 THEN 1 ELSE w2) - f2 BY <1>2, <2>1
      <3> QED BY <1>3, <1>5, <1>7, <3>1, <3>2
    <2>2. CASE Records(e)' # {}
      <3>1. c + w + g <= i BY <1>1, <2>2 DEF PassesBy
      <3>2. b2 = w2 + g2 BY <1>2, <2>2
      <3> QED BY <1>3, <1>5, <1>6, <3>1, <3>2
    <2> QED BY <2>1, <2>2
  <1>9. l + a2 <= t + r2 + i2 + 1 /\ l <= t + r2 + i2 /\ l + y2 <= most + i2
    <2>1. l + a <= t + r + i + 1 /\ l <= t + r + i /\ l + y <= most + i BY <1>1
    <2>2. i2 >= i BY <1>3
    <2>3. a2 <= a /\ y2 <= y /\ r2 = r BY <1>5
    <2>4. l + a2 <= t + r2 + i2 + 1 BY <2>1, <2>2, <2>3
    <2>5. l <= t + r2 + i2 BY <2>1, <2>2, <2>3
    <2>6. l + y2 <= most + i2 BY <2>1, <2>2, <2>3
    <2> QED BY <2>4, <2>5, <2>6
  <1>10. /\ l = Len(reminded'[e]) /\ t = participants'[e].sent
         /\ c = Cardinality(CloseIn(reminded'[e])) /\ most = MaxReminders
    BY <1>1 DEF PassesBy
  <1>11. Enough(e)' BY <1>2, <1>3, <1>9, <1>10 DEF Enough
  <1>12. Paid(e)' BY <1>2, <1>3, <1>8, <1>10 DEF Paid
  <1> QED BY <1>11, <1>12

\* A reminder goes out.
SentBy(e, s, a0) ==
    /\ a0 % DayLength = DayLength - 1 /\ a0 = sweeps[s].at /\ a0 = sweeps'[s].at
    /\ reminded'[e] = Append(reminded[e], a0)
    /\ participants' = participants /\ mishaps' = mishaps /\ Active' = Active
    /\ s \in MaySend(e) /\ s \notin Records(e)
    /\ Records(e)' = Records(e) \cup {s}
    /\ Waits(e)' = Waits(e) \ {s} /\ MaySend(e)' = MaySend(e) \ {s}
    /\ \A t \in Sweeps : t # s => sweeps'[t] = sweeps[t]
    /\ \E c \in LeftOf(sweeps[s]) : c.employee = e /\ (c.last = R!Never \/ a0 - c.last >= DayLength)

LEMMA SendingKeepsAll ==
    ASSUME RemindersSensible, RemindersRight, NEW e \in Participants, Enough(e), Paid(e),
           NEW s \in Sweeps, NEW a0 \in 0 .. MaxNow, SentBy(e, s, a0)
    PROVE  Enough(e)' /\ Paid(e)'
  <1>1. PICK l \in Nat, t \in Nat, i \in Nat, a \in Nat, r \in Nat, y \in Nat, c \in Nat,
             most \in Nat, w \in Nat, f \in {0, 1}, g \in {0, 1} :
               /\ l = Len(reminded[e]) /\ t = participants[e].sent /\ i = mishaps
               /\ a = Cardinality(Active) /\ r = Cardinality(Records(e))
               /\ y = Cardinality(MaySend(e)) /\ c = Cardinality(CloseIn(reminded[e]))
               /\ most = MaxReminders /\ w = Cardinality(Waits(e)) /\ (w = 0 <=> Waits(e) = {})
               /\ (f = 1 <=> Fresh(e)) /\ (g = 1 <=> Backward(e))
               /\ l + a <= t + r + i + 1 /\ l <= t + r + i /\ l + y <= most + i
               /\ Records(e) = {} => c + (IF w = 0 THEN 1 ELSE w) - f <= i
               /\ Records(e) # {} => c + w + g <= i
    BY InNumbers
  <1>2. PICK a2 \in Nat, r2 \in Nat, y2 \in Nat, w2 \in Nat, f2 \in {0, 1}, g2 \in {0, 1},
             b2 \in Int :
               /\ a2 = Cardinality(Active') /\ r2 = Cardinality(Records(e)')
               /\ y2 = Cardinality(MaySend(e)')
               /\ w2 = Cardinality(Waits(e)') /\ (w2 = 0 <=> Waits(e)' = {})
               /\ (f2 = 1 <=> Fresh(e)') /\ (g2 = 1 <=> Backward(e)') /\ b2 = Burden(e)'
               /\ Records(e)' = {} => b2 = (IF w2 = 0 THEN 1 ELSE w2) - f2
               /\ Records(e)' # {} => b2 = w2 + g2
    BY NumbersThen
  <1> DEFINE q == reminded[e]
             close == q # <<>> /\ a0 - LastOf(e) < DayLength
  <1>3. /\ q \in Seq(0 .. MaxNow) /\ MaxNow \in Nat /\ DayLength \in Nat
        /\ q # <<>> => LastOf(e) \in 0 .. MaxNow /\ LastOf(e) % DayLength = DayLength - 1
        /\ \A u \in Sweeps : \A d \in LeftOf(sweeps[u]) : d.last \in 0 .. R!Never
        /\ \A u \in Sweeps : sweeps[u].at \in 0 .. MaxNow
        /\ R!Never = MaxNow + 1
    BY NumbersAreThere
  <1>4. s \in Waits(e) /\ w2 = w - 1 /\ y2 = y - 1 /\ r2 = r + 1 /\ a2 = a
    <2>1. s \in Waits(e) BY SetsOfSweeps DEF SentBy
    <2>2. /\ Waits(e) \in SUBSET Sweeps /\ MaySend(e) \in SUBSET Sweeps
          /\ Records(e) \in SUBSET Sweeps
      BY SetsOfSweeps
    <2>3. Cardinality(Waits(e) \ {s}) = Cardinality(Waits(e)) - 1 BY <2>1, <2>2, SweepsAreFew
    <2>4. Cardinality(MaySend(e) \ {s}) = Cardinality(MaySend(e)) - 1
      BY <2>2, SweepsAreFew DEF SentBy
    <2>5. Cardinality(Records(e) \cup {s}) = Cardinality(Records(e)) + 1
      BY <2>2, SweepsAreFew DEF SentBy
    <2> QED BY <1>1, <1>2, <2>1, <2>3, <2>4, <2>5 DEF SentBy
  <1>5. Len(reminded'[e]) = l + 1 /\ LastOf(e)' = a0 /\ reminded'[e] # <<>>
    <2>1. Len(Append(q, a0)) = Len(q) + 1 /\ Append(q, a0)[Len(q) + 1] = a0 /\ Len(q) \in Nat
      BY <1>3
    <2>2. Len(reminded'[e]) = l + 1 /\ reminded'[e][l + 1] = a0 BY <1>1, <2>1 DEF SentBy
    <2>3. reminded'[e] # <<>>
      <3>1. Len(<<>>) = 0 OBVIOUS
      <3> QED BY <2>2, <3>1
    <2> QED BY <2>2, <2>3 DEF LastOf
  <1>6. PICK c2 \in Nat : c2 = Cardinality(CloseIn(reminded'[e])) /\ c2 = c + (IF close THEN 1 ELSE 0)
    <2>1. Cardinality(CloseIn(reminded'[e])) = c + (IF close THEN 1 ELSE 0)
      BY <1>1, <1>3, OneMoreIsClose DEF LastOf, SentBy
    <2> QED BY <2>1
  <1>7. close => ~ Fresh(e)
    <2> SUFFICES ASSUME close, Fresh(e) PROVE FALSE OBVIOUS
    <2>1. PICK d \in LeftOf(sweeps[s]) : /\ d.employee = e
                                         /\ d.last = R!Never \/ a0 - d.last >= DayLength
      BY DEF SentBy
    <2>2. d.last # R!Never /\ d.last >= LastOf(e) BY <2>1 DEF Fresh
    <2>3. PICK u \in Nat, v \in Nat, n \in Nat, k \in Nat :
              u = d.last /\ v = LastOf(e) /\ n = a0 /\ k = DayLength
      <3>1. d.last \in 0 .. MaxNow + 1 BY <1>3
      <3>2. d.last \in Nat BY <1>3, <3>1
      <3>3. LastOf(e) \in Nat /\ a0 \in Nat BY <1>3
      <3> QED BY <1>3, <3>2, <3>3
    <2>4. n - u >= k /\ n - v < k /\ u >= v BY <2>1, <2>2, <2>3
    <2> HIDE DEF close
    <2>5. n - v >= k BY <2>4
    <2>6. ~ (n - v < k) BY <2>5
    <2> QED BY <2>4, <2>6
  <1>8. close => a0 <= LastOf(e) BY <1>3, DaysApart DEF SentBy
  <1>9. close /\ Backward(e)' => Backward(e)
    <2> SUFFICES ASSUME close, Backward(e)' PROVE Backward(e) OBVIOUS
    <2>1. PICK u \in Records(e)' : sweeps'[u].at < a0 BY <1>5 DEF Backward
    <2>2. u \in Sweeps /\ (u = s \/ u \in Records(e)) BY <2>1, SetsOfSweeps DEF SentBy
    <2>3. u # s BY <1>3, <2>1 DEF SentBy
    <2>4. sweeps[u].at < a0 /\ sweeps[u].at \in 0 .. MaxNow BY <1>3, <2>1, <2>2, <2>3 DEF SentBy
    <2>5. PICK v \in Nat, n \in Nat, k \in Nat :
              v = sweeps[u].at /\ n = a0 /\ k = LastOf(e) /\ n <= k
      <3>1. LastOf(e) \in Nat /\ a0 \in Nat /\ a0 <= LastOf(e) BY <1>3, <1>8
      <3>2. sweeps[u].at \in Nat BY <1>3, <2>4
      <3> HIDE DEF close
      <3> QED BY <3>1, <3>2
    <2>6. sweeps[u].at < LastOf(e)
      <3>1. v < n BY <2>4, <2>5
      <3>2. v < k BY <2>5, <3>1
      <3> QED BY <2>5, <3>2
    <2> QED BY <1>3, <2>2, <2>3, <2>6 DEF Backward
  <1>10. Records(e) = {} => ~ Backward(e)'
    <2> SUFFICES ASSUME Records(e) = {}, NEW u \in Records(e)', sweeps'[u].at < a0 PROVE FALSE
      BY <1>5 DEF Backward
    <2>1. u = s BY DEF SentBy
    <2> QED BY <1>3, <2>1 DEF SentBy
  <1>11. b2 = w2 + g2
    <2>1. Records(e)' # {} BY DEF SentBy
    <2> QED BY <1>2, <2>1
  <1>12. c2 + b2 <= i
    <2>1. CASE Records(e) = {}
      <3>1. c + (IF w = 0 THEN 1 ELSE w) - f <= i BY <1>1, <2>1
      <3>2. g2 = 0 BY <1>2, <1>10, <2>1
      <3>3. close => f = 0 BY <1>1, <1>7
      <3> HIDE DEF close
      <3>4. CASE close BY <1>4, <1>6, <1>11, <3>1, <3>2, <3>3, <3>4
      <3>5. CASE ~ close BY <1>4, <1>6, <1>11, <3>1, <3>2, <3>5
      <3> QED BY <3>4, <3>5
    <2>2. CASE Records(e) # {}
      <3>1. c + w + g <= i BY <1>1, <2>2
      <3>2. close /\ g2 = 1 => g = 1 BY <1>1, <1>2, <1>9, Zenon
      <3> HIDE DEF close
      <3>3. CASE close
        <4>1. g2 <= g BY <3>2, <3>3
        <4> QED BY <1>4, <1>6, <1>11, <3>1, <3>3, <4>1
      <3>4. CASE ~ close BY <1>4, <1>6, <1>11, <3>1, <3>4
      <3> QED BY <3>3, <3>4
    <2> QED BY <2>1, <2>2
  <1>13. l + 1 + a2 <= t + r2 + i + 1 /\ l + 1 <= t + r2 + i /\ l + 1 + y2 <= most + i
    <2>1. l + a <= t + r + i + 1 /\ l <= t + r + i /\ l + y <= most + i BY <1>1
    <2> QED BY <1>4, <2>1
  <1>14. t = participants'[e].sent /\ i = mishaps' /\ most = MaxReminders
    BY <1>1 DEF SentBy
  <1>15. Enough(e)' BY <1>2, <1>5, <1>13, <1>14 DEF Enough
  <1>16. Paid(e)' BY <1>2, <1>6, <1>12, <1>14 DEF Paid
  <1> QED BY <1>15, <1>16

\* A reminder is recorded, or its record is lost.
RecordedBy(e, s) ==
    /\ reminded'[e] = reminded[e]
    /\ \/ /\ participants'[e].sent = participants[e].sent + 1
          /\ participants'[e].last = sweeps[s].at /\ mishaps' = mishaps
       \/ /\ participants'[e].sent = participants[e].sent
          /\ participants'[e].last = participants[e].last /\ mishaps' = mishaps + 1
    /\ Records(e)' = Records(e) \ {s} /\ Active' \in SUBSET Active
    /\ \A t \in Sweeps : t # s => sweeps'[t] = sweeps[t]
    /\ \A t \in Sweeps : \A c \in LeftOf(sweeps'[t]) :
           c.employee = e => c \in LeftOf(sweeps[t])

LEMMA RecordingKeepsAll ==
    ASSUME RemindersSensible, RemindersRight, NEW e \in Participants, Enough(e), Paid(e),
           NEW s \in Records(e), RecordedBy(e, s)
    PROVE  Enough(e)' /\ Paid(e)'
  <1>1. PICK l \in Nat, t \in Nat, i \in Nat, a \in Nat, r \in Nat, y \in Nat, c \in Nat,
             most \in Nat, w \in Nat, f \in {0, 1}, g \in {0, 1} :
               /\ l = Len(reminded[e]) /\ t = participants[e].sent /\ i = mishaps
               /\ a = Cardinality(Active) /\ r = Cardinality(Records(e))
               /\ y = Cardinality(MaySend(e)) /\ c = Cardinality(CloseIn(reminded[e]))
               /\ most = MaxReminders /\ w = Cardinality(Waits(e)) /\ (w = 0 <=> Waits(e) = {})
               /\ (f = 1 <=> Fresh(e)) /\ (g = 1 <=> Backward(e))
               /\ l + a <= t + r + i + 1 /\ l <= t + r + i /\ l + y <= most + i
               /\ Records(e) = {} => c + (IF w = 0 THEN 1 ELSE w) - f <= i
               /\ Records(e) # {} => c + w + g <= i
    BY InNumbers
  <1>2. PICK a2 \in Nat, r2 \in Nat, y2 \in Nat, w2 \in Nat, f2 \in {0, 1}, g2 \in {0, 1},
             b2 \in Int :
               /\ a2 = Cardinality(Active') /\ r2 = Cardinality(Records(e)')
               /\ y2 = Cardinality(MaySend(e)')
               /\ w2 = Cardinality(Waits(e)') /\ (w2 = 0 <=> Waits(e)' = {})
               /\ (f2 = 1 <=> Fresh(e)') /\ (g2 = 1 <=> Backward(e)') /\ b2 = Burden(e)'
               /\ Records(e)' = {} => b2 = (IF w2 = 0 THEN 1 ELSE w2) - f2
               /\ Records(e)' # {} => b2 = w2 + g2
    BY NumbersThen
  <1>3. PICK t2 \in Nat, i2 \in Nat :
            /\ t2 = participants'[e].sent /\ i2 = mishaps'
            /\ \/ /\ t2 = t + 1 /\ i2 = i /\ mishaps' = mishaps
                  /\ participants'[e].last = sweeps[s].at
               \/ t2 = t /\ i2 = i + 1
    <2>1. CASE mishaps' = mishaps /\ participants'[e].sent = participants[e].sent + 1
                 /\ participants'[e].last = sweeps[s].at
      <3>1. t + 1 = participants'[e].sent /\ i = mishaps' BY <1>1, <2>1
      <3> QED BY <2>1, <3>1
    <2>2. CASE mishaps' = mishaps + 1 /\ participants'[e].sent = participants[e].sent
      <3>1. t = participants'[e].sent /\ i + 1 = mishaps' BY <1>1, <2>2
      <3> QED BY <2>2, <3>1
    <2> QED BY <2>1, <2>2 DEF RecordedBy
  <1>4. s \in Sweeps BY SetsOfSweeps
  <1>5. Waits(e)' \in SUBSET Waits(e) /\ MaySend(e)' \in SUBSET MaySend(e)
    BY DEF Waits, MaySend, RecordedBy
  <1>6. a2 <= a /\ w2 <= w /\ y2 <= y /\ r2 = r - 1
    <2>1. /\ Waits(e) \in SUBSET Sweeps /\ MaySend(e) \in SUBSET Sweeps
          /\ Active \in SUBSET Sweeps /\ Records(e) \in SUBSET Sweeps
      BY SetsOfSweeps
    <2>2. Cardinality(Active') <= Cardinality(Active) BY <2>1, FewerSweeps DEF RecordedBy
    <2>3. Cardinality(Waits(e)') <= Cardinality(Waits(e)) BY <1>5, <2>1, FewerSweeps
    <2>4. Cardinality(MaySend(e)') <= Cardinality(MaySend(e)) BY <1>5, <2>1, FewerSweeps
    <2>5. Cardinality(Records(e) \ {s}) = Cardinality(Records(e)) - 1 BY <2>1, SweepsAreFew
    <2> QED BY <1>1, <1>2, <2>2, <2>3, <2>4, <2>5 DEF RecordedBy
  <1>7. Backward(e)' => Backward(e)
    <2> SUFFICES ASSUME Backward(e)' PROVE Backward(e) OBVIOUS
    <2>1. PICK u \in Records(e)' : sweeps'[u].at < LastOf(e)' BY DEF Backward
    <2>2. u \in Records(e) /\ u # s /\ u \in Sweeps BY SetsOfSweeps DEF RecordedBy
    <2>3. sweeps[u].at < LastOf(e) BY <2>1, <2>2 DEF LastOf, RecordedBy
    <2>4. reminded[e] # <<>> BY DEF Backward, RecordedBy
    <2> QED BY <2>2, <2>3, <2>4 DEF Backward
  <1>8. participants'[e].last = sweeps[s].at /\ ~ Backward(e) /\ w2 = 0 => Fresh(e)'
    <2> SUFFICES ASSUME participants'[e].last = sweeps[s].at, ~ Backward(e), w2 = 0,
                        reminded[e] # <<>>
                 PROVE  Fresh(e)'
      BY DEF Fresh, RecordedBy
    <2>1. ~ (sweeps[s].at < LastOf(e)) BY DEF Backward
    <2>2. PICK u \in Nat, v \in Nat, n \in Nat :
              u = sweeps[s].at /\ v = LastOf(e) /\ n = MaxNow /\ u <= n /\ R!Never = n + 1
      <3>1. /\ sweeps[s].at \in 0 .. MaxNow /\ LastOf(e) \in 0 .. MaxNow /\ MaxNow \in Nat
            /\ R!Never = MaxNow + 1
        BY <1>4, NumbersAreThere
      <3> QED BY <3>1
    <2>3. ~ (u < v) BY <2>1, <2>2
    <2>4. u # n + 1 /\ u >= v BY <2>2, <2>3
    <2>5. sweeps[s].at # R!Never /\ sweeps[s].at >= LastOf(e) BY <2>2, <2>4
    <2>6. \A x \in Sweeps : \A d \in LeftOf(sweeps'[x]) : d.employee # e BY <1>2 DEF Waits
    <2>7. LastOf(e)' = LastOf(e) BY DEF LastOf, RecordedBy
    <2> QED BY <2>5, <2>6, <2>7 DEF Fresh
  <1>9. c + w + g <= i /\ g2 <= g
    <2>1. Records(e) # {} OBVIOUS
    <2>2. g2 = 1 => g = 1 BY <1>1, <1>2, <1>7, Zenon
    <2>3. g2 <= g BY <2>2
    <2> QED BY <1>1, <2>1, <2>3
  <1>10. /\ l + a2 <= t2 + r2 + i2 + 1 /\ l <= t2 + r2 + i2 /\ l + y2 <= most + i2
    <2>1. l + a <= t + r + i + 1 /\ l <= t + r + i /\ l + y <= most + i BY <1>1
    <2>2. CASE t2 = t + 1 /\ i2 = i BY <1>6, <2>1, <2>2
    <2>3. CASE t2 = t /\ i2 = i + 1 BY <1>6, <2>1, <2>3
    <2> QED BY <1>3, <2>2, <2>3
  <1>11. c + w2 + g2 <= i2 BY <1>3, <1>6, <1>9
  <1>12. c + (IF w2 = 0 THEN 1 ELSE w2) - f2 <= i2
    <2>1. CASE w2 # 0 BY <1>3, <1>6, <1>9, <2>1
    <2>2. CASE w2 = 0 /\ i2 = i + 1 BY <1>6, <1>9, <2>2
    <2>3. CASE w2 = 0 /\ g = 1 BY <1>3, <1>6, <1>9, <2>3
    <2>4. CASE w2 = 0 /\ g = 0 /\ participants'[e].last = sweeps[s].at
      <3>1. f2 = 1 BY <1>1, <1>2, <1>8, <2>4
      <3> QED BY <1>3, <1>6, <1>9, <2>4, <3>1
    <2> QED BY <1>3, <2>1, <2>2, <2>3, <2>4
  <1>13. /\ l = Len(reminded'[e]) /\ c = Cardinality(CloseIn(reminded'[e])) /\ most = MaxReminders
    BY <1>1 DEF RecordedBy
  <1>14. c + b2 <= i2
    <2>1. CASE Records(e)' = {}
      <3>1. b2 = (IF w2 = 0 THEN 1 ELSE w2) - f2 BY <1>2, <2>1
      <3> QED BY <1>12, <3>1
    <2>2. CASE Records(e)' # {}
      <3>1. b2 = w2 + g2 BY <1>2, <2>2
      <3> QED BY <1>11, <3>1
    <2> QED BY <2>1, <2>2
  <1>15. Enough(e)' BY <1>2, <1>3, <1>10, <1>13 DEF Enough
  <1>16. Paid(e)' BY <1>2, <1>3, <1>13, <1>14 DEF Paid
  <1> QED BY <1>15, <1>16

\* A restart ends all sweeps.
LEMMA RestartingKeepsAll ==
    ASSUME RemindersSensible, RemindersRight, NEW e \in Participants,
           Enough(e), Paid(e), reminded' = reminded, participants' = participants,
           mishaps' = mishaps + 1, Active' = {}, Waits(e)' = {}
    PROVE  Enough(e)' /\ Paid(e)'
  <1>1. Records(e)' = {} /\ MaySend(e)' = {} BY SetsOfSweeps
  <1>2. Cardinality(Active') = 0 /\ Cardinality(Records(e)') = 0 /\ Cardinality(MaySend(e)') = 0
    BY <1>1, FS_EmptySet
  <1>3. Cardinality(Records(e)) <= Cardinality(Active) BY SetsOfSweeps, SweepsAreFew
  <1>4. PICK l \in Nat, t \in Nat, i \in Nat, a \in Nat, r \in Nat, y \in Nat, c \in Nat,
             most \in Nat, b \in Int :
             /\ l = Len(reminded[e]) /\ t = participants[e].sent /\ i = mishaps
             /\ a = Cardinality(Active) /\ r = Cardinality(Records(e))
             /\ y = Cardinality(MaySend(e)) /\ c = Cardinality(CloseIn(reminded[e]))
             /\ most = MaxReminders /\ b = Burden(e) /\ b >= 0
    <2>1. Burden(e) \in Int /\ Burden(e) >= 0 BY BurdenIsThere
    <2> QED BY <2>1, NumbersAreThere, Zenon
  <1>5. l + a <= t + r + i + 1 /\ l <= t + r + i /\ l + y <= most + i /\ c + b <= i
        /\ b >= 0
    BY <1>4 DEF Enough, Paid
  <1>6. r <= a BY <1>3, <1>4
  <1>7. l + 0 <= t + 0 + (i + 1) + 1 /\ l <= t + 0 + (i + 1) /\ l + 0 <= most + (i + 1)
    BY <1>5, <1>6
  <1>8. Enough(e)' BY <1>2, <1>4, <1>7 DEF Enough
  <1>9. PICK d \in Int : d = Burden(e)' /\ d <= 1 BY <1>1, BurdenIsThereThen
  <1>10. Paid(e)'
    <2>1. Cardinality(CloseIn(reminded'[e])) = c BY <1>4
    <2>2. c + d <= i + 1 BY <1>5, <1>9
    <2> QED BY <1>4, <1>9, <2>1, <2>2 DEF Paid
  <1> QED BY <1>8, <1>10

\* A sweep starts, with the present record of the participant.
StartedBy(s) ==
    /\ s \notin Active
    /\ reminded' = reminded /\ participants' = participants
    /\ \/ mishaps' = mishaps /\ Active = {}
       \/ mishaps' = mishaps + 1
    /\ Active' = Active \cup {s}
    /\ \A e : Records(e)' = Records(e)
    /\ \A t \in Sweeps : t # s => sweeps'[t] = sweeps[t]
    /\ \A c \in LeftOf(sweeps'[s]) : /\ c.sent = participants[c.employee].sent
                                     /\ c.last = participants[c.employee].last

LEMMA StartingKeepsAll ==
    ASSUME RemindersSensible, RemindersRight, NEW e \in Participants, Enough(e), Paid(e),
           NEW s \in Sweeps, StartedBy(s)
    PROVE  Enough(e)' /\ Paid(e)'
  <1>1. PICK l \in Nat, t \in Nat, i \in Nat, a \in Nat, r \in Nat, y \in Nat, c \in Nat,
             most \in Nat, w \in Nat, f \in {0, 1}, g \in {0, 1} :
               /\ l = Len(reminded[e]) /\ t = participants[e].sent /\ i = mishaps
               /\ a = Cardinality(Active) /\ r = Cardinality(Records(e))
               /\ y = Cardinality(MaySend(e)) /\ c = Cardinality(CloseIn(reminded[e]))
               /\ most = MaxReminders /\ w = Cardinality(Waits(e)) /\ (w = 0 <=> Waits(e) = {})
               /\ (f = 1 <=> Fresh(e)) /\ (g = 1 <=> Backward(e))
               /\ l + a <= t + r + i + 1 /\ l <= t + r + i /\ l + y <= most + i
               /\ Records(e) = {} => c + (IF w = 0 THEN 1 ELSE w) - f <= i
               /\ Records(e) # {} => c + w + g <= i
    BY InNumbers
  <1>2. PICK a2 \in Nat, r2 \in Nat, y2 \in Nat, w2 \in Nat, f2 \in {0, 1}, g2 \in {0, 1},
             b2 \in Int :
               /\ a2 = Cardinality(Active') /\ r2 = Cardinality(Records(e)')
               /\ y2 = Cardinality(MaySend(e)')
               /\ w2 = Cardinality(Waits(e)') /\ (w2 = 0 <=> Waits(e)' = {})
               /\ (f2 = 1 <=> Fresh(e)') /\ (g2 = 1 <=> Backward(e)') /\ b2 = Burden(e)'
               /\ Records(e)' = {} => b2 = (IF w2 = 0 THEN 1 ELSE w2) - f2
               /\ Records(e)' # {} => b2 = w2 + g2
    BY NumbersThen
  <1>3. LeftOf(sweeps[s]) = {} BY LeftAreCandidates DEF Active, RemindersRight, StartedBy
  <1>4. /\ Waits(e)' \in SUBSET (Waits(e) \cup {s}) /\ MaySend(e)' \in SUBSET (MaySend(e) \cup {s})
        /\ s \notin Waits(e) /\ s \notin MaySend(e) /\ s \notin Active /\ s \notin Records(e)
        /\ Records(e)' = Records(e)
    BY <1>3, SetsOfSweeps DEF Waits, MaySend, StartedBy
  <1>5. a2 = a + 1 /\ w2 <= w + 1 /\ y2 <= y + 1 /\ r2 = r
    <2>1. /\ Waits(e) \in SUBSET Sweeps /\ MaySend(e) \in SUBSET Sweeps
          /\ Active \in SUBSET Sweeps
          /\ Waits(e) \cup {s} \in SUBSET Sweeps /\ MaySend(e) \cup {s} \in SUBSET Sweeps
      BY SetsOfSweeps
    <2>2. Cardinality(Active') = a + 1 BY <1>1, <1>4, <2>1, SweepsAreFew DEF StartedBy
    <2>3. Cardinality(Waits(e) \cup {s}) = w + 1
      <3>1. Cardinality(Waits(e) \cup {s}) = Cardinality(Waits(e)) + 1 BY <1>4, <2>1, SweepsAreFew
      <3> QED BY <1>1, <3>1
    <2>4. Cardinality(MaySend(e) \cup {s}) = y + 1 BY <1>1, <1>4, <2>1, SweepsAreFew
    <2>5. Cardinality(Waits(e)') <= Cardinality(Waits(e) \cup {s}) BY <1>4, <2>1, FewerSweeps
    <2>6. Cardinality(MaySend(e)') <= Cardinality(MaySend(e) \cup {s})
      BY <1>4, <2>1, FewerSweeps
    <2> QED BY <1>1, <1>2, <1>4, <2>2, <2>3, <2>4, <2>5, <2>6
  <1>6. f2 >= f
    <2>1. Fresh(e) => Fresh(e)'
      <3> SUFFICES ASSUME Fresh(e), reminded[e] # <<>> PROVE Fresh(e)'
        BY DEF Fresh, StartedBy
      <3>1. LastOf(e)' = LastOf(e) BY DEF LastOf, StartedBy
      <3>2. ASSUME NEW u \in Sweeps, NEW d \in LeftOf(sweeps'[u]), d.employee = e
            PROVE  d.last # R!Never /\ d.last >= LastOf(e)
        <4>1. CASE u = s BY <3>2, <4>1 DEF Fresh, StartedBy
        <4>2. CASE u # s BY <3>2, <4>2 DEF Fresh, StartedBy
        <4> QED BY <4>1, <4>2
      <3> QED BY <3>1, <3>2 DEF Fresh, StartedBy
    <2>2. f = 1 => f2 = 1 BY <1>1, <1>2, <2>1, Zenon
    <2> QED BY <2>2
  <1>7. g2 <= g
    <2>1. \A u \in Records(e) : u # s /\ u \in Sweeps BY <1>4, SetsOfSweeps
    <2>2. Backward(e)' => Backward(e) BY <2>1 DEF Backward, LastOf, StartedBy
    <2>3. g2 = 1 => g = 1 BY <1>1, <1>2, <2>2, Zenon
    <2> QED BY <2>3
  <1>8. l + a <= t + r + i + 1 /\ l <= t + r + i /\ l + y <= most + i BY <1>1
  <1>9. /\ l = Len(reminded'[e]) /\ t = participants'[e].sent
        /\ c = Cardinality(CloseIn(reminded'[e])) /\ most = MaxReminders
    BY <1>1 DEF StartedBy
  <1>10. CASE Active = {} /\ mishaps' = mishaps
    <2>1. Records(e) = {} /\ Waits(e) = {} /\ MaySend(e) = {}
      <3>1. \A u \in Sweeps : LeftOf(sweeps[u]) = {}
        BY <1>10, LeftAreCandidates DEF Active, RemindersRight
      <3>2. Waits(e) = {} BY <3>1 DEF Waits
      <3> QED BY <1>10, <3>2, SetsOfSweeps
    <2>2. r = 0 /\ a = 0 /\ y = 0 /\ w = 0 BY <1>1, <1>10, <2>1, FS_EmptySet
    <2>3. l + y2 <= most + i
      <3>1. CASE MaySend(e)' = {}
        <4>1. y2 = 0 BY <1>2, <3>1, FS_EmptySet
        <4> QED BY <1>8, <2>2, <4>1
      <3>2. CASE MaySend(e)' # {}
        <4>1. s \in MaySend(e)' BY <1>4, <2>1, <3>2
        <4>2. PICK d \in LeftOf(sweeps'[s]) : d.employee = e /\ d.sent < MaxReminders
          BY <4>1 DEF MaySend
        <4>3. t < most BY <1>1, <4>2 DEF StartedBy
        <4>4. l <= t + i BY <1>8, <2>2
        <4>5. y2 <= 1 BY <1>5, <2>2
        <4> QED BY <4>3, <4>4, <4>5
      <3> QED BY <3>1, <3>2
    <2>4. l + a2 <= t + r2 + i + 1 /\ l <= t + r2 + i BY <1>5, <1>8, <2>2
    <2>5. i = mishaps' BY <1>1, <1>10
    <2>6. c + b2 <= i
      <3>1. c + 1 - f <= i BY <1>1, <2>1, <2>2
      <3>2. b2 = (IF w2 = 0 THEN 1 ELSE w2) - f2 BY <1>2, <1>4, <2>1
      <3>3. w2 <= 1 BY <1>5, <2>2
      <3>4. b2 = 1 - f2 BY <3>2, <3>3
      <3> QED BY <1>6, <3>1, <3>4
    <2>7. Enough(e)' BY <1>2, <1>9, <2>3, <2>4, <2>5 DEF Enough
    <2>8. Paid(e)' BY <1>2, <1>9, <2>5, <2>6 DEF Paid
    <2> QED BY <2>7, <2>8
  <1>11. CASE mishaps' = mishaps + 1
    <2>1. i + 1 = mishaps' BY <1>1, <1>11
    <2>2. l + a2 <= t + r2 + (i + 1) + 1 /\ l <= t + r2 + (i + 1) /\ l + y2 <= most + (i + 1)
      <3>1. l + a2 <= t + r2 + (i + 1) + 1 BY <1>5, <1>8
      <3>2. l <= t + r2 + (i + 1) BY <1>5, <1>8
      <3>3. l + y2 <= most + (i + 1) BY <1>5, <1>8
      <3> QED BY <3>1, <3>2, <3>3
    <2>3. c + b2 <= i + 1
      <3>1. CASE Records(e) = {}
        <4>1. c + (IF w = 0 THEN 1 ELSE w) - f <= i BY <1>1, <3>1
        <4>2. b2 = (IF w2 = 0 THEN 1 ELSE w2) - f2 BY <1>2, <1>4, <3>1
        <4>3. b2 <= (IF w = 0 THEN 1 ELSE w) + 1 - f BY <1>5, <1>6, <4>2
        <4> QED BY <4>1, <4>3
      <3>2. CASE Records(e) # {}
        <4>1. c + w + g <= i BY <1>1, <3>2
        <4>2. b2 = w2 + g2 BY <1>2, <1>4, <3>2
        <4> QED BY <1>5, <1>7, <4>1, <4>2
      <3> QED BY <3>1, <3>2
    <2>4. Enough(e)' BY <1>2, <1>9, <2>1, <2>2 DEF Enough
    <2>5. Paid(e)' BY <1>2, <1>9, <2>1, <2>3 DEF Paid
    <2> QED BY <2>4, <2>5
  <1> QED BY <1>10, <1>11 DEF StartedBy

\* The invariant of the reminders.
RemindersKept == RemindersRight /\ \A e \in Participants : Enough(e) /\ Paid(e)

\* The types of a step of one sweep that reminds nobody and records nothing.
LEMMA QuietStaysRight ==
    ASSUME RemindersSensible, RemindersRight, NEW s \in Sweeps, NEW new, SweepRight(new),
           sweeps' = [sweeps EXCEPT ![s] = new], clock' = clock, reminded' = reminded,
           participants' = participants, mishaps' = mishaps \/ R!Mishap
    PROVE  RemindersRight' /\ mishaps' \in Nat /\ mishaps' >= mishaps
  <1>1. /\ clock \in 0 .. MaxNow /\ participants \in [Participants -> R!Participant]
        /\ mishaps \in 0 .. MaxMishaps /\ MaxMishaps \in Nat
    BY DEF RemindersRight, R!TypeOK, RemindersSensible
  <1>2. mishaps' \in 0 .. MaxMishaps /\ mishaps' \in Nat /\ mishaps' >= mishaps
    BY <1>1 DEF R!Mishap
  <1> QED BY <1>1, <1>2, OneStaysRight

LEMMA StartingStays ==
    ASSUME RemindersSensible, RemindersKept, NEW s \in Sweeps, R!StartSweep(s)
    PROVE  RemindersKept'
  <1>1. RemindersRight /\ \A e \in Participants : Enough(e) /\ Paid(e) BY DEF RemindersKept
  <1>2. PICK new :
            /\ SweepRight(new) /\ sweeps' = [sweeps EXCEPT ![s] = new]
            /\ new.phase = "next" /\ sweeps[s].phase = "idle"
            /\ \A c \in LeftOf(new) : /\ c.sent = participants[c.employee].sent
                                      /\ c.last = participants[c.employee].last
            /\ \/ mishaps' = mishaps /\ Active = {}
               \/ mishaps' = mishaps + 1 /\ mishaps < MaxMishaps
    BY <1>1, SweepsMoveRight
  <1>3. UNCHANGED <<clock, participants, reminded>> BY DEF R!StartSweep
  <1>4. sweeps \in [Sweeps -> R!Sweep] BY <1>1 DEF RemindersRight, R!TypeOK
  <1>5. RemindersRight' BY <1>1, <1>2, <1>3, QuietStaysRight DEF R!Mishap
  <1>6. StartedBy(s)
    <2>1. /\ sweeps'[s] = new /\ \A t \in Sweeps : t # s => sweeps'[t] = sweeps[t]
          /\ Active' = Active \cup {s}
          /\ \A e : Records(e)' = Records(e) \ {s}
      BY <1>2, <1>4, OneSweepMoves
    <2>2. s \notin Active /\ \A e : s \notin Records(e) BY <1>2 DEF Active, Records
    <2>3. \A e : Records(e)' = Records(e) BY <2>1, <2>2
    <2> QED BY <1>2, <1>3, <2>1, <2>2, <2>3 DEF StartedBy
  <1>7. \A e \in Participants : Enough(e)' /\ Paid(e)' BY <1>1, <1>6, StartingKeepsAll
  <1> QED BY <1>5, <1>7 DEF RemindersKept

\* The sweep goes on; nothing is sent or recorded, and it was not recording before.
LEMMA GoingOnStays ==
    ASSUME RemindersSensible, RemindersKept, NEW s \in Sweeps, R!Consider(s) \/ R!NotDelivered(s)
    PROVE  RemindersKept'
  <1>1. RemindersRight /\ \A e \in Participants : Enough(e) /\ Paid(e) BY DEF RemindersKept
  <1>2. PICK new :
            /\ SweepRight(new) /\ sweeps' = [sweeps EXCEPT ![s] = new]
            /\ new.phase # "recording" /\ sweeps[s].phase \in {"next", "delivering"}
            /\ \A c \in LeftOf(new) : c \in LeftOf(sweeps[s])
    <2>1. CASE R!Consider(s) BY <1>1, <2>1, SweepsMoveRight
    <2>2. CASE R!NotDelivered(s)
      <3>1. sweeps[s].phase = "delivering" BY <2>2 DEF R!NotDelivered
      <3> QED BY <1>1, <2>2, <3>1, SweepsMoveRight
    <2> QED BY <2>1, <2>2
  <1>3. UNCHANGED <<clock, participants, reminded, mishaps>> BY DEF R!Consider, R!NotDelivered
  <1>4. sweeps \in [Sweeps -> R!Sweep] BY <1>1 DEF RemindersRight, R!TypeOK
  <1>5. RemindersRight' /\ mishaps' \in Nat /\ mishaps' >= mishaps
    BY <1>1, <1>2, <1>3, QuietStaysRight
  <1>6. ASSUME NEW e \in Participants PROVE PassesBy(e)
    <2>1. /\ sweeps'[s] = new /\ \A t \in Sweeps : t # s => sweeps'[t] = sweeps[t]
          /\ Active' = IF new.phase # "idle" THEN Active \cup {s} ELSE Active \ {s}
          /\ Records(e)' = Records(e) \ {s}
      BY <1>2, <1>4, OneSweepMoves
    <2>2. s \in Active /\ s \notin Records(e) BY <1>2 DEF Active, Records
    <2>3. Records(e)' = Records(e) /\ Active' \in SUBSET Active BY <2>1, <2>2
    <2>4. \A u \in Records(e) : sweeps'[u].at = sweeps[u].at
      BY <2>1, <2>2, SetsOfSweeps
    <2>5. \A u \in Sweeps : \A c \in LeftOf(sweeps'[u]) : c \in LeftOf(sweeps[u])
      BY <1>2, <2>1
    <2> QED BY <1>3, <1>5, <2>3, <2>4, <2>5 DEF PassesBy
  <1>7. \A e \in Participants : Enough(e)' /\ Paid(e)' BY <1>1, <1>6, PassingKeepsAll
  <1> QED BY <1>5, <1>7 DEF RemindersKept

\* A sweep sends its reminder.
LEMMA DeliveringStays ==
    ASSUME RemindersSensible, RemindersKept, NEW s \in Sweeps, R!Deliver(s)
    PROVE  RemindersKept'
  <1>1. RemindersRight /\ \A e \in Participants : Enough(e) /\ Paid(e) BY DEF RemindersKept
  <1>2. PICK new :
            /\ SweepRight(new) /\ sweeps' = [sweeps EXCEPT ![s] = new]
            /\ sweeps[s].phase = "delivering" /\ new.phase = "recording"
            /\ new.at = sweeps[s].at /\ new.todo = sweeps[s].todo
            /\ \A d : d \in LeftOf(new) <=>
                   d \in LeftOf(sweeps[s]) /\ d.employee # R!Target(s).employee
    BY <1>1, SweepsMoveRight
  <1>3. UNCHANGED <<clock, participants, mishaps>> BY DEF R!Deliver
  <1>4. /\ sweeps \in [Sweeps -> R!Sweep] /\ SweepRight(sweeps[s])
        /\ reminded \in [Participants -> Seq(0 .. MaxNow)]
        /\ clock \in 0 .. MaxNow /\ participants \in [Participants -> R!Participant]
        /\ mishaps \in 0 .. MaxMishaps
    BY <1>1 DEF RemindersRight, R!TypeOK
  <1>5. PICK e, a : e = R!Target(s).employee /\ a = sweeps[s].at OBVIOUS
  <1>6. /\ R!Target(s) = Head(sweeps[s].todo) /\ R!Target(s) \in R!Candidate
        /\ R!Target(s) \in LeftOf(sweeps[s])
    BY <1>2, <1>4, LeftAreCandidates DEF R!Target
  <1>7. e \in Participants /\ a \in 0 .. MaxNow /\ a % DayLength = DayLength - 1
    <2>1. e \in Participants BY <1>5, <1>6 DEF R!Candidate
    <2>2. a \in 0 .. MaxNow BY <1>4, <1>5 DEF R!Sweep
    <2>3. a % DayLength = DayLength - 1 BY <1>2, <1>4, <1>5 DEF SweepRight
    <2> QED BY <2>1, <2>2, <2>3
  <1>8. GotOne(e, a)
    <2>1. reminded' = [reminded EXCEPT ![e] = Append(@, a)] BY <1>5 DEF R!Deliver
    <2> QED BY <1>4, <2>1 DEF GotOne
  <1>9. RemindersRight' BY <1>1, <1>2, <1>3, <1>4, <1>7, <1>8, OneStaysRight
  <1>10. /\ sweeps'[s] = new /\ \A t \in Sweeps : t # s => sweeps'[t] = sweeps[t]
         /\ Active' = Active \cup {s}
         /\ \A d : Waits(d)' = IF \E c \in LeftOf(new) : c.employee = d
                              THEN Waits(d) \cup {s} ELSE Waits(d) \ {s}
         /\ \A d : MaySend(d)' =
                  IF \E c \in LeftOf(new) : c.employee = d /\ c.sent < MaxReminders
                  THEN MaySend(d) \cup {s} ELSE MaySend(d) \ {s}
         /\ \A d : Records(d)' = IF new.phase = "recording" /\ Head(new.todo).employee = d
                                THEN Records(d) \cup {s} ELSE Records(d) \ {s}
    BY <1>2, <1>4, OneSweepMoves
  <1>11. Active' = Active
    <2>1. s \in Active BY <1>2 DEF Active
    <2> QED BY <1>10, <2>1
  <1>12. SentBy(e, s, a)
    <2>1. reminded'[e] = Append(reminded[e], a) BY <1>7, <1>8 DEF GotOne
    <2>2. Head(sweeps[s].todo).sent < MaxReminders
          /\ (Head(sweeps[s].todo).last = R!Never \/ a - Head(sweeps[s].todo).last >= DayLength)
      BY <1>2, <1>4, <1>5 DEF SweepRight
    <2>3. s \in MaySend(e) BY <1>5, <1>6, <2>2 DEF MaySend
    <2>4. s \notin Records(e) BY <1>2 DEF Records
    <2>5. \A d \in LeftOf(new) : d.employee # e BY <1>2, <1>5
    <2>6. Records(e)' = Records(e) \cup {s}
      <3>1. Head(new.todo).employee = e BY <1>2, <1>5, <1>6
      <3>2. Records(e)' = IF new.phase = "recording" /\ Head(new.todo).employee = e
                          THEN Records(e) \cup {s} ELSE Records(e) \ {s}
        BY <1>10
      <3> QED BY <1>2, <3>1, <3>2
    <2>7. Waits(e)' = Waits(e) \ {s} /\ MaySend(e)' = MaySend(e) \ {s}
      <3>1. /\ Waits(e)' = IF \E c \in LeftOf(new) : c.employee = e
                            THEN Waits(e) \cup {s} ELSE Waits(e) \ {s}
            /\ MaySend(e)' =
                  IF \E c \in LeftOf(new) : c.employee = e /\ c.sent < MaxReminders
                  THEN MaySend(e) \cup {s} ELSE MaySend(e) \ {s}
        BY <1>10
      <3> QED BY <2>5, <3>1
    <2>8. a = sweeps'[s].at BY <1>2, <1>5, <1>10
    <2>9. \E c \in LeftOf(sweeps[s]) :
              c.employee = e /\ (c.last = R!Never \/ a - c.last >= DayLength)
      BY <1>5, <1>6, <2>2
    <2> QED BY <1>3, <1>5, <1>7, <1>10, <1>11, <2>1, <2>3, <2>4, <2>6, <2>7, <2>8, <2>9 DEF SentBy
  <1>13. ASSUME NEW d \in Participants, d # e PROVE PassesBy(d)
    <2>1. reminded'[d] = reminded[d] BY <1>8, <1>13 DEF GotOne
    <2>2. Records(d)' = Records(d)
      <3>1. Head(new.todo).employee # d BY <1>2, <1>5, <1>6, <1>13
      <3>2. Records(d)' = IF new.phase = "recording" /\ Head(new.todo).employee = d
                          THEN Records(d) \cup {s} ELSE Records(d) \ {s}
        BY <1>10
      <3>3. s \notin Records(d) BY <1>2 DEF Records
      <3> QED BY <3>1, <3>2, <3>3
    <2>3. \A u \in Records(d) : sweeps'[u].at = sweeps[u].at
      BY <1>2, <1>10, SetsOfSweeps
    <2>4. \A u \in Sweeps : \A c \in LeftOf(sweeps'[u]) : c \in LeftOf(sweeps[u])
      BY <1>2, <1>10
    <2>5. mishaps' \in Nat /\ mishaps' >= mishaps BY <1>3, <1>4 DEF RemindersSensible
    <2> QED BY <1>3, <1>11, <2>1, <2>2, <2>3, <2>4, <2>5 DEF PassesBy
  <1>14. \A d \in Participants : Enough(d)' /\ Paid(d)'
    <2>1. Enough(e)' /\ Paid(e)' BY <1>1, <1>7, <1>12, SendingKeepsAll
    <2>2. ASSUME NEW d \in Participants, d # e PROVE Enough(d)' /\ Paid(d)'
      BY <1>1, <1>13, <2>2, PassingKeepsAll
    <2> QED BY <2>1, <2>2
  <1> QED BY <1>9, <1>14 DEF RemindersKept

\* A sweep records its reminder, or fails to.
LEMMA RecordingStays ==
    ASSUME RemindersSensible, RemindersKept, NEW s \in Sweeps, R!Record(s) \/ R!NotRecorded(s)
    PROVE  RemindersKept'
  <1>1. RemindersRight /\ \A e \in Participants : Enough(e) /\ Paid(e) BY DEF RemindersKept
  <1>2. PICK new :
            /\ SweepRight(new) /\ sweeps' = [sweeps EXCEPT ![s] = new]
            /\ new.phase \in {"idle", "next"}
            /\ \A d : d \in LeftOf(new) <=>
                   d \in LeftOf(sweeps[s]) /\ d.employee # R!Target(s).employee
    BY <1>1, SweepsMoveRight
  <1>3. UNCHANGED <<clock, reminded>> /\ sweeps[s].phase = "recording"
    BY DEF R!Record, R!NotRecorded
  <1>4. /\ sweeps \in [Sweeps -> R!Sweep] /\ SweepRight(sweeps[s])
        /\ clock \in 0 .. MaxNow /\ participants \in [Participants -> R!Participant]
        /\ mishaps \in 0 .. MaxMishaps /\ MaxMishaps \in Nat /\ MaxNow \in Nat
    BY <1>1 DEF RemindersRight, R!TypeOK, RemindersSensible
  <1>5. PICK e : e = R!Target(s).employee OBVIOUS
  <1>6. e \in Participants
    <2>1. R!Target(s) \in R!Candidate BY <1>3, <1>4, LeftAreCandidates DEF R!Target
    <2> QED BY <1>5, <2>1 DEF R!Candidate
  <1>7. \/ /\ participants' = [participants EXCEPT ![e] = [touched |-> @.touched, sent |-> @.sent + 1,
                                    last |-> sweeps[s].at]]
           /\ mishaps' = mishaps
        \/ participants' = participants /\ mishaps' = mishaps + 1 /\ mishaps < MaxMishaps
    <2>1. CASE R!Record(s)
      <3>1. /\ participants' = [participants EXCEPT ![R!Target(s).employee] =
                                   [touched |-> @.touched, sent |-> @.sent + 1,
                                    last |-> sweeps[s].at]]
            /\ mishaps' = mishaps
        BY <2>1, Zenon DEF R!Record
      <3> QED BY <1>5, <3>1, Zenon
    <2>2. CASE R!NotRecorded(s) BY <2>2 DEF R!NotRecorded, R!Mishap
    <2> QED BY <2>1, <2>2
  <1>8. /\ participants' \in [Participants -> R!Participant]
        /\ \A d \in Participants : d # e =>
               participants'[d].sent = participants[d].sent /\ participants'[d].last = participants[d].last
        /\ \/ /\ participants'[e].sent = participants[e].sent + 1
              /\ participants'[e].last = sweeps[s].at /\ mishaps' = mishaps
           \/ /\ participants'[e].sent = participants[e].sent
              /\ participants'[e].last = participants[e].last /\ mishaps' = mishaps + 1
        /\ mishaps' \in 0 .. MaxMishaps /\ mishaps' \in Nat /\ mishaps' >= mishaps
    <2>1. CASE participants' = participants /\ mishaps' = mishaps + 1 /\ mishaps < MaxMishaps
      BY <1>4, <2>1
    <2>2. ASSUME participants' = [participants EXCEPT ![e] =
                                    [touched |-> @.touched, sent |-> @.sent + 1,
                                    last |-> sweeps[s].at]]
          PROVE  /\ participants' \in [Participants -> R!Participant]
                 /\ \A d \in Participants : d # e => participants'[d] = participants[d]
                 /\ participants'[e].sent = participants[e].sent + 1
                 /\ participants'[e].last = sweeps[s].at
      <3>1. participants[e] \in R!Participant /\ sweeps[s].at \in 0 .. R!Never
        <4>1. sweeps[s].at \in 0 .. MaxNow BY <1>4 DEF R!Sweep
        <4>2. sweeps[s].at \in 0 .. R!Never BY <1>4, <4>1 DEF R!Never
        <4> QED BY <1>4, <1>6, <4>2
      <3> QED BY <1>4, <1>6, <2>2, <3>1 DEF R!Participant
    <2>3. CASE /\ participants' = [participants EXCEPT ![e] =
                                    [touched |-> @.touched, sent |-> @.sent + 1,
                                    last |-> sweeps[s].at]]
               /\ mishaps' = mishaps
      <3>1. /\ participants' \in [Participants -> R!Participant]
            /\ \A d \in Participants : d # e => participants'[d] = participants[d]
            /\ participants'[e].sent = participants[e].sent + 1
            /\ participants'[e].last = sweeps[s].at
        BY <2>2, <2>3, Zenon
      <3>2. mishaps' = mishaps BY <2>3, Zenon
      <3> QED BY <1>4, <3>1, <3>2
    <2> QED BY <1>7, <2>1, <2>3, Zenon
  <1>9. RemindersRight' BY <1>1, <1>2, <1>3, <1>4, <1>8, OneStaysRight
  <1>10. /\ sweeps'[s] = new /\ \A t \in Sweeps : t # s => sweeps'[t] = sweeps[t]
         /\ Active' = IF new.phase # "idle" THEN Active \cup {s} ELSE Active \ {s}
         /\ \A d : Records(d)' = Records(d) \ {s}
    BY <1>2, <1>4, OneSweepMoves
  <1>11. Active' \in SUBSET Active /\ s \in Records(e) /\ \A d : d # e => s \notin Records(d)
    <2>1. s \in Active BY <1>3 DEF Active
    <2>2. s \in Records(e) BY <1>3, <1>5 DEF Records
    <2>3. \A d : d # e => s \notin Records(d) BY <1>5 DEF Records
    <2> QED BY <1>10, <2>1, <2>2, <2>3
  <1>12. \A u \in Sweeps : \A c \in LeftOf(sweeps'[u]) : c \in LeftOf(sweeps[u])
    BY <1>2, <1>10
  <1>13. RecordedBy(e, s) BY <1>3, <1>8, <1>10, <1>11, <1>12 DEF RecordedBy
  <1>14. ASSUME NEW d \in Participants, d # e PROVE PassesBy(d)
    <2>1. Records(d)' = Records(d) BY <1>10, <1>11, <1>14
    <2>2. \A u \in Records(d) : sweeps'[u].at = sweeps[u].at
      BY <1>10, <1>11, <1>14, SetsOfSweeps
    <2> QED BY <1>3, <1>8, <1>11, <1>12, <1>14, <2>1, <2>2 DEF PassesBy
  <1>15. \A d \in Participants : Enough(d)' /\ Paid(d)'
    <2>1. Enough(e)' /\ Paid(e)' BY <1>1, <1>6, <1>11, <1>13, RecordingKeepsAll
    <2>2. ASSUME NEW d \in Participants, d # e PROVE Enough(d)' /\ Paid(d)'
      BY <1>1, <1>14, <2>2, PassingKeepsAll
    <2> QED BY <2>1, <2>2
  <1> QED BY <1>9, <1>15 DEF RemindersKept

\* The sweeps end with the process.
LEMMA RestartingStays ==
    ASSUME RemindersSensible, RemindersKept, R!Restart
    PROVE  RemindersKept'
  <1>1. RemindersRight /\ \A e \in Participants : Enough(e) /\ Paid(e) BY DEF RemindersKept
  <1>2. /\ UNCHANGED <<clock, participants, reminded>> /\ sweeps' = [s \in Sweeps |-> R!Idle]
        /\ mishaps' = mishaps + 1 /\ mishaps < MaxMishaps
    BY DEF R!Restart, R!Mishap
  <1>3. 0 \in 0 .. MaxNow /\ MaxMishaps \in Nat BY DEF RemindersSensible
  <1>4. /\ R!Idle \in R!Sweep /\ R!Idle.phase = "idle" /\ R!Idle.todo = <<>>
        /\ Len(R!Idle.todo) = 0
    BY <1>3 DEF R!Idle, R!Sweep
  <1>5. SweepRight(R!Idle) /\ LeftOf(R!Idle) = {} BY <1>4 DEF SweepRight, LeftOf, Entries
  <1>6. RemindersRight'
    <2>1. R!TypeOK /\ mishaps \in 0 .. MaxMishaps BY <1>1 DEF RemindersRight, R!TypeOK
    <2>2. mishaps' \in 0 .. MaxMishaps BY <1>2, <1>3, <2>1
    <2>3. sweeps' \in [Sweeps -> R!Sweep] BY <1>2, <1>4
    <2>4. R!TypeOK' BY <1>2, <2>1, <2>2, <2>3 DEF R!TypeOK
    <2>5. \A s \in Sweeps : SweepRight(sweeps'[s]) BY <1>2, <1>5
    <2> QED BY <1>1, <1>2, <2>4, <2>5 DEF RemindersRight
  <1>7. Active' = {} BY <1>2, <1>4 DEF Active
  <1>8. \A e : Waits(e)' = {} BY <1>2, <1>5 DEF Waits
  <1>9. \A e \in Participants : Enough(e)' /\ Paid(e)'
    BY <1>1, <1>2, <1>7, <1>8, RestartingKeepsAll
  <1> QED BY <1>6, <1>9 DEF RemindersKept

\* Participants write, and time passes.
LEMMA OthersStay ==
    ASSUME RemindersSensible, RemindersKept,
           \/ \E e \in Participants : R!Touch(e)
           \/ R!Pass
           \/ UNCHANGED R!engagementVars
    PROVE  RemindersKept'
  <1>1. RemindersRight /\ R!TypeOK /\ \A e \in Participants : Enough(e) /\ Paid(e)
    BY DEF RemindersKept, RemindersRight
  <1>2. UNCHANGED <<sweeps, reminded, mishaps>> BY DEF R!Touch, R!Pass, R!engagementVars
  <1>3. /\ clock \in 0 .. MaxNow /\ participants \in [Participants -> R!Participant]
        /\ mishaps \in 0 .. MaxMishaps /\ MaxMishaps \in Nat /\ MaxNow \in Nat
        /\ DayLength \in Nat \ {0}
    BY <1>1 DEF R!TypeOK, RemindersSensible
  <1>4. /\ clock' \in 0 .. MaxNow /\ participants' \in [Participants -> R!Participant]
        /\ \A d \in Participants : /\ participants'[d].sent = participants[d].sent
                                   /\ participants'[d].last = participants[d].last
    <2>1. CASE R!Pass
      <3>1. participants' = participants /\ clock' = clock + 1 /\ clock < MaxNow
        BY <2>1 DEF R!Pass
      <3> QED BY <1>3, <3>1
    <2>2. CASE UNCHANGED R!engagementVars BY <1>3, <2>2 DEF R!engagementVars
    <2>3. ASSUME NEW e \in Participants, R!Touch(e)
          PROVE  /\ clock' \in 0 .. MaxNow /\ participants' \in [Participants -> R!Participant]
                 /\ \A d \in Participants : /\ participants'[d].sent = participants[d].sent
                                            /\ participants'[d].last = participants[d].last
      <3>1. clock' = clock BY <2>3 DEF R!Touch
      <3>2. PICK n \in Nat : n = R!DayOf(clock)
        <4>1. clock \in Int /\ clock >= 0 BY <1>3
        <4> QED BY <1>3, <4>1, RestIsSmall DEF R!DayOf
      <3>3. participants' = [participants EXCEPT ![e].touched = n] BY <2>3, <3>2 DEF R!Touch
      <3>4. participants' \in [Participants -> R!Participant] BY <1>3, <3>3 DEF R!Participant
      <3>5. \A d \in Participants : /\ participants'[d].sent = participants[d].sent
                                    /\ participants'[d].last = participants[d].last
        BY <1>3, <3>3 DEF R!Participant
      <3> QED BY <1>3, <3>1, <3>4, <3>5
    <2> QED BY <2>1, <2>2, <2>3
  <1>5. RemindersRight' BY <1>1, <1>2, <1>4 DEF RemindersRight, R!TypeOK
  <1>6. ASSUME NEW d \in Participants PROVE PassesBy(d)
    <2>1. Active' = Active /\ Records(d)' = Records(d) BY <1>2 DEF Active, Records, R!Target
    <2>2. mishaps' \in Nat /\ mishaps' >= mishaps BY <1>2, <1>3
    <2> QED BY <1>2, <1>4, <2>1, <2>2, SetsOfSweeps DEF PassesBy
  <1>7. \A e \in Participants : Enough(e)' /\ Paid(e)' BY <1>1, <1>6, PassingKeepsAll
  <1> QED BY <1>5, <1>7 DEF RemindersKept

\* Each step of the reminders keeps the invariant.
LEMMA RemindersStay ==
    RemindersSensible /\ RemindersKept /\ [R!Next]_(R!engagementVars) => RemindersKept'
  <1> SUFFICES ASSUME RemindersSensible, RemindersKept, [R!Next]_(R!engagementVars)
               PROVE  RemindersKept'
    OBVIOUS
  <1>1. ASSUME NEW s \in Sweeps, R!StartSweep(s) PROVE RemindersKept'
    BY <1>1, StartingStays
  <1>2. ASSUME NEW s \in Sweeps, R!Consider(s) \/ R!NotDelivered(s) PROVE RemindersKept'
    BY <1>2, GoingOnStays
  <1>3. ASSUME NEW s \in Sweeps, R!Deliver(s) PROVE RemindersKept' BY <1>3, DeliveringStays
  <1>4. ASSUME NEW s \in Sweeps, R!Record(s) \/ R!NotRecorded(s) PROVE RemindersKept'
    BY <1>4, RecordingStays
  <1>5. CASE R!Restart BY <1>5, RestartingStays
  <1>6. CASE (\E e \in Participants : R!Touch(e)) \/ R!Pass \/ UNCHANGED R!engagementVars
    BY <1>6, OthersStay
  <1> QED BY <1>1, <1>2, <1>3, <1>4, <1>5, <1>6 DEF R!Next

\* Nothing was sent and nobody sweeps at first.
LEMMA RemindersBegin == RemindersSensible /\ R!Init => RemindersKept
  <1> SUFFICES ASSUME RemindersSensible, R!Init PROVE RemindersKept OBVIOUS
  <1>1. RemindersRight BY RemindersStart
  <1>2. /\ mishaps = 0 /\ reminded = [e \in Participants |-> <<>>]
        /\ sweeps = [s \in Sweeps |-> R!Idle]
        /\ participants = [e \in Participants |-> [touched |-> 0, sent |-> 0, last |-> R!Never]]
    BY DEF R!Init
  <1>3. /\ R!Idle.phase = "idle" /\ LeftOf(R!Idle) = {}
    <2>1. R!Idle.phase = "idle" /\ R!Idle.todo = <<>> BY DEF R!Idle
    <2>2. Len(R!Idle.todo) = 0 BY <2>1
    <2> QED BY <2>1, <2>2 DEF LeftOf, Entries
  <1>4. ASSUME NEW e \in Participants PROVE Enough(e) /\ Paid(e)
    <2>1. Active = {} /\ Waits(e) = {} /\ Records(e) = {} /\ MaySend(e) = {}
      <3>1. Active = {} /\ Waits(e) = {} BY <1>2, <1>3 DEF Active, Waits
      <3> QED BY <3>1, SetsOfSweeps
    <2>2. /\ Cardinality(Active) = 0 /\ Cardinality(Records(e)) = 0
          /\ Cardinality(MaySend(e)) = 0
      BY <2>1, FS_EmptySet
    <2>3. reminded[e] = <<>> /\ Len(reminded[e]) = 0 /\ participants[e].sent = 0 BY <1>2
    <2>4. MaxReminders \in Nat BY DEF RemindersSensible
    <2>5. Enough(e) BY <1>2, <2>2, <2>3, <2>4 DEF Enough
    <2>6. Fresh(e) BY <2>3 DEF Fresh
    <2>7. Burden(e) = 0 BY <2>1, <2>6 DEF Burden
    <2>8. CloseIn(reminded[e]) = {} BY <2>3 DEF CloseIn
    <2>9. Cardinality(CloseIn(reminded[e])) = 0 BY <2>8, FS_EmptySet
    <2>10. Paid(e) BY <1>2, <2>7, <2>9 DEF Paid
    <2> QED BY <2>5, <2>10
  <1> QED BY <1>1, <1>4 DEF RemindersKept

\* The invariant keeps the limits.
LEMMA LimitsFollow == RemindersSensible /\ RemindersKept => R!RemindersAreLimited
  <1> SUFFICES ASSUME RemindersSensible, RemindersKept, NEW e \in Participants
               PROVE  /\ Len(reminded[e]) <= MaxReminders + mishaps
                      /\ R!Cardinality({i \in 2..Len(reminded[e]) :
                             reminded[e][i] - reminded[e][i - 1] < DayLength}) <= mishaps
    BY DEF R!RemindersAreLimited
  <1>1. RemindersRight /\ Enough(e) /\ Paid(e) BY DEF RemindersKept
  <1>2. PICK l \in Nat, y \in Nat, c \in Nat, i \in Nat, most \in Nat, b \in Int :
            /\ l = Len(reminded[e]) /\ y = Cardinality(MaySend(e)) /\ i = mishaps
            /\ c = Cardinality(CloseIn(reminded[e])) /\ most = MaxReminders
            /\ b = Burden(e) /\ b >= 0
    <2>1. Burden(e) \in Int /\ Burden(e) >= 0 BY <1>1, BurdenIsThere
    <2>2. /\ Len(reminded[e]) \in Nat /\ Cardinality(MaySend(e)) \in Nat /\ mishaps \in Nat
          /\ Cardinality(CloseIn(reminded[e])) \in Nat /\ MaxReminders \in Nat
      BY <1>1, NumbersAreThere
    <2> QED BY <2>1, <2>2, Zenon
  <1>3. l + y <= most + i /\ c + b <= i /\ b >= 0 BY <1>1, <1>2 DEF Enough, Paid
  <1>4. l <= most + i /\ c <= i BY <1>3
  <1>5. R!Cardinality(CloseIn(reminded[e])) = c BY <1>2, SameSize
  <1> QED BY <1>2, <1>4, <1>5 DEF CloseIn

\* A behaviour about the reminders takes their steps; any other leaves them alone.
LEMMA RemindersMove ==
    ASSUME [AllNext]_all
    PROVE  /\ about' = about
           /\ about = "reminders" => [R!Next]_(R!engagementVars)
           /\ about # "reminders" => reminded' = reminded /\ mishaps' = mishaps
  BY DEF AllNext, all, reminderVars, R!engagementVars

ReminderInv == IF about = "reminders" THEN RemindersKept
               ELSE reminded = [e \in Participants |-> <<>>] /\ mishaps = 0

\* A message of the scheduler goes out once for its occurrence, and once more for each
\* interruption, at most. A participant gets the reminders of the program, and one more for each
\* lost record, restart or sweep over another; as few come within a day of the one before.
THEOREM SendsStayLimited ==
    ScheduleSensible /\ RemindersSensible => (AllSpec => []SendsAreLimited)
  <1> SUFFICES ASSUME ScheduleSensible, RemindersSensible PROVE AllSpec => []SendsAreLimited
    OBVIOUS
  <1>1. AllInit => ReminderInv
    <2> SUFFICES ASSUME AllInit PROVE ReminderInv OBVIOUS
    <2>1. R!Init /\ reminded = [e \in Participants |-> <<>>] /\ mishaps = 0
      BY DEF AllInit, R!Init
    <2> QED BY <2>1, RemindersBegin DEF ReminderInv
  <1>2. ReminderInv /\ [AllNext]_all => ReminderInv'
    <2> SUFFICES ASSUME ReminderInv, [AllNext]_all PROVE ReminderInv' OBVIOUS
    <2>1. CASE about = "reminders" BY <2>1, RemindersMove, RemindersStay DEF ReminderInv
    <2>2. CASE about # "reminders" BY <2>2, RemindersMove DEF ReminderInv
    <2> QED BY <2>1, <2>2
  <1>3. ReminderInv => R!RemindersAreLimited
    <2>1. CASE about = "reminders" BY <2>1, LimitsFollow DEF ReminderInv
    <2>2. CASE about # "reminders"
      <3> SUFFICES ASSUME ReminderInv, NEW e \in Participants
                   PROVE  /\ Len(reminded[e]) <= MaxReminders + mishaps
                          /\ R!Cardinality({i \in 2..Len(reminded[e]) :
                                 reminded[e][i] - reminded[e][i - 1] < DayLength}) <= mishaps
        BY DEF R!RemindersAreLimited
      <3>1. reminded[e] = <<>> /\ mishaps = 0 BY <2>2 DEF ReminderInv
      <3>2. Len(reminded[e]) = 0 /\ MaxReminders \in Nat BY <3>1 DEF RemindersSensible
      <3>3. CloseIn(reminded[e]) = {} BY <3>2 DEF CloseIn
      <3>4. R!Cardinality(CloseIn(reminded[e])) = 0 BY <3>3, SameSize, FS_EmptySet
      <3> QED BY <3>1, <3>2, <3>4 DEF CloseIn
    <2> QED BY <2>1, <2>2
  <1>4. AllSpec => []S!RepeatsAreInterruptions BY SendsAreNotRepeated
  <1>5. AllSpec => []R!RemindersAreLimited BY <1>1, <1>2, <1>3, PTL DEF AllSpec
  <1> QED BY <1>4, <1>5, PTL DEF SendsAreLimited
=============================================================================
