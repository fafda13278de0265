--------------------------- MODULE TelegramProofs ---------------------------
(***************************************************************************)
(* What the parts of MCTelegram promise, for every value of the constants. *)
(*                                                                         *)
(* The cards: what groups, cards and claims say of the proposals, and who  *)
(* waits for whom, for every number of actions, handlers and messages, any *)
(* failures and any restarts.                                              *)
(*                                                                         *)
(* Joining, moving and leaving: people are accounted for, for every number *)
(* of employees, chats, invite codes and operator commands running at one  *)
(* time.  The invariant adds, to what the property says, why it stays      *)
(* true: who moved on holds no invite any more, so that no chat links to   *)
(* the participation left; whoever something is kept about has consented,  *)
(* so that revoking an unused invite drops nobody with files; and a        *)
(* deletion has removed what is kept before it erases the row.             *)
(*                                                                         *)
(* The questions of the retrospective: the episodes are a recursive        *)
(* projection of the ledger, so facts about them are proved by induction   *)
(* along it, one event after another.  An event changes neither whether    *)
(* another episode is there nor its revision; hence events of one episode, *)
(* wherever they enter the ledger, leave the others as they were, and a    *)
(* turn that finds the revision it read has read what there was.           *)
(***************************************************************************)
EXTENDS MCTelegram, Integers, Sequences, FiniteSetTheorems, FunctionTheorems, WellFoundedInduction, TLAPS

-----------------------------------------------------------------------------
(* The inductive invariant                                                 *)

Proposed(a) == ledger[a] # "unproposed"
Exists(g) == groups[g].state # "absent"

\* What a handler of each kind may be doing.
StepsOfKinds(h) ==
    LET kind == handlers[h].kind
        pc == handlers[h].pc
    IN  /\ kind = "none" <=> pc = "idle"
        /\ kind = "tap" => pc \in {"reading", "binding", "checking", "waiting", "registering",
               "repeated", "claiming", "deciding", "marking", "completing"}
        /\ kind = "turn" => pc \in {"removing", "creating", "sending", "retrying", "binding",
               "withdrawing", "cancelling"}
        /\ kind = "text" => pc \notin {"checking", "waiting", "registering", "repeated", "claiming"}

\* A handler on its way to a card: its items were proposed by it, and its group is its own.
\* Before it reports the group as cancelled it has rejected every item itself.
SenderIsRight(h) ==
    LET pc == handlers[h].pc
        g == handlers[h].group
        shown == handlers[h].shown
    IN  /\ pc \in {"removing", "creating", "sending", "retrying", "withdrawing"} =>
               shown # {} /\ \A a \in shown : Proposed(a)
        /\ pc = "creating" => g # 0
        /\ pc \in {"removing", "creating"} /\ g # 0 => Proposed(g) /\ ~Exists(g)
        /\ pc \in {"sending", "retrying", "withdrawing"} /\ g # 0 =>
               Exists(g) /\ groups[g].items = shown
        /\ pc = "withdrawing" => \A a \in shown \ handlers[h].todo :
               handlers[h].retry \/ ledger[a] = "rejected"
        /\ pc = "cancelling" =>
               g # 0 /\ Exists(g) /\ \A a \in groups[g].items : ledger[a] = "rejected"
        /\ pc = "binding" => g # 0 /\ Exists(g) /\ handlers[h].card \in Sent

Work == {"checking", "waiting", "registering", "claiming", "deciding"}

\* A handler that answers: what it has resolved is decided, what it read of the group as
\* pending covers what still is, and a tap that met no failure leaves of its card only what
\* it has still to do.
AnswererIsRight(h) ==
    LET pc == handlers[h].pc
        m == handlers[h].card
        g == handlers[h].group
    IN  /\ handlers[h].kind = "tap" => m \in Sent /\ g = cards[m].group
        /\ pc = "reading" => (g # 0 <=> handlers[h].kind = "tap")
        /\ pc = "reading" \/ (pc = "binding" /\ handlers[h].kind = "tap") =>
               handlers[h].resolved = {}
        /\ pc \in Work \cup {"marking"} =>
               /\ \A a \in handlers[h].resolved : Settles(a)
               /\ g # 0 => groups[g].pending \subseteq handlers[h].captured
        /\ pc \in Work \cup {"marking", "completing"} /\ g # 0 => groups[g].message # 0
        /\ pc \in Work \cup {"marking", "completing"} => m \in Messages
        /\ pc \in Work => \A a \in handlers[h].todo : Proposed(a)
        /\ pc \in Work /\ handlers[h].kind = "tap" /\ ~handlers[h].retry =>
               \A a \in cards[m].shown \ handlers[h].todo : Settles(a)
        /\ pc \in {"marking", "completing"} => g # 0
        /\ pc = "completing" => groups[g].pending = {}

\* The chat is busy with taps of one card, or with one text.
ChatIsRight(h) ==
    /\ h \in inflight <=> handlers[h].kind \in {"text", "tap"}
    /\ handlers[h].kind = "tap" => callbackKey = handlers[h].card
    /\ handlers[h].kind = "text" => callbackKey = 0

Works(h, m) ==
    handlers[h].kind = "tap" /\ handlers[h].card = m /\ handlers[h].pc \in {"claiming", "deciding"}

\* Who decides holds the claim of the card unless its lease ran out; who waits waits for one
\* who works.
ClaimIsRight(h) ==
    /\ handlers[h].kind = "tap" /\ handlers[h].pc = "deciding" /\ ~handlers[h].lapsed =>
           claims[handlers[h].card] = [state |-> "held", holder |-> h]
    /\ handlers[h].pc = "waiting" =>
           handlers[h].waits \in Handlers /\ Works(handlers[h].waits, handlers[h].card)

HandlerIsRight(h) ==
    /\ StepsOfKinds(h) /\ SenderIsRight(h) /\ AnswererIsRight(h) /\ ChatIsRight(h)
    /\ ClaimIsRight(h)

\* The group a handler has yet to create; two handlers never bring the same one.
ToCreate(h) ==
    IF handlers[h].pc \in {"removing", "creating"} THEN {handlers[h].group} \ {0} ELSE {}

GroupIsRight(g) ==
    /\ Exists(g) => Proposed(g)
    /\ ~Exists(g) => groups[g].message = 0
    /\ groups[g].pending \subseteq groups[g].items
    /\ \A a \in groups[g].items : Proposed(a)
    /\ \A a \in groups[g].items \ groups[g].pending : Settles(a)
    /\ groups[g].message # 0 => groups[g].message \in Sent
    /\ groups[g].state = "completed" => groups[g].pending = {}
    /\ groups[g].state = "cancelled" => \A a \in groups[g].items : ledger[a] = "rejected"

MessageIsRight(m) ==
    /\ \A a \in cards[m].shown : Proposed(a)
    /\ cards[m].group # 0 => Exists(cards[m].group) /\ cards[m].shown \subseteq groups[cards[m].group].items
    /\ claims[m].state # "free" => m \in Sent
    /\ claims[m].state = "done" => \A a \in cards[m].shown : Settles(a)

First == {h \in Handlers : handlers[h].pc \in {"removing", "creating", "sending"}}
Second == {h \in Handlers : handlers[h].pc = "retrying"}
CardsComeInOrder ==
    /\ Sent = 1 .. Cardinality(Sent)
    /\ Cardinality(Sent) + 2 * Cardinality(First) + Cardinality(Second) <= MaxCards

IInv ==
    /\ TypeOK
    /\ \A h \in Handlers : HandlerIsRight(h)
    /\ \A h, k \in Handlers : h # k => ToCreate(h) \cap ToCreate(k) = {}
    /\ \A g \in Actions : GroupIsRight(g)
    /\ \A m \in Messages : MessageIsRight(m) /\ (working[m] # 0 => Works(working[m], m))
    /\ CardsComeInOrder
    /\ inflight = {} => callbackKey = 0

-----------------------------------------------------------------------------
(* Lemmas about the operators                                              *)

LEMMA IdleHandler ==
    /\ Idle \in Handler /\ Idle.kind = "none" /\ Idle.pc = "idle" /\ Idle.card = 0
    /\ Idle.group = 0 /\ Idle.shown = {} /\ Idle.todo = {} /\ Idle.captured = {}
    /\ Idle.resolved = {} /\ Idle.retry = FALSE /\ Idle.lapsed = FALSE
  BY BoundsAssumption DEF Idle, Handler

\* The least of the actions left to do is one of them.
LEMMA MinOfActions ==
    ASSUME NEW S \in SUBSET Actions, S # {}
    PROVE  Min(S) \in S /\ \A b \in S : Min(S) <= b
  <1> DEFINE Rest == {p \in Nat \X Nat : p[1] < p[2]}
  <1>1. S \in SUBSET Nat
    BY BoundsAssumption
  <1>2. IsWellFoundedOn(Rest, Nat)
    BY NatLessThanWellFounded DEF OpToRel
  <1>3. \E x \in S : \A y \in S : ~(<<y, x>> \in Rest)
    <2> HIDE DEF Rest
    <2> QED BY <1>1, <1>2, WFMin
  <1>4. \A x, y \in S : ~(<<y, x>> \in Rest) => x <= y
    BY <1>1
  <1> QED BY <1>3, <1>4 DEF Min

LEMMA GoesType ==
    ASSUME TypeOK, NEW h \in Handlers, NEW pc \in {"idle", "reading", "binding", "checking",
               "waiting", "registering", "repeated", "claiming", "deciding", "settling", "marking",
               "completing", "removing", "creating", "sending", "retrying", "withdrawing",
               "cancelling"},
           Goes(h, pc)
    PROVE  /\ handlers' \in [Handlers -> Handler]
           /\ \A k \in Handlers \ {h} : handlers'[k] = handlers[k]
           /\ handlers'[h].pc = pc
           /\ handlers'[h].kind = handlers[h].kind /\ handlers'[h].card = handlers[h].card
           /\ handlers'[h].group = handlers[h].group /\ handlers'[h].shown = handlers[h].shown
           /\ handlers'[h].confirm = handlers[h].confirm /\ handlers'[h].todo = handlers[h].todo
           /\ handlers'[h].captured = handlers[h].captured
           /\ handlers'[h].resolved = handlers[h].resolved
           /\ handlers'[h].retry = handlers[h].retry /\ handlers'[h].waits = handlers[h].waits
           /\ handlers'[h].lapsed = handlers[h].lapsed
  <1> DEFINE next == [handlers[h] EXCEPT !.pc = pc]
  <1>1. handlers[h] \in Handler /\ handlers' = [handlers EXCEPT ![h] = next]
    BY DEF TypeOK, Goes
  <1>2. /\ next \in Handler /\ next.pc = pc
        /\ next.kind = handlers[h].kind /\ next.card = handlers[h].card
        /\ next.group = handlers[h].group /\ next.shown = handlers[h].shown
        /\ next.confirm = handlers[h].confirm /\ next.todo = handlers[h].todo
        /\ next.captured = handlers[h].captured /\ next.resolved = handlers[h].resolved
        /\ next.retry = handlers[h].retry /\ next.waits = handlers[h].waits
        /\ next.lapsed = handlers[h].lapsed
    BY <1>1 DEF Handler
  <1> HIDE DEF next
  <1>3. handlers' \in [Handlers -> Handler] /\ handlers'[h] = next
        /\ \A k \in Handlers \ {h} : handlers'[k] = handlers[k]
    BY <1>1, <1>2 DEF TypeOK
  <1> QED BY <1>2, <1>3

\* What a decision does to the ledger.
LEMMA DecidedLedger ==
    ASSUME TypeOK, NEW a \in Actions, NEW d \in {"confirmed", "rejected"},
           ledger' \in {ledger, Decided(a, d)}
    PROVE  /\ ledger' \in [Actions -> {"unproposed", "pending", "confirmed", "rejected"}]
           /\ \A b \in Actions : Proposed(b) <=> ledger'[b] # "unproposed"
           /\ \A b \in Actions : ledger[b] \in {"confirmed", "rejected"} => ledger'[b] = ledger[b]
           /\ ledger' = Decided(a, d) /\ Proposed(a) =>
                  ledger'[a] \in {"confirmed", "rejected"} \/ a \in late
  BY DEF TypeOK, Decided, Proposed

-----------------------------------------------------------------------------
(* What every step leaves to the handlers and rows it does not write       *)

\* Ledgers, groups and cards only grow into what was read of them.
Grows ==
    /\ \A a \in Actions : (Settles(a) => Settles(a)') /\ (Proposed(a) => Proposed(a)')
                          /\ (ledger[a] = "rejected" => ledger'[a] = "rejected")
    /\ \A g \in Actions : Exists(g) =>
           /\ Exists(g)' /\ groups'[g].items = groups[g].items
           /\ groups'[g].pending \subseteq groups[g].pending
           /\ groups[g].message # 0 => groups'[g].message # 0
    /\ \A m \in Sent : cards'[m] = cards[m]

\* A handler that waited is let go.
Released(k) ==
    /\ handlers[k].pc = "waiting" /\ handlers'[k].pc \in {"repeated", "registering"}
    /\ handlers'[k].kind = handlers[k].kind /\ handlers'[k].card = handlers[k].card
    /\ handlers'[k].group = handlers[k].group /\ handlers'[k].todo = handlers[k].todo
    /\ handlers'[k].captured = handlers[k].captured
    /\ handlers'[k].resolved = handlers[k].resolved /\ handlers'[k].retry = handlers[k].retry

Unmoved(k) == handlers'[k] = handlers[k] \/ Released(k)

LEMMA OthersStayRight ==
    ASSUME IInv, TypeOK', Grows, NEW k \in Handlers, Unmoved(k),
           k \in inflight' <=> k \in inflight,
           k \in inflight => callbackKey' = callbackKey,
           \A g \in ToCreate(k) : ~Exists(g)',
           handlers[k].kind = "tap" /\ handlers[k].pc = "deciding" /\ ~handlers[k].lapsed =>
               claims'[handlers[k].card] = claims[handlers[k].card],
           handlers'[k].pc = "waiting" => Works(handlers[k].waits, handlers[k].card)'
    PROVE  HandlerIsRight(k)'
  <1>1. /\ handlers[k] \in Handler /\ handlers'[k] \in Handler
        /\ HandlerIsRight(k)
        /\ handlers[k].group # 0 => handlers[k].group \in Actions
        /\ handlers[k].shown \subseteq Actions /\ handlers[k].todo \subseteq Actions
        /\ handlers[k].resolved \subseteq Actions
        /\ \A g \in Actions : groups[g].items \subseteq Actions
        /\ \A m \in Messages : cards[m].shown \subseteq Actions
    BY DEF IInv, TypeOK, Handler, Group, Card
  <1>2. \A m \in Sent : m \in Sent' /\ m \in Messages
    BY DEF Sent, Grows
  <1>3. \A g \in Actions : groups[g].message # 0 => Exists(g)
    BY DEF IInv, GroupIsRight
  <1>4. StepsOfKinds(k)'
    BY <1>1 DEF HandlerIsRight, StepsOfKinds, Unmoved, Released
  <1>5. SenderIsRight(k)'
    <2>1. CASE handlers'[k] = handlers[k]
      BY <1>1, <1>2, <2>1 DEF HandlerIsRight, SenderIsRight, Grows, ToCreate
    <2>2. CASE Released(k)
      BY <1>1, <2>2 DEF SenderIsRight, Released
    <2> QED BY <2>1, <2>2 DEF Unmoved
  <1>6. AnswererIsRight(k)'
    <2>1. CASE handlers'[k] = handlers[k]
      BY <1>1, <1>2, <1>3, <2>1 DEF HandlerIsRight, AnswererIsRight, Grows, Work
    <2>2. CASE Released(k)
      BY <1>1, <1>2, <1>3, <2>2 DEF HandlerIsRight, AnswererIsRight, Grows, Work, Released
    <2> QED BY <2>1, <2>2 DEF Unmoved
  <1>7. ChatIsRight(k)'
    BY <1>1 DEF HandlerIsRight, ChatIsRight, Unmoved, Released
  <1>8. ClaimIsRight(k)'
    <2>1. CASE handlers'[k] = handlers[k]
      BY <1>1, <2>1 DEF HandlerIsRight, ClaimIsRight
    <2>2. CASE Released(k)
      BY <1>1, <2>2 DEF ClaimIsRight, Released
    <2> QED BY <2>1, <2>2 DEF Unmoved
  <1> QED BY <1>4, <1>5, <1>6, <1>7, <1>8 DEF HandlerIsRight

LEMMA GroupStaysRight ==
    ASSUME IInv, TypeOK', Grows, NEW g \in Actions, groups'[g] = groups[g]
    PROVE  GroupIsRight(g)'
  <1>1. GroupIsRight(g) /\ groups[g].items \subseteq Actions
    BY DEF IInv, TypeOK, Group
  <1>2. \A m \in Sent : m \in Sent'
    BY DEF Sent, Grows
  <1> QED BY <1>1, <1>2 DEF GroupIsRight, Grows, Exists

LEMMA MessageStaysRight ==
    ASSUME IInv, TypeOK', Grows, NEW m \in Messages, cards'[m] = cards[m],
           claims'[m].state = claims[m].state
    PROVE  MessageIsRight(m)'
  <1>1. MessageIsRight(m) /\ cards[m].shown \subseteq Actions
        /\ (cards[m].group # 0 => cards[m].group \in Actions)
    BY DEF IInv, TypeOK, Card
  <1>2. m \in Sent => m \in Sent'
    BY DEF Sent, Grows
  <1> QED BY <1>1, <1>2 DEF MessageIsRight, Grows, Exists

LEMMA SentIsFinite == IsFiniteSet(Sent) /\ Cardinality(Sent) \in Nat /\ Sent \subseteq Messages
  <1>1. IsFiniteSet(Messages) /\ Sent \subseteq Messages
    BY BoundsAssumption, FS_Interval DEF Messages, Sent
  <1> QED BY <1>1, FS_Subset, FS_CardinalityType

\* No card comes, and nobody sets out to bring one.
LEMMA OrderStays ==
    ASSUME IInv, Sent' = Sent,
           \A k \in Handlers :
               /\ handlers'[k].pc \in {"removing", "creating", "sending"} =>
                      handlers[k].pc \in {"removing", "creating", "sending"}
               /\ handlers'[k].pc = "retrying" => handlers[k].pc = "retrying"
    PROVE  CardsComeInOrder'
  <1>1. /\ IsFiniteSet(First) /\ IsFiniteSet(Second) /\ IsFiniteSet(Sent)
        /\ First' \subseteq First /\ Second' \subseteq Second
    <2>1. First \subseteq Handlers /\ Second \subseteq Handlers
      BY DEF First, Second
    <2>2. First' \subseteq First /\ Second' \subseteq Second
      BY DEF First, Second
    <2> QED BY <2>1, <2>2, SentIsFinite, BoundsAssumption, FS_Subset
  <1>2. /\ Cardinality(First') <= Cardinality(First) /\ Cardinality(Second') <= Cardinality(Second)
        /\ Cardinality(First') \in Nat /\ Cardinality(Second') \in Nat
        /\ Cardinality(First) \in Nat /\ Cardinality(Second) \in Nat /\ Cardinality(Sent) \in Nat
    BY <1>1, FS_Subset, FS_CardinalityType
  <1> QED BY <1>2, BoundsAssumption DEF IInv, CardsComeInOrder

\* What a step of one handler leaves to the chat.
ChatKept(h) ==
    /\ inflight' \ {h} = inflight \ {h}
    /\ inflight \ {h} # {} => callbackKey' = callbackKey
    /\ inflight' = {} => callbackKey' = 0

StillWorks(h) ==
    handlers[h].kind = "tap" /\ handlers[h].pc \in {"claiming", "deciding"} =>
        handlers'[h].kind = "tap" /\ handlers'[h].card = handlers[h].card
        /\ handlers'[h].pc \in {"claiming", "deciding"}

\* A step of one handler keeps the invariant when the handler, and the rows it wrote, are
\* right afterwards.
LEMMA HandlerStep ==
    ASSUME IInv, TypeOK', Grows, NEW h \in Handlers, HandlerIsRight(h)', ChatKept(h),
           \A k \in Handlers \ {h} : Unmoved(k),
           StillWorks(h) \/ \A k \in Handlers \ {h} :
               handlers'[k].pc = "waiting" => handlers'[k].waits # h,
           \A k \in Handlers \ {h} :
               /\ \A g \in ToCreate(k) : ~Exists(g)'
               /\ ToCreate(h)' \cap ToCreate(k) = {}
               /\ handlers[k].kind = "tap" /\ handlers[k].pc = "deciding" /\ ~handlers[k].lapsed =>
                      claims'[handlers[k].card] = claims[handlers[k].card],
           \A m \in Messages : \/ working'[m] \in {0, working[m]} \ {h}
                               \/ working'[m] = h /\ Works(h, m)',
           \A g \in Actions : GroupIsRight(g)',
           \A m \in Messages : MessageIsRight(m)',
           CardsComeInOrder'
    PROVE  IInv'
  <1>1. ASSUME NEW k \in Handlers \ {h}, handlers'[k].pc = "waiting"
        PROVE  Works(handlers[k].waits, handlers[k].card)'
    <2>1. handlers'[k] = handlers[k] /\ handlers[k].waits \in Handlers
          /\ Works(handlers[k].waits, handlers[k].card)
      BY <1>1 DEF Unmoved, Released, IInv, HandlerIsRight, ClaimIsRight
    <2>2. CASE handlers[k].waits = h
      BY <1>1, <2>1, <2>2 DEF StillWorks, Works
    <2>3. CASE handlers[k].waits # h
      BY <2>1, <2>3 DEF Unmoved, Released, Works
    <2> QED BY <2>2, <2>3
  <1>2. ASSUME NEW k \in Handlers \ {h} PROVE HandlerIsRight(k)'
    <2>1. k \in inflight' <=> k \in inflight
      BY DEF ChatKept
    <2>2. k \in inflight => callbackKey' = callbackKey
      BY DEF ChatKept
    <2> QED BY <1>1, <2>1, <2>2, OthersStayRight
  <1>3. \A m \in Messages : (working[m] # 0 => Works(working[m], m))'
    <2> SUFFICES ASSUME NEW m \in Messages, working'[m] # 0 PROVE Works(working[m], m)'
      OBVIOUS
    <2>1. CASE working'[m] = h
      BY <2>1 DEF Works
    <2>2. CASE working'[m] # h
      <3>1. working'[m] = working[m] /\ working[m] \in Handlers \ {h} /\ Works(working[m], m)
        BY <2>2 DEF IInv, TypeOK
      <3> QED BY <3>1 DEF Works, Unmoved, Released
    <2> QED BY <2>1, <2>2
  <1>4. \A j, k \in Handlers : j # k => ToCreate(j)' \cap ToCreate(k)' = {}
    <2> SUFFICES ASSUME NEW j \in Handlers, NEW k \in Handlers, j # k
                 PROVE  ToCreate(j)' \cap ToCreate(k)' = {}
      OBVIOUS
    <2>1. \A i \in Handlers \ {h} : ToCreate(i)' \subseteq ToCreate(i)
      BY DEF ToCreate, Unmoved, Released
    <2>2. ToCreate(j) \cap ToCreate(k) = {}
      BY DEF IInv
    <2>3. CASE j = h
      BY <2>1, <2>3
    <2>4. CASE k = h
      BY <2>1, <2>4
    <2>5. CASE j # h /\ k # h
      BY <2>1, <2>2, <2>5
    <2> QED BY <2>3, <2>4, <2>5
  <1> QED BY <1>2, <1>3, <1>4 DEF IInv, ChatKept

LEMMA ToCreateIsOpen ==
    ASSUME IInv, NEW k \in Handlers, NEW g \in ToCreate(k)
    PROVE  g \in Actions /\ ~Exists(g) /\ Proposed(g)
  BY DEF IInv, TypeOK, Handler, HandlerIsRight, SenderIsRight, ToCreate

\* A step of one handler that writes no store.
LEMMA QuietStep ==
    ASSUME IInv, TypeOK', NEW h \in Handlers, HandlerIsRight(h)', ChatKept(h),
           UNCHANGED <<stores, late, cards>>,
           \A k \in Handlers \ {h} : Unmoved(k),
           StillWorks(h) \/ \A k \in Handlers \ {h} :
               handlers'[k].pc = "waiting" => handlers'[k].waits # h,
           \A m \in Messages : \/ working'[m] \in {0, working[m]} \ {h}
                               \/ working'[m] = h /\ Works(h, m)',
           ToCreate(h)' \subseteq ToCreate(h),
           handlers'[h].pc \in {"removing", "creating", "sending"} =>
               handlers[h].pc \in {"removing", "creating", "sending"},
           handlers'[h].pc = "retrying" => handlers[h].pc = "retrying"
    PROVE  IInv'
  <1>1. Grows
    BY DEF Grows, stores, Settles, Proposed, Exists, TypeOK
  <1>2. \A g \in Actions : GroupIsRight(g)'
    BY <1>1, GroupStaysRight DEF stores
  <1>3. \A m \in Messages : MessageIsRight(m)'
    BY <1>1, MessageStaysRight DEF stores
  <1>4. CardsComeInOrder'
    <2>1. Sent' = Sent
      BY DEF Sent
    <2>2. ASSUME NEW k \in Handlers
          PROVE  /\ handlers'[k].pc \in {"removing", "creating", "sending"} =>
                        handlers[k].pc \in {"removing", "creating", "sending"}
                 /\ handlers'[k].pc = "retrying" => handlers[k].pc = "retrying"
      BY DEF Unmoved, Released
    <2> QED BY <2>1, <2>2, OrderStays
  <1>5. ASSUME NEW k \in Handlers \ {h}
        PROVE  /\ \A g \in ToCreate(k) : ~Exists(g)'
               /\ ToCreate(h)' \cap ToCreate(k) = {}
               /\ claims'[handlers[k].card] = claims[handlers[k].card]
    <2>1. \A g \in ToCreate(k) : ~Exists(g)'
      BY ToCreateIsOpen DEF stores, Exists
    <2>2. ToCreate(h) \cap ToCreate(k) = {}
      BY DEF IInv
    <2> QED BY <2>1, <2>2 DEF stores
  <1> QED BY <1>1, <1>2, <1>3, <1>4, <1>5, HandlerStep

\* Leaving the chat.
LEMMA LeaveChat ==
    ASSUME IInv, NEW h \in Handlers, Leave(h)
    PROVE  /\ ChatKept(h) /\ h \notin inflight'
           /\ inflight' \subseteq Handlers /\ callbackKey' \in 0..MaxCards
  <1>1. HandlerIsRight(h) /\ inflight \subseteq Handlers /\ callbackKey \in 0..MaxCards
        /\ (inflight = {} => callbackKey = 0)
    BY DEF IInv, TypeOK
  <1>2. /\ h \in inflight <=> handlers[h].kind \in {"text", "tap"}
        /\ handlers[h].kind = "tap" => callbackKey = handlers[h].card
        /\ handlers[h].kind = "text" => callbackKey = 0
    BY <1>1 DEF HandlerIsRight, ChatIsRight
  <1>3. callbackKey' \in {0, callbackKey} /\ inflight' = inflight \ {h}
    BY DEF Leave
  <1>4. inflight \ {h} # {} => callbackKey' = callbackKey
    BY DEF Leave
  <1>5. inflight' = {} => callbackKey' = 0
    <2> SUFFICES ASSUME inflight' = {} PROVE callbackKey' = 0
      OBVIOUS
    <2>1. CASE inflight = {}
      BY <1>1, <1>3, <2>1
    <2>2. CASE inflight = {h}
      BY <1>2, <2>2 DEF Leave
    <2> QED BY <1>3, <2>1, <2>2
  <1> QED BY <1>1, <1>3, <1>4, <1>5, BoundsAssumption DEF ChatKept

LEMMA StayInChat ==
    ASSUME IInv, NEW h \in Handlers, UNCHANGED chat
    PROVE  ChatKept(h)
  BY DEF ChatKept, chat, IInv

\* A handler that has ended promises nothing.
LEMMA IdleIsRight ==
    ASSUME NEW h \in Handlers, handlers'[h] = Idle, h \notin inflight'
    PROVE  HandlerIsRight(h)' /\ ToCreate(h)' = {}
  BY IdleHandler DEF HandlerIsRight, StepsOfKinds, SenderIsRight, AnswererIsRight, ChatIsRight,
                     ClaimIsRight, Work, ToCreate

LEMMA EndsType ==
    ASSUME TypeOK, NEW h \in Handlers, Ends(h)
    PROVE  /\ handlers' \in [Handlers -> Handler] /\ handlers'[h] = Idle /\ Leave(h)
           /\ \A k \in Handlers \ {h} : handlers'[k] = handlers[k]
  BY IdleHandler DEF TypeOK, Ends

LEMMA RemovedType ==
    ASSUME TypeOK, NEW m \in 0..MaxCards, Removed(m)
    PROVE  active' \in 0..MaxCards /\ spoken' \in 0..MaxCards
  BY BoundsAssumption DEF TypeOK, Removed, shell

\* A handler that ends without writing a store, and nobody waits for.
LEMMA EndsInv ==
    ASSUME IInv, NEW h \in Handlers, Ends(h), UNCHANGED <<stores, late, cards, working>>,
           active' \in 0..MaxCards, spoken' \in 0..MaxCards,
           answers' \in 0..MaxAnswers, faults' \in 0..MaxFaults,
           handlers[h].pc \notin {"claiming", "deciding"} \/ handlers[h].kind # "tap"
    PROVE  IInv'
  <1>1. /\ handlers' \in [Handlers -> Handler] /\ handlers'[h] = Idle /\ Leave(h)
        /\ \A k \in Handlers \ {h} : handlers'[k] = handlers[k]
    BY EndsType DEF IInv
  <1>2. /\ ChatKept(h) /\ h \notin inflight'
        /\ inflight' \subseteq Handlers /\ callbackKey' \in 0..MaxCards
    BY <1>1, LeaveChat
  <1>3. TypeOK'
    BY <1>1, <1>2 DEF IInv, TypeOK, stores
  <1>4. HandlerIsRight(h)' /\ ToCreate(h)' = {}
    BY <1>1, <1>2, IdleIsRight
  <1>5. StillWorks(h)
    BY DEF StillWorks
  <1>6. ASSUME NEW m \in Messages PROVE working'[m] \in {0, working[m]} \ {h}
    <2>1. h # 0
      BY BoundsAssumption
    <2>2. working'[m] = working[m] /\ (working[m] # 0 => Works(working[m], m))
      BY DEF IInv
    <2>3. working[m] # h
      BY <2>1, <2>2 DEF Works
    <2> QED BY <2>1, <2>2, <2>3
  <1>7. handlers'[h].pc = "idle"
    BY <1>1, IdleHandler
  <1> QED BY <1>1, <1>2, <1>3, <1>4, <1>5, <1>6, <1>7, QuietStep DEF Unmoved

-----------------------------------------------------------------------------
(* Steps that write no store                                               *)

LEMMA CountsType ==
    ASSUME TypeOK, Fault \/ UNCHANGED faults
    PROVE  faults' \in 0..MaxFaults
  BY BoundsAssumption DEF TypeOK, Fault

LEMMA TextArrivesInv == ASSUME IInv, NEW h \in Handlers, TextArrives(h) PROVE IInv'
  <1> DEFINE next == [Idle EXCEPT !.kind = "text", !.pc = "reading", !.asked = LastCard.shown]
  <1>1. LastCard.shown \subseteq Actions
    <2>1. CASE Sent = {}
      BY <2>1 DEF LastCard, NoCard
    <2>2. CASE Sent # {}
      <3>1. Cardinality(Sent) \in Sent
        <4>1. Sent = 1 .. Cardinality(Sent)
          BY DEF IInv, CardsComeInOrder
        <4>2. Cardinality(Sent) \in Nat /\ Cardinality(Sent) # 0
          BY <2>2, SentIsFinite, FS_EmptySet
        <4> QED BY <4>1, <4>2
      <3>2. Cardinality(Sent) \in Messages
        BY <3>1 DEF Sent
      <3> QED BY <2>2, <3>2 DEF LastCard, IInv, TypeOK, Card
    <2> QED BY <2>1, <2>2
  <1>2. /\ next \in Handler /\ next.kind = "text" /\ next.pc = "reading"
        /\ next.resolved = {} /\ next.group = 0
    BY <1>1, IdleHandler DEF Handler
  <1>3. /\ handlers' = [handlers EXCEPT ![h] = next] /\ handlers[h] = Idle
        /\ inflight = {} /\ inflight' = {h} /\ callbackKey' = callbackKey
        /\ answers < MaxAnswers /\ answers' = answers + 1
        /\ UNCHANGED <<stores, late, cards, shell, working, faults>>
    BY DEF TextArrives, Answering
  <1> HIDE DEF next
  <1>4. /\ handlers' \in [Handlers -> Handler] /\ handlers'[h] = next
        /\ \A k \in Handlers \ {h} : handlers'[k] = handlers[k]
    BY <1>2, <1>3 DEF IInv, TypeOK
  <1>5. TypeOK'
    BY <1>3, <1>4, BoundsAssumption DEF IInv, TypeOK, stores, shell
  <1>6. callbackKey = 0
    BY <1>3 DEF IInv
  <1>7. HandlerIsRight(h)' /\ ToCreate(h)' = {}
    BY <1>2, <1>3, <1>4, <1>6 DEF HandlerIsRight, StepsOfKinds, SenderIsRight, AnswererIsRight,
       ChatIsRight, ClaimIsRight, Work, ToCreate
  <1>8. ChatKept(h) /\ StillWorks(h)
    BY <1>3, <1>6, IdleHandler DEF ChatKept, StillWorks
  <1>9. \A m \in Messages : working'[m] \in {0, working[m]} \ {h}
    BY <1>3, IdleHandler, BoundsAssumption DEF IInv, Works
  <1> QED BY <1>2, <1>3, <1>4, <1>5, <1>7, <1>8, <1>9, QuietStep DEF Unmoved

LEMMA TapInv ==
    ASSUME IInv, NEW h \in Handlers, NEW m \in Messages, NEW confirms \in BOOLEAN,
           Tap(h, m, confirms)
    PROVE  IInv'
  <1> DEFINE started == [Idle EXCEPT !.kind = "tap", !.card = m, !.group = cards[m].group,
                                     !.confirm = IF confirms THEN Actions ELSE {}]
             next == IF cards[m].group # 0 THEN [started EXCEPT !.pc = "reading"]
                     ELSE [started EXCEPT !.pc = "checking", !.todo = cards[m].shown]
  <1>1. cards[m] \in Card /\ m \in 0..MaxCards /\ m # 0
    BY BoundsAssumption DEF IInv, TypeOK, Messages
  <1>2. /\ started \in Handler /\ started.kind = "tap" /\ started.card = m
        /\ started.group = cards[m].group /\ started.resolved = {} /\ started.captured = {}
        /\ started.retry = FALSE /\ started.shown = {}
    BY <1>1, IdleHandler DEF Handler, Card
  <1>3. handlers' = [handlers EXCEPT ![h] = next]
    BY DEF Tap
  <1> HIDE DEF started
  <1>4. /\ next \in Handler /\ next.kind = "tap" /\ next.card = m
        /\ next.group = cards[m].group /\ next.resolved = {}
        /\ next.pc = IF cards[m].group # 0 THEN "reading" ELSE "checking"
        /\ next.pc = "checking" => next.todo = cards[m].shown
    BY <1>1, <1>2 DEF Handler, Card
  <1>5. /\ handlers[h] = Idle /\ (inflight = {} \/ callbackKey = m)
        /\ inflight' = inflight \cup {h} /\ callbackKey' = m /\ m \in Sent
        /\ answers < MaxAnswers /\ answers' = answers + 1
        /\ UNCHANGED <<stores, late, cards, shell, working, faults>>
    BY DEF Tap, Answering
  <1> HIDE DEF next
  <1>6. /\ handlers' \in [Handlers -> Handler] /\ handlers'[h] = next
        /\ \A k \in Handlers \ {h} : handlers'[k] = handlers[k]
    BY <1>3, <1>4 DEF IInv, TypeOK
  <1>7. TypeOK'
    BY <1>1, <1>5, <1>6, BoundsAssumption DEF IInv, TypeOK, stores, shell
  <1>8. MessageIsRight(m) /\ m \in Sent'
    BY <1>5 DEF IInv, Sent
  <1>9. HandlerIsRight(h)'
    <2>1. StepsOfKinds(h)' /\ SenderIsRight(h)' /\ ChatIsRight(h)' /\ ClaimIsRight(h)'
      BY <1>4, <1>5, <1>6 DEF StepsOfKinds, SenderIsRight, ChatIsRight, ClaimIsRight
    <2>2. AnswererIsRight(h)'
      BY <1>1, <1>4, <1>5, <1>6, <1>8, BoundsAssumption
         DEF AnswererIsRight, MessageIsRight, Work, Proposed, stores
    <2> QED BY <2>1, <2>2 DEF HandlerIsRight
  <1>10. ToCreate(h)' = {} /\ handlers'[h].pc \in {"reading", "checking"}
    BY <1>4, <1>6 DEF ToCreate
  <1>11. ChatKept(h) /\ StillWorks(h)
    BY <1>5, IdleHandler DEF ChatKept, StillWorks
  <1>12. \A k \in Messages : working'[k] \in {0, working[k]} \ {h}
    BY <1>5, IdleHandler, BoundsAssumption DEF IInv, Works
  <1> QED BY <1>5, <1>6, <1>7, <1>9, <1>10, <1>11, <1>12, QuietStep DEF Unmoved

\* A handler that was not working on a card holds no entry of the map, and nobody waits for it.
LEMMA NotWorking ==
    ASSUME IInv, NEW h \in Handlers,
           handlers[h].kind # "tap" \/ handlers[h].pc \notin {"claiming", "deciding"}
    PROVE  /\ StillWorks(h)
           /\ \A m \in Messages : working[m] # h
           /\ UNCHANGED working => \A m \in Messages : working'[m] \in {0, working[m]} \ {h}
  <1>1. StillWorks(h)
    BY DEF StillWorks
  <1>2. ASSUME NEW m \in Messages PROVE working[m] # h
    <2>1. h # 0
      BY BoundsAssumption
    <2>2. working[m] # 0 => Works(working[m], m)
      BY DEF IInv
    <2> QED BY <2>1, <2>2 DEF Works
  <1> QED BY <1>1, <1>2, BoundsAssumption

LEMMA RemoveActiveInv == ASSUME IInv, NEW h \in Handlers, RemoveActive(h) PROVE IInv'
  <1> DEFINE pc == IF handlers[h].group = 0 THEN "sending" ELSE "creating"
  <1>1. /\ handlers[h].pc = "removing" /\ Goes(h, pc) /\ HandlerIsRight(h)
        /\ UNCHANGED <<stores, late, cards, working, chat, counts>>
    BY DEF RemoveActive, IInv
  <1>2. active' \in 0..MaxCards /\ spoken' \in 0..MaxCards
    BY RemovedType DEF RemoveActive, IInv, TypeOK, shell
  <1>3. /\ handlers' \in [Handlers -> Handler] /\ handlers'[h].pc = pc
        /\ \A k \in Handlers \ {h} : handlers'[k] = handlers[k]
        /\ handlers'[h].kind = handlers[h].kind /\ handlers'[h].group = handlers[h].group
        /\ handlers'[h].shown = handlers[h].shown /\ handlers'[h].card = handlers[h].card
    BY <1>1, GoesType DEF IInv
  <1>4. TypeOK'
    BY <1>1, <1>2, <1>3 DEF IInv, TypeOK, stores, chat, counts
  <1>5. HandlerIsRight(h)'
    <2>1. handlers[h].kind # "tap" /\ handlers[h].shown \subseteq Actions
          /\ (handlers[h].group # 0 => handlers[h].group \in Actions)
      BY <1>1 DEF HandlerIsRight, StepsOfKinds, IInv, TypeOK, Handler
    <2>2. StepsOfKinds(h)' /\ AnswererIsRight(h)' /\ ChatIsRight(h)' /\ ClaimIsRight(h)'
      BY <1>1, <1>3, <2>1 DEF HandlerIsRight, StepsOfKinds, AnswererIsRight, ChatIsRight,
                              ClaimIsRight, Work, chat
    <2>3. SenderIsRight(h)'
      BY <1>1, <1>3, <2>1 DEF HandlerIsRight, SenderIsRight, stores, Proposed, Exists
    <2> QED BY <2>2, <2>3 DEF HandlerIsRight
  <1>6. ToCreate(h)' \subseteq ToCreate(h)
    BY <1>1, <1>3 DEF ToCreate
  <1>7. /\ StillWorks(h) /\ ChatKept(h)
        /\ \A m \in Messages : working'[m] \in {0, working[m]} \ {h}
    BY <1>1, NotWorking, StayInChat
  <1> QED BY <1>1, <1>3, <1>4, <1>5, <1>6, <1>7, QuietStep DEF Unmoved

LEMMA RepeatedInv == ASSUME IInv, NEW h \in Handlers, Repeated(h) PROVE IInv'
  <1>1. active' \in 0..MaxCards /\ spoken' \in 0..MaxCards
    BY RemovedType DEF Repeated, IInv, TypeOK, Handler
  <1> QED BY <1>1, EndsInv DEF Repeated, IInv, TypeOK, counts

LEMMA ReadAnswerInv == ASSUME IInv, NEW h \in Handlers, ReadAnswer(h) PROVE IInv'
  <1>1. /\ handlers[h] \in Handler /\ handlers[h].kind = "text" /\ handlers[h].pc = "reading"
        /\ HandlerIsRight(h)
        /\ UNCHANGED <<stores, late, cards, shell, working, chat, counts>>
    BY DEF ReadAnswer, IInv, TypeOK
  <1>2. ASSUME NEW next \in Handler, handlers' = [handlers EXCEPT ![h] = next],
               next.kind = "text", next.pc = "deciding", next.resolved = handlers[h].resolved,
               next.card \in Messages,
               next.group # 0 => /\ groups[next.group].message # 0
                                 /\ groups[next.group].pending \subseteq next.captured,
               \A a \in next.todo : Proposed(a)
        PROVE  IInv'
    <2>1. /\ handlers' \in [Handlers -> Handler] /\ handlers'[h] = next
          /\ \A k \in Handlers \ {h} : handlers'[k] = handlers[k]
      BY <1>2 DEF IInv, TypeOK
    <2>2. TypeOK'
      BY <1>1, <2>1 DEF IInv, TypeOK, stores, chat, counts, shell
    <2>3. HandlerIsRight(h)' /\ ToCreate(h)' = {}
      <3>1. next.resolved = {}
        BY <1>1, <1>2 DEF HandlerIsRight, AnswererIsRight
      <3>2. StepsOfKinds(h)' /\ SenderIsRight(h)' /\ ChatIsRight(h)' /\ ClaimIsRight(h)'
            /\ ToCreate(h)' = {}
        BY <1>1, <1>2, <2>1 DEF StepsOfKinds, SenderIsRight, ChatIsRight, ClaimIsRight, ToCreate,
                                HandlerIsRight, chat
      <3>3. AnswererIsRight(h)'
        BY <1>1, <1>2, <2>1, <3>1 DEF AnswererIsRight, Work, stores, Proposed
      <3> QED BY <3>2, <3>3 DEF HandlerIsRight
    <2>4. /\ StillWorks(h) /\ ChatKept(h)
          /\ \A m \in Messages : working'[m] \in {0, working[m]} \ {h}
      BY <1>1, NotWorking, StayInChat
    <2> QED BY <1>1, <1>2, <2>1, <2>2, <2>3, <2>4, QuietStep DEF Unmoved
  <1>3. handlers[h].group = 0
    BY <1>1 DEF HandlerIsRight, AnswererIsRight
  <1>4. ASSUME NEW g \in Actions, IsLatest(g), NEW confirm \in SUBSET groups[g].items,
               NEW reject \in SUBSET groups[g].items,
               handlers' = [handlers EXCEPT ![h] = [@ EXCEPT
                    !.pc = "deciding", !.card = groups[g].message, !.group = g,
                    !.confirm = confirm \cap groups[g].pending, !.captured = groups[g].pending,
                    !.todo = (confirm \cup reject) \cap groups[g].pending]]
        PROVE  IInv'
    <2> DEFINE next == [handlers[h] EXCEPT
                    !.pc = "deciding", !.card = groups[g].message, !.group = g,
                    !.confirm = confirm \cap groups[g].pending, !.captured = groups[g].pending,
                    !.todo = (confirm \cup reject) \cap groups[g].pending]
    <2>1. /\ groups[g] \in Group /\ GroupIsRight(g) /\ groups[g].message # 0
          /\ groups[g].message \in Messages
      BY <1>4, BoundsAssumption DEF IInv, TypeOK, IsLatest, Delivered, Group, Messages
    <2>2. /\ next \in Handler /\ next.kind = "text" /\ next.pc = "deciding"
          /\ next.resolved = handlers[h].resolved /\ next.card \in Messages
          /\ next.group = g /\ next.captured = groups[g].pending
          /\ next.todo \subseteq groups[g].pending
      BY <1>1, <2>1, BoundsAssumption DEF Handler, Group
    <2>3. \A a \in next.todo : Proposed(a)
      BY <2>1, <2>2 DEF GroupIsRight
    <2>4. handlers' = [handlers EXCEPT ![h] = next]
      BY <1>4
    <2> HIDE DEF next
    <2> QED BY <1>2, <2>1, <2>2, <2>3, <2>4
  <1>5. ASSUME spoken # 0, NEW confirm \in {{}, cards[spoken].shown},
               handlers' = [handlers EXCEPT ![h] = [@ EXCEPT
                    !.pc = "deciding", !.card = spoken, !.confirm = confirm,
                    !.todo = cards[spoken].shown]]
        PROVE  IInv'
    <2> DEFINE next == [handlers[h] EXCEPT
                    !.pc = "deciding", !.card = spoken, !.confirm = confirm,
                    !.todo = cards[spoken].shown]
    <2>1. /\ spoken \in Messages /\ MessageIsRight(spoken) /\ spoken \in 0..MaxCards
          /\ cards[spoken].shown \subseteq Actions /\ confirm \subseteq Actions
      BY <1>5, BoundsAssumption DEF IInv, TypeOK, Messages, Card
    <2>2. /\ next \in Handler /\ next.kind = "text" /\ next.pc = "deciding"
          /\ next.resolved = handlers[h].resolved /\ next.card \in Messages
          /\ next.group = 0 /\ next.todo = cards[spoken].shown
      BY <1>1, <1>3, <2>1 DEF Handler
    <2>3. \A a \in next.todo : Proposed(a)
      BY <2>1, <2>2 DEF MessageIsRight
    <2>4. handlers' = [handlers EXCEPT ![h] = next]
      BY <1>5
    <2> HIDE DEF next
    <2> QED BY <1>2, <2>2, <2>3, <2>4
  <1> QED BY <1>4, <1>5 DEF ReadAnswer


-----------------------------------------------------------------------------
(* Turns and the delivery of their proposals                               *)

LEMMA SendersAreFinite ==
    /\ IsFiniteSet(First) /\ IsFiniteSet(Second)
    /\ Cardinality(First) \in Nat /\ Cardinality(Second) \in Nat
    /\ First \cap Second = {} /\ Sending = First \cup Second
    /\ Cardinality(Sending) = Cardinality(First) + Cardinality(Second)
  <1>1. First \subseteq Handlers /\ Second \subseteq Handlers
        /\ First \cap Second = {} /\ Sending = First \cup Second
    BY DEF First, Second, Sending
  <1>2. IsFiniteSet(First) /\ IsFiniteSet(Second)
    BY <1>1, BoundsAssumption, FS_Subset
  <1>3. Cardinality(First) \in Nat /\ Cardinality(Second) \in Nat
    BY <1>2, FS_CardinalityType
  <1>4. Cardinality(Sending) = Cardinality(First) + Cardinality(Second)
                               - Cardinality(First \cap Second)
    BY <1>1, <1>2, FS_Union
  <1>5. Cardinality(First \cap Second) = 0
    BY <1>1, FS_EmptySet
  <1> QED BY <1>1, <1>2, <1>3, <1>4, <1>5

\* One handler more sets out for a card, and finds room for it.
LEMMA RoomIsKept ==
    ASSUME IInv, RoomForCard, NEW h \in Handlers, UNCHANGED cards,
           \A k \in Handlers \ {h} : handlers'[k] = handlers[k],
           handlers'[h].pc = "removing"
    PROVE  CardsComeInOrder'
  <1>1. Sent' = Sent /\ Cardinality(Sent) \in Nat
    BY SentIsFinite DEF Sent
  <1>2. First' \subseteq First \cup {h} /\ Second' \subseteq Second
    BY DEF First, Second
  <1>3. /\ IsFiniteSet(First \cup {h}) /\ Cardinality(First \cup {h}) \in Nat
        /\ Cardinality(First \cup {h}) <= Cardinality(First) + 1
    <2>1. /\ IsFiniteSet(First \cup {h})
          /\ Cardinality(First \cup {h}) =
                 IF h \in First THEN Cardinality(First) ELSE Cardinality(First) + 1
      BY SendersAreFinite, FS_AddElement
    <2> QED BY <2>1, SendersAreFinite
  <1>4. /\ Cardinality(First') <= Cardinality(First \cup {h}) /\ Cardinality(First') \in Nat
        /\ Cardinality(Second') <= Cardinality(Second) /\ Cardinality(Second') \in Nat
    BY <1>2, <1>3, SendersAreFinite, FS_Subset, FS_CardinalityType
  <1>5. Cardinality(Sent) + 2 * (Cardinality(First) + Cardinality(Second)) + 2 <= MaxCards
    BY SendersAreFinite DEF RoomForCard, CardsToCome
  <1>6. Cardinality(Sent) + 2 * Cardinality(First') + Cardinality(Second') <= MaxCards
    BY <1>1, <1>3, <1>4, <1>5, SendersAreFinite, BoundsAssumption
  <1> QED BY <1>1, <1>6 DEF IInv, CardsComeInOrder

LEMMA ProposingInv ==
    ASSUME IInv, NEW h \in Handlers, NEW A \in SUBSET Actions, NEW handler \in Handler,
           Proposing(h, A, handler),
           handler.kind \in {"turn", "text"}, handlers[h].pc \in {"idle", "reading"},
           handlers[h].kind = IF handler.kind = "text" THEN "text" ELSE "none",
           active' \in 0..MaxCards, spoken' \in 0..MaxCards,
           UNCHANGED <<late, groups, cards, claims, working, chat, counts>>
    PROVE  IInv'
  <1>1. PICK k \in A : handlers' = [handlers EXCEPT ![h] =
             [handler EXCEPT !.pc = "removing", !.shown = {a \in A : a <= k},
                             !.group = IF Cardinality(A) > 1 THEN Min(A) ELSE 0]]
    BY DEF Proposing
  <1> DEFINE next == [handler EXCEPT !.pc = "removing", !.shown = {a \in A : a <= k},
                                     !.group = IF Cardinality(A) > 1 THEN Min(A) ELSE 0]
  <1>2. A # {} /\ Min(A) \in A /\ A \subseteq Nat \ {0}
    BY MinOfActions, BoundsAssumption DEF Proposing
  <1>3. /\ next \in Handler /\ next.kind = handler.kind /\ next.pc = "removing"
        /\ next.shown = {a \in A : a <= k} /\ next.group \in A \cup {0}
    BY <1>2 DEF Handler
  <1>4. next.shown \subseteq A /\ next.shown # {}
    BY <1>1, <1>2, <1>3
  <1>5. handlers' = [handlers EXCEPT ![h] = next]
    BY <1>1
  <1> HIDE DEF next
  <1>6. /\ handlers' \in [Handlers -> Handler] /\ handlers'[h] = next
        /\ \A j \in Handlers \ {h} : handlers'[j] = handlers[j]
    BY <1>3, <1>5 DEF IInv, TypeOK
  <1>7. /\ ledger' = [a \in Actions |-> IF a \in A THEN "pending" ELSE ledger[a]]
        /\ \A a \in A : ~Proposed(a)
        /\ RoomForCard
    BY DEF Proposing, Proposed
  <1>8. TypeOK'
    BY <1>6, <1>7 DEF IInv, TypeOK, chat, counts
  <1>9. Grows
    BY <1>7 DEF Grows, Settles, Proposed, Exists, IInv, TypeOK
  <1>10. \A a \in A : Proposed(a)' /\ ~Exists(a) /\ ~Exists(a)'
    BY <1>7 DEF IInv, GroupIsRight, Proposed, Exists
  <1>11. HandlerIsRight(h)'
    <2>1. StepsOfKinds(h)' /\ AnswererIsRight(h)' /\ ClaimIsRight(h)'
      BY <1>3, <1>6 DEF StepsOfKinds, AnswererIsRight, ClaimIsRight, Work
    <2>2. ChatIsRight(h)'
      BY <1>3, <1>6 DEF IInv, HandlerIsRight, ChatIsRight, chat
    <2>3. SenderIsRight(h)'
      BY <1>3, <1>4, <1>6, <1>10 DEF SenderIsRight
    <2> QED BY <2>1, <2>2, <2>3 DEF HandlerIsRight
  <1>12. \A g \in Actions : GroupIsRight(g)'
    BY <1>8, <1>9, GroupStaysRight
  <1>13. \A m \in Messages : MessageIsRight(m)'
    BY <1>8, <1>9, MessageStaysRight
  <1>14. CardsComeInOrder'
    BY <1>3, <1>6, <1>7, RoomIsKept
  <1>15. ASSUME NEW j \in Handlers \ {h}
         PROVE  (\A g \in ToCreate(j) : ~Exists(g)') /\ ToCreate(h)' \cap ToCreate(j) = {}
    <2>1. \A g \in ToCreate(j) : ~Exists(g)' /\ Proposed(g)
      BY ToCreateIsOpen DEF Exists
    <2>2. ToCreate(h)' \subseteq A
      BY <1>3, <1>6 DEF ToCreate
    <2> QED BY <1>7, <2>1, <2>2
  <1>16. /\ StillWorks(h) /\ ChatKept(h)
         /\ \A m \in Messages : working'[m] \in {0, working[m]} \ {h}
    BY NotWorking, StayInChat
  <1> QED BY <1>6, <1>8, <1>9, <1>11, <1>12, <1>13, <1>14, <1>15, <1>16, HandlerStep DEF Unmoved

LEMMA ProactiveTurnInv ==
    ASSUME IInv, NEW h \in Handlers, NEW A \in SUBSET Actions, ProactiveTurn(h, A)
    PROVE  IInv'
  <1> DEFINE handler == [Idle EXCEPT !.kind = "turn"]
  <1>1. handler \in Handler /\ handler.kind = "turn"
    BY IdleHandler DEF Handler
  <1>2. /\ handlers[h].pc = "idle" /\ handlers[h].kind = "none" /\ Proposing(h, A, handler)
        /\ active' \in 0..MaxCards /\ spoken' \in 0..MaxCards
    BY IdleHandler DEF ProactiveTurn, IInv, TypeOK, shell
  <1> HIDE DEF handler
  <1> QED BY <1>1, <1>2, ProposingInv DEF ProactiveTurn

LEMMA TextTurnInv == ASSUME IInv, NEW h \in Handlers, TextTurn(h) PROVE IInv'
  <1>1. /\ handlers[h] \in Handler /\ handlers[h].kind = "text" /\ handlers[h].pc = "reading"
        /\ active' \in 0..MaxCards /\ spoken' \in 0..MaxCards
        /\ answers' \in 0..MaxAnswers /\ faults' \in 0..MaxFaults
    BY RemovedType DEF TextTurn, IInv, TypeOK, shell, counts
  <1>2. ASSUME NEW A \in SUBSET Actions, Proposing(h, A, handlers[h]), UNCHANGED chat
        PROVE  IInv'
    BY <1>1, <1>2, ProposingInv DEF TextTurn
  <1>3. ASSUME Ends(h), UNCHANGED ledger
        PROVE  IInv'
    BY <1>1, <1>3, EndsInv DEF TextTurn, stores
  <1> QED BY <1>2, <1>3 DEF TextTurn

-----------------------------------------------------------------------------
(* Taps                                                                    *)

\* A tap that has read its group goes on with what is pending.
LEMMA GroupIsRead ==
    ASSUME IInv, Grows, NEW h \in Handlers, NEW g \in Actions,
           handlers[h].kind = "tap", handlers[h].pc \in {"reading", "binding"},
           handlers[h].group = g,
           handlers'[h].kind = "tap", handlers'[h].pc = "checking",
           handlers'[h].card = handlers[h].card, handlers'[h].group = g,
           handlers'[h].resolved = handlers[h].resolved,
           handlers'[h].todo = groups[g].pending, handlers'[h].captured = groups[g].pending,
           groups'[g].message # 0, groups'[g].items = groups[g].items,
           groups'[g].pending = groups[g].pending, UNCHANGED chat
    PROVE  HandlerIsRight(h)' /\ ToCreate(h)' = {}
  <1> DEFINE m == handlers[h].card
  <1>1. /\ HandlerIsRight(h) /\ GroupIsRight(g) /\ m \in Sent /\ handlers[h].resolved = {}
        /\ g # 0 /\ g = cards[m].group
    BY BoundsAssumption DEF IInv, HandlerIsRight, AnswererIsRight
  <1>2. m \in Messages /\ MessageIsRight(m) /\ cards'[m] = cards[m] /\ m \in Sent'
    BY <1>1 DEF Sent, Grows, IInv
  <1>3. /\ groups[g].items \subseteq Actions /\ groups[g].pending \subseteq groups[g].items
        /\ cards[m].shown \subseteq groups[g].items
    BY <1>1, <1>2 DEF GroupIsRight, MessageIsRight, IInv, TypeOK, Group
  <1>4. StepsOfKinds(h)' /\ SenderIsRight(h)' /\ ClaimIsRight(h)' /\ ToCreate(h)' = {}
    BY DEF StepsOfKinds, SenderIsRight, ClaimIsRight, ToCreate
  <1>5. ChatIsRight(h)'
    BY <1>1 DEF HandlerIsRight, ChatIsRight, chat
  <1>6. \A a \in groups[g].pending : Proposed(a)'
    BY <1>1, <1>3 DEF GroupIsRight, Grows
  <1>7. \A a \in cards[m].shown \ groups[g].pending : Settles(a)'
    BY <1>1, <1>3 DEF GroupIsRight, Grows
  <1>8. AnswererIsRight(h)'
    BY <1>1, <1>2, <1>6, <1>7 DEF AnswererIsRight, Work
  <1> QED BY <1>4, <1>5, <1>8 DEF HandlerIsRight

LEMMA ReadGroupInv == ASSUME IInv, NEW h \in Handlers, ReadGroup(h) PROVE IInv'
  <1> DEFINE g == handlers[h].group
             m == handlers[h].card
  <1>1. /\ handlers[h] \in Handler /\ handlers[h].kind = "tap" /\ handlers[h].pc = "reading"
        /\ HandlerIsRight(h) /\ g \in Actions /\ m \in Sent /\ m \in Messages
        /\ g = cards[m].group /\ Exists(g) /\ handlers[h].group = g /\ handlers[h].card = m
        /\ UNCHANGED <<stores, late, cards, working, counts>>
    <2>1. /\ handlers[h] \in Handler /\ handlers[h].kind = "tap" /\ handlers[h].pc = "reading"
          /\ HandlerIsRight(h)
          /\ UNCHANGED <<stores, late, cards, working, counts>>
      BY DEF ReadGroup, IInv, TypeOK
    <2>2. g \in Actions /\ m \in Sent /\ m \in Messages /\ g = cards[m].group /\ g # 0
      BY <2>1 DEF HandlerIsRight, AnswererIsRight, Handler, Sent
    <2> QED BY <2>1, <2>2 DEF IInv, MessageIsRight
  <1> HIDE DEF g, m
  <1>2. Grows
    BY <1>1 DEF Grows, stores, Settles, Proposed, Exists, IInv, TypeOK
  <1>3. /\ StillWorks(h)
        /\ \A k \in Messages : working'[k] \in {0, working[k]} \ {h}
    BY <1>1, NotWorking
  <1>4. CASE Goes(h, "binding") /\ UNCHANGED <<shell, chat>>
    <2>1. /\ handlers' \in [Handlers -> Handler] /\ handlers'[h].pc = "binding"
          /\ \A k \in Handlers \ {h} : handlers'[k] = handlers[k]
          /\ handlers'[h].kind = handlers[h].kind /\ handlers'[h].group = handlers[h].group
          /\ handlers'[h].resolved = handlers[h].resolved /\ handlers'[h].card = handlers[h].card
      BY <1>4, GoesType DEF IInv
    <2>2. TypeOK'
      BY <1>1, <1>4, <2>1 DEF IInv, TypeOK, stores, chat, counts, shell
    <2>3. HandlerIsRight(h)' /\ ToCreate(h)' = {}
      <3>1. g # 0 /\ m \in Sent' /\ cards'[m] = cards[m] /\ handlers[h].resolved = {}
        BY <1>1, BoundsAssumption DEF HandlerIsRight, AnswererIsRight, Sent
      <3>2. StepsOfKinds(h)' /\ ClaimIsRight(h)' /\ ToCreate(h)' = {}
        BY <1>1, <2>1 DEF StepsOfKinds, ClaimIsRight, ToCreate
      <3>3. SenderIsRight(h)'
        <4>1. handlers'[h].group # 0 /\ handlers'[h].card \in Sent'
              /\ groups'[handlers'[h].group].state # "absent"
          BY <1>1, <2>1, <3>1 DEF stores, Exists
        <4> QED BY <2>1, <4>1 DEF SenderIsRight, Exists
      <3>4. ChatIsRight(h)'
        <4>1. ChatIsRight(h) /\ inflight' = inflight /\ callbackKey' = callbackKey
          BY <1>1, <1>4 DEF HandlerIsRight, chat
        <4> QED BY <2>1, <4>1 DEF ChatIsRight
      <3>5. AnswererIsRight(h)'
        BY <1>1, <2>1, <3>1 DEF AnswererIsRight, Work
      <3> QED BY <3>2, <3>3, <3>4, <3>5 DEF HandlerIsRight
    <2> QED BY <1>1, <1>3, <1>4, <2>1, <2>2, <2>3, StayInChat, QuietStep DEF Unmoved
  <1>5. CASE /\ groups[g].message = m /\ UNCHANGED <<shell, chat>>
             /\ handlers' = [handlers EXCEPT ![h].pc = "checking",
                    ![h].captured = groups[g].pending, ![h].todo = groups[g].pending]
    <2> DEFINE next == [handlers[h] EXCEPT !.pc = "checking",
                    !.captured = groups[g].pending, !.todo = groups[g].pending]
    <2>1. /\ next \in Handler /\ next.kind = "tap" /\ next.pc = "checking"
          /\ next.card = m /\ next.group = g /\ next.resolved = handlers[h].resolved
          /\ next.todo = groups[g].pending /\ next.captured = groups[g].pending
      BY <1>1 DEF Handler, IInv, TypeOK, Group
    <2>2. handlers' = [handlers EXCEPT ![h] = next]
      BY <1>5
    <2> HIDE DEF next
    <2>3. /\ handlers' \in [Handlers -> Handler] /\ handlers'[h] = next
          /\ \A k \in Handlers \ {h} : handlers'[k] = handlers[k]
      BY <2>1, <2>2 DEF IInv, TypeOK
    <2>4. TypeOK'
      BY <1>1, <1>5, <2>3 DEF IInv, TypeOK, stores, chat, counts, shell
    <2>5. groups'[g] = groups[g] /\ groups[g].message # 0
      BY <1>1, <1>5, BoundsAssumption DEF stores, Messages
    <2>6. /\ handlers'[h].kind = "tap" /\ handlers'[h].pc = "checking"
          /\ handlers'[h].card = handlers[h].card /\ handlers'[h].group = g
          /\ handlers'[h].resolved = handlers[h].resolved
          /\ handlers'[h].todo = groups[g].pending /\ handlers'[h].captured = groups[g].pending
          /\ UNCHANGED chat
      BY <1>1, <1>5, <2>1, <2>3
    <2>7. HandlerIsRight(h)' /\ ToCreate(h)' = {}
      BY <1>1, <1>2, <2>5, <2>6, GroupIsRead
    <2> QED BY <1>1, <1>3, <1>5, <2>1, <2>3, <2>4, <2>7, StayInChat, QuietStep DEF Unmoved
  <1>6. CASE Ends(h) /\ (Removed(m) \/ UNCHANGED shell)
    <2>1. active' \in 0..MaxCards /\ spoken' \in 0..MaxCards
      BY <1>1, <1>6, RemovedType DEF IInv, TypeOK, Handler, shell
    <2>2. answers' \in 0..MaxAnswers /\ faults' \in 0..MaxFaults
      BY <1>1 DEF IInv, TypeOK, counts
    <2> QED BY <1>1, <1>6, <2>1, <2>2, EndsInv
  <1> QED BY <1>4, <1>5, <1>6 DEF ReadGroup, g, m

\* Only taps check, wait, register and claim.
LEMMA TapAtWork ==
    ASSUME IInv, NEW h \in Handlers,
           handlers[h].pc \in {"checking", "waiting", "registering", "repeated", "claiming"}
    PROVE  /\ handlers[h].kind = "tap" /\ handlers[h].card \in Messages
           /\ handlers[h].card \in Sent
  <1>1. handlers[h] \in Handler /\ HandlerIsRight(h)
    BY DEF IInv, TypeOK
  <1>2. handlers[h].kind = "tap"
    BY <1>1 DEF HandlerIsRight, StepsOfKinds, Handler
  <1> QED BY <1>1, <1>2 DEF HandlerIsRight, AnswererIsRight, Sent

\* A step of a tap to "claiming", with or without a new entry of the map.
LEMMA ClaimsNext ==
    ASSUME IInv, NEW h \in Handlers, handlers[h].pc \in {"checking", "registering"},
           Goes(h, "claiming"), working' = [working EXCEPT ![handlers[h].card] = h],
           UNCHANGED <<stores, late, cards, shell, chat, counts>>
    PROVE  IInv'
  <1>1. /\ handlers[h].kind = "tap" /\ HandlerIsRight(h) /\ handlers[h].card \in Messages
    BY TapAtWork DEF IInv
  <1>2. /\ handlers' \in [Handlers -> Handler] /\ handlers'[h].pc = "claiming"
        /\ \A k \in Handlers \ {h} : handlers'[k] = handlers[k]
        /\ handlers'[h].kind = handlers[h].kind /\ handlers'[h].group = handlers[h].group
        /\ handlers'[h].resolved = handlers[h].resolved /\ handlers'[h].card = handlers[h].card
        /\ handlers'[h].todo = handlers[h].todo /\ handlers'[h].retry = handlers[h].retry
        /\ handlers'[h].captured = handlers[h].captured
    BY GoesType DEF IInv
  <1>3. TypeOK'
    BY <1>2 DEF IInv, TypeOK, stores, chat, counts, shell
  <1>4. HandlerIsRight(h)' /\ ToCreate(h)' = {}
    <2>1. StepsOfKinds(h)' /\ SenderIsRight(h)' /\ ClaimIsRight(h)' /\ ToCreate(h)' = {}
      BY <1>1, <1>2 DEF StepsOfKinds, SenderIsRight, ClaimIsRight, ToCreate
    <2>2. ChatIsRight(h)'
      BY <1>1, <1>2 DEF HandlerIsRight, ChatIsRight, chat
    <2>3. AnswererIsRight(h)'
      <3>1. Sent' = Sent
        BY DEF Sent
      <3> QED BY <1>1, <1>2, <3>1 DEF HandlerIsRight, AnswererIsRight, Work, stores, Settles, Proposed
    <2> QED BY <2>1, <2>2, <2>3 DEF HandlerIsRight
  <1>5. StillWorks(h) /\ \A m \in Messages : working[m] # h
    BY <1>1, NotWorking
  <1>6. ASSUME NEW m \in Messages
        PROVE  working'[m] \in {0, working[m]} \ {h} \/ (working'[m] = h /\ Works(h, m)')
    <2>1. CASE m = handlers[h].card
      BY <1>1, <1>2, <2>1 DEF IInv, TypeOK, Works
    <2>2. CASE m # handlers[h].card
      BY <1>5, <2>2 DEF IInv, TypeOK
    <2> QED BY <2>1, <2>2
  <1> QED BY <1>2, <1>3, <1>4, <1>5, <1>6, StayInChat, QuietStep DEF Unmoved

LEMMA RegisterInv == ASSUME IInv, NEW h \in Handlers, Register(h) PROVE IInv'
  BY ClaimsNext DEF Register

LEMMA CheckWorkingInv == ASSUME IInv, NEW h \in Handlers, CheckWorking(h) PROVE IInv'
  <1> DEFINE m == handlers[h].card
  <1>1. /\ handlers[h].pc = "checking" /\ handlers[h].kind = "tap" /\ HandlerIsRight(h)
        /\ m \in Messages /\ handlers[h] \in Handler
        /\ UNCHANGED <<stores, late, cards, shell, chat, counts>>
    BY TapAtWork DEF CheckWorking, IInv, TypeOK
  <1>2. CASE working[m] # 0
    <2> DEFINE next == [handlers[h] EXCEPT !.pc = "waiting", !.waits = working[m]]
    <2>1. working[m] \in Handlers /\ Works(working[m], m)
      BY <1>1, <1>2 DEF IInv, TypeOK
    <2>2. /\ next \in Handler /\ next.pc = "waiting" /\ next.waits = working[m]
          /\ next.kind = "tap" /\ next.card = m /\ next.group = handlers[h].group
          /\ next.todo = handlers[h].todo /\ next.resolved = handlers[h].resolved
          /\ next.captured = handlers[h].captured /\ next.retry = handlers[h].retry
      BY <1>1, <2>1 DEF Handler
    <2>3. handlers' = [handlers EXCEPT ![h] = next] /\ UNCHANGED working
      BY <1>2 DEF CheckWorking
    <2> HIDE DEF next, m
    <2>4. /\ handlers' \in [Handlers -> Handler] /\ handlers'[h] = next
          /\ \A k \in Handlers \ {h} : handlers'[k] = handlers[k]
      BY <2>2, <2>3 DEF IInv, TypeOK
    <2>5. TypeOK'
      BY <1>1, <2>3, <2>4 DEF IInv, TypeOK, stores, chat, counts, shell
    <2>6. handlers[h].card = m
      BY DEF m
    <2>7. HandlerIsRight(h)' /\ ToCreate(h)' = {}
      <3>1. StepsOfKinds(h)' /\ SenderIsRight(h)' /\ ToCreate(h)' = {}
        BY <1>1, <2>2, <2>4 DEF StepsOfKinds, SenderIsRight, ToCreate
      <3>2. ChatIsRight(h)'
        BY <1>1, <2>2, <2>4, <2>6 DEF HandlerIsRight, ChatIsRight, chat
      <3>3. ClaimIsRight(h)'
        <4>1. working[m] # h
          BY <1>1, <2>1 DEF Works
        <4> QED BY <2>1, <2>2, <2>4, <4>1 DEF ClaimIsRight, Works
      <3>4. AnswererIsRight(h)'
        <4>1. Sent' = Sent
          BY <1>1 DEF Sent
        <4> QED BY <1>1, <2>2, <2>4, <2>6, <4>1
                DEF HandlerIsRight, AnswererIsRight, Work, stores, Settles, Proposed
      <3> QED BY <3>1, <3>2, <3>3, <3>4 DEF HandlerIsRight
    <2>8. /\ StillWorks(h) /\ ChatKept(h)
          /\ \A k \in Messages : working'[k] \in {0, working[k]} \ {h}
      BY <1>1, <2>3, NotWorking, StayInChat
    <2> QED BY <1>1, <2>2, <2>4, <2>5, <2>7, <2>8, QuietStep DEF Unmoved
  <1>3. CASE working[m] = 0
    BY <1>1, <1>3, ClaimsNext DEF CheckWorking
  <1> QED BY <1>2, <1>3

\* A handler that has dealt with its items goes on to mark them.
LEMMA AnsweredInWordsInv == ASSUME IInv, NEW h \in Handlers, AnsweredInWords(h) PROVE IInv'
  <1>1. /\ handlers[h].pc = "deciding" /\ handlers[h].kind = "text" /\ HandlerIsRight(h)
        /\ handlers[h] \in Handler
        /\ UNCHANGED <<stores, late, cards, working, counts>>
    BY DEF AnsweredInWords, Through, IInv, TypeOK
  <1>2. CASE handlers[h].group # 0
    <2> DEFINE next == Marking(h)
    <2>1. /\ next \in Handler /\ next.pc = "marking" /\ next.kind = "text"
          /\ next.card = handlers[h].card /\ next.group = handlers[h].group
          /\ next.captured = handlers[h].captured /\ next.resolved = handlers[h].resolved
      BY <1>1, IdleHandler DEF Marking, Onward, Handler
    <2>2. handlers' = [handlers EXCEPT ![h] = next] /\ UNCHANGED <<shell, chat>>
      BY <1>2 DEF AnsweredInWords
    <2> HIDE DEF next
    <2>3. /\ handlers' \in [Handlers -> Handler] /\ handlers'[h] = next
          /\ \A k \in Handlers \ {h} : handlers'[k] = handlers[k]
      BY <2>1, <2>2 DEF IInv, TypeOK
    <2>4. TypeOK'
      BY <1>1, <2>2, <2>3 DEF IInv, TypeOK, stores, chat, counts, shell
    <2>5. HandlerIsRight(h)' /\ ToCreate(h)' = {}
      <3>1. StepsOfKinds(h)' /\ SenderIsRight(h)' /\ ClaimIsRight(h)' /\ ToCreate(h)' = {}
        BY <1>2, <2>1, <2>3 DEF StepsOfKinds, SenderIsRight, ClaimIsRight, ToCreate
      <3>2. ChatIsRight(h)'
        <4>1. ChatIsRight(h) /\ inflight' = inflight /\ callbackKey' = callbackKey
          BY <1>1, <2>2 DEF HandlerIsRight, chat
        <4> QED BY <1>1, <2>1, <2>3, <4>1 DEF ChatIsRight
      <3>3. AnswererIsRight(h)'
        BY <1>1, <1>2, <2>1, <2>3 DEF HandlerIsRight, AnswererIsRight, Work, stores, Settles
      <3> QED BY <3>1, <3>2, <3>3 DEF HandlerIsRight
    <2>6. /\ StillWorks(h) /\ ChatKept(h)
          /\ \A m \in Messages : working'[m] \in {0, working[m]} \ {h}
      BY <1>1, <2>2, NotWorking, StayInChat
    <2> QED BY <1>1, <2>1, <2>3, <2>4, <2>5, <2>6, QuietStep DEF Unmoved
  <1>3. CASE handlers[h].group = 0
    <2>1. Ends(h) /\ active' \in 0..MaxCards /\ spoken' \in 0..MaxCards
      BY <1>1, <1>3, RemovedType DEF AnsweredInWords, IInv, TypeOK, Handler, shell
    <2> QED BY <1>1, <2>1, EndsInv DEF IInv, TypeOK, counts
  <1> QED BY <1>2, <1>3

LEMMA WithdrawnInv == ASSUME IInv, NEW h \in Handlers, Withdrawn(h) PROVE IInv'
  <1> DEFINE g == handlers[h].group
  <1>1. /\ handlers[h].pc = "withdrawing" /\ handlers[h].todo = {} /\ HandlerIsRight(h)
        /\ handlers[h] \in Handler /\ handlers[h].kind # "tap" /\ handlers[h].kind # "none"
        /\ UNCHANGED <<stores, late, cards, shell, working, counts>>
    BY DEF Withdrawn, IInv, TypeOK, HandlerIsRight, StepsOfKinds
  <1>2. CASE Cancels(h) /\ g # 0
    <2> DEFINE next == Onward(h, "cancelling")
    <2>1. /\ next \in Handler /\ next.pc = "cancelling" /\ next.kind = handlers[h].kind
          /\ next.card = handlers[h].card /\ next.group = handlers[h].group
      BY <1>1, IdleHandler DEF Onward, Handler
    <2>2. handlers' = [handlers EXCEPT ![h] = next] /\ UNCHANGED chat
      BY <1>2 DEF Withdrawn
    <2> HIDE DEF next
    <2>3. /\ handlers' \in [Handlers -> Handler] /\ handlers'[h] = next
          /\ \A k \in Handlers \ {h} : handlers'[k] = handlers[k]
      BY <2>1, <2>2 DEF IInv, TypeOK
    <2>4. TypeOK'
      BY <1>1, <2>2, <2>3 DEF IInv, TypeOK, stores, chat, counts, shell
    <2>5. /\ g # 0 /\ Exists(g) /\ \A a \in groups[g].items : ledger[a] = "rejected"
      BY <1>1, <1>2 DEF HandlerIsRight, SenderIsRight, Cancels
    <2>6. HandlerIsRight(h)' /\ ToCreate(h)' = {}
      <3>1. StepsOfKinds(h)' /\ AnswererIsRight(h)' /\ ClaimIsRight(h)' /\ ToCreate(h)' = {}
        BY <1>1, <2>1, <2>3 DEF StepsOfKinds, AnswererIsRight, ClaimIsRight, ToCreate, Work
      <3>2. ChatIsRight(h)'
        BY <1>1, <2>1, <2>2, <2>3 DEF HandlerIsRight, ChatIsRight, chat
      <3>3. SenderIsRight(h)'
        BY <1>1, <2>1, <2>3, <2>5 DEF SenderIsRight, stores, Exists
      <3> QED BY <3>1, <3>2, <3>3 DEF HandlerIsRight
    <2>7. /\ StillWorks(h) /\ ChatKept(h)
          /\ \A m \in Messages : working'[m] \in {0, working[m]} \ {h}
      BY <1>1, <2>2, NotWorking, StayInChat
    <2> QED BY <1>1, <2>1, <2>3, <2>4, <2>6, <2>7, QuietStep DEF Unmoved
  <1>3. CASE ~(Cancels(h) /\ g # 0)
    <2>1. Ends(h) /\ active' \in 0..MaxCards /\ spoken' \in 0..MaxCards
      BY <1>1, <1>3 DEF Withdrawn, IInv, TypeOK, shell
    <2> QED BY <1>1, <2>1, EndsInv DEF IInv, TypeOK, counts
  <1> QED BY <1>2, <1>3

-----------------------------------------------------------------------------
(* Steps that write a group                                                *)

\* The rows are as they should be after a write of h.
RowsAreKept(h) ==
    /\ groups' \in [Actions -> Group]
    /\ \A g \in Actions : groups'[g].state \in {"delivered", "completed"} =>
           groups'[g].message # 0
    /\ Grows
    /\ \A g \in Actions : GroupIsRight(g)'
    /\ \A k \in Handlers \ {h} : \A g \in ToCreate(k) : ~Exists(g)'

LEMMA OneRow ==
    ASSUME IInv, NEW h, NEW g \in Actions, NEW row \in Group,
           UNCHANGED <<ledger, late, cards>>,
           groups' \in {groups, [groups EXCEPT ![g] = row]},
           Exists(g) \/ (h \in Handlers /\ g \in ToCreate(h)),
           Proposed(g), row.state # "absent",
           Exists(g) => /\ row.items = groups[g].items
                        /\ row.pending \subseteq groups[g].pending
                        /\ groups[g].message # 0 => row.message # 0,
           row.state \in {"delivered", "completed"} => row.message # 0,
           row.pending \subseteq row.items,
           \A a \in row.items : Proposed(a),
           \A a \in row.items \ row.pending : Settles(a),
           row.message # 0 => row.message \in Sent,
           row.state = "completed" => row.pending = {},
           row.state = "cancelled" => \A a \in row.items : ledger[a] = "rejected"
    PROVE  RowsAreKept(h)
  <1>1. /\ groups \in [Actions -> Group] /\ \A f \in Actions : GroupIsRight(f)
        /\ \A f \in Actions : groups[f].state \in {"delivered", "completed"} =>
               groups[f].message # 0
    BY DEF IInv, TypeOK
  <1>2. ASSUME NEW f \in Actions
        PROVE  /\ groups'[f] \in Group
               /\ groups'[f] = groups[f] \/ (f = g /\ groups'[f] = row)
    BY <1>1
  <1>3. groups' \in [Actions -> Group]
    BY <1>1
  <1>4. Sent' = Sent
    BY DEF Sent
  <1>5. ASSUME NEW f \in Actions PROVE GroupIsRight(f)'
    <2>1. CASE groups'[f] = groups[f]
      BY <1>1, <1>4, <2>1 DEF GroupIsRight, Exists, Proposed, Settles
    <2>2. CASE f = g /\ groups'[f] = row
      BY <1>4, <2>2 DEF GroupIsRight, Exists, Proposed, Settles
    <2> QED BY <1>2, <2>1, <2>2
  <1>6. Grows
    <2>1. ASSUME NEW f \in Actions, Exists(f)
          PROVE  /\ Exists(f)' /\ groups'[f].items = groups[f].items
                 /\ groups'[f].pending \subseteq groups[f].pending
                 /\ groups[f].message # 0 => groups'[f].message # 0
      BY <1>2, <2>1 DEF Exists
    <2> QED BY <2>1 DEF Grows, Proposed, Settles
  <1>7. ASSUME NEW k \in Handlers \ {h}, NEW f \in ToCreate(k)
        PROVE  ~Exists(f)'
    <2>1. f \in Actions /\ ~Exists(f)
      BY ToCreateIsOpen
    <2>2. f # g
      BY <2>1 DEF IInv
    <2> QED BY <1>2, <2>1, <2>2 DEF Exists
  <1>8. \A f \in Actions : groups'[f].state \in {"delivered", "completed"} =>
            groups'[f].message # 0
    BY <1>1, <1>2
  <1> QED BY <1>3, <1>5, <1>6, <1>7, <1>8 DEF RowsAreKept

LEMMA CreatedRows ==
    ASSUME IInv, NEW h \in Handlers, handlers[h].pc = "creating",
           UNCHANGED <<ledger, late, cards>>, groups' \in {groups, Created(h)}
    PROVE  /\ RowsAreKept(h) /\ handlers[h].group \in Actions
           /\ groups' = Created(h) =>
                  /\ groups'[handlers[h].group].state # "absent"
                  /\ groups'[handlers[h].group].items = handlers[h].shown
  <1> DEFINE g == handlers[h].group
             N == {f \in Actions : groups[f].state # "absent"}
             row == [state |-> "preparing", items |-> handlers[h].shown,
                     pending |-> handlers[h].shown, message |-> 0,
                     created |-> Cardinality(N) + 1]
  <1>1. handlers[h] \in Handler /\ HandlerIsRight(h)
    BY DEF IInv, TypeOK
  <1>2. /\ g \in Actions /\ Proposed(g) /\ ~Exists(g) /\ handlers[h].shown \subseteq Actions
        /\ \A a \in handlers[h].shown : Proposed(a)
    BY <1>1 DEF HandlerIsRight, SenderIsRight, Handler
  <1>3. Cardinality(N) \in Nat
    BY BoundsAssumption, FS_Subset, FS_CardinalityType
  <1> HIDE DEF N
  <1>4. /\ row \in Group /\ row.state = "preparing" /\ row.items = handlers[h].shown
        /\ row.pending = handlers[h].shown /\ row.message = 0
    BY <1>2, <1>3, BoundsAssumption DEF Group
  <1>5. Created(h) = [groups EXCEPT ![g] = row]
    BY DEF Created, N
  <1> HIDE DEF row
  <1>6. g \in ToCreate(h)
    BY <1>2, BoundsAssumption DEF ToCreate
  <1>7. RowsAreKept(h)
    BY <1>2, <1>4, <1>5, <1>6, OneRow
  <1>8. groups' = Created(h) => groups'[g] = row
    BY <1>2, <1>5 DEF IInv, TypeOK
  <1> QED BY <1>2, <1>4, <1>7, <1>8

LEMMA BoundRows ==
    ASSUME IInv, NEW h \in Handlers, handlers[h].pc = "binding",
           UNCHANGED <<ledger, late, cards>>, groups' \in {groups, Bound(h)}
    PROVE  /\ RowsAreKept(h) /\ handlers[h].group \in Actions
           /\ groups' = Bound(h) /\ Bindable(handlers[h].group, handlers[h].card) =>
                  /\ groups'[handlers[h].group].message # 0
                  /\ groups'[handlers[h].group].items = groups[handlers[h].group].items
                  /\ groups'[handlers[h].group].pending = groups[handlers[h].group].pending
  <1> DEFINE g == handlers[h].group
             m == handlers[h].card
             bound == [groups[g] EXCEPT !.state = "delivered", !.message = m]
             row == IF Bindable(g, m) THEN bound ELSE groups[g]
  <1>1. handlers[h] \in Handler /\ HandlerIsRight(h)
    BY DEF IInv, TypeOK
  <1>2. g \in Actions /\ Exists(g) /\ m \in Sent
    BY <1>1 DEF HandlerIsRight, SenderIsRight, Handler
  <1>3. m \in 0..MaxCards /\ m # 0
    BY <1>2, BoundsAssumption DEF Sent, Messages
  <1>4. groups[g] \in Group /\ GroupIsRight(g)
        /\ (groups[g].state \in {"delivered", "completed"} => groups[g].message # 0)
    BY <1>2 DEF IInv, TypeOK
  <1>5. /\ bound \in Group /\ bound.state = "delivered" /\ bound.items = groups[g].items
        /\ bound.pending = groups[g].pending /\ bound.message = m
    BY <1>3, <1>4 DEF Group
  <1>6. groups' \in {groups, [groups EXCEPT ![g] = row]}
        /\ (groups' = Bound(h) /\ Bindable(g, m) => groups' = [groups EXCEPT ![g] = row])
    BY DEF Bound
  <1>7. row \in {groups[g], bound} /\ (Bindable(g, m) => row = bound)
    OBVIOUS
  <1> HIDE DEF row, bound
  <1>8. RowsAreKept(h)
    <2>1. /\ row \in Group /\ row.items = groups[g].items /\ row.pending = groups[g].pending
          /\ groups[g].message # 0 => row.message # 0
          /\ row.state \in {"delivered", "completed"} => row.message # 0
          /\ row.message # 0 => row.message \in Sent
      BY <1>2, <1>3, <1>4, <1>5, <1>7 DEF GroupIsRight
    <2>2. /\ row.state # "absent" /\ Proposed(g)
          /\ row.state = "completed" => row.pending = {}
          /\ row.state = "cancelled" => \A a \in row.items : ledger[a] = "rejected"
      BY <1>2, <1>4, <1>5, <1>7 DEF GroupIsRight, Exists
    <2>3. /\ row.pending \subseteq row.items
          /\ \A a \in row.items : Proposed(a)
          /\ \A a \in row.items \ row.pending : Settles(a)
      BY <1>4, <2>1 DEF GroupIsRight
    <2> QED BY <1>2, <1>6, <2>1, <2>2, <2>3, OneRow
  <1>9. groups' = [groups EXCEPT ![g] = row] => groups'[g] = row
    BY <1>2 DEF IInv, TypeOK
  <1> QED BY <1>2, <1>3, <1>5, <1>6, <1>7, <1>8, <1>9

LEMMA CancelledRows ==
    ASSUME IInv, NEW h \in Handlers, handlers[h].pc = "cancelling",
           UNCHANGED <<ledger, late, cards>>, groups' \in {groups, Cancelled(h)}
    PROVE  RowsAreKept(h)
  <1> DEFINE g == handlers[h].group
             state == IF groups[g].state \in {"completed", "purged"} THEN groups[g].state
                      ELSE "cancelled"
             row == [groups[g] EXCEPT !.state = state]
  <1>1. handlers[h] \in Handler /\ HandlerIsRight(h)
    BY DEF IInv, TypeOK
  <1>2. g \in Actions /\ Exists(g) /\ \A a \in groups[g].items : ledger[a] = "rejected"
    BY <1>1 DEF HandlerIsRight, SenderIsRight, Handler
  <1>3. groups[g] \in Group /\ GroupIsRight(g)
        /\ (groups[g].state \in {"delivered", "completed"} => groups[g].message # 0)
    BY <1>2 DEF IInv, TypeOK
  <1>4. /\ state \in {"completed", "purged", "cancelled"}
        /\ state = "completed" => groups[g].state = "completed"
    OBVIOUS
  <1>5. Cancelled(h) = [groups EXCEPT ![g] = row]
    BY DEF Cancelled
  <1> HIDE DEF state
  <1>6. /\ row \in Group /\ row.state = state /\ row.items = groups[g].items
        /\ row.pending = groups[g].pending /\ row.message = groups[g].message
    BY <1>3, <1>4 DEF Group
  <1> HIDE DEF row
  <1> QED BY <1>2, <1>3, <1>4, <1>5, <1>6, OneRow DEF GroupIsRight

LEMMA MarkedRows ==
    ASSUME IInv, NEW h \in Handlers, handlers[h].pc = "marking",
           UNCHANGED <<ledger, late, cards>>, groups' \in {groups, Marked(h)}
    PROVE  /\ RowsAreKept(h) /\ handlers[h].group \in Actions
           /\ groups' = Marked(h) => groups'[handlers[h].group].pending =
                  IF IsOpen(h) THEN Left(h) ELSE groups[handlers[h].group].pending
  <1> DEFINE g == handlers[h].group
             row == [groups[g] EXCEPT !.pending = Left(h)]
  <1>1. handlers[h] \in Handler /\ HandlerIsRight(h)
    BY DEF IInv, TypeOK
  <1>2. /\ g \in Actions /\ groups[g].message # 0
        /\ \A a \in handlers[h].resolved : Settles(a)
    BY <1>1 DEF HandlerIsRight, AnswererIsRight, Handler
  <1>3. groups[g] \in Group /\ GroupIsRight(g) /\ Exists(g)
        /\ (groups[g].state \in {"delivered", "completed"} => groups[g].message # 0)
    BY <1>2 DEF IInv, TypeOK, GroupIsRight
  <1>4. Left(h) = groups[g].pending \ handlers[h].resolved
    BY DEF Left
  <1>5. /\ row \in Group /\ row.state = groups[g].state /\ row.items = groups[g].items
        /\ row.pending = Left(h) /\ row.message = groups[g].message
    BY <1>3, <1>4 DEF Group
  <1>6. Marked(h) = IF IsOpen(h) THEN [groups EXCEPT ![g] = row] ELSE groups
    BY DEF Marked
  <1> HIDE DEF row
  <1>7. RowsAreKept(h)
    <2>1. /\ row.pending \subseteq groups[g].pending /\ row.pending \subseteq row.items
          /\ \A a \in row.items : Proposed(a)
          /\ \A a \in row.items \ row.pending : Settles(a)
          /\ Proposed(g) /\ row.state # "absent"
      BY <1>2, <1>3, <1>4, <1>5 DEF GroupIsRight, Exists
    <2>2. /\ row.message # 0 => row.message \in Sent
          /\ row.state = "completed" => row.pending = {}
          /\ row.state = "cancelled" => \A a \in row.items : ledger[a] = "rejected"
      BY <1>3, <1>4, <1>5 DEF GroupIsRight
    <2> QED BY <1>2, <1>3, <1>5, <1>6, <2>1, <2>2, OneRow
  <1>8. groups' = [groups EXCEPT ![g] = row] => groups'[g] = row
    BY <1>2 DEF IInv, TypeOK
  <1> QED BY <1>2, <1>5, <1>6, <1>7, <1>8

LEMMA CompletedRows ==
    ASSUME IInv, NEW h \in Handlers, handlers[h].pc = "completing",
           UNCHANGED <<ledger, late, cards>>, groups' \in {groups, Completed(h)}
    PROVE  RowsAreKept(h)
  <1> DEFINE g == handlers[h].group
             state == IF groups[g].state \in {"cancelled", "purged"} THEN groups[g].state
                      ELSE "completed"
             row == [groups[g] EXCEPT !.state = state]
  <1>1. handlers[h] \in Handler /\ HandlerIsRight(h)
    BY DEF IInv, TypeOK
  <1>2. g \in Actions /\ groups[g].message # 0 /\ groups[g].pending = {}
    BY <1>1 DEF HandlerIsRight, AnswererIsRight, Handler
  <1>3. groups[g] \in Group /\ GroupIsRight(g) /\ Exists(g)
    BY <1>2 DEF IInv, TypeOK, GroupIsRight
  <1>4. /\ state \in {"completed", "purged", "cancelled"}
        /\ state = "cancelled" => groups[g].state = "cancelled"
    OBVIOUS
  <1>5. Completed(h) = [groups EXCEPT ![g] = row]
    BY DEF Completed
  <1> HIDE DEF state
  <1>6. /\ row \in Group /\ row.state = state /\ row.items = groups[g].items
        /\ row.pending = groups[g].pending /\ row.message = groups[g].message
    BY <1>3, <1>4 DEF Group
  <1> HIDE DEF row
  <1> QED BY <1>2, <1>3, <1>4, <1>5, <1>6, OneRow DEF GroupIsRight

\* A step of one handler that writes no store but the groups.
LEMMA GroupStep ==
    ASSUME IInv, NEW h \in Handlers, RowsAreKept(h),
           UNCHANGED <<ledger, late, cards, claims, working>>,
           handlers' \in [Handlers -> Handler],
           \A k \in Handlers \ {h} : handlers'[k] = handlers[k],
           HandlerIsRight(h)', ToCreate(h)' = {}, ChatKept(h),
           inflight' \subseteq Handlers, callbackKey' \in 0..MaxCards,
           active' \in 0..MaxCards, spoken' \in 0..MaxCards,
           answers' \in 0..MaxAnswers, faults' \in 0..MaxFaults,
           handlers[h].kind # "tap" \/ handlers[h].pc \notin {"claiming", "deciding"},
           handlers'[h].pc \notin {"removing", "creating", "retrying"},
           handlers'[h].pc = "sending" => handlers[h].pc = "creating"
    PROVE  IInv'
  <1>1. TypeOK'
    BY DEF RowsAreKept, IInv, TypeOK
  <1>2. Grows /\ \A g \in Actions : GroupIsRight(g)'
    BY DEF RowsAreKept
  <1>3. \A m \in Messages : MessageIsRight(m)'
    BY <1>1, <1>2, MessageStaysRight
  <1>4. CardsComeInOrder'
    <2>1. Sent' = Sent
      BY DEF Sent
    <2> QED BY <2>1, OrderStays
  <1>5. ASSUME NEW k \in Handlers \ {h}
        PROVE  (\A g \in ToCreate(k) : ~Exists(g)') /\ ToCreate(h)' \cap ToCreate(k) = {}
    BY DEF RowsAreKept
  <1>6. StillWorks(h) /\ \A m \in Messages : working'[m] \in {0, working[m]} \ {h}
    BY NotWorking
  <1> QED BY <1>1, <1>2, <1>3, <1>4, <1>5, <1>6, HandlerStep DEF Unmoved

LEMMA GroupEnds ==
    ASSUME IInv, NEW h \in Handlers, RowsAreKept(h), Ends(h),
           UNCHANGED <<ledger, late, cards, claims, working>>,
           active' \in 0..MaxCards, spoken' \in 0..MaxCards,
           answers' \in 0..MaxAnswers, faults' \in 0..MaxFaults,
           handlers[h].kind # "tap" \/ handlers[h].pc \notin {"claiming", "deciding"}
    PROVE  IInv'
  <1>1. /\ handlers' \in [Handlers -> Handler] /\ handlers'[h] = Idle /\ Leave(h)
        /\ \A k \in Handlers \ {h} : handlers'[k] = handlers[k]
    BY EndsType DEF IInv
  <1>2. /\ ChatKept(h) /\ h \notin inflight'
        /\ inflight' \subseteq Handlers /\ callbackKey' \in 0..MaxCards
    BY <1>1, LeaveChat
  <1>3. HandlerIsRight(h)' /\ ToCreate(h)' = {} /\ handlers'[h].pc = "idle"
    BY <1>1, <1>2, IdleIsRight, IdleHandler
  <1> QED BY <1>1, <1>2, <1>3, GroupStep

LEMMA CreateGroupInv == ASSUME IInv, NEW h \in Handlers, CreateGroup(h) PROVE IInv'
  <1> DEFINE g == handlers[h].group
  <1>1. /\ handlers[h].pc = "creating" /\ groups' = Created(h) /\ HandlerIsRight(h)
        /\ handlers[h] \in Handler /\ handlers[h].kind \notin {"tap", "none"}
        /\ UNCHANGED <<ledger, late, cards, claims, shell, working, chat, counts>>
    BY DEF CreateGroup, IInv, TypeOK, HandlerIsRight, StepsOfKinds
  <1>2. /\ RowsAreKept(h) /\ g \in Actions /\ groups'[g].state # "absent"
        /\ groups'[g].items = handlers[h].shown
    BY <1>1, CreatedRows
  <1>3. /\ handlers' \in [Handlers -> Handler] /\ handlers'[h].pc = "sending"
        /\ \A k \in Handlers \ {h} : handlers'[k] = handlers[k]
        /\ handlers'[h].kind = handlers[h].kind /\ handlers'[h].group = g
        /\ handlers'[h].shown = handlers[h].shown /\ handlers'[h].card = handlers[h].card
    BY GoesType DEF CreateGroup, IInv
  <1>4. HandlerIsRight(h)' /\ ToCreate(h)' = {}
    <2>1. StepsOfKinds(h)' /\ AnswererIsRight(h)' /\ ClaimIsRight(h)' /\ ToCreate(h)' = {}
      BY <1>1, <1>3 DEF HandlerIsRight, StepsOfKinds, AnswererIsRight, ClaimIsRight, Work, ToCreate
    <2>2. ChatIsRight(h)'
      BY <1>1, <1>3 DEF HandlerIsRight, ChatIsRight, chat
    <2>3. handlers[h].shown # {} /\ \A a \in handlers[h].shown : Proposed(a)
      BY <1>1 DEF HandlerIsRight, SenderIsRight
    <2>4. SenderIsRight(h)'
      BY <1>1, <1>2, <1>3, <2>3 DEF SenderIsRight, Exists, Proposed
    <2> QED BY <2>1, <2>2, <2>4 DEF HandlerIsRight
  <1> HIDE DEF g
  <1> QED BY <1>1, <1>2, <1>3, <1>4, StayInChat, GroupStep
          DEF IInv, TypeOK, chat, counts, shell

LEMMA BindSentInv == ASSUME IInv, NEW h \in Handlers, BindSent(h) PROVE IInv'
  BY BoundRows, GroupEnds DEF BindSent, IInv, TypeOK, counts, shell

LEMMA CancelInv == ASSUME IInv, NEW h \in Handlers, Cancel(h) PROVE IInv'
  BY CancelledRows, GroupEnds DEF Cancel, IInv, TypeOK, counts, shell

LEMMA CompleteInv == ASSUME IInv, NEW h \in Handlers, Complete(h) PROVE IInv'
  <1>1. active' \in 0..MaxCards /\ spoken' \in 0..MaxCards
    BY RemovedType DEF Complete, IInv, TypeOK, Handler
  <1> QED BY <1>1, CompletedRows, GroupEnds DEF Complete, IInv, TypeOK, counts

LEMMA BindTappedInv == ASSUME IInv, NEW h \in Handlers, BindTapped(h) PROVE IInv'
  <1> DEFINE g == handlers[h].group
             m == handlers[h].card
  <1>1. /\ handlers[h].pc = "binding" /\ handlers[h].kind = "tap" /\ groups' = Bound(h)
        /\ handlers[h] \in Handler /\ HandlerIsRight(h)
        /\ UNCHANGED <<ledger, late, cards, claims, shell, working, counts>>
    BY DEF BindTapped, IInv, TypeOK
  <1>2. /\ RowsAreKept(h) /\ g \in Actions
        /\ Bindable(g, m) => /\ groups'[g].message # 0 /\ groups'[g].items = groups[g].items
                             /\ groups'[g].pending = groups[g].pending
    BY <1>1, BoundRows
  <1>3. CASE Bindable(g, m)
    <2> DEFINE next == [handlers[h] EXCEPT !.pc = "checking",
                            !.captured = groups[g].pending, !.todo = groups[g].pending]
    <2>1. /\ next \in Handler /\ next.kind = "tap" /\ next.pc = "checking"
          /\ next.card = m /\ next.group = g /\ next.resolved = handlers[h].resolved
          /\ next.todo = groups[g].pending /\ next.captured = groups[g].pending
      BY <1>1, <1>2 DEF Handler, IInv, TypeOK, Group
    <2>2. handlers' = [handlers EXCEPT ![h] = next] /\ UNCHANGED chat
      BY <1>3 DEF BindTapped
    <2> HIDE DEF next
    <2>3. /\ handlers' \in [Handlers -> Handler] /\ handlers'[h] = next
          /\ \A k \in Handlers \ {h} : handlers'[k] = handlers[k]
      BY <2>1, <2>2 DEF IInv, TypeOK
    <2>4. HandlerIsRight(h)' /\ ToCreate(h)' = {}
      BY <1>1, <1>2, <1>3, <2>1, <2>2, <2>3, GroupIsRead DEF RowsAreKept
    <2> QED BY <1>1, <1>2, <2>1, <2>2, <2>3, <2>4, StayInChat, GroupStep
            DEF IInv, TypeOK, chat, counts, shell
  <1>4. CASE ~Bindable(g, m)
    <2>1. Ends(h)
      BY <1>4 DEF BindTapped
    <2> QED BY <1>1, <1>2, <2>1, GroupEnds DEF IInv, TypeOK, counts, shell
  <1> QED BY <1>3, <1>4

LEMMA MarkResolvedInv == ASSUME IInv, NEW h \in Handlers, MarkResolved(h) PROVE IInv'
  <1> DEFINE g == handlers[h].group
             left == IF IsOpen(h) THEN Left(h) ELSE handlers[h].captured
  <1>1. /\ handlers[h].pc = "marking" /\ groups' = Marked(h)
        /\ handlers[h] \in Handler /\ HandlerIsRight(h) /\ handlers[h].kind \notin {"turn", "none"}
        /\ UNCHANGED <<ledger, late, cards, claims, shell, working, counts>>
    BY DEF MarkResolved, IInv, TypeOK, HandlerIsRight, StepsOfKinds
  <1>2. /\ RowsAreKept(h) /\ g \in Actions /\ g # 0
        /\ groups'[g].pending = IF IsOpen(h) THEN Left(h) ELSE groups[g].pending
    BY <1>1, MarkedRows, BoundsAssumption
  <1>3. /\ groups[g].pending \subseteq handlers[h].captured /\ groups[g].message # 0
        /\ Exists(g) /\ handlers[h].card \in Messages
        /\ handlers[h].kind = "tap" => handlers[h].card \in Sent /\ g = cards[handlers[h].card].group
    BY <1>1, <1>2 DEF HandlerIsRight, AnswererIsRight, IInv, GroupIsRight
  <1>4. CASE left = {}
    <2> DEFINE next == Onward(h, "completing")
    <2>1. /\ next \in Handler /\ next.pc = "completing" /\ next.kind = handlers[h].kind
          /\ next.card = handlers[h].card /\ next.group = g
      BY <1>1, IdleHandler DEF Onward, Handler
    <2>2. handlers' = [handlers EXCEPT ![h] = next] /\ UNCHANGED chat
      BY <1>4 DEF MarkResolved
    <2> HIDE DEF next
    <2>3. /\ handlers' \in [Handlers -> Handler] /\ handlers'[h] = next
          /\ \A k \in Handlers \ {h} : handlers'[k] = handlers[k]
      BY <2>1, <2>2 DEF IInv, TypeOK
    <2>4. groups'[g].pending = {} /\ groups'[g].message # 0
      BY <1>2, <1>3, <1>4 DEF RowsAreKept, Grows
    <2>5. HandlerIsRight(h)' /\ ToCreate(h)' = {}
      <3>1. StepsOfKinds(h)' /\ SenderIsRight(h)' /\ ClaimIsRight(h)' /\ ToCreate(h)' = {}
        BY <1>1, <2>1, <2>3 DEF StepsOfKinds, SenderIsRight, ClaimIsRight, ToCreate
      <3>2. ChatIsRight(h)'
        BY <1>1, <2>1, <2>2, <2>3 DEF HandlerIsRight, ChatIsRight, chat
      <3>3. AnswererIsRight(h)'
        <4>1. Sent' = Sent
          BY <1>1 DEF Sent
        <4> QED BY <1>1, <1>2, <1>3, <2>1, <2>3, <2>4, <4>1 DEF AnswererIsRight, Work
      <3> QED BY <3>1, <3>2, <3>3 DEF HandlerIsRight
    <2> QED BY <1>1, <1>2, <2>1, <2>2, <2>3, <2>5, StayInChat, GroupStep
            DEF IInv, TypeOK, chat, counts, shell
  <1>5. CASE left # {}
    <2>1. Ends(h)
      BY <1>5 DEF MarkResolved
    <2> QED BY <1>1, <1>2, <2>1, GroupEnds DEF IInv, TypeOK, counts, shell
  <1> QED BY <1>4, <1>5

LEMMA QueryFailsInv == ASSUME IInv, NEW h \in Handlers, QueryFails(h) PROVE IInv'
  <1>1. /\ Ends(h) /\ faults' \in 0..MaxFaults /\ answers' \in 0..MaxAnswers
        /\ active' \in 0..MaxCards /\ spoken' \in 0..MaxCards
        /\ UNCHANGED <<ledger, late, cards, claims, working>>
    BY CountsType DEF QueryFails, IInv, TypeOK, shell
  <1>2. CASE handlers[h].pc = "reading" /\ UNCHANGED groups
    BY <1>1, <1>2, EndsInv DEF stores
  <1>3. CASE handlers[h].pc = "creating" /\ groups' \in {groups, Created(h)}
    BY <1>1, <1>3, CreatedRows, GroupEnds
  <1>4. CASE handlers[h].pc = "binding" /\ groups' \in {groups, Bound(h)}
    BY <1>1, <1>4, BoundRows, GroupEnds
  <1>5. CASE handlers[h].pc = "marking" /\ groups' \in {groups, Marked(h)}
    BY <1>1, <1>5, MarkedRows, GroupEnds
  <1>6. CASE handlers[h].pc = "completing" /\ groups' \in {groups, Completed(h)}
    BY <1>1, <1>6, CompletedRows, GroupEnds
  <1>7. CASE handlers[h].pc = "cancelling" /\ groups' \in {groups, Cancelled(h)}
    BY <1>1, <1>7, CancelledRows, GroupEnds
  <1> QED BY <1>2, <1>3, <1>4, <1>5, <1>6, <1>7 DEF QueryFails

-----------------------------------------------------------------------------
(* Steps that write a claim                                                *)

\* The end of a run lets those go who waited for it.
LEMMA SettledType ==
    ASSUME IInv, NEW h \in Handlers, NEW completed \in BOOLEAN, NEW next \in Handler,
           Settled(h, completed, next)
    PROVE  /\ handlers' \in [Handlers -> Handler] /\ handlers'[h] = next
           /\ \A k \in Handlers \ {h} :
                  Unmoved(k) /\ (handlers'[k].pc = "waiting" => handlers'[k].waits # h)
           /\ working' \in [Messages -> Handlers \cup {0}]
           /\ \A m \in Messages : working'[m] \in {0, working[m]} \ {h}
  <1> DEFINE pc == IF completed THEN "repeated" ELSE "registering"
             Freed(k) == [handlers[k] EXCEPT !.pc = pc, !.waits = 0]
  <1>1. pc \in {"repeated", "registering"}
    OBVIOUS
  <1>2. handlers' = [k \in Handlers |->
           IF k = h THEN next
           ELSE IF handlers[k].pc = "waiting" /\ handlers[k].waits = h THEN Freed(k)
           ELSE handlers[k]]
    BY DEF Settled
  <1> HIDE DEF pc
  <1>3. ASSUME NEW k \in Handlers
        PROVE  /\ Freed(k) \in Handler /\ Freed(k).pc = pc
               /\ Freed(k).kind = handlers[k].kind /\ Freed(k).card = handlers[k].card
               /\ Freed(k).group = handlers[k].group /\ Freed(k).todo = handlers[k].todo
               /\ Freed(k).captured = handlers[k].captured
               /\ Freed(k).resolved = handlers[k].resolved
               /\ Freed(k).retry = handlers[k].retry
    <2>1. handlers[k] \in Handler
      BY DEF IInv, TypeOK
    <2> QED BY <1>1, <2>1 DEF Handler
  <1> HIDE DEF Freed
  <1>4. handlers' \in [Handlers -> Handler] /\ handlers'[h] = next
    BY <1>2, <1>3 DEF IInv, TypeOK
  <1>5. ASSUME NEW k \in Handlers \ {h}
        PROVE  Unmoved(k) /\ (handlers'[k].pc = "waiting" => handlers'[k].waits # h)
    BY <1>1, <1>2, <1>3 DEF Unmoved, Released
  <1>6. working' = [m \in Messages |-> IF working[m] = h THEN 0 ELSE working[m]]
    BY DEF Settled
  <1>7. h # 0
    BY BoundsAssumption
  <1> QED BY <1>4, <1>5, <1>6, <1>7 DEF IInv, TypeOK

\* A step of a tap that writes the claim of its card.
LEMMA ClaimStep ==
    ASSUME IInv, NEW h \in Handlers, NEW m \in Messages,
           UNCHANGED <<ledger, late, groups, cards, counts>> \/
               (UNCHANGED <<ledger, late, groups, cards, answers>> /\ Fault),
           claims' \in [Messages -> Claim],
           \A n \in Messages \ {m} : claims'[n] = claims[n],
           claims'[m].state # "free" => m \in Sent,
           claims'[m].state = "done" => \A a \in cards[m].shown : Settles(a),
           \A k \in Handlers \ {h} :
               claims[m] = [state |-> "held", holder |-> k] => claims'[m] = claims[m],
           handlers' \in [Handlers -> Handler],
           \A k \in Handlers \ {h} : Unmoved(k),
           HandlerIsRight(h)', ToCreate(h)' = {}, ChatKept(h),
           inflight' \subseteq Handlers, callbackKey' \in 0..MaxCards,
           active' \in 0..MaxCards, spoken' \in 0..MaxCards,
           StillWorks(h) \/ \A k \in Handlers \ {h} :
               handlers'[k].pc = "waiting" => handlers'[k].waits # h,
           working' \in [Messages -> Handlers \cup {0}],
           \A n \in Messages : \/ working'[n] \in {0, working[n]} \ {h}
                               \/ working'[n] = h /\ Works(h, n)',
           handlers'[h].pc \notin {"removing", "creating", "sending", "retrying"}
    PROVE  IInv'
  <1>1. /\ UNCHANGED <<ledger, late, groups, cards>>
        /\ answers' \in 0..MaxAnswers /\ faults' \in 0..MaxFaults
    BY CountsType DEF IInv, TypeOK, counts
  <1>2. TypeOK'
    BY <1>1 DEF IInv, TypeOK
  <1>3. Grows
    BY <1>1 DEF Grows, Settles, Proposed, Exists, IInv, TypeOK
  <1>4. \A g \in Actions : GroupIsRight(g)'
    BY <1>1, <1>2, <1>3, GroupStaysRight
  <1>5. Sent' = Sent
    BY <1>1 DEF Sent
  <1>6. ASSUME NEW n \in Messages PROVE MessageIsRight(n)'
    <2>1. CASE n = m
      <3>1. MessageIsRight(m)
        BY DEF IInv
      <3> QED BY <1>1, <1>5, <2>1, <3>1 DEF MessageIsRight, Proposed, Exists, Settles
    <2>2. CASE n # m
      BY <1>1, <1>2, <1>3, <2>2, MessageStaysRight
    <2> QED BY <2>1, <2>2
  <1>7. CardsComeInOrder'
    <2>1. ASSUME NEW k \in Handlers
          PROVE  /\ handlers'[k].pc \in {"removing", "creating", "sending"} =>
                        handlers[k].pc \in {"removing", "creating", "sending"}
                 /\ handlers'[k].pc = "retrying" => handlers[k].pc = "retrying"
      BY DEF Unmoved, Released
    <2> QED BY <1>5, <2>1, OrderStays
  <1>8. ASSUME NEW k \in Handlers \ {h}
        PROVE  /\ \A g \in ToCreate(k) : ~Exists(g)'
               /\ ToCreate(h)' \cap ToCreate(k) = {}
               /\ handlers[k].kind = "tap" /\ handlers[k].pc = "deciding" /\ ~handlers[k].lapsed =>
                      claims'[handlers[k].card] = claims[handlers[k].card]
    <2>1. \A g \in ToCreate(k) : ~Exists(g)'
      BY <1>1, ToCreateIsOpen DEF Exists
    <2>2. ASSUME handlers[k].kind = "tap", handlers[k].pc = "deciding", ~handlers[k].lapsed
          PROVE  claims'[handlers[k].card] = claims[handlers[k].card]
      <3>1. /\ claims[handlers[k].card] = [state |-> "held", holder |-> k]
            /\ handlers[k].card \in Messages
        BY <2>2 DEF IInv, HandlerIsRight, ClaimIsRight, AnswererIsRight, Work
      <3> QED BY <3>1
    <2> QED BY <2>1, <2>2
  <1> QED BY <1>2, <1>3, <1>4, <1>6, <1>7, <1>8, HandlerStep

LEMMA ClaimCardInv == ASSUME IInv, NEW h \in Handlers, ClaimCard(h) PROVE IInv'
  <1> DEFINE m == handlers[h].card
  <1>1. /\ handlers[h].pc = "claiming" /\ HandlerIsRight(h) /\ handlers[h] \in Handler
        /\ handlers[h].kind = "tap" /\ m \in Messages /\ m \in Sent /\ handlers[h].card = m
        /\ UNCHANGED <<ledger, late, groups, cards, counts>>
    BY TapAtWork DEF ClaimCard, IInv, TypeOK
  <1>2. CASE Claimable(m)
    <2>1. /\ claims' = [claims EXCEPT ![m] = [state |-> "held", holder |-> h]]
          /\ Goes(h, "deciding") /\ UNCHANGED <<shell, working, chat>>
      BY <1>2 DEF ClaimCard
    <2> HIDE DEF m
    <2>2. /\ claims' \in [Messages -> Claim] /\ \A n \in Messages \ {m} : claims'[n] = claims[n]
          /\ claims'[m] = [state |-> "held", holder |-> h]
      BY <1>1, <2>1 DEF IInv, TypeOK, Claim
    <2>3. /\ handlers' \in [Handlers -> Handler] /\ handlers'[h].pc = "deciding"
          /\ \A k \in Handlers \ {h} : handlers'[k] = handlers[k]
          /\ handlers'[h].kind = handlers[h].kind /\ handlers'[h].group = handlers[h].group
          /\ handlers'[h].resolved = handlers[h].resolved /\ handlers'[h].card = m
          /\ handlers'[h].todo = handlers[h].todo /\ handlers'[h].retry = handlers[h].retry
          /\ handlers'[h].captured = handlers[h].captured
      BY <1>1, <2>1, GoesType DEF IInv
    <2>4. HandlerIsRight(h)' /\ ToCreate(h)' = {}
      <3>1. StepsOfKinds(h)' /\ SenderIsRight(h)' /\ ClaimIsRight(h)' /\ ToCreate(h)' = {}
        BY <1>1, <2>2, <2>3 DEF StepsOfKinds, SenderIsRight, ClaimIsRight, ToCreate
      <3>2. ChatIsRight(h)'
        <4>1. ChatIsRight(h) /\ inflight' = inflight /\ callbackKey' = callbackKey
          BY <1>1, <2>1 DEF HandlerIsRight, chat
        <4> QED BY <1>1, <2>3, <4>1 DEF ChatIsRight
      <3>3. AnswererIsRight(h)'
        <4>1. Sent' = Sent
          BY <1>1 DEF Sent
        <4> QED BY <1>1, <2>3, <4>1 DEF HandlerIsRight, AnswererIsRight, Work, Settles, Proposed
      <3> QED BY <3>1, <3>2, <3>3 DEF HandlerIsRight
    <2>5. \A k \in Handlers \ {h} :
              claims[m] = [state |-> "held", holder |-> k] => claims'[m] = claims[m]
      BY <1>2 DEF Claimable
    <2>6. StillWorks(h)
      BY <1>1, <2>3 DEF StillWorks
    <2>7. ASSUME NEW n \in Messages
          PROVE  working'[n] \in {0, working[n]} \ {h} \/ (working'[n] = h /\ Works(h, n)')
      <3>1. working'[n] = working[n] /\ (working[n] # 0 => Works(working[n], n))
        BY <2>1 DEF IInv
      <3>2. h # 0
        BY BoundsAssumption
      <3> QED BY <1>1, <2>3, <3>1, <3>2 DEF Works
    <2>8. /\ ChatKept(h) /\ inflight' \subseteq Handlers /\ callbackKey' \in 0..MaxCards
          /\ active' \in 0..MaxCards /\ spoken' \in 0..MaxCards
          /\ working' \in [Messages -> Handlers \cup {0}]
      <3>1. UNCHANGED chat /\ UNCHANGED shell /\ UNCHANGED working
        BY <2>1
      <3> QED BY <3>1, StayInChat DEF IInv, TypeOK, chat, shell
    <2> QED BY <1>1, <2>2, <2>3, <2>4, <2>5, <2>6, <2>7, <2>8, ClaimStep DEF Unmoved
  <1>3. CASE ~Claimable(m)
    <2>1. /\ Settled(h, TRUE, Idle) /\ Leave(h) /\ Removed(m) /\ UNCHANGED claims
      BY <1>3 DEF ClaimCard
    <2>2. active' \in 0..MaxCards /\ spoken' \in 0..MaxCards
      BY <1>1, <2>1, RemovedType DEF IInv, Handler
    <2> HIDE DEF m
    <2>3. /\ handlers' \in [Handlers -> Handler] /\ handlers'[h] = Idle
          /\ \A k \in Handlers \ {h} :
                  Unmoved(k) /\ (handlers'[k].pc = "waiting" => handlers'[k].waits # h)
          /\ working' \in [Messages -> Handlers \cup {0}]
          /\ \A n \in Messages : working'[n] \in {0, working[n]} \ {h}
      BY <2>1, SettledType, IdleHandler
    <2>4. /\ ChatKept(h) /\ h \notin inflight'
          /\ inflight' \subseteq Handlers /\ callbackKey' \in 0..MaxCards
      BY <2>1, LeaveChat
    <2>5. HandlerIsRight(h)' /\ ToCreate(h)' = {} /\ handlers'[h].pc = "idle"
      BY <2>3, <2>4, IdleIsRight, IdleHandler
    <2>6. /\ claims' \in [Messages -> Claim] /\ claims' = claims
          /\ claims[m].state # "free" => m \in Sent
          /\ claims[m].state = "done" => \A a \in cards[m].shown : Settles(a)
      BY <1>1, <2>1 DEF IInv, TypeOK, MessageIsRight
    <2> QED BY <1>1, <2>2, <2>3, <2>4, <2>5, <2>6, ClaimStep
  <1> QED BY <1>2, <1>3

\* A tap that gives up lets go of everybody, whatever became of its claim.
LEMMA TapGivesUp ==
    ASSUME IInv, NEW h \in Handlers, handlers[h].pc \in {"claiming", "deciding"},
           handlers[h].kind = "tap",
           Settled(h, FALSE, Idle), Leave(h),
           UNCHANGED <<ledger, late, groups, cards, shell, answers>>, Fault,
           NEW claim \in Claim,
           claims' \in {claims, [claims EXCEPT ![handlers[h].card] = claim]},
           claim.state # "free" => handlers[h].card \in Sent,
           claim.state = "done" => \A a \in cards[handlers[h].card].shown : Settles(a),
           claims' # claims => \A k \in Handlers \ {h} :
               claims[handlers[h].card] # [state |-> "held", holder |-> k]
    PROVE  IInv'
  <1> DEFINE m == handlers[h].card
  <1>1. m \in Messages /\ m = handlers[h].card
    BY DEF IInv, HandlerIsRight, AnswererIsRight, Work
  <1> HIDE DEF m
  <1>2. /\ handlers' \in [Handlers -> Handler] /\ handlers'[h] = Idle
        /\ \A k \in Handlers \ {h} :
                Unmoved(k) /\ (handlers'[k].pc = "waiting" => handlers'[k].waits # h)
        /\ working' \in [Messages -> Handlers \cup {0}]
        /\ \A n \in Messages : working'[n] \in {0, working[n]} \ {h}
    BY SettledType, IdleHandler
  <1>3. /\ ChatKept(h) /\ h \notin inflight'
        /\ inflight' \subseteq Handlers /\ callbackKey' \in 0..MaxCards
    BY LeaveChat
  <1>4. HandlerIsRight(h)' /\ ToCreate(h)' = {} /\ handlers'[h].pc = "idle"
    BY <1>2, <1>3, IdleIsRight, IdleHandler
  <1>5. active' \in 0..MaxCards /\ spoken' \in 0..MaxCards
    BY DEF IInv, TypeOK, shell
  <1>6. /\ claims' \in [Messages -> Claim]
        /\ \A n \in Messages \ {m} : claims'[n] = claims[n]
        /\ claims'[m] = claims[m] \/ (claims'[m] = claim /\ claims' # claims)
    BY <1>1 DEF IInv, TypeOK
  <1>7. MessageIsRight(m)
    BY <1>1 DEF IInv
  <1>8. /\ claims'[m].state # "free" => m \in Sent
        /\ claims'[m].state = "done" => \A a \in cards[m].shown : Settles(a)
        /\ \A k \in Handlers \ {h} :
               claims[m] = [state |-> "held", holder |-> k] => claims'[m] = claims[m]
    BY <1>1, <1>6, <1>7 DEF MessageIsRight
  <1> QED BY <1>1, <1>2, <1>3, <1>4, <1>5, <1>6, <1>8, ClaimStep

LEMMA ClaimFailsInv == ASSUME IInv, NEW h \in Handlers, ClaimFails(h) PROVE IInv'
  <1> DEFINE claim == [state |-> "held", holder |-> 0]
  <1>1. /\ handlers[h].pc = "claiming" /\ handlers[h].kind = "tap" /\ handlers[h].card \in Sent
        /\ Settled(h, FALSE, Idle) /\ Leave(h) /\ Fault
        /\ UNCHANGED <<ledger, late, groups, cards, shell, answers>>
    BY TapAtWork DEF ClaimFails
  <1>2. claim \in Claim /\ claim.state = "held"
    BY DEF Claim
  <1>3. /\ claims' \in {claims, [claims EXCEPT ![handlers[h].card] = claim]}
        /\ claims' # claims => Claimable(handlers[h].card)
    BY DEF ClaimFails
  <1>4. claims' # claims => \A k \in Handlers \ {h} :
            claims[handlers[h].card] # [state |-> "held", holder |-> k]
    BY <1>3 DEF Claimable
  <1> HIDE DEF claim
  <1> QED BY <1>1, <1>2, <1>3, <1>4, TapGivesUp

\* Closing a claim touches that of its holder only.
LEMMA ClosedClaims ==
    ASSUME IInv, NEW h \in Handlers, NEW state \in {"done", "free"}, handlers[h].card \in Messages
    PROVE  \/ Closed(h, state) = claims
           \/ /\ Closed(h, state) = [claims EXCEPT ![handlers[h].card] =
                                         [state |-> state, holder |-> 0]]
              /\ handlers[h].card \in Sent
              /\ \A k \in Handlers \ {h} :
                     claims[handlers[h].card] # [state |-> "held", holder |-> k]
  <1>1. CASE claims[handlers[h].card] \in {[state |-> s, holder |-> h] : s \in {"held", "stale"}}
    <2>1. /\ claims[handlers[h].card].state \in {"held", "stale"}
          /\ claims[handlers[h].card].holder = h
      BY <1>1
    <2>2. handlers[h].card \in Sent
      BY <2>1 DEF IInv, MessageIsRight
    <2> QED BY <1>1, <2>1, <2>2 DEF Closed
  <1>2. CASE claims[handlers[h].card] \notin {[state |-> s, holder |-> h] : s \in {"held", "stale"}}
    BY <1>2 DEF Closed
  <1> QED BY <1>1, <1>2

\* A tap that is through without a failure has settled its card.
LEMMA ThroughSettles ==
    ASSUME IInv, NEW h \in Handlers, Through(h), handlers[h].kind = "tap"
    PROVE  /\ handlers[h].card \in Messages /\ handlers[h].pc = "deciding"
           /\ ~handlers[h].retry => \A a \in cards[handlers[h].card].shown : Settles(a)
  BY DEF IInv, HandlerIsRight, AnswererIsRight, Work, Through

LEMMA CloseClaimFailsInv == ASSUME IInv, NEW h \in Handlers, CloseClaimFails(h) PROVE IInv'
  <1>1. /\ Through(h) /\ handlers[h].kind = "tap"
        /\ handlers[h].pc = "deciding" /\ handlers[h].card \in Messages
        /\ Settled(h, FALSE, Idle) /\ Leave(h) /\ Fault
        /\ UNCHANGED <<ledger, late, groups, cards, shell, answers>>
        /\ ~handlers[h].retry => \A a \in cards[handlers[h].card].shown : Settles(a)
    BY ThroughSettles DEF CloseClaimFails
  <1>2. PICK state \in {"done", "free"} :
            /\ claims' \in {claims, Closed(h, state)}
            /\ state = "done" => ~handlers[h].retry
    BY DEF CloseClaimFails
  <1> DEFINE claim == [state |-> state, holder |-> 0]
  <1>3. claim \in Claim /\ claim.state = state
    BY DEF Claim
  <1>4. \/ claims' = claims
        \/ /\ claims' = [claims EXCEPT ![handlers[h].card] = claim]
           /\ handlers[h].card \in Sent
           /\ \A k \in Handlers \ {h} :
                  claims[handlers[h].card] # [state |-> "held", holder |-> k]
    BY <1>1, <1>2, ClosedClaims
  <1>5. CASE claims' = claims
    <2>1. NoClaim \in Claim /\ NoClaim.state = "free"
      BY DEF NoClaim, Claim
    <2> QED BY <1>1, <1>5, <2>1, TapGivesUp
  <1> HIDE DEF claim
  <1>6. CASE claims' # claims
    BY <1>1, <1>2, <1>3, <1>4, <1>6, TapGivesUp
  <1> QED BY <1>5, <1>6

LEMMA CloseClaimInv == ASSUME IInv, NEW h \in Handlers, CloseClaim(h) PROVE IInv'
  <1> DEFINE m == handlers[h].card
             g == handlers[h].group
             marks == g # 0
             ok == AllResolved(h)
             state == IF ok THEN "done" ELSE "free"
             claim == [state |-> state, holder |-> 0]
             next == IF marks THEN Marking(h) ELSE Idle
  <1>1. /\ handlers[h].kind = "tap" /\ handlers[h].pc = "deciding" /\ m \in Messages
        /\ handlers[h] \in Handler /\ HandlerIsRight(h) /\ m = handlers[h].card
        /\ g = handlers[h].group
        /\ ok => \A a \in cards[m].shown : Settles(a)
        /\ UNCHANGED <<ledger, late, groups, cards, counts>>
    BY ThroughSettles DEF CloseClaim, IInv, TypeOK, AllResolved
  <1>2. /\ claims' = Closed(h, state) /\ Settled(h, ok, next)
        /\ IF marks THEN UNCHANGED chat ELSE Leave(h)
        /\ (Removed(m) \/ UNCHANGED shell)
    BY DEF CloseClaim
  <1>3. /\ Marking(h) \in Handler /\ Marking(h).pc = "marking" /\ Marking(h).kind = "tap"
        /\ Marking(h).card = m /\ Marking(h).group = g
        /\ Marking(h).captured = handlers[h].captured /\ Marking(h).resolved = handlers[h].resolved
    BY <1>1, IdleHandler DEF Marking, Onward, Handler
  <1>4. ok \in BOOLEAN /\ next \in Handler
    BY <1>3, IdleHandler DEF AllResolved
  <1>5. /\ next = IF marks THEN Marking(h) ELSE Idle
        /\ marks <=> g # 0
        /\ claim \in Claim /\ claim.state = state
        /\ state \in {"done", "free"} /\ (state = "done" => ok)
    BY DEF Claim
  <1>6. \/ claims' = claims
        \/ /\ claims' = [claims EXCEPT ![m] = claim] /\ m \in Sent
           /\ \A k \in Handlers \ {h} : claims[m] # [state |-> "held", holder |-> k]
    BY <1>1, <1>2, <1>5, ClosedClaims
  <1> HIDE DEF m, g, ok, state, claim, next, marks
  <1>7. active' \in 0..MaxCards /\ spoken' \in 0..MaxCards
    <2>1. m \in 0..MaxCards
      BY <1>1, BoundsAssumption DEF Messages
    <2> QED BY <1>2, <2>1, RemovedType DEF IInv, TypeOK, shell
  <1>8. /\ handlers' \in [Handlers -> Handler] /\ handlers'[h] = next
        /\ \A k \in Handlers \ {h} :
                Unmoved(k) /\ (handlers'[k].pc = "waiting" => handlers'[k].waits # h)
        /\ working' \in [Messages -> Handlers \cup {0}]
        /\ \A n \in Messages : working'[n] \in {0, working[n]} \ {h}
    BY <1>2, <1>4, SettledType
  <1>9. /\ HandlerIsRight(h)' /\ ToCreate(h)' = {} /\ ChatKept(h)
        /\ handlers'[h].pc \in {"idle", "marking"}
        /\ inflight' \subseteq Handlers /\ callbackKey' \in 0..MaxCards
    <2>1. CASE ~marks
      <3>1. Leave(h) /\ handlers'[h] = Idle
        BY <1>2, <1>5, <1>8, <2>1
      <3>2. /\ ChatKept(h) /\ h \notin inflight'
            /\ inflight' \subseteq Handlers /\ callbackKey' \in 0..MaxCards
        BY <3>1, LeaveChat
      <3> QED BY <3>1, <3>2, IdleIsRight, IdleHandler
    <2>2. CASE marks
      <3>1. UNCHANGED chat /\ handlers'[h] = Marking(h) /\ g # 0
        BY <1>2, <1>5, <1>8, <2>2
      <3>2. /\ ChatKept(h) /\ inflight' \subseteq Handlers /\ callbackKey' \in 0..MaxCards
        BY <3>1, StayInChat DEF IInv, TypeOK, chat
      <3>3. StepsOfKinds(h)' /\ SenderIsRight(h)' /\ ClaimIsRight(h)' /\ ToCreate(h)' = {}
        BY <1>3, <3>1 DEF StepsOfKinds, SenderIsRight, ClaimIsRight, ToCreate
      <3>4. ChatIsRight(h)'
        BY <1>1, <1>3, <3>1 DEF HandlerIsRight, ChatIsRight, chat
      <3>5. AnswererIsRight(h)'
        <4>1. Sent' = Sent
          BY <1>1 DEF Sent
        <4> QED BY <1>1, <1>3, <3>1, <4>1 DEF HandlerIsRight, AnswererIsRight, Work, Settles
      <3> QED BY <1>3, <3>1, <3>2, <3>3, <3>4, <3>5 DEF HandlerIsRight
    <2> QED BY <2>1, <2>2
  <1>10. /\ claims' \in [Messages -> Claim]
         /\ \A n \in Messages \ {m} : claims'[n] = claims[n]
         /\ claims'[m].state # "free" => m \in Sent
         /\ claims'[m].state = "done" => \A a \in cards[m].shown : Settles(a)
         /\ \A k \in Handlers \ {h} :
                claims[m] = [state |-> "held", holder |-> k] => claims'[m] = claims[m]
    <2>1. MessageIsRight(m) /\ claims \in [Messages -> Claim]
      BY <1>1 DEF IInv, TypeOK
    <2>2. CASE claims' = claims
      BY <2>1, <2>2 DEF MessageIsRight
    <2>3. CASE claims' # claims
      BY <1>1, <1>5, <1>6, <2>1, <2>3
    <2> QED BY <2>2, <2>3
  <1> QED BY <1>1, <1>7, <1>8, <1>9, <1>10, ClaimStep

-----------------------------------------------------------------------------
(* Steps that decide                                                       *)

\* A step of one handler that decides one proposal and writes nothing else but itself.
LEMMA DecisionStep ==
    ASSUME IInv, NEW h \in Handlers, NEW a \in Actions, NEW d \in {"confirmed", "rejected"},
           NEW next \in Handler,
           ledger' \in {ledger, Decided(a, d)},
           UNCHANGED <<late, groups, cards, claims, shell, working, chat, answers>>,
           faults' \in 0..MaxFaults,
           handlers' = [handlers EXCEPT ![h] = next],
           next.kind = handlers[h].kind, next.pc = handlers[h].pc, next.card = handlers[h].card,
           handlers[h].pc \in {"deciding", "withdrawing"},
           Grows => HandlerIsRight(h)'
    PROVE  IInv'
  <1>1. /\ handlers' \in [Handlers -> Handler] /\ handlers'[h] = next
        /\ \A k \in Handlers \ {h} : handlers'[k] = handlers[k]
    BY DEF IInv, TypeOK
  <1>2. /\ ledger' \in [Actions -> {"unproposed", "pending", "confirmed", "rejected"}]
        /\ \A b \in Actions : Proposed(b) <=> ledger'[b] # "unproposed"
        /\ \A b \in Actions : ledger[b] \in {"confirmed", "rejected"} => ledger'[b] = ledger[b]
    BY DecidedLedger DEF IInv
  <1>3. TypeOK'
    BY <1>1, <1>2 DEF IInv, TypeOK, chat, shell
  <1>4. Grows
    BY <1>2 DEF Grows, Settles, Proposed, Exists
  <1>5. /\ \A g \in Actions : GroupIsRight(g)'
        /\ \A m \in Messages : MessageIsRight(m)'
    BY <1>3, <1>4, GroupStaysRight, MessageStaysRight
  <1>6. CardsComeInOrder'
    <2>1. Sent' = Sent
      BY DEF Sent
    <2> QED BY <1>1, <2>1, OrderStays
  <1>7. ASSUME NEW k \in Handlers \ {h}
        PROVE  (\A g \in ToCreate(k) : ~Exists(g)') /\ ToCreate(h)' \cap ToCreate(k) = {}
    BY <1>1, ToCreateIsOpen DEF Exists, ToCreate
  <1>8. StillWorks(h) /\ ChatKept(h)
    BY <1>1, StayInChat DEF StillWorks
  <1>9. ASSUME NEW m \in Messages
        PROVE  working'[m] \in {0, working[m]} \ {h} \/ (working'[m] = h /\ Works(h, m)')
    <2>1. working'[m] = working[m] /\ (working[m] # 0 => Works(working[m], m)) /\ h # 0
      BY BoundsAssumption DEF IInv
    <2> QED BY <1>1, <2>1 DEF Works
  <1> QED BY <1>1, <1>3, <1>4, <1>5, <1>6, <1>7, <1>8, <1>9, HandlerStep DEF Unmoved

LEMMA WithdrawInv == ASSUME IInv, NEW h \in Handlers, Withdraw(h) PROVE IInv'
  <1>1. PICK a \in handlers[h].todo :
          \/ /\ ledger' = Decided(a, "rejected")
             /\ handlers' = [handlers EXCEPT ![h].todo = @ \ {a},
                    ![h].retry = @ \/ Decided(a, "rejected")[a] # "rejected"]
             /\ UNCHANGED faults
          \/ /\ ledger' \in {ledger, Decided(a, "rejected")}
             /\ Fault
             /\ handlers' = [handlers EXCEPT ![h].todo = @ \ {a}, ![h].retry = TRUE]
    BY DEF Withdraw
  <1>2. /\ handlers[h].pc = "withdrawing" /\ handlers[h] \in Handler /\ HandlerIsRight(h)
        /\ a \in Actions /\ handlers[h].kind \notin {"tap", "none"}
        /\ UNCHANGED <<late, groups, cards, claims, shell, working, chat, answers>>
    BY DEF Withdraw, IInv, TypeOK, Handler, HandlerIsRight, StepsOfKinds
  <1>3. faults' \in 0..MaxFaults /\ ledger' \in {ledger, Decided(a, "rejected")}
    BY <1>1, CountsType DEF IInv
  <1>4. ASSUME NEW retry \in BOOLEAN,
               handlers' = [handlers EXCEPT ![h] = [handlers[h] EXCEPT
                                !.todo = handlers[h].todo \ {a}, !.retry = retry]],
               handlers[h].retry => retry, retry \/ ledger'[a] = "rejected"
        PROVE  IInv'
    <2> DEFINE next == [handlers[h] EXCEPT !.todo = handlers[h].todo \ {a}, !.retry = retry]
    <2>1. /\ next \in Handler /\ next.kind = handlers[h].kind /\ next.pc = handlers[h].pc
          /\ next.card = handlers[h].card /\ next.group = handlers[h].group
          /\ next.shown = handlers[h].shown /\ next.todo = handlers[h].todo \ {a}
          /\ next.retry = retry
      BY <1>2 DEF Handler
    <2>2. handlers' = [handlers EXCEPT ![h] = next]
      BY <1>4
    <2> HIDE DEF next
    <2>3. handlers'[h] = next
      BY <2>2 DEF IInv, TypeOK
    <2>4. ASSUME Grows PROVE HandlerIsRight(h)'
      <3>1. StepsOfKinds(h)' /\ AnswererIsRight(h)' /\ ClaimIsRight(h)'
        BY <1>2, <2>1, <2>3 DEF StepsOfKinds, AnswererIsRight, ClaimIsRight, Work
      <3>2. ChatIsRight(h)'
        BY <1>2, <2>1, <2>3 DEF HandlerIsRight, ChatIsRight, chat
      <3>3. /\ handlers[h].shown # {} /\ handlers[h].shown \subseteq Actions
            /\ \A b \in handlers[h].shown : Proposed(b)'
            /\ handlers[h].group # 0 =>
                   /\ groups'[handlers[h].group].state # "absent"
                   /\ groups'[handlers[h].group].items = handlers[h].shown
        BY <1>2, <2>4 DEF HandlerIsRight, SenderIsRight, Grows, Handler, Exists
      <3>4. \A b \in handlers[h].shown \ next.todo : retry \/ ledger'[b] = "rejected"
        BY <1>2, <1>4, <2>1, <2>4, <3>3 DEF HandlerIsRight, SenderIsRight, Grows
      <3>5. SenderIsRight(h)'
        BY <1>2, <2>1, <2>3, <3>3, <3>4 DEF SenderIsRight, Exists
      <3> QED BY <3>1, <3>2, <3>5 DEF HandlerIsRight
    <2> QED BY <1>2, <1>3, <2>1, <2>2, <2>4, DecisionStep
  <1>5. CASE /\ ledger' = Decided(a, "rejected")
             /\ handlers' = [handlers EXCEPT ![h].todo = @ \ {a},
                    ![h].retry = @ \/ Decided(a, "rejected")[a] # "rejected"]
    <2> DEFINE retry == handlers[h].retry \/ Decided(a, "rejected")[a] # "rejected"
    <2>1. retry \in BOOLEAN /\ (handlers[h].retry => retry) /\ (retry \/ ledger'[a] = "rejected")
      BY <1>2, <1>5 DEF Handler
    <2>2. handlers' = [handlers EXCEPT ![h] = [handlers[h] EXCEPT
                                !.todo = handlers[h].todo \ {a}, !.retry = retry]]
      BY <1>5
    <2> HIDE DEF retry
    <2> QED BY <1>4, <2>1, <2>2
  <1>6. CASE handlers' = [handlers EXCEPT ![h].todo = @ \ {a}, ![h].retry = TRUE]
    BY <1>4, <1>6
  <1> QED BY <1>1, <1>5, <1>6

\* What a decision, made or failed, leaves right of a handler that answers.
LEMMA DeciderIsRight ==
    ASSUME IInv, NEW h \in Handlers, handlers[h].pc = "deciding", NEW a \in handlers[h].todo,
           Grows, UNCHANGED <<groups, cards, claims, chat>>,
           handlers'[h].kind = handlers[h].kind, handlers'[h].pc = "deciding",
           handlers'[h].card = handlers[h].card, handlers'[h].group = handlers[h].group,
           handlers'[h].captured = handlers[h].captured,
           handlers'[h].lapsed = handlers[h].lapsed,
           handlers'[h].todo = handlers[h].todo \ {a},
           \/ /\ handlers'[h].resolved = handlers[h].resolved \cup {a}
              /\ handlers'[h].retry = handlers[h].retry /\ Settles(a)'
           \/ /\ handlers'[h].resolved = handlers[h].resolved /\ handlers'[h].retry
    PROVE  HandlerIsRight(h)'
  <1>1. /\ handlers[h] \in Handler /\ HandlerIsRight(h) /\ handlers[h].card \in Messages
        /\ handlers[h].todo \subseteq Actions /\ handlers[h].resolved \subseteq Actions
        /\ cards[handlers[h].card].shown \subseteq Actions
    BY DEF IInv, TypeOK, Handler, HandlerIsRight, AnswererIsRight, Work, Card
  <1>2. StepsOfKinds(h)' /\ SenderIsRight(h)' /\ ClaimIsRight(h)'
    BY <1>1 DEF HandlerIsRight, StepsOfKinds, SenderIsRight, ClaimIsRight
  <1>3. ChatIsRight(h)'
    BY <1>1 DEF HandlerIsRight, ChatIsRight, chat
  <1>4. \A b \in handlers'[h].resolved : Settles(b)'
    BY <1>1 DEF HandlerIsRight, AnswererIsRight, Work, Grows
  <1>5. \A b \in handlers'[h].todo : Proposed(b)'
    BY <1>1 DEF HandlerIsRight, AnswererIsRight, Work, Grows
  <1>6. handlers[h].kind = "tap" /\ ~handlers'[h].retry =>
            \A b \in cards[handlers[h].card].shown \ handlers'[h].todo : Settles(b)'
    BY <1>1 DEF HandlerIsRight, AnswererIsRight, Work, Grows
  <1>7. AnswererIsRight(h)'
    <2>1. Sent' = Sent
      BY DEF Sent
    <2> QED BY <1>1, <1>4, <1>5, <1>6, <2>1 DEF HandlerIsRight, AnswererIsRight, Work
  <1> QED BY <1>2, <1>3, <1>7 DEF HandlerIsRight

LEMMA DecideInv == ASSUME IInv, NEW h \in Handlers, Decide(h) PROVE IInv'
  <1> DEFINE a == Min(handlers[h].todo)
             d == Verdict(h, a)
             next == [handlers[h] EXCEPT !.todo = handlers[h].todo \ {a},
                                         !.resolved = handlers[h].resolved \cup {a}]
  <1>1. /\ handlers[h].pc = "deciding" /\ handlers[h] \in Handler /\ HandlerIsRight(h)
        /\ handlers[h].todo # {} /\ handlers[h].todo \subseteq Actions
        /\ UNCHANGED <<late, groups, cards, claims, shell, working, chat, counts>>
    BY DEF Decide, IInv, TypeOK, Handler
  <1>2. a \in handlers[h].todo /\ a \in Actions /\ Proposed(a)
    BY <1>1, MinOfActions DEF HandlerIsRight, AnswererIsRight, Work
  <1>3. d \in {"confirmed", "rejected"} /\ ledger' = Decided(a, d)
    BY DEF Verdict, Decide
  <1>4. /\ next \in Handler /\ next.kind = handlers[h].kind /\ next.pc = handlers[h].pc
        /\ next.card = handlers[h].card /\ next.group = handlers[h].group
        /\ next.captured = handlers[h].captured /\ next.lapsed = handlers[h].lapsed
        /\ next.todo = handlers[h].todo \ {a} /\ next.retry = handlers[h].retry
        /\ next.resolved = handlers[h].resolved \cup {a}
    BY <1>1, <1>2 DEF Handler
  <1>5. handlers' = [handlers EXCEPT ![h] = next]
    BY DEF Decide
  <1> HIDE DEF a, d, next
  <1>6. handlers'[h] = next
    BY <1>5 DEF IInv, TypeOK
  <1>7. ledger'[a] \in {"confirmed", "rejected"} \/ a \in late
    BY <1>2, <1>3, DecidedLedger DEF IInv
  <1>8. ASSUME Grows PROVE HandlerIsRight(h)'
    <2>1. UNCHANGED <<groups, cards, claims, chat>> /\ late' = late
      BY <1>1
    <2>2. \A b \in Actions : b = a => Settles(b)'
      BY <1>7, <2>1 DEF Settles
    <2> QED BY <1>1, <1>2, <1>4, <1>6, <1>7, <1>8, <2>1, <2>2, DeciderIsRight DEF Settles
  <1>9. faults' \in 0..MaxFaults /\ UNCHANGED answers
    BY <1>1 DEF IInv, TypeOK, counts
  <1> QED BY <1>1, <1>2, <1>3, <1>4, <1>5, <1>8, <1>9, DecisionStep

LEMMA DecideFailsInv == ASSUME IInv, NEW h \in Handlers, DecideFails(h) PROVE IInv'
  <1> DEFINE a == Min(handlers[h].todo)
             d == Verdict(h, a)
             next == FailedItem(handlers[h], a)
  <1>1. /\ handlers[h].pc = "deciding" /\ handlers[h] \in Handler /\ HandlerIsRight(h)
        /\ handlers[h].todo # {} /\ handlers[h].todo \subseteq Actions /\ Fault
        /\ UNCHANGED <<late, groups, cards, claims, shell, working, chat, answers>>
    BY DEF DecideFails, IInv, TypeOK, Handler
  <1>2. a \in handlers[h].todo /\ a \in Actions
    BY <1>1, MinOfActions
  <1>3. d \in {"confirmed", "rejected"} /\ ledger' \in {ledger, Decided(a, d)}
    BY DEF Verdict, DecideFails
  <1>4. /\ next \in Handler /\ next.kind = handlers[h].kind /\ next.pc = handlers[h].pc
        /\ next.card = handlers[h].card /\ next.group = handlers[h].group
        /\ next.captured = handlers[h].captured /\ next.lapsed = handlers[h].lapsed
        /\ next.todo = handlers[h].todo \ {a} /\ next.retry
        /\ next.resolved = handlers[h].resolved
    BY <1>1, <1>2 DEF Handler, FailedItem
  <1>5. handlers' = [handlers EXCEPT ![h] = next]
    BY DEF DecideFails
  <1> HIDE DEF a, d, next
  <1>6. handlers'[h] = next
    BY <1>5 DEF IInv, TypeOK
  <1>7. ASSUME Grows PROVE HandlerIsRight(h)'
    <2>1. UNCHANGED <<groups, cards, claims, chat>>
      BY <1>1
    <2> QED BY <1>1, <1>2, <1>4, <1>6, <1>7, <2>1, DeciderIsRight
  <1>8. faults' \in 0..MaxFaults
    BY <1>1, CountsType DEF IInv
  <1> QED BY <1>1, <1>2, <1>3, <1>4, <1>5, <1>7, <1>8, DecisionStep

-----------------------------------------------------------------------------
(* Cards                                                                   *)

\* A handler that sends has room, and the card it may bring is the next one.
LEMMA CardArrives ==
    ASSUME IInv, NEW h \in Handlers, handlers[h].pc \in {"sending", "retrying"},
           \/ UNCHANGED cards
           \/ /\ cards' = [cards EXCEPT ![Cardinality(Sent) + 1] =
                              [shown |-> handlers[h].shown, group |-> handlers[h].group]]
              /\ cards' # cards,
           \A k \in Handlers \ {h} : handlers'[k] = handlers[k],
           handlers'[h].pc \notin {"removing", "creating", "sending"},
           handlers[h].pc = "retrying" => handlers'[h].pc # "retrying"
    PROVE  /\ CardsComeInOrder' /\ cards' \in [Messages -> Card]
           /\ Cardinality(Sent) + 1 \in Messages /\ Cardinality(Sent) + 1 \notin Sent
           /\ \A n \in Messages \ {Cardinality(Sent) + 1} : cards'[n] = cards[n]
           /\ cards' # cards =>
                  /\ cards'[Cardinality(Sent) + 1].shown = handlers[h].shown
                  /\ cards'[Cardinality(Sent) + 1].group = handlers[h].group
           /\ Sent' = Sent \cup {Cardinality(Sent) + 1} \/ (Sent' = Sent /\ cards' = cards)
  <1> DEFINE m == Cardinality(Sent) + 1
             row == [shown |-> handlers[h].shown, group |-> handlers[h].group]
  <1>1. /\ handlers[h] \in Handler /\ handlers[h].shown # {}
        /\ Sent = 1 .. Cardinality(Sent)
        /\ Cardinality(Sent) + 2 * Cardinality(First) + Cardinality(Second) <= MaxCards
        /\ cards \in [Messages -> Card]
    BY DEF IInv, TypeOK, HandlerIsRight, SenderIsRight, CardsComeInOrder
  <1>2. /\ row \in Card /\ row.shown = handlers[h].shown /\ row.group = handlers[h].group
    BY <1>1 DEF Card, Handler
  <1>3. /\ Cardinality(Sent) \in Nat /\ Cardinality(First) \in Nat /\ Cardinality(Second) \in Nat
        /\ IsFiniteSet(Sent) /\ IsFiniteSet(First) /\ IsFiniteSet(Second)
        /\ First \cap Second = {}
    BY SentIsFinite, SendersAreFinite
  <1>4. /\ handlers[h].pc = "sending" => h \in First
        /\ handlers[h].pc = "retrying" => h \in Second
    BY DEF First, Second
  <1>5. /\ handlers[h].pc = "sending" => Cardinality(First) # 0
        /\ handlers[h].pc = "retrying" => Cardinality(Second) # 0
    BY <1>3, <1>4, FS_EmptySet
  <1>6. m \in Messages /\ m \notin Sent
    <2>1. m <= MaxCards
      <3>1. CASE handlers[h].pc = "sending"
        BY <1>1, <1>3, <1>5, <3>1, BoundsAssumption
      <3>2. CASE handlers[h].pc = "retrying"
        BY <1>1, <1>3, <1>5, <3>2, BoundsAssumption
      <3> QED BY <3>1, <3>2
    <2>2. m \notin 1 .. Cardinality(Sent)
      BY <1>3
    <2> QED BY <1>1, <1>3, <2>1, <2>2, BoundsAssumption DEF Messages
  <1>7. \/ UNCHANGED cards
        \/ cards' = [cards EXCEPT ![m] = row] /\ cards' # cards
    OBVIOUS
  <1> HIDE DEF row
  <1>8. /\ cards' \in [Messages -> Card]
        /\ \A n \in Messages \ {m} : cards'[n] = cards[n]
        /\ cards' # cards => cards'[m] = row
    BY <1>1, <1>2, <1>6, <1>7
  <1>9. Sent' = Sent \cup {m} \/ (Sent' = Sent /\ cards' = cards)
    <2>1. CASE cards' = cards
      BY <2>1 DEF Sent
    <2>2. CASE cards' # cards
      <3>1. \A n \in Messages : n \in Sent' <=> n \in Sent \/ n = m
        BY <1>1, <1>2, <1>8, <2>2 DEF Sent
      <3>2. Sent \subseteq Messages /\ Sent' \subseteq Messages
        BY DEF Sent, Messages
      <3> QED BY <1>6, <3>1, <3>2
    <2> QED BY <2>1, <2>2
  <1>10. /\ IsFiniteSet(Sent') /\ Cardinality(Sent') \in Nat /\ Sent' = 1 .. Cardinality(Sent')
         /\ Cardinality(Sent') <= Cardinality(Sent) + 1
    <2>1. CASE Sent' = Sent
      BY <1>1, <1>3, <2>1
    <2>2. CASE Sent' = Sent \cup {m}
      <3>1. IsFiniteSet(Sent') /\ Cardinality(Sent') = Cardinality(Sent) + 1
        BY <1>3, <1>6, <2>2, FS_AddElement
      <3>2. 1 .. (Cardinality(Sent) + 1) = (1 .. Cardinality(Sent)) \cup {m}
        BY <1>3
      <3>3. Sent' = 1 .. (Cardinality(Sent) + 1)
        <4>1. Sent' = (1 .. Cardinality(Sent)) \cup {m}
          BY <1>1, <2>2
        <4> QED BY <3>2, <4>1
      <3>4. Sent' = 1 .. Cardinality(Sent') /\ Cardinality(Sent') \in Nat
        BY <1>3, <3>1, <3>3
      <3> QED BY <1>3, <3>1, <3>4
    <2> QED BY <1>9, <2>1, <2>2
  <1>11. Cardinality(Sent') + 2 * Cardinality(First') + Cardinality(Second') <= MaxCards
    <2>1. CASE handlers[h].pc = "sending"
      <3>1. First' \subseteq First \ {h} /\ Second' \subseteq Second \cup {h}
        BY DEF First, Second
      <3>2. /\ IsFiniteSet(First \ {h}) /\ Cardinality(First \ {h}) = Cardinality(First) - 1
            /\ IsFiniteSet(Second \cup {h})
            /\ Cardinality(Second \cup {h}) = Cardinality(Second) + 1
        BY <1>3, <1>4, <2>1, FS_RemoveElement, FS_AddElement
      <3>3. /\ Cardinality(First') <= Cardinality(First) - 1 /\ Cardinality(First') \in Nat
            /\ Cardinality(Second') <= Cardinality(Second) + 1 /\ Cardinality(Second') \in Nat
        BY <3>1, <3>2, FS_Subset, FS_CardinalityType
      <3> QED BY <1>1, <1>3, <1>10, <3>3, BoundsAssumption
    <2>2. CASE handlers[h].pc = "retrying"
      <3>1. First' \subseteq First /\ Second' \subseteq Second \ {h}
        BY <2>2 DEF First, Second
      <3>2. IsFiniteSet(Second \ {h}) /\ Cardinality(Second \ {h}) = Cardinality(Second) - 1
        BY <1>3, <1>4, <2>2, FS_RemoveElement
      <3>3. /\ Cardinality(First') <= Cardinality(First) /\ Cardinality(First') \in Nat
            /\ Cardinality(Second') <= Cardinality(Second) - 1 /\ Cardinality(Second') \in Nat
        BY <1>3, <3>1, <3>2, FS_Subset, FS_CardinalityType
      <3> QED BY <1>1, <1>3, <1>10, <3>3, BoundsAssumption
    <2> QED BY <2>1, <2>2
  <1> QED BY <1>2, <1>6, <1>8, <1>9, <1>10, <1>11 DEF CardsComeInOrder

\* A step of a handler that sends.
LEMMA SendStep ==
    ASSUME IInv, NEW h \in Handlers, handlers[h].pc \in {"sending", "retrying"},
           \/ UNCHANGED cards
           \/ /\ cards' = [cards EXCEPT ![Cardinality(Sent) + 1] =
                              [shown |-> handlers[h].shown, group |-> handlers[h].group]]
              /\ cards' # cards,
           UNCHANGED <<stores, late, working, counts>>,
           handlers' \in [Handlers -> Handler],
           \A k \in Handlers \ {h} : handlers'[k] = handlers[k],
           handlers'[h].pc \notin {"removing", "creating", "sending"},
           handlers[h].pc = "retrying" => handlers'[h].pc # "retrying",
           HandlerIsRight(h)', ToCreate(h)' = {}, ChatKept(h),
           inflight' \subseteq Handlers, callbackKey' \in 0..MaxCards,
           active' \in 0..MaxCards, spoken' \in 0..MaxCards
    PROVE  IInv'
  <1> DEFINE m == Cardinality(Sent) + 1
  <1>1. /\ CardsComeInOrder' /\ cards' \in [Messages -> Card] /\ m \in Messages /\ m \notin Sent
        /\ \A n \in Messages \ {m} : cards'[n] = cards[n]
        /\ cards' # cards => cards'[m].shown = handlers[h].shown
                             /\ cards'[m].group = handlers[h].group
        /\ Sent' = Sent \cup {m} \/ (Sent' = Sent /\ cards' = cards)
    BY CardArrives
  <1> HIDE DEF m
  <1>2. TypeOK'
    BY <1>1 DEF IInv, TypeOK, stores, counts
  <1>3. Grows
    BY <1>1 DEF Grows, stores, Settles, Proposed, Exists, IInv, TypeOK, Sent
  <1>4. \A g \in Actions : GroupIsRight(g)'
    BY <1>2, <1>3, GroupStaysRight DEF stores
  <1>5. handlers[h] \in Handler /\ HandlerIsRight(h)
    BY DEF IInv, TypeOK
  <1>6. ASSUME NEW n \in Messages PROVE MessageIsRight(n)'
    <2>1. CASE cards'[n] = cards[n]
      BY <1>2, <1>3, <2>1, MessageStaysRight DEF stores
    <2>2. CASE cards'[n] # cards[n]
      <3>1. n = m /\ cards' # cards /\ n \in Sent'
        BY <1>1, <2>2
      <3>2. claims'[n].state = "free"
        BY <1>1, <3>1 DEF IInv, MessageIsRight, stores
      <3>3. /\ cards'[n].shown = handlers[h].shown /\ cards'[n].group = handlers[h].group
        BY <1>1, <3>1
      <3>4. /\ \A a \in handlers[h].shown : Proposed(a)
            /\ handlers[h].group # 0 =>
                   Exists(handlers[h].group) /\ groups[handlers[h].group].items = handlers[h].shown
        BY <1>5 DEF HandlerIsRight, SenderIsRight
      <3> QED BY <3>2, <3>3, <3>4 DEF MessageIsRight, Proposed, Exists, stores
    <2> QED BY <2>1, <2>2
  <1>7. ASSUME NEW k \in Handlers \ {h}
        PROVE  (\A g \in ToCreate(k) : ~Exists(g)') /\ ToCreate(h)' \cap ToCreate(k) = {}
    BY ToCreateIsOpen DEF Exists, stores
  <1>8. handlers[h].kind # "tap"
    BY <1>5 DEF HandlerIsRight, StepsOfKinds
  <1>9. StillWorks(h) /\ \A n \in Messages : working'[n] \in {0, working[n]} \ {h}
    BY <1>8, NotWorking
  <1> QED BY <1>1, <1>2, <1>3, <1>4, <1>6, <1>7, <1>9, HandlerStep DEF Unmoved, stores

LEMMA SendInv == ASSUME IInv, NEW h \in Handlers, Send(h) PROVE IInv'
  <1> DEFINE m == Cardinality(Sent) + 1
             shows == cards' = [cards EXCEPT ![m] = [shown |-> handlers[h].shown,
                                                     group |-> handlers[h].group]]
  <1>1. /\ handlers[h].pc \in {"sending", "retrying"} /\ handlers[h] \in Handler
        /\ HandlerIsRight(h) /\ handlers[h].kind \notin {"tap", "none"}
        /\ UNCHANGED <<stores, late, working, counts>>
    BY DEF Send, IInv, TypeOK, HandlerIsRight, StepsOfKinds
  <1>2. /\ handlers[h].shown # {} /\ \A a \in handlers[h].shown : Proposed(a)
        /\ handlers[h].group # 0 =>
               Exists(handlers[h].group) /\ groups[handlers[h].group].items = handlers[h].shown
    BY <1>1 DEF HandlerIsRight, SenderIsRight
  <1>3. CASE shows /\ handlers[h].group = 0 /\ active' = m /\ spoken' = m /\ Ends(h)
    <2>1. /\ handlers' \in [Handlers -> Handler] /\ handlers'[h] = Idle /\ Leave(h)
          /\ \A k \in Handlers \ {h} : handlers'[k] = handlers[k]
      BY <1>3, EndsType DEF IInv
    <2>2. /\ ChatKept(h) /\ h \notin inflight'
          /\ inflight' \subseteq Handlers /\ callbackKey' \in 0..MaxCards
      BY <2>1, LeaveChat
    <2>3. HandlerIsRight(h)' /\ ToCreate(h)' = {} /\ handlers'[h].pc = "idle"
      BY <2>1, <2>2, IdleIsRight, IdleHandler
    <2>4. active' \in 0..MaxCards /\ spoken' \in 0..MaxCards
      <3>1. m \in Messages
        BY <1>1, <1>3, <2>1, <2>3, CardArrives
      <3> QED BY <1>3, <3>1, BoundsAssumption DEF Messages
    <2> QED BY <1>1, <1>3, <2>1, <2>2, <2>3, <2>4, SendStep
  <1>4. CASE /\ shows /\ handlers[h].group # 0 /\ active' = m /\ UNCHANGED <<spoken, chat>>
             /\ handlers' = [handlers EXCEPT ![h].pc = "binding", ![h].card = m]
    <2> DEFINE next == [handlers[h] EXCEPT !.pc = "binding", !.card = m]
    <2>1. /\ m \in Nat
          /\ next.pc = "binding" /\ next.kind = handlers[h].kind /\ next.card = m
          /\ next.group = handlers[h].group
      BY <1>1, SentIsFinite DEF Handler
    <2>2. /\ handlers' = [handlers EXCEPT ![h] = next] /\ handlers'[h] = next
          /\ \A k \in Handlers \ {h} : handlers'[k] = handlers[k]
      BY <1>4 DEF IInv, TypeOK
    <2>3. /\ m \in Messages /\ m \in Sent'
      <3>1. /\ m \in Messages /\ m \notin Sent /\ Sent' \subseteq Messages
            /\ (cards' # cards => cards'[m].shown = handlers[h].shown)
            /\ (Sent' = Sent \cup {m} \/ (Sent' = Sent /\ cards' = cards))
        BY <1>1, <1>4, <2>1, <2>2, CardArrives DEF Sent, Messages
      <3>2. cards'[m].shown = handlers[h].shown
        BY <1>4, <3>1 DEF IInv, TypeOK
      <3> QED BY <1>2, <3>1, <3>2 DEF Sent
    <2>4. m \in 0..MaxCards
      BY <2>3, BoundsAssumption DEF Messages
    <2>5. next \in Handler
      BY <1>1, <2>4 DEF Handler
    <2>6. handlers' \in [Handlers -> Handler]
      BY <2>2, <2>5 DEF IInv, TypeOK
    <2> HIDE DEF next, m
    <2>7. HandlerIsRight(h)' /\ ToCreate(h)' = {}
      <3>1. StepsOfKinds(h)' /\ AnswererIsRight(h)' /\ ClaimIsRight(h)' /\ ToCreate(h)' = {}
        BY <1>1, <2>1, <2>2 DEF StepsOfKinds, AnswererIsRight, ClaimIsRight, Work, ToCreate
      <3>2. ChatIsRight(h)'
        <4>1. ChatIsRight(h) /\ inflight' = inflight /\ callbackKey' = callbackKey
          BY <1>1, <1>4 DEF HandlerIsRight, chat
        <4> QED BY <1>1, <2>1, <2>2, <4>1 DEF ChatIsRight
      <3>3. SenderIsRight(h)'
        BY <1>1, <1>2, <1>4, <2>1, <2>2, <2>3 DEF SenderIsRight, Exists, stores
      <3> QED BY <3>1, <3>2, <3>3 DEF HandlerIsRight
    <2>8. UNCHANGED chat /\ active' \in 0..MaxCards /\ spoken' \in 0..MaxCards
      BY <1>4, <2>4 DEF IInv, TypeOK
    <2>9. /\ ChatKept(h) /\ inflight' \subseteq Handlers /\ callbackKey' \in 0..MaxCards
      BY <2>8, StayInChat DEF IInv, TypeOK, chat
    <2> QED BY <1>1, <1>4, <2>1, <2>2, <2>6, <2>7, <2>8, <2>9, SendStep DEF m
  <1>5. CASE /\ shows \/ UNCHANGED cards
             /\ handlers' = [handlers EXCEPT
                     ![h].pc = IF @ = "sending" THEN "retrying" ELSE "withdrawing",
                     ![h].todo = handlers[h].shown]
             /\ UNCHANGED <<shell, chat>>
    <2> DEFINE pc == IF handlers[h].pc = "sending" THEN "retrying" ELSE "withdrawing"
               next == [handlers[h] EXCEPT !.pc = pc, !.todo = handlers[h].shown]
    <2>1. handlers' = [handlers EXCEPT ![h] = next]
      BY <1>5
    <2>2. pc \in {"retrying", "withdrawing"} /\ (pc = "retrying" => handlers[h].pc = "sending")
      OBVIOUS
    <2> HIDE DEF pc
    <2>3. /\ next \in Handler /\ next.pc = pc /\ next.kind = handlers[h].kind
          /\ next.group = handlers[h].group /\ next.shown = handlers[h].shown
          /\ next.todo = handlers[h].shown
      BY <1>1, <2>2 DEF Handler
    <2> HIDE DEF next
    <2>4. /\ handlers' \in [Handlers -> Handler] /\ handlers'[h] = next
          /\ \A k \in Handlers \ {h} : handlers'[k] = handlers[k]
      BY <2>1, <2>3 DEF IInv, TypeOK
    <2>5. HandlerIsRight(h)' /\ ToCreate(h)' = {}
      <3>1. StepsOfKinds(h)' /\ AnswererIsRight(h)' /\ ClaimIsRight(h)' /\ ToCreate(h)' = {}
        BY <1>1, <2>2, <2>3, <2>4 DEF StepsOfKinds, AnswererIsRight, ClaimIsRight, Work, ToCreate
      <3>2. ChatIsRight(h)'
        <4>1. ChatIsRight(h) /\ inflight' = inflight /\ callbackKey' = callbackKey
          BY <1>1, <1>5 DEF HandlerIsRight, chat
        <4> QED BY <1>1, <2>3, <2>4, <4>1 DEF ChatIsRight
      <3>3. SenderIsRight(h)'
        BY <1>1, <1>2, <2>2, <2>3, <2>4 DEF SenderIsRight, Exists, Proposed, stores
      <3> QED BY <3>1, <3>2, <3>3 DEF HandlerIsRight
    <2>6. UNCHANGED chat /\ UNCHANGED shell
      BY <1>5
    <2>7. /\ ChatKept(h) /\ inflight' \subseteq Handlers /\ callbackKey' \in 0..MaxCards
          /\ active' \in 0..MaxCards /\ spoken' \in 0..MaxCards
      BY <2>6, StayInChat DEF IInv, TypeOK, chat, shell
    <2> QED BY <1>1, <1>5, <2>2, <2>3, <2>4, <2>5, <2>7, SendStep
  <1> QED BY <1>3, <1>4, <1>5 DEF Send

-----------------------------------------------------------------------------
(* Time and restarts                                                       *)

\* A step of no handler.
LEMMA NobodySteps ==
    ASSUME IInv, TypeOK', Grows,
           UNCHANGED <<cards, working, chat>>,
           \A k \in Handlers : handlers'[k] = handlers[k],
           \A k \in Handlers : \A g \in ToCreate(k) : ~Exists(g)',
           \A k \in Handlers : \A m \in Messages :
               claims[m] = [state |-> "held", holder |-> k] => claims'[m] = claims[m],
           \A g \in Actions : GroupIsRight(g)',
           \A m \in Messages : MessageIsRight(m)'
    PROVE  IInv'
  <1>1. ASSUME NEW k \in Handlers PROVE HandlerIsRight(k)'
    <2>1. /\ k \in inflight' <=> k \in inflight
          /\ k \in inflight => callbackKey' = callbackKey
      BY DEF chat
    <2>2. ASSUME handlers[k].kind = "tap", handlers[k].pc = "deciding", ~handlers[k].lapsed
          PROVE  claims'[handlers[k].card] = claims[handlers[k].card]
      <3>1. /\ claims[handlers[k].card] = [state |-> "held", holder |-> k]
            /\ handlers[k].card \in Messages
        BY <2>2 DEF IInv, HandlerIsRight, ClaimIsRight, AnswererIsRight, Work
      <3> QED BY <3>1
    <2>3. ASSUME handlers'[k].pc = "waiting"
          PROVE  Works(handlers[k].waits, handlers[k].card)'
      <3>1. /\ handlers[k].waits \in Handlers /\ Works(handlers[k].waits, handlers[k].card)
        BY <2>3 DEF IInv, HandlerIsRight, ClaimIsRight
      <3> QED BY <3>1 DEF Works
    <2> QED BY <2>1, <2>2, <2>3, OthersStayRight DEF Unmoved
  <1>2. ASSUME NEW m \in Messages PROVE (working[m] # 0 => Works(working[m], m))'
    <2>1. working[m] \in Handlers \cup {0} /\ (working[m] # 0 => Works(working[m], m))
      BY DEF IInv, TypeOK
    <2> QED BY <2>1 DEF Works
  <1>3. \A j, k \in Handlers : j # k => ToCreate(j)' \cap ToCreate(k)' = {}
    BY DEF IInv, ToCreate
  <1>4. CardsComeInOrder'
    <2>1. Sent' = Sent
      BY DEF Sent
    <2> QED BY <2>1, OrderStays
  <1>5. (inflight = {} => callbackKey = 0)'
    BY DEF IInv, chat
  <1> QED BY <1>1, <1>2, <1>3, <1>4, <1>5 DEF IInv

LEMMA ExpireInv == ASSUME IInv, NEW a \in Actions, Expire(a) PROVE IInv'
  <1>1. /\ late' = late \cup {a}
        /\ UNCHANGED <<ledger, groups, claims, cards, shell, working, chat, handlers, counts>>
    BY DEF Expire, stores
  <1>2. TypeOK'
    BY <1>1 DEF IInv, TypeOK, chat, counts, shell
  <1>3. Grows
    BY <1>1 DEF Grows, Settles, Proposed, Exists, IInv, TypeOK
  <1>4. /\ \A g \in Actions : GroupIsRight(g)'
        /\ \A m \in Messages : MessageIsRight(m)'
    BY <1>1, <1>2, <1>3, GroupStaysRight, MessageStaysRight
  <1>5. \A k \in Handlers : \A g \in ToCreate(k) : ~Exists(g)'
    BY <1>1, ToCreateIsOpen DEF Exists
  <1> QED BY <1>1, <1>2, <1>3, <1>4, <1>5, NobodySteps

LEMMA PurgeGroupInv == ASSUME IInv, NEW g \in Actions, PurgeGroup(g) PROVE IInv'
  <1> DEFINE row == [groups[g] EXCEPT !.state = "purged"]
  <1>1. /\ groups' = [groups EXCEPT ![g] = row] /\ Exists(g)
        /\ UNCHANGED <<ledger, late, cards, claims, shell, working, chat, handlers, counts>>
    BY DEF PurgeGroup, Exists
  <1>2. groups[g] \in Group /\ GroupIsRight(g)
    BY DEF IInv, TypeOK
  <1>3. /\ row \in Group /\ row.state = "purged" /\ row.items = groups[g].items
        /\ row.pending = groups[g].pending /\ row.message = groups[g].message
    BY <1>2 DEF Group
  <1> HIDE DEF row
  <1>4. RowsAreKept(0)
    BY <1>1, <1>2, <1>3, OneRow DEF GroupIsRight
  <1>5. 0 \notin Handlers
    BY BoundsAssumption
  <1>6. TypeOK'
    BY <1>1, <1>4 DEF RowsAreKept, IInv, TypeOK, chat, counts, shell
  <1>7. /\ Grows /\ \A f \in Actions : GroupIsRight(f)'
        /\ \A k \in Handlers : \A f \in ToCreate(k) : ~Exists(f)'
    BY <1>4, <1>5 DEF RowsAreKept
  <1>8. \A m \in Messages : MessageIsRight(m)'
    BY <1>1, <1>6, <1>7, MessageStaysRight
  <1> QED BY <1>1, <1>6, <1>7, <1>8, NobodySteps

LEMMA LeasePassesInv == ASSUME IInv, NEW m \in Messages, LeasePasses(m) PROVE IInv'
  <1> DEFINE row == [claims[m] EXCEPT !.state = "stale"]
             holder == claims[m].holder
             next == [handlers[holder] EXCEPT !.lapsed = TRUE]
  <1>1. /\ claims[m].state = "held" /\ claims' = [claims EXCEPT ![m] = row]
        /\ handlers' = [h \in Handlers |-> IF h = holder
                            THEN [handlers[h] EXCEPT !.lapsed = TRUE] ELSE handlers[h]]
        /\ UNCHANGED <<ledger, late, groups, cards, shell, working, chat, counts>>
    BY DEF LeasePasses
  <1>2. claims[m] \in Claim /\ MessageIsRight(m)
    BY DEF IInv, TypeOK
  <1>3. row \in Claim /\ row.state = "stale" /\ holder \in Handlers \cup {0}
    BY <1>2 DEF Claim
  <1> HIDE DEF row
  <1>4. /\ claims' \in [Messages -> Claim] /\ claims'[m].state = "stale"
        /\ \A n \in Messages \ {m} : claims'[n] = claims[n]
    BY <1>1, <1>3 DEF IInv, TypeOK
  <1>5. ASSUME NEW k \in Handlers, k # holder, NEW n \in Messages,
               claims[n] = [state |-> "held", holder |-> k]
        PROVE  claims'[n] = claims[n]
    BY <1>4, <1>5
  <1>6. CASE holder = 0
    <2>1. \A k \in Handlers : k # holder
      BY <1>6, BoundsAssumption
    <2>2. handlers' \in [Handlers -> Handler] /\ \A k \in Handlers : handlers'[k] = handlers[k]
      BY <1>1, <2>1 DEF IInv, TypeOK
    <2>3. TypeOK'
      BY <1>1, <1>4, <2>2 DEF IInv, TypeOK, chat, counts, shell
    <2>4. Grows
      BY <1>1 DEF Grows, Settles, Proposed, Exists, IInv, TypeOK
    <2>5. \A g \in Actions : GroupIsRight(g)'
      BY <1>1, <2>3, <2>4, GroupStaysRight
    <2>6. ASSUME NEW n \in Messages PROVE MessageIsRight(n)'
      <3>1. CASE n = m
        <4>1. Sent' = Sent
          BY <1>1 DEF Sent
        <4> QED BY <1>1, <1>2, <1>4, <3>1, <4>1 DEF MessageIsRight, Proposed, Exists
      <3>2. CASE n # m
        BY <1>1, <1>4, <2>3, <2>4, <3>2, MessageStaysRight
      <3> QED BY <3>1, <3>2
    <2>7. \A k \in Handlers : \A g \in ToCreate(k) : ~Exists(g)'
      BY <1>1, ToCreateIsOpen DEF Exists
    <2> QED BY <1>1, <1>5, <2>1, <2>2, <2>3, <2>4, <2>5, <2>6, <2>7, NobodySteps
  <1>7. CASE holder \in Handlers
    <2>1. handlers[holder] \in Handler /\ HandlerIsRight(holder)
      BY <1>7 DEF IInv, TypeOK
    <2>2. /\ next \in Handler /\ next.kind = handlers[holder].kind
          /\ next.pc = handlers[holder].pc /\ next.card = handlers[holder].card
          /\ next.group = handlers[holder].group /\ next.shown = handlers[holder].shown
          /\ next.todo = handlers[holder].todo /\ next.captured = handlers[holder].captured
          /\ next.resolved = handlers[holder].resolved /\ next.retry = handlers[holder].retry
          /\ next.waits = handlers[holder].waits /\ next.lapsed
      BY <2>1 DEF Handler
    <2>3. /\ handlers'[holder] = next
          /\ \A k \in Handlers \ {holder} : handlers'[k] = handlers[k]
      BY <1>1, <1>7
    <2>4. handlers' \in [Handlers -> Handler]
      BY <1>1, <2>2, <2>3 DEF IInv, TypeOK
    <2>5. PICK h \in Handlers : h = holder
      BY <1>7
    <2> HIDE DEF next, holder
    <2>6. /\ handlers'[h] = next /\ HandlerIsRight(h)
          /\ next.kind = handlers[h].kind
          /\ next.pc = handlers[h].pc /\ next.card = handlers[h].card
          /\ next.group = handlers[h].group /\ next.shown = handlers[h].shown
          /\ next.todo = handlers[h].todo /\ next.captured = handlers[h].captured
          /\ next.resolved = handlers[h].resolved /\ next.retry = handlers[h].retry
          /\ next.waits = handlers[h].waits /\ next.lapsed
          /\ \A k \in Handlers \ {h} : handlers'[k] = handlers[k]
      BY <2>1, <2>2, <2>3, <2>5
    <2>7. Sent' = Sent /\ UNCHANGED chat /\ UNCHANGED <<ledger, late, groups, cards>>
      BY <1>1 DEF Sent
    <2>8. HandlerIsRight(h)' /\ ToCreate(h)' = ToCreate(h)
      <3>1. StepsOfKinds(h)' /\ ChatIsRight(h)' /\ ToCreate(h)' = ToCreate(h)
        BY <2>6, <2>7 DEF HandlerIsRight, StepsOfKinds, ChatIsRight, ToCreate, chat
      <3>2. SenderIsRight(h)'
        BY <2>6, <2>7 DEF HandlerIsRight, SenderIsRight, Proposed, Exists
      <3>3. AnswererIsRight(h)'
        BY <2>6, <2>7 DEF HandlerIsRight, AnswererIsRight, Work, Proposed, Settles
      <3>4. ClaimIsRight(h)'
        <4> SUFFICES ASSUME handlers'[h].pc = "waiting"
                     PROVE  /\ handlers'[h].waits \in Handlers
                            /\ Works(handlers[h].waits, handlers[h].card)'
          BY <2>6 DEF ClaimIsRight, Works
        <4>1. /\ handlers[h].waits \in Handlers /\ Works(handlers[h].waits, handlers[h].card)
          BY <2>6 DEF HandlerIsRight, ClaimIsRight
        <4> QED BY <2>6, <4>1 DEF Works
      <3> QED BY <3>1, <3>2, <3>3, <3>4 DEF HandlerIsRight
    <2>9. /\ claims'[m].state # "free" => m \in Sent
          /\ claims'[m].state = "done" => \A a \in cards[m].shown : Settles(a)
      BY <1>1, <1>2, <1>4 DEF MessageIsRight
    <2>10. \A k \in Handlers \ {h} :
               claims[m] = [state |-> "held", holder |-> k] => claims'[m] = claims[m]
      BY <1>5, <2>5
    <2>11. StillWorks(h) /\ ChatKept(h)
      BY <2>6, <2>7, StayInChat DEF StillWorks
    <2>12. ASSUME NEW n \in Messages
           PROVE  working'[n] \in {0, working[n]} \ {h} \/ (working'[n] = h /\ Works(h, n)')
      <3>1. working'[n] = working[n] /\ (working[n] # 0 => Works(working[n], n)) /\ h # 0
        BY <1>1, BoundsAssumption DEF IInv
      <3> QED BY <2>6, <3>1 DEF Works
    <2>13. TypeOK'
      BY <1>1, <1>4, <2>4 DEF IInv, TypeOK, chat, counts, shell
    <2>14. Grows
      BY <1>1 DEF Grows, Settles, Proposed, Exists, IInv, TypeOK
    <2>15. \A g \in Actions : GroupIsRight(g)'
      BY <2>7, <2>13, <2>14, GroupStaysRight
    <2>16. ASSUME NEW n \in Messages PROVE MessageIsRight(n)'
      <3>1. CASE n = m
        BY <1>2, <2>7, <2>9, <3>1 DEF MessageIsRight, Proposed, Exists, Settles
      <3>2. CASE n # m
        BY <1>4, <2>7, <2>13, <2>14, <3>2, MessageStaysRight
      <3> QED BY <3>1, <3>2
    <2>17. CardsComeInOrder'
      BY <2>6, <2>7, OrderStays
    <2>18. ASSUME NEW k \in Handlers \ {h}
           PROVE  /\ \A g \in ToCreate(k) : ~Exists(g)'
                  /\ ToCreate(h)' \cap ToCreate(k) = {}
                  /\ handlers[k].kind = "tap" /\ handlers[k].pc = "deciding" /\ ~handlers[k].lapsed =>
                         claims'[handlers[k].card] = claims[handlers[k].card]
      <3>1. \A g \in ToCreate(k) : ~Exists(g)'
        BY <2>7, ToCreateIsOpen DEF Exists
      <3>2. ToCreate(h)' \cap ToCreate(k) = {}
        BY <2>8 DEF IInv
      <3>3. ASSUME handlers[k].kind = "tap", handlers[k].pc = "deciding", ~handlers[k].lapsed
            PROVE  claims'[handlers[k].card] = claims[handlers[k].card]
        <4>1. /\ claims[handlers[k].card] = [state |-> "held", holder |-> k]
              /\ handlers[k].card \in Messages
          BY <3>3 DEF IInv, HandlerIsRight, ClaimIsRight, AnswererIsRight, Work
        <4> QED BY <1>5, <2>5, <4>1
      <3> QED BY <3>1, <3>2, <3>3
    <2> QED BY <2>6, <2>8, <2>11, <2>12, <2>13, <2>14, <2>15, <2>16, <2>17, <2>18, HandlerStep
            DEF Unmoved
  <1> QED BY <1>3, <1>6, <1>7

\* When every handler is idle only the rows can be wrong.
AllAreIdle ==
    /\ TypeOK /\ \A h \in Handlers : handlers[h] = Idle
    /\ inflight = {} /\ callbackKey = 0 /\ \A m \in Messages : working[m] = 0
    /\ \A g \in Actions : GroupIsRight(g)
    /\ \A m \in Messages : MessageIsRight(m)
    /\ Sent = 1 .. Cardinality(Sent)

LEMMA NobodyActs == AllAreIdle => IInv
  <1> SUFFICES ASSUME AllAreIdle PROVE IInv
    OBVIOUS
  <1> USE DEF AllAreIdle
  <1>1. \A h \in Handlers : HandlerIsRight(h) /\ ToCreate(h) = {}
    BY IdleHandler DEF HandlerIsRight, StepsOfKinds, SenderIsRight, AnswererIsRight, ChatIsRight,
                       ClaimIsRight, Work, ToCreate
  <1>2. First = {} /\ Second = {}
    BY IdleHandler DEF First, Second
  <1>3. Cardinality(First) = 0 /\ Cardinality(Second) = 0
    BY <1>2, FS_EmptySet
  <1>4. Cardinality(Sent) \in Nat /\ Cardinality(Sent) <= MaxCards
    <2>1. Cardinality(Messages) = MaxCards
      BY FS_Interval, BoundsAssumption DEF Messages
    <2> QED BY <2>1, SentIsFinite, FS_Subset, FS_Interval, BoundsAssumption DEF Messages
  <1> QED BY <1>1, <1>3, <1>4, BoundsAssumption DEF IInv, CardsComeInOrder

LEMMA RestartInv == ASSUME IInv, Restart PROVE IInv'
  <1>1. ASSUME NEW m \in Messages
        PROVE  /\ [claims[m] EXCEPT !.holder = 0] \in Claim
               /\ [claims[m] EXCEPT !.holder = 0].state = claims[m].state
    BY DEF IInv, TypeOK, Claim
  <1>2. /\ claims' \in [Messages -> Claim]
        /\ \A m \in Messages : claims'[m].state = claims[m].state
    BY <1>1 DEF Restart
  <1>3. handlers' \in [Handlers -> Handler] /\ \A h \in Handlers : handlers'[h] = Idle
    BY IdleHandler DEF Restart
  <1>4. TypeOK'
    BY <1>2, <1>3, CountsType, BoundsAssumption DEF IInv, TypeOK, Restart
  <1>5. Grows
    BY DEF Restart, Grows, Settles, Proposed, Exists, IInv, TypeOK
  <1>6. /\ \A g \in Actions : GroupIsRight(g)'
        /\ \A m \in Messages : MessageIsRight(m)'
    BY <1>2, <1>4, <1>5, GroupStaysRight, MessageStaysRight DEF Restart
  <1>7. Sent' = Sent /\ Sent = 1 .. Cardinality(Sent)
    BY DEF Restart, Sent, IInv, CardsComeInOrder
  <1>8. /\ inflight' = {} /\ callbackKey' = 0 /\ \A m \in Messages : working'[m] = 0
    BY DEF Restart
  <1>9. AllAreIdle'
    BY <1>3, <1>4, <1>6, <1>7, <1>8 DEF AllAreIdle
  <1> QED BY <1>9, NobodyActs, PTL

-----------------------------------------------------------------------------
(* The theorems                                                            *)

LEMMA InitInv == ASSUME Init PROVE IInv
  <1>1. NoGroup \in Group /\ NoCard \in Card /\ NoClaim \in Claim
    BY BoundsAssumption DEF NoGroup, Group, NoCard, Card, NoClaim, Claim
  <1>2. TypeOK
    BY <1>1, IdleHandler, BoundsAssumption DEF Init, TypeOK, NoGroup
  <1>3. /\ \A g \in Actions : GroupIsRight(g)
        /\ \A m \in Messages : MessageIsRight(m)
    BY DEF Init, GroupIsRight, MessageIsRight, Exists, NoGroup, NoCard, NoClaim
  <1>4. Sent = {} /\ Cardinality(Sent) = 0
    <2>1. Sent = {}
      BY DEF Sent, Init, NoCard
    <2> QED BY <2>1, FS_EmptySet
  <1>5. Sent = 1 .. Cardinality(Sent)
    BY <1>4
  <1> QED BY <1>2, <1>3, <1>5, NobodyActs DEF Init, AllAreIdle

LEMMA StepInv == ASSUME IInv, NEW h \in Handlers, Step(h) PROVE IInv'
  BY RemoveActiveInv, CreateGroupInv, SendInv, BindSentInv, WithdrawInv, WithdrawnInv, CancelInv,
     ReadAnswerInv, TextTurnInv, ReadGroupInv, BindTappedInv, CheckWorkingInv, RegisterInv,
     ClaimCardInv, ClaimFailsInv, RepeatedInv, DecideInv, DecideFailsInv, AnsweredInWordsInv,
     CloseClaimInv, CloseClaimFailsInv, MarkResolvedInv, CompleteInv, QueryFailsInv DEF Step

LEMMA StutterInv == ASSUME IInv, UNCHANGED vars PROVE IInv'
  <1>1. TypeOK'
    BY DEF IInv, TypeOK, vars
  <1>2. Grows
    BY DEF Grows, Settles, Proposed, Exists, IInv, TypeOK, vars
  <1>3. /\ \A g \in Actions : GroupIsRight(g)'
        /\ \A m \in Messages : MessageIsRight(m)'
    BY <1>1, <1>2, GroupStaysRight, MessageStaysRight DEF vars
  <1>4. \A k \in Handlers : \A g \in ToCreate(k) : ~Exists(g)'
    BY ToCreateIsOpen DEF Exists, vars
  <1> QED BY <1>1, <1>2, <1>3, <1>4, NobodySteps DEF vars, chat

LEMMA NextInv == ASSUME IInv, [Next]_vars PROVE IInv'
  BY StepInv, TextArrivesInv, ProactiveTurnInv, TapInv, ExpireInv, PurgeGroupInv, LeasePassesInv,
     RestartInv, StutterInv DEF Next

\* The chat's state is what it should be after any failures and restarts.
THEOREM Invariant == Spec => []IInv
  BY InitInv, NextInv, PTL DEF Spec

\* Every variable has its type: among others, a group marked delivered or completed names
\* its message, and no handler looks for a card that is not there.
THEOREM TypeCorrect == Spec => []TypeOK
  <1>1. IInv => TypeOK
    BY DEF IInv
  <1> QED BY <1>1, Invariant, PTL

\* What a group row says of its items is what their ledgers say: an item it no longer offers
\* is decided or expired, and a completed group offers nothing.
THEOREM GroupsAreTrue == Spec => []GroupsFollowLedgers
  <1>1. IInv => GroupsFollowLedgers
    BY DEF IInv, GroupIsRight, GroupsFollowLedgers, ResolvedIsDecided, CompletedIsEmpty
  <1> QED BY <1>1, Invariant, PTL

\* A card that is "already processed" has nothing undecided, and a group reported as
\* cancelled had nothing applied.
THEOREM EndsStayTrue == Spec => []EndsAreTrue
  <1>1. IInv => EndsAreTrue
    BY DEF IInv, GroupIsRight, MessageIsRight, EndsAreTrue, DoneCardIsDecided,
           CancelledAppliedNothing
  <1> QED BY <1>1, Invariant, PTL

\* Two taps decide the same proposal at the same time only when a lease ran out.
THEOREM OneTapDecides == Spec => []OneTapAtATime
  <1>1. ASSUME IInv PROVE OneTapAtATime
    <2> SUFFICES ASSUME NEW a \in Actions, NEW h \in Deciding(a), NEW k \in Deciding(a),
                        ~handlers[h].lapsed, ~handlers[k].lapsed
                 PROVE  h = k
      BY DEF OneTapAtATime
    <2>1. /\ h \in Handlers /\ handlers[h].kind = "tap" /\ handlers[h].pc = "deciding"
          /\ k \in Handlers /\ handlers[k].kind = "tap" /\ handlers[k].pc = "deciding"
      BY DEF Deciding
    <2>2. handlers[h].card = callbackKey /\ handlers[k].card = callbackKey
      BY <1>1, <2>1 DEF IInv, HandlerIsRight, ChatIsRight
    <2>3. /\ claims[handlers[h].card] = [state |-> "held", holder |-> h]
          /\ claims[handlers[k].card] = [state |-> "held", holder |-> k]
      BY <1>1, <2>1 DEF IInv, HandlerIsRight, ClaimIsRight
    <2> QED BY <2>2, <2>3
  <1> QED BY <1>1, Invariant, PTL

\* Nobody waits for a handler that is gone, and the chat is busy with the texts and taps in
\* work only.
THEOREM NobodyStaysStuck == Spec => []NobodyIsStuck
  <1>1. IInv => NobodyIsStuck
    BY DEF IInv, TypeOK, HandlerIsRight, ClaimIsRight, ChatIsRight, Works, NobodyIsStuck
  <1> QED BY <1>1, Invariant, PTL

-----------------------------------------------------------------------------
(* Joining, moving and leaving                                             *)

Linked(c) == sessions[c].employee # "none"

\* A chat that is linked speaks for one employee, who opened an invite and did not move on.
LinksAreOwn ==
    \A c \in Chats : Linked(c) =>
        LET e == sessions[c].employee IN
        /\ e \in Employees /\ E!Known(e) /\ people[e].status # "invite_issued"
        /\ sessions[c].consented => people[e].consented
        /\ \A t \in Employees : <<e, t>> \notin moved
        /\ \A d \in Chats : sessions[d].employee = e => d = c

\* Whoever moved on has no invite and had consented.
MovedHoldNoInvite ==
    \A s, t \in Employees : <<s, t>> \in moved =>
        /\ E!Known(s) /\ people[s].code = "revoked"
        /\ people[s].status \in {"consent_accepted", "profile_completed"}

\* An unused invite has no consent, and whoever something is kept about has given it.
KeptHaveConsented ==
    \A e \in Employees :
        /\ people[e].status \in {"none", "invite_issued", "invite_opened"} => ~people[e].consented
        /\ kept[e] # {} => E!Known(e) /\ people[e].consented

\* A deletion gets to the row after all else.
DeletionsAreOrdered ==
    \A o \in Workers :
        LET e == commands[o].employee IN
        /\ commands[o].phase # "idle" => e \in Employees
        /\ commands[o].phase = "objects" => kept[e] \in SUBSET {"objects"}
        /\ commands[o].phase = "erasing" => kept[e] = {}

Accounted ==
    /\ E!TypeOK
    /\ LinksAreOwn /\ MovedHoldNoInvite /\ KeptHaveConsented /\ DeletionsAreOrdered

-----------------------------------------------------------------------------
(* The records                                                             *)

LEMMA PeopleAreRecords ==
    ASSUME E!TypeOK
    PROVE  /\ \A e \in Employees : /\ people[e] \in E!Participant \cup {E!Nobody}
                                   /\ people[e].status \in E!Statuses \cup {"none"}
                                   /\ people[e].code \in Codes \cup {"revoked"}
                                   /\ people[e].consented \in BOOLEAN
                                   /\ E!Known(e) <=> people[e].status # "none"
                                   /\ E!Known(e) => people[e] \in E!Participant
           /\ \A c \in Chats : /\ sessions[c] \in E!Session \cup {E!Unlinked}
                               /\ sessions[c].employee \in Employees \cup {"none"}
                               /\ sessions[c].consented \in BOOLEAN
  <1>1. people \in [Employees -> E!Participant \cup {E!Nobody}] BY DEF E!TypeOK
  <1>2. sessions \in [Chats -> E!Session \cup {E!Unlinked}] BY DEF E!TypeOK
  <1>3. ASSUME NEW e \in Employees
        PROVE  /\ people[e] \in E!Participant \cup {E!Nobody}
               /\ people[e].status \in E!Statuses \cup {"none"}
               /\ people[e].code \in Codes \cup {"revoked"}
               /\ people[e].consented \in BOOLEAN
               /\ E!Known(e) <=> people[e].status # "none"
               /\ E!Known(e) => people[e] \in E!Participant
    <2>1. CASE people[e] = E!Nobody
      BY <2>1 DEF E!Known, E!Nobody, E!Statuses
    <2>2. CASE people[e] # E!Nobody
      <3>1. people[e] \in E!Participant BY <1>1, <2>2
      <3> QED BY <2>2, <3>1 DEF E!Known, E!Participant, E!Statuses
    <2> QED BY <2>1, <2>2
  <1>4. ASSUME NEW c \in Chats
        PROVE  /\ sessions[c] \in E!Session \cup {E!Unlinked}
               /\ sessions[c].employee \in Employees \cup {"none"}
               /\ sessions[c].consented \in BOOLEAN
    <2>1. sessions[c] \in E!Session \cup {E!Unlinked} BY <1>2
    <2>2. CASE sessions[c] = E!Unlinked BY <2>1, <2>2 DEF E!Unlinked
    <2>3. CASE sessions[c] \in E!Session BY <2>1, <2>3 DEF E!Session
    <2> QED BY <2>1, <2>2, <2>3
  <1> QED BY <1>3, <1>4

LEMMA UnlinkedIsNot ==
    ASSUME EnrolmentSensible, E!TypeOK, NEW c \in Chats
    PROVE  sessions[c] # E!Unlinked <=> Linked(c)
  <1>1. CASE sessions[c] = E!Unlinked BY <1>1 DEF E!Unlinked, Linked
  <1>2. CASE sessions[c] # E!Unlinked
    <2>1. sessions[c] \in E!Session BY <1>2 DEF E!TypeOK
    <2> QED BY <1>2, <2>1 DEF EnrolmentSensible, Linked, E!Session
  <1> QED BY <1>1, <1>2

\* The parts of the invariant say what the property says.
LEMMA AccountedSuffices ==
    ASSUME EnrolmentSensible, Accounted PROVE E!ChatsAreOwn /\ E!NothingIsOrphaned
  <1>1. E!TypeOK BY DEF Accounted
  <1>2. ASSUME NEW c \in Chats, sessions[c] # E!Unlinked
        PROVE  LET e == sessions[c].employee IN
               /\ E!LinkedTo(e) = {c}
               /\ E!Known(e) /\ people[e].status # "invite_issued"
               /\ sessions[c].consented => people[e].consented
               /\ \A t \in Employees : <<e, t>> \notin moved
    <2>1. Linked(c) BY <1>1, <1>2, UnlinkedIsNot
    <2>2. PICK e : e = sessions[c].employee OBVIOUS
    <2>3. /\ E!Known(e) /\ people[e].status # "invite_issued"
          /\ sessions[c].consented => people[e].consented
          /\ \A t \in Employees : <<e, t>> \notin moved
          /\ \A d \in Chats : sessions[d].employee = e => d = c
      BY <2>1, <2>2, Zenon DEF Accounted, LinksAreOwn
    <2>4. E!LinkedTo(e) = {c} BY <2>2, <2>3 DEF E!LinkedTo
    <2> QED BY <2>2, <2>3, <2>4, Zenon
  <1>3. E!NothingIsOrphaned BY DEF Accounted, KeptHaveConsented, E!NothingIsOrphaned
  <1> QED BY <1>2, <1>3, Zenon DEF E!ChatsAreOwn

LEMMA NobodyAtFirst == EnrolmentSensible /\ E!Init => Accounted
  <1> SUFFICES ASSUME EnrolmentSensible, E!Init PROVE Accounted OBVIOUS
  <1>1. /\ people = [e \in Employees |-> E!Nobody]
        /\ sessions = [c \in Chats |-> E!Unlinked]
        /\ moved = {}
        /\ kept = [e \in Employees |-> {}]
        /\ commands = [o \in Workers |-> E!Idle]
    BY DEF E!Init
  <1>2. E!TypeOK
    <2>1. E!Idle \in E!Command BY DEF E!Idle, E!Command
    <2>2. commands \in [Workers -> E!Command] BY <1>1, <2>1
    <2> QED BY <1>1, <2>2 DEF E!TypeOK
  <1>3. LinksAreOwn BY <1>1 DEF LinksAreOwn, Linked, E!Unlinked
  <1>4. MovedHoldNoInvite BY <1>1 DEF MovedHoldNoInvite
  <1>5. KeptHaveConsented BY <1>1 DEF KeptHaveConsented, E!Nobody
  <1>6. DeletionsAreOrdered BY <1>1 DEF DeletionsAreOrdered, E!Idle
  <1> QED BY <1>2, <1>3, <1>4, <1>5, <1>6 DEF Accounted

-----------------------------------------------------------------------------
(* Joining                                                                 *)

\* Nobody is told of a row that is not there.
LEMMA UnknownIsUntold ==
    ASSUME EnrolmentSensible, Accounted, NEW e \in Employees, ~E!Known(e)
    PROVE  /\ \A c \in Chats : sessions[c].employee # e
           /\ \A t \in Employees : <<e, t>> \notin moved
           /\ kept[e] = {}
  <1>1. e # "none" BY DEF EnrolmentSensible
  <1>2. \A c \in Chats : sessions[c].employee # e
    BY <1>1 DEF Accounted, LinksAreOwn, Linked
  <1> QED BY <1>2 DEF Accounted, MovedHoldNoInvite, KeptHaveConsented

\* The row of one participant is written: made, or a step further.
RowGoesOn(e, new) ==
    /\ people' = [people EXCEPT ![e] = new]
    /\ new \in E!Participant
    /\ new.status \in {"invite_issued", "invite_opened"} => ~new.consented
    /\ E!Known(e) =>
           /\ new.code = people[e].code
           /\ people[e].consented => new.consented
           /\ people[e].status # "invite_issued" => new.status # "invite_issued"
           /\ people[e].status \in {"consent_accepted", "profile_completed"} =>
                  new.status \in {"consent_accepted", "profile_completed"}

LEMMA PeopleAreKept ==
    ASSUME EnrolmentSensible, Accounted, NEW e \in Employees, NEW new, RowGoesOn(e, new),
           UNCHANGED <<moved, kept, commands>>
    PROVE  /\ people' \in [Employees -> E!Participant \cup {E!Nobody}]
           /\ people'[e] = new /\ new.status # "none" /\ E!Known(e)'
           /\ \A d \in Employees : d # e => people'[d] = people[d] /\ E!Known(d)' = E!Known(d)
           /\ MovedHoldNoInvite' /\ KeptHaveConsented' /\ DeletionsAreOrdered'
  <1>1. people \in [Employees -> E!Participant \cup {E!Nobody}] BY DEF Accounted, E!TypeOK
  <1>2. /\ people' \in [Employees -> E!Participant \cup {E!Nobody}]
        /\ people'[e] = new /\ \A d \in Employees : d # e => people'[d] = people[d]
    BY <1>1 DEF RowGoesOn
  <1>3. new.status # "none" BY DEF RowGoesOn, E!Participant, E!Statuses
  <1>4. E!Known(e)' BY <1>2, <1>3 DEF E!Known, E!Nobody
  <1>5. \A d \in Employees : d # e => E!Known(d)' = E!Known(d) BY <1>2 DEF E!Known
  <1>6. MovedHoldNoInvite'
    <2> SUFFICES ASSUME NEW s \in Employees, NEW t \in Employees, <<s, t>> \in moved
                 PROVE  /\ E!Known(s)' /\ people'[s].code = "revoked"
                        /\ people'[s].status \in {"consent_accepted", "profile_completed"}
      BY DEF MovedHoldNoInvite
    <2>1. /\ E!Known(s) /\ people[s].code = "revoked"
          /\ people[s].status \in {"consent_accepted", "profile_completed"}
      BY DEF Accounted, MovedHoldNoInvite
    <2>2. CASE s = e BY <1>2, <1>4, <2>1, <2>2 DEF RowGoesOn
    <2>3. CASE s # e
      <3>1. E!Known(s)' BY <1>5, <2>1, <2>3
      <3> QED BY <1>2, <2>1, <2>3, <3>1
    <2> QED BY <2>2, <2>3
  <1>7. KeptHaveConsented'
    <2> SUFFICES ASSUME NEW d \in Employees
                 PROVE  /\ people'[d].status \in {"none", "invite_issued", "invite_opened"} =>
                               ~people'[d].consented
                        /\ kept[d] # {} => E!Known(d)' /\ people'[d].consented
      BY DEF KeptHaveConsented
    <2>1. /\ people[d].status \in {"none", "invite_issued", "invite_opened"} => ~people[d].consented
          /\ kept[d] # {} => E!Known(d) /\ people[d].consented
      BY DEF Accounted, KeptHaveConsented
    <2>2. CASE d = e
      <3>1. new.status \in {"none", "invite_issued", "invite_opened"} => ~new.consented
        BY <1>3 DEF RowGoesOn
      <3>2. kept[e] # {} => new.consented BY <2>1, <2>2 DEF RowGoesOn
      <3> QED BY <1>2, <1>4, <2>2, <3>1, <3>2
    <2>3. CASE d # e
      <3>1. kept[d] # {} => E!Known(d)' BY <1>5, <2>1, <2>3
      <3> QED BY <1>2, <2>1, <2>3, <3>1
    <2> QED BY <2>2, <2>3
  <1>8. DeletionsAreOrdered' BY DEF Accounted, DeletionsAreOrdered
  <1> QED BY <1>2, <1>3, <1>4, <1>5, <1>6, <1>7, <1>8

\* While chats do not change, or one says that its employee consented, they stay linked.
LEMMA RowGoingOnStays ==
    ASSUME EnrolmentSensible, Accounted, NEW e \in Employees, NEW new, RowGoesOn(e, new),
           UNCHANGED <<moved, kept, commands>>,
           \/ sessions' = sessions
           \/ /\ new.consented
              /\ \E c \in Chats : /\ sessions[c].employee = e
                                  /\ sessions' = [sessions EXCEPT ![c].consented = TRUE]
    PROVE  Accounted'
  <1>1. /\ people' \in [Employees -> E!Participant \cup {E!Nobody}]
        /\ people'[e] = new /\ new.status # "none" /\ E!Known(e)'
        /\ \A d \in Employees : d # e => people'[d] = people[d] /\ E!Known(d)' = E!Known(d)
        /\ MovedHoldNoInvite' /\ KeptHaveConsented' /\ DeletionsAreOrdered'
    BY PeopleAreKept
  <1>2. /\ sessions' \in [Chats -> E!Session \cup {E!Unlinked}]
        /\ \A c \in Chats : /\ sessions'[c].employee = sessions[c].employee
                            /\ \/ sessions'[c].consented = sessions[c].consented
                               \/ sessions[c].employee = e /\ new.consented
    <2>1. sessions \in [Chats -> E!Session \cup {E!Unlinked}] BY DEF Accounted, E!TypeOK
    <2>2. ASSUME new.consented, NEW c \in Chats, sessions[c].employee = e,
                 sessions' = [sessions EXCEPT ![c].consented = TRUE]
          PROVE  /\ sessions' \in [Chats -> E!Session \cup {E!Unlinked}]
                 /\ sessions'[c].employee = e
                 /\ \A d \in Chats : d # c => sessions'[d] = sessions[d]
      <3>1. sessions[c] # E!Unlinked BY <2>2 DEF E!Unlinked, EnrolmentSensible
      <3>2. sessions[c] \in E!Session BY <2>1, <3>1
      <3> QED BY <2>1, <2>2, <3>2 DEF E!Session
    <2> QED BY <2>1, <2>2
  <1>3. E!TypeOK' BY <1>1, <1>2 DEF Accounted, E!TypeOK
  <1>4. LinksAreOwn'
    <2> SUFFICES ASSUME NEW c \in Chats, sessions'[c].employee # "none", NEW d,
                        d = sessions'[c].employee
                 PROVE  /\ d \in Employees /\ E!Known(d)' /\ people'[d].status # "invite_issued"
                        /\ sessions'[c].consented => people'[d].consented
                        /\ \A t \in Employees : <<d, t>> \notin moved'
                        /\ \A b \in Chats : sessions'[b].employee = d => b = c
      BY DEF LinksAreOwn, Linked
    <2>1. /\ d = sessions[c].employee /\ d \in Employees /\ E!Known(d)
          /\ people[d].status # "invite_issued"
          /\ sessions[c].consented => people[d].consented
          /\ \A t \in Employees : <<d, t>> \notin moved
          /\ \A b \in Chats : sessions[b].employee = d => b = c
      BY <1>2 DEF Accounted, LinksAreOwn, Linked
    <2>2. E!Known(d)' BY <1>1, <2>1
    <2>3. people'[d].status # "invite_issued" BY <1>1, <2>1 DEF RowGoesOn
    <2>4. sessions'[c].consented => people'[d].consented
      <3>1. CASE d = e
        <4>1. people[e].consented => new.consented BY <2>1, <3>1 DEF RowGoesOn
        <4>2. sessions'[c].consented = sessions[c].consented \/ new.consented BY <1>2
        <4>3. sessions[c].consented => people[e].consented BY <2>1, <3>1
        <4>4. people'[d] = new BY <1>1, <3>1
        <4> QED BY <4>1, <4>2, <4>3, <4>4, Zenon
      <3>2. CASE d # e
        <4>1. sessions'[c].consented = sessions[c].consented BY <1>2, <2>1, <3>2
        <4>2. people'[d] = people[d] BY <1>1, <2>1, <3>2
        <4> QED BY <2>1, <4>1, <4>2, Zenon
      <3> QED BY <3>1, <3>2
    <2> QED BY <1>2, <2>1, <2>2, <2>3, <2>4
  <1> QED BY <1>1, <1>3, <1>4 DEF Accounted

LEMMA IssueInviteStays ==
    ASSUME EnrolmentSensible, Accounted, NEW e \in Employees, NEW code \in Codes,
           E!IssueInvite(e, code)
    PROVE  Accounted'
  <1> DEFINE new == [status |-> "invite_issued", code |-> code, consented |-> FALSE]
  <1>1. RowGoesOn(e, new) BY DEF RowGoesOn, E!IssueInvite, E!Participant, E!Statuses
  <1>2. sessions' = sessions /\ UNCHANGED <<moved, kept, commands>> BY DEF E!IssueInvite
  <1> HIDE DEF new
  <1> QED BY <1>1, <1>2, RowGoingOnStays

\* Opening an invite twice is opening it once.
LEMMA OpenedGoesOn ==
    ASSUME EnrolmentSensible, Accounted, NEW e \in Employees, E!Known(e),
           people' = [people EXCEPT ![e] = E!Opened(e)]
    PROVE  RowGoesOn(e, E!Opened(e)) /\ E!Opened(e).status # "invite_issued"
  <1>1. people[e] \in E!Participant BY PeopleAreRecords DEF Accounted
  <1>2. people[e].status \in {"none", "invite_issued", "invite_opened"} => ~people[e].consented
    BY DEF Accounted, KeptHaveConsented
  <1>3. CASE people[e].status = "invite_issued"
    <2>1. /\ E!Opened(e) \in E!Participant
          /\ E!Opened(e).status = "invite_opened"
          /\ E!Opened(e).code = people[e].code
          /\ E!Opened(e).consented = people[e].consented
      BY <1>1, <1>3 DEF E!Opened, E!Participant, E!Statuses
    <2>2. ~people[e].consented BY <1>2, <1>3
    <2> QED BY <1>3, <2>1, <2>2 DEF RowGoesOn
  <1>4. CASE people[e].status # "invite_issued"
    <2>1. E!Opened(e) = people[e] BY <1>4 DEF E!Opened
    <2> QED BY <1>1, <1>2, <1>4, <2>1 DEF RowGoesOn
  <1> QED BY <1>3, <1>4

LEMMA OpenInviteStays ==
    ASSUME EnrolmentSensible, Accounted, NEW code \in Codes, E!OpenInvite(code)
    PROVE  Accounted'
  <1>1. PICK e \in E!Invited(code) : /\ people' = [people EXCEPT ![e] = E!Opened(e)]
                                     /\ UNCHANGED <<sessions, moved, kept, commands>>
    BY DEF E!OpenInvite
  <1>2. e \in Employees /\ E!Known(e) BY DEF E!Invited
  <1>3. RowGoesOn(e, E!Opened(e)) BY <1>1, <1>2, OpenedGoesOn
  <1> QED BY <1>1, <1>2, <1>3, RowGoingOnStays

\* A chat is linked to an employee without one, whose invite is good, so who never moved on.
LEMMA RedeemInviteStays ==
    ASSUME EnrolmentSensible, Accounted, NEW code \in Codes, NEW c \in Chats,
           E!RedeemInvite(code, c)
    PROVE  Accounted'
  <1>1. PICK e \in E!Invited(code) :
            /\ E!Free(c, e)
            /\ sessions' = [sessions EXCEPT ![c] = [employee |-> e, consented |-> FALSE]]
            /\ people' = [people EXCEPT ![e] = E!Opened(e)]
            /\ UNCHANGED <<moved, kept, commands>>
    BY DEF E!RedeemInvite
  <1>2. e \in Employees /\ E!Known(e) /\ people[e].code = code BY DEF E!Invited
  <1>3. PICK new : new = E!Opened(e) OBVIOUS
  <1>4. RowGoesOn(e, new) /\ new.status # "invite_issued" BY <1>1, <1>2, <1>3, OpenedGoesOn
  <1>5. /\ people' \in [Employees -> E!Participant \cup {E!Nobody}]
        /\ people'[e] = new /\ E!Known(e)'
        /\ \A d \in Employees : d # e => people'[d] = people[d] /\ E!Known(d)' = E!Known(d)
        /\ MovedHoldNoInvite' /\ KeptHaveConsented' /\ DeletionsAreOrdered'
    BY <1>1, <1>2, <1>4, PeopleAreKept
  <1>6. \A t \in Employees : <<e, t>> \notin moved
    BY <1>2 DEF Accounted, MovedHoldNoInvite, EnrolmentSensible
  <1>7. \A d \in Chats : sessions[d].employee # e BY <1>1 DEF E!Free, E!LinkedTo
  <1>8. /\ sessions' \in [Chats -> E!Session \cup {E!Unlinked}]
        /\ sessions'[c].employee = e /\ ~sessions'[c].consented
        /\ \A d \in Chats : d # c => sessions'[d] = sessions[d]
    BY <1>1, <1>2 DEF Accounted, E!TypeOK, E!Session
  <1>9. E!TypeOK' BY <1>1, <1>5, <1>8 DEF Accounted, E!TypeOK
  <1>10. LinksAreOwn'
    <2> SUFFICES ASSUME NEW b \in Chats, sessions'[b].employee # "none", NEW d,
                        d = sessions'[b].employee
                 PROVE  /\ d \in Employees /\ E!Known(d)' /\ people'[d].status # "invite_issued"
                        /\ sessions'[b].consented => people'[d].consented
                        /\ \A t \in Employees : <<d, t>> \notin moved'
                        /\ \A a \in Chats : sessions'[a].employee = d => a = b
      BY DEF LinksAreOwn, Linked
    <2>1. CASE b = c
      <3>1. \A a \in Chats : sessions'[a].employee = d => a = b BY <1>7, <1>8, <2>1
      <3> QED BY <1>1, <1>2, <1>4, <1>5, <1>6, <1>8, <2>1, <3>1
    <2>2. CASE b # c
      <3>1. /\ d = sessions[b].employee /\ d \in Employees /\ E!Known(d)
            /\ people[d].status # "invite_issued"
            /\ sessions[b].consented => people[d].consented
            /\ \A t \in Employees : <<d, t>> \notin moved
            /\ \A a \in Chats : sessions[a].employee = d => a = b
        BY <1>8, <2>2 DEF Accounted, LinksAreOwn, Linked
      <3>2. d # e BY <1>7, <3>1
      <3>3. people'[d] = people[d] /\ E!Known(d)' = E!Known(d) BY <1>5, <3>1, <3>2
      <3>4. E!Known(d)' BY <3>1, <3>3
      <3>5. \A a \in Chats : sessions'[a].employee = d => a = b BY <1>8, <3>1, <3>2
      <3> QED BY <1>1, <1>8, <2>2, <3>1, <3>3, <3>4, <3>5
    <2> QED BY <2>1, <2>2
  <1> QED BY <1>5, <1>9, <1>10 DEF Accounted

LEMMA AcceptConsentStays ==
    ASSUME EnrolmentSensible, Accounted, NEW e \in Employees, E!AcceptConsent(e)
    PROVE  Accounted'
  <1>1. E!Known(e) /\ people[e] \in E!Participant
    BY PeopleAreRecords DEF Accounted, E!AcceptConsent
  <1>2. people[e].status \in {"none", "invite_issued", "invite_opened"} => ~people[e].consented
    BY DEF Accounted, KeptHaveConsented
  <1>3. PICK new : new = E!Consenting(e) OBVIOUS
  <1>4. /\ new \in E!Participant /\ new.consented /\ new.code = people[e].code
        /\ new.status \in {"consent_accepted", "profile_completed"}
    <2>1. CASE people[e].consented
      <3>1. new = people[e] BY <1>3, <2>1 DEF E!Consenting
      <3> QED BY <1>1, <1>2, <2>1, <3>1 DEF E!Participant, E!Statuses
    <2>2. CASE ~people[e].consented
      <3>1. new = [people[e] EXCEPT !.consented = TRUE,
                       !.status = IF @ = "profile_completed" THEN @ ELSE "consent_accepted"]
        BY <1>3, <2>2 DEF E!Consenting
      <3> QED BY <1>1, <3>1 DEF E!Participant, E!Statuses
    <2> QED BY <2>1, <2>2
  <1>5. RowGoesOn(e, new) BY <1>3, <1>4 DEF RowGoesOn, E!AcceptConsent
  <1>6. \/ sessions' = sessions
        \/ \E c \in Chats : /\ sessions[c].employee = e
                            /\ sessions' = [sessions EXCEPT ![c].consented = TRUE]
    BY DEF E!AcceptConsent, E!LinkedTo
  <1>7. UNCHANGED <<moved, kept, commands>> BY DEF E!AcceptConsent
  <1> QED BY <1>4, <1>5, <1>6, <1>7, RowGoingOnStays

LEMMA CompleteProfileStays ==
    ASSUME EnrolmentSensible, Accounted, NEW e \in Employees, E!CompleteProfile(e)
    PROVE  Accounted'
  <1>1. E!Known(e) /\ people[e] \in E!Participant /\ people[e].consented
    BY PeopleAreRecords DEF Accounted, E!CompleteProfile
  <1>2. PICK new : new = [people[e] EXCEPT !.status = "profile_completed"] OBVIOUS
  <1>3. /\ new \in E!Participant /\ new.consented /\ new.code = people[e].code
        /\ new.status = "profile_completed"
    BY <1>1, <1>2 DEF E!Participant, E!Statuses
  <1>4. people' = [people EXCEPT ![e] = new]
    <2>1. people \in [Employees -> E!Participant \cup {E!Nobody}] BY DEF Accounted, E!TypeOK
    <2> QED BY <1>2, <2>1 DEF E!CompleteProfile
  <1>5. RowGoesOn(e, new) BY <1>3, <1>4 DEF RowGoesOn
  <1>6. sessions' = sessions /\ UNCHANGED <<moved, kept, commands>> BY DEF E!CompleteProfile
  <1> QED BY <1>5, <1>6, RowGoingOnStays

\* A file comes while nobody deletes its owner.
LEMMA KeepStays ==
    ASSUME EnrolmentSensible, Accounted, NEW e \in Employees, NEW kind \in E!Kinds,
           E!Keep(e, kind)
    PROVE  Accounted'
  <1>1. /\ E!Known(e) /\ people[e].consented /\ E!Quiet(e)
        /\ kept' = [kept EXCEPT ![e] = @ \cup {kind}]
        /\ UNCHANGED <<people, sessions, moved, commands>>
    BY DEF E!Keep
  <1>2. /\ kept' \in [Employees -> SUBSET E!Kinds]
        /\ \A d \in Employees : d # e => kept'[d] = kept[d]
    BY <1>1 DEF Accounted, E!TypeOK
  <1>3. E!TypeOK' BY <1>1, <1>2 DEF Accounted, E!TypeOK
  <1>4. LinksAreOwn'
    <2>1. \A d : E!Known(d)' = E!Known(d) BY <1>1 DEF E!Known
    <2> QED BY <1>1, <2>1 DEF Accounted, LinksAreOwn, Linked
  <1>5. MovedHoldNoInvite'
    <2>1. \A d : E!Known(d)' = E!Known(d) BY <1>1 DEF E!Known
    <2> QED BY <1>1, <2>1 DEF Accounted, MovedHoldNoInvite
  <1>6. KeptHaveConsented'
    <2>1. \A d : E!Known(d)' = E!Known(d) BY <1>1 DEF E!Known
    <2> QED BY <1>1, <1>2, <2>1 DEF Accounted, KeptHaveConsented
  <1>7. DeletionsAreOrdered'
    <2> SUFFICES ASSUME NEW o \in Workers, NEW d, d = commands[o].employee
                 PROVE  /\ commands[o].phase # "idle" => d \in Employees
                        /\ commands[o].phase = "objects" => kept'[d] \in SUBSET {"objects"}
                        /\ commands[o].phase = "erasing" => kept'[d] = {}
      BY <1>1 DEF DeletionsAreOrdered
    <2>1. /\ commands[o].phase # "idle" => d \in Employees
          /\ commands[o].phase = "objects" => kept[d] \in SUBSET {"objects"}
          /\ commands[o].phase = "erasing" => kept[d] = {}
      BY DEF Accounted, DeletionsAreOrdered
    <2>2. CASE d = e
      <3>1. commands[o].phase = "revoking" BY <1>1, <2>2 DEF E!Quiet
      <3> QED BY <2>1, <3>1
    <2>3. CASE d # e BY <1>2, <2>1, <2>3
    <2> QED BY <2>2, <2>3
  <1> QED BY <1>3, <1>4, <1>5, <1>6, <1>7 DEF Accounted

-----------------------------------------------------------------------------
(* Moving                                                                  *)

\* The chat goes with the person, to a participation nobody had taken up.
LEMMA TransitionStays ==
    ASSUME EnrolmentSensible, Accounted, NEW s \in Employees, NEW t \in Employees,
           E!Transition(s, t)
    PROVE  Accounted'
  <1>1. /\ \A o \in Workers : commands[o] = E!Idle
        /\ E!Known(s) /\ E!Known(t) /\ s # t
        /\ E!LinkedTo(t) = {} /\ people[t].status = "invite_issued"
        /\ people[s].status \in {"consent_accepted", "profile_completed"} /\ people[s].consented
        /\ moved' = moved \cup {<<s, t>>} /\ UNCHANGED <<kept, commands>>
    BY DEF E!Transition, E!Movable
  <1>2. people[s] \in E!Participant /\ people[t] \in E!Participant
    BY <1>1, PeopleAreRecords DEF Accounted
  <1>3. PICK left : left = [people[s] EXCEPT !.code = "revoked"] OBVIOUS
  <1>4. PICK taken : taken = [people[t] EXCEPT !.status = people[s].status, !.consented = TRUE]
    OBVIOUS
  <1>5. /\ left \in E!Participant /\ left.code = "revoked"
        /\ left.status = people[s].status /\ left.consented
    BY <1>1, <1>2, <1>3 DEF E!Participant
  <1>6. /\ taken \in E!Participant
        /\ taken.status = people[s].status /\ taken.consented
    BY <1>2, <1>4 DEF E!Participant
  <1>7. /\ people' \in [Employees -> E!Participant \cup {E!Nobody}]
        /\ people'[s] = left /\ people'[t] = taken
        /\ \A d \in Employees : d # s /\ d # t => people'[d] = people[d]
    <2>1. people \in [Employees -> E!Participant \cup {E!Nobody}] BY DEF Accounted, E!TypeOK
    <2>2. people' = [people EXCEPT ![s] = left, ![t] = taken]
      BY <1>1, <1>3, <1>4, <2>1 DEF E!Transition, E!InviteRevoked
    <2> QED BY <1>1, <1>5, <1>6, <2>1, <2>2
  <1>8. \A d \in Employees : d # s /\ d # t => E!Known(d)' = E!Known(d)
    BY <1>7 DEF E!Known
  <1>9. E!Known(s)' /\ E!Known(t)'
    <2>1. left # E!Nobody /\ taken # E!Nobody BY <1>1, <1>5, <1>6 DEF E!Nobody
    <2> QED BY <1>7, <2>1 DEF E!Known
  <1>10. /\ sessions' \in [Chats -> E!Session \cup {E!Unlinked}]
         /\ \A c \in Chats : /\ sessions[c].employee = s => sessions'[c].employee = t
                             /\ sessions[c].employee # s => sessions'[c] = sessions[c]
    <2>1. \A c \in Chats : sessions[c] \in E!Session \cup {E!Unlinked} BY DEF Accounted, E!TypeOK
    <2>2. sessions' = [c \in Chats |-> IF c \in E!LinkedTo(s) THEN [sessions[c] EXCEPT !.employee = t]
                                       ELSE sessions[c]]
      BY DEF E!Transition
    <2>3. \A c \in Chats : c \in E!LinkedTo(s) <=> sessions[c].employee = s BY DEF E!LinkedTo
    <2>4. ASSUME NEW c \in Chats, sessions[c].employee = s
          PROVE  sessions'[c] \in E!Session /\ sessions'[c].employee = t
      <3>1. sessions[c] \in E!Session BY <2>1, <2>4 DEF E!Unlinked, EnrolmentSensible
      <3>2. sessions'[c] = [sessions[c] EXCEPT !.employee = t] BY <2>2, <2>3, <2>4
      <3> QED BY <3>1, <3>2 DEF E!Session
    <2>5. ASSUME NEW c \in Chats, sessions[c].employee # s PROVE sessions'[c] = sessions[c]
      BY <2>2, <2>3, <2>5
    <2>6. \A c \in Chats : sessions'[c] \in E!Session \cup {E!Unlinked} BY <2>1, <2>4, <2>5
    <2>7. sessions' \in [Chats -> E!Session \cup {E!Unlinked}] BY <2>2, <2>6
    <2> QED BY <2>4, <2>5, <2>7
  <1>11. E!TypeOK'
    <2>1. moved' \subseteq Employees \X Employees BY <1>1 DEF Accounted, E!TypeOK
    <2> QED BY <1>1, <1>7, <1>10, <2>1 DEF Accounted, E!TypeOK
  <1>12. \A d \in Employees : <<t, d>> \notin moved
    BY <1>1 DEF Accounted, MovedHoldNoInvite
  <1>13. LinksAreOwn'
    <2> SUFFICES ASSUME NEW c \in Chats, sessions'[c].employee # "none", NEW d,
                        d = sessions'[c].employee
                 PROVE  /\ d \in Employees /\ E!Known(d)' /\ people'[d].status # "invite_issued"
                        /\ sessions'[c].consented => people'[d].consented
                        /\ \A r \in Employees : <<d, r>> \notin moved'
                        /\ \A b \in Chats : sessions'[b].employee = d => b = c
      BY DEF LinksAreOwn, Linked
    <2>1. \A b \in Chats : sessions[b].employee # t BY <1>1 DEF E!LinkedTo
    <2>2. CASE sessions[c].employee = s
      <3>1. d = t BY <1>10, <2>2
      <3>2. s # "none" BY DEF EnrolmentSensible
      <3>3. \A b \in Chats : sessions[b].employee = s => b = c
        BY <2>2, <3>2 DEF Accounted, LinksAreOwn, Linked
      <3>4. \A b \in Chats : sessions'[b].employee = t => b = c BY <1>10, <2>1, <3>3
      <3>5. \A r \in Employees : <<t, r>> \notin moved' BY <1>1, <1>12
      <3> QED BY <1>1, <1>6, <1>7, <1>9, <3>1, <3>4, <3>5
    <2>3. CASE sessions[c].employee # s
      <3>1. sessions'[c] = sessions[c] BY <1>10, <2>3
      <3>2. /\ d = sessions[c].employee /\ d \in Employees /\ E!Known(d)
            /\ people[d].status # "invite_issued"
            /\ sessions[c].consented => people[d].consented
            /\ \A r \in Employees : <<d, r>> \notin moved
            /\ \A b \in Chats : sessions[b].employee = d => b = c
        BY <3>1 DEF Accounted, LinksAreOwn, Linked
      <3>3. d # s /\ d # t BY <2>1, <2>3, <3>2
      <3>4. people'[d] = people[d] BY <1>7, <3>2, <3>3
      <3>5. E!Known(d)' BY <1>8, <3>2, <3>3
      <3>6. \A b \in Chats : sessions'[b].employee = d => b = c BY <1>10, <3>2, <3>3
      <3>7. \A r \in Employees : <<d, r>> \notin moved' BY <1>1, <3>2, <3>3
      <3> QED BY <3>1, <3>2, <3>4, <3>5, <3>6, <3>7
    <2> QED BY <2>2, <2>3
  <1>14. MovedHoldNoInvite'
    <2> SUFFICES ASSUME NEW a \in Employees, NEW b \in Employees, <<a, b>> \in moved'
                 PROVE  /\ E!Known(a)' /\ people'[a].code = "revoked"
                        /\ people'[a].status \in {"consent_accepted", "profile_completed"}
      BY DEF MovedHoldNoInvite
    <2>1. CASE a = s BY <1>1, <1>5, <1>7, <1>9, <2>1
    <2>2. CASE a # s
      <3>1. <<a, b>> \in moved BY <1>1, <2>2
      <3>2. /\ E!Known(a) /\ people[a].code = "revoked"
            /\ people[a].status \in {"consent_accepted", "profile_completed"}
        BY <3>1 DEF Accounted, MovedHoldNoInvite
      <3>3. a # t BY <1>12, <3>1
      <3>4. E!Known(a)' BY <1>8, <2>2, <3>2, <3>3
      <3> QED BY <1>7, <2>2, <3>2, <3>3, <3>4
    <2> QED BY <2>1, <2>2
  <1>15. KeptHaveConsented'
    <2> SUFFICES ASSUME NEW d \in Employees
                 PROVE  /\ people'[d].status \in {"none", "invite_issued", "invite_opened"} =>
                               ~people'[d].consented
                        /\ kept[d] # {} => E!Known(d)' /\ people'[d].consented
      BY <1>1 DEF KeptHaveConsented
    <2>1. CASE d = s BY <1>1, <1>5, <1>7, <1>9, <2>1
    <2>2. CASE d = t BY <1>1, <1>6, <1>7, <1>9, <2>2
    <2>3. CASE d # s /\ d # t
      <3>1. /\ people[d].status \in {"none", "invite_issued", "invite_opened"} =>
                   ~people[d].consented
            /\ kept[d] # {} => E!Known(d) /\ people[d].consented
        BY DEF Accounted, KeptHaveConsented
      <3>2. kept[d] # {} => E!Known(d)' BY <1>8, <2>3, <3>1
      <3> QED BY <1>7, <2>3, <3>1, <3>2
    <2> QED BY <2>1, <2>2, <2>3
  <1>16. DeletionsAreOrdered' BY <1>1 DEF Accounted, DeletionsAreOrdered
  <1> QED BY <1>11, <1>13, <1>14, <1>15, <1>16 DEF Accounted

-----------------------------------------------------------------------------
(* Leaving                                                                 *)

\* A command that starts, ends or goes on leaves people and chats as they are.
LEMMA CommandsStay ==
    ASSUME EnrolmentSensible, Accounted, UNCHANGED <<people, sessions, moved>>,
           kept' \in [Employees -> SUBSET E!Kinds],
           \A d \in Employees : kept'[d] \subseteq kept[d],
           commands' \in [Workers -> E!Command], DeletionsAreOrdered'
    PROVE  Accounted'
  <1>1. E!TypeOK' BY DEF Accounted, E!TypeOK
  <1>2. \A d : E!Known(d)' = E!Known(d) BY DEF E!Known
  <1>3. LinksAreOwn' BY <1>2 DEF Accounted, LinksAreOwn, Linked
  <1>4. MovedHoldNoInvite' BY <1>2 DEF Accounted, MovedHoldNoInvite
  <1>5. KeptHaveConsented'
    <2>1. \A d \in Employees : kept'[d] # {} => kept[d] # {} OBVIOUS
    <2> QED BY <1>2, <2>1 DEF Accounted, KeptHaveConsented
  <1> QED BY <1>1, <1>3, <1>4, <1>5 DEF Accounted

\* Ending a command, or starting one that has removed nothing yet, keeps the order.
LEMMA DeletionOrderStays ==
    ASSUME Accounted, NEW o \in Workers, UNCHANGED kept, NEW new \in E!Command,
           commands' = [commands EXCEPT ![o] = new],
           new.phase \in {"idle", "revoking", "derived"},
           new.phase # "idle" => new.employee \in Employees
    PROVE  commands' \in [Workers -> E!Command] /\ DeletionsAreOrdered'
  <1>1. /\ commands' \in [Workers -> E!Command] /\ commands'[o] = new
        /\ \A a \in Workers : a # o => commands'[a] = commands[a]
    BY DEF Accounted, E!TypeOK
  <1> SUFFICES ASSUME NEW a \in Workers, NEW d, d = commands'[a].employee
               PROVE  /\ commands'[a].phase # "idle" => d \in Employees
                      /\ commands'[a].phase = "objects" => kept[d] \in SUBSET {"objects"}
                      /\ commands'[a].phase = "erasing" => kept[d] = {}
    BY <1>1 DEF DeletionsAreOrdered
  <1>2. CASE a = o BY <1>1, <1>2
  <1>3. CASE a # o BY <1>1, <1>3 DEF Accounted, DeletionsAreOrdered
  <1> QED BY <1>2, <1>3

LEMMA IdleIsCommand == E!Idle \in E!Command /\ E!Idle.phase = "idle"
  BY DEF E!Idle, E!Command

LEMMA StartStays ==
    ASSUME EnrolmentSensible, Accounted, NEW o \in Workers, NEW e \in Employees,
           E!ReadForRevoke(o, e) \/ E!StartDeletion(o, e)
    PROVE  Accounted'
  <1>1. PICK phase \in {"revoking", "derived"} :
            commands' = [commands EXCEPT ![o] = [phase |-> phase, employee |-> e]]
    BY DEF E!ReadForRevoke, E!StartDeletion, E!Goes
  <1>2. PICK new : new = [phase |-> phase, employee |-> e] OBVIOUS
  <1>3. new \in E!Command /\ new.phase = phase /\ new.employee = e BY <1>2 DEF E!Command
  <1>4. UNCHANGED <<people, sessions, moved, kept>> BY DEF E!ReadForRevoke, E!StartDeletion
  <1>5. commands' \in [Workers -> E!Command] /\ DeletionsAreOrdered'
    BY <1>1, <1>2, <1>3, <1>4, DeletionOrderStays
  <1> QED BY <1>4, <1>5, CommandsStay DEF Accounted, E!TypeOK

LEMMA FailStays ==
    ASSUME EnrolmentSensible, Accounted, NEW o \in Workers, E!Fail(o)
    PROVE  Accounted'
  <1>1. commands' = [commands EXCEPT ![o] = E!Idle] /\ UNCHANGED <<people, sessions, moved, kept>>
    BY DEF E!Fail, E!Ends
  <1>2. commands' \in [Workers -> E!Command] /\ DeletionsAreOrdered'
    BY <1>1, IdleIsCommand, DeletionOrderStays
  <1> QED BY <1>1, <1>2, CommandsStay DEF Accounted, E!TypeOK

\* What is removed of one employee is in the order of the command, and no other command minds.
LEMMA RemoveStays ==
    ASSUME EnrolmentSensible, Accounted, NEW o \in Workers, E!Remove(o)
    PROVE  Accounted'
  <1>1. PICK phase, e : phase = commands[o].phase /\ e = commands[o].employee OBVIOUS
  <1>2. phase \in {"derived", "objects"} BY <1>1 DEF E!Remove, E!Kinds
  <1>3. e \in Employees BY <1>1, <1>2 DEF Accounted, DeletionsAreOrdered
  <1>4. /\ kept' = [kept EXCEPT ![e] = @ \ {phase}]
        /\ UNCHANGED <<people, sessions, moved>>
    BY <1>1 DEF E!Remove
  <1>5. PICK new : new = [phase |-> E!After(phase), employee |-> e] OBVIOUS
  <1>6. commands' = [commands EXCEPT ![o] = new] BY <1>1, <1>5 DEF E!Remove, E!Goes
  <1>7. /\ new \in E!Command /\ new.employee = e
        /\ phase = "derived" => new.phase = "objects"
        /\ phase = "objects" => new.phase = "erasing"
    BY <1>2, <1>3, <1>5 DEF E!Command, E!After
  <1>8. /\ kept' \in [Employees -> SUBSET E!Kinds]
        /\ kept'[e] = kept[e] \ {phase}
        /\ \A d \in Employees : kept'[d] \subseteq kept[d]
    BY <1>3, <1>4 DEF Accounted, E!TypeOK
  <1>9. /\ commands' \in [Workers -> E!Command] /\ commands'[o] = new
        /\ \A a \in Workers : a # o => commands'[a] = commands[a]
    BY <1>6, <1>7 DEF Accounted, E!TypeOK
  <1>10. DeletionsAreOrdered'
    <2> SUFFICES ASSUME NEW a \in Workers, NEW d, d = commands'[a].employee
                 PROVE  /\ commands'[a].phase # "idle" => d \in Employees
                        /\ commands'[a].phase = "objects" => kept'[d] \in SUBSET {"objects"}
                        /\ commands'[a].phase = "erasing" => kept'[d] = {}
      BY DEF DeletionsAreOrdered
    <2>1. CASE a = o
      <3>1. d = e BY <1>7, <1>9, <2>1
      <3>2. CASE phase = "derived"
        <4>1. kept[e] \subseteq {"derived", "objects"}
          BY <1>3 DEF Accounted, E!TypeOK, E!Kinds
        <4>2. kept'[e] \in SUBSET {"objects"} BY <1>8, <3>2, <4>1
        <4> QED BY <1>3, <1>7, <1>9, <2>1, <3>1, <3>2, <4>2
      <3>3. CASE phase = "objects"
        <4>1. kept[e] \in SUBSET {"objects"}
          BY <1>1, <3>3 DEF Accounted, DeletionsAreOrdered
        <4>2. kept'[e] = {} BY <1>8, <3>3, <4>1
        <4> QED BY <1>3, <1>7, <1>9, <2>1, <3>1, <3>3, <4>2
      <3> QED BY <1>2, <3>2, <3>3
    <2>2. CASE a # o
      <3>1. /\ d = commands[a].employee
            /\ commands[a].phase # "idle" => d \in Employees
            /\ commands[a].phase = "objects" => kept[d] \in SUBSET {"objects"}
            /\ commands[a].phase = "erasing" => kept[d] = {}
            /\ commands'[a] = commands[a]
        BY <1>9, <2>2 DEF Accounted, DeletionsAreOrdered
      <3>2. d \in Employees => kept'[d] \subseteq kept[d] BY <1>8
      <3> QED BY <3>1, <3>2
    <2> QED BY <2>1, <2>2
  <1> QED BY <1>4, <1>8, <1>9, <1>10, CommandsStay

\* A row goes only once nothing is kept about it; its links and its moves go with it.
LEMMA ErasingStays ==
    ASSUME EnrolmentSensible, Accounted, NEW e \in Employees, E!Erased(e), kept[e] = {},
           UNCHANGED kept, commands' \in [Workers -> E!Command], DeletionsAreOrdered'
    PROVE  Accounted'
  <1>1. /\ people' = [people EXCEPT ![e] = E!Nobody]
        /\ moved' = {m \in moved : e \notin {m[1], m[2]}}
    BY DEF E!Erased
  <1>2. /\ people' \in [Employees -> E!Participant \cup {E!Nobody}]
        /\ people'[e] = E!Nobody
        /\ \A d \in Employees : d # e => people'[d] = people[d]
    BY <1>1 DEF Accounted, E!TypeOK
  <1>3. \A d \in Employees : d # e => E!Known(d)' = E!Known(d) BY <1>2 DEF E!Known
  <1>4. /\ sessions' \in [Chats -> E!Session \cup {E!Unlinked}]
        /\ \A c \in Chats : /\ sessions[c].employee = e => sessions'[c].employee = "none"
                            /\ sessions[c].employee # e => sessions'[c] = sessions[c]
    <2>1. sessions' = [c \in Chats |-> IF c \in E!LinkedTo(e) THEN E!Unlinked ELSE sessions[c]]
      BY DEF E!Erased
    <2>2. \A c \in Chats : c \in E!LinkedTo(e) <=> sessions[c].employee = e BY DEF E!LinkedTo
    <2> QED BY <2>1, <2>2 DEF Accounted, E!TypeOK, E!Unlinked
  <1>5. \A a \in Employees, b \in Employees : <<a, b>> \in moved' => <<a, b>> \in moved /\ a # e
    BY <1>1
  <1>6. E!TypeOK' BY <1>1, <1>2, <1>4 DEF Accounted, E!TypeOK
  <1>7. LinksAreOwn'
    <2> SUFFICES ASSUME NEW c \in Chats, sessions'[c].employee # "none", NEW d,
                        d = sessions'[c].employee
                 PROVE  /\ d \in Employees /\ E!Known(d)' /\ people'[d].status # "invite_issued"
                        /\ sessions'[c].consented => people'[d].consented
                        /\ \A r \in Employees : <<d, r>> \notin moved'
                        /\ \A b \in Chats : sessions'[b].employee = d => b = c
      BY DEF LinksAreOwn, Linked
    <2>1. sessions'[c] = sessions[c] /\ d # e BY <1>4
    <2>2. /\ d = sessions[c].employee /\ d \in Employees /\ E!Known(d)
          /\ people[d].status # "invite_issued"
          /\ sessions[c].consented => people[d].consented
          /\ \A r \in Employees : <<d, r>> \notin moved
          /\ \A b \in Chats : sessions[b].employee = d => b = c
      BY <2>1 DEF Accounted, LinksAreOwn, Linked
    <2>3. E!Known(d)' BY <1>3, <2>1, <2>2
    <2>4. people'[d] = people[d] BY <1>2, <2>1, <2>2
    <2>5. \A r \in Employees : <<d, r>> \notin moved' BY <1>5, <2>2
    <2>6. \A b \in Chats : sessions'[b].employee = d => b = c
      <3> SUFFICES ASSUME NEW b \in Chats, sessions'[b].employee = d PROVE b = c OBVIOUS
      <3>1. sessions[b].employee # e BY <1>4
      <3> QED BY <1>4, <2>2, <3>1
    <2> QED BY <2>1, <2>2, <2>3, <2>4, <2>5, <2>6
  <1>8. MovedHoldNoInvite'
    <2> SUFFICES ASSUME NEW a \in Employees, NEW b \in Employees, <<a, b>> \in moved'
                 PROVE  /\ E!Known(a)' /\ people'[a].code = "revoked"
                        /\ people'[a].status \in {"consent_accepted", "profile_completed"}
      BY DEF MovedHoldNoInvite
    <2>1. <<a, b>> \in moved /\ a # e BY <1>5
    <2>2. /\ E!Known(a) /\ people[a].code = "revoked"
          /\ people[a].status \in {"consent_accepted", "profile_completed"}
      BY <2>1 DEF Accounted, MovedHoldNoInvite
    <2>3. E!Known(a)' BY <1>3, <2>1, <2>2
    <2> QED BY <1>2, <2>1, <2>2, <2>3
  <1>9. KeptHaveConsented'
    <2> SUFFICES ASSUME NEW d \in Employees
                 PROVE  /\ people'[d].status \in {"none", "invite_issued", "invite_opened"} =>
                               ~people'[d].consented
                        /\ kept[d] # {} => E!Known(d)' /\ people'[d].consented
      BY DEF KeptHaveConsented
    <2>1. CASE d = e BY <1>2, <2>1 DEF E!Nobody
    <2>2. CASE d # e
      <3>1. /\ people[d].status \in {"none", "invite_issued", "invite_opened"} =>
                   ~people[d].consented
            /\ kept[d] # {} => E!Known(d) /\ people[d].consented
        BY DEF Accounted, KeptHaveConsented
      <3>2. kept[d] # {} => E!Known(d)' BY <1>3, <2>2, <3>1
      <3> QED BY <1>2, <2>2, <3>1, <3>2
    <2> QED BY <2>1, <2>2
  <1> QED BY <1>6, <1>7, <1>8, <1>9 DEF Accounted

\* Whose invite is not open yet has not consented, so nothing is kept about them.
LEMMA RevokeStays ==
    ASSUME EnrolmentSensible, Accounted, NEW o \in Workers, E!Revoke(o)
    PROVE  Accounted'
  <1>1. PICK e : e = commands[o].employee OBVIOUS
  <1>2. e \in Employees BY <1>1 DEF Accounted, DeletionsAreOrdered, E!Revoke
  <1>3. commands' = [commands EXCEPT ![o] = E!Idle] /\ UNCHANGED kept BY DEF E!Revoke, E!Ends
  <1>4. commands' \in [Workers -> E!Command] /\ DeletionsAreOrdered'
    BY <1>3, IdleIsCommand, DeletionOrderStays
  <1>5. CASE E!Revocable(e)
    <2>1. E!Erased(e) BY <1>1, <1>5 DEF E!Revoke
    <2>2. people[e].status = "invite_issued" BY <1>5 DEF E!Revocable
    <2>3. kept[e] = {} BY <1>2, <2>2 DEF Accounted, KeptHaveConsented
    <2> QED BY <1>2, <1>3, <1>4, <2>1, <2>3, ErasingStays
  <1>6. CASE ~E!Revocable(e)
    <2>1. UNCHANGED <<people, sessions, moved>> BY <1>1, <1>6 DEF E!Revoke
    <2> QED BY <1>3, <1>4, <2>1, CommandsStay DEF Accounted, E!TypeOK
  <1> QED BY <1>5, <1>6

LEMMA EraseStays ==
    ASSUME EnrolmentSensible, Accounted, NEW o \in Workers, E!Erase(o)
    PROVE  Accounted'
  <1>1. PICK e : e = commands[o].employee OBVIOUS
  <1>2. e \in Employees /\ kept[e] = {} BY <1>1 DEF Accounted, DeletionsAreOrdered, E!Erase
  <1>3. commands' = [commands EXCEPT ![o] = E!Idle] /\ UNCHANGED kept BY DEF E!Erase, E!Ends
  <1>4. commands' \in [Workers -> E!Command] /\ DeletionsAreOrdered'
    BY <1>3, IdleIsCommand, DeletionOrderStays
  <1>5. E!Erased(e) BY <1>1 DEF E!Erase
  <1> QED BY <1>2, <1>3, <1>4, <1>5, ErasingStays

-----------------------------------------------------------------------------
(* Every step                                                              *)

LEMMA EnrolmentStepStays ==
    ASSUME EnrolmentSensible, Accounted, E!Next PROVE Accounted'
  <1>1. ASSUME NEW e \in Employees, NEW code \in Codes, E!IssueInvite(e, code) PROVE Accounted'
    BY <1>1, IssueInviteStays
  <1>2. ASSUME NEW code \in Codes, E!OpenInvite(code) PROVE Accounted'
    BY <1>2, OpenInviteStays
  <1>3. ASSUME NEW code \in Codes, NEW c \in Chats, E!RedeemInvite(code, c) PROVE Accounted'
    BY <1>3, RedeemInviteStays
  <1>4. ASSUME NEW e \in Employees, E!AcceptConsent(e) PROVE Accounted'
    BY <1>4, AcceptConsentStays
  <1>5. ASSUME NEW e \in Employees, E!CompleteProfile(e) PROVE Accounted'
    BY <1>5, CompleteProfileStays
  <1>6. ASSUME NEW e \in Employees, NEW kind \in E!Kinds, E!Keep(e, kind) PROVE Accounted'
    BY <1>6, KeepStays
  <1>7. ASSUME NEW s \in Employees, NEW t \in Employees, E!Transition(s, t) PROVE Accounted'
    BY <1>7, TransitionStays
  <1>8. ASSUME NEW o \in Workers, NEW e \in Employees, E!ReadForRevoke(o, e) \/ E!StartDeletion(o, e)
        PROVE  Accounted'
    BY <1>8, StartStays
  <1>9. ASSUME NEW o \in Workers, E!Revoke(o) PROVE Accounted' BY <1>9, RevokeStays
  <1>10. ASSUME NEW o \in Workers, E!Remove(o) PROVE Accounted' BY <1>10, RemoveStays
  <1>11. ASSUME NEW o \in Workers, E!Erase(o) PROVE Accounted' BY <1>11, EraseStays
  <1>12. ASSUME NEW o \in Workers, E!Fail(o) PROVE Accounted' BY <1>12, FailStays
  <1> QED BY <1>1, <1>2, <1>3, <1>4, <1>5, <1>6, <1>7, <1>8, <1>9, <1>10, <1>11, <1>12 DEF E!Next

LEMMA EnrolmentStandsStill ==
    ASSUME Accounted, UNCHANGED enrolmentVars PROVE Accounted'
  <1>1. UNCHANGED <<people, sessions, moved, kept, commands>> BY DEF enrolmentVars
  <1>2. E!TypeOK' BY <1>1 DEF Accounted, E!TypeOK
  <1>3. \A d : E!Known(d)' = E!Known(d) BY <1>1 DEF E!Known
  <1>4. LinksAreOwn' BY <1>1, <1>3 DEF Accounted, LinksAreOwn, Linked
  <1>5. MovedHoldNoInvite' BY <1>1, <1>3 DEF Accounted, MovedHoldNoInvite
  <1>6. KeptHaveConsented' BY <1>1, <1>3 DEF Accounted, KeptHaveConsented
  <1>7. DeletionsAreOrdered' BY <1>1 DEF Accounted, DeletionsAreOrdered
  <1> QED BY <1>2, <1>4, <1>5, <1>6, <1>7 DEF Accounted

\* A behaviour about joining and leaving stays about it.
LEMMA TopicStays == [AllNext]_all => about' = about
  BY DEF AllNext, all

LEMMA EnrolmentGoesOn ==
    EnrolmentSensible /\ (about = "enrolment" => Accounted) /\ [AllNext]_all
        => (about = "enrolment" => Accounted)'
  <1> SUFFICES ASSUME EnrolmentSensible, about = "enrolment" => Accounted, [AllNext]_all,
                      about' = "enrolment"
               PROVE  Accounted'
    OBVIOUS
  <1>1. about = "enrolment" /\ Accounted BY TopicStays
  <1>2. E!Next \/ UNCHANGED enrolmentVars BY <1>1 DEF AllNext, all
  <1> QED BY <1>1, <1>2, EnrolmentStepStays, EnrolmentStandsStill

\* However employees join, move and leave, whatever fails and whichever commands run at the same
\* time, a chat speaks for one employee who is there, and nothing is kept about somebody gone.
THEOREM PeopleStayAccountedFor ==
    EnrolmentSensible => (AllSpec => []PeopleAreAccountedFor)
  <1> SUFFICES ASSUME EnrolmentSensible PROVE AllSpec => []PeopleAreAccountedFor OBVIOUS
  <1>1. AllInit => (about = "enrolment" => Accounted) BY NobodyAtFirst DEF AllInit
  <1>2. (about = "enrolment" => Accounted) /\ [AllNext]_all => (about = "enrolment" => Accounted)'
    BY EnrolmentGoesOn
  <1>3. (about = "enrolment" => Accounted) => PeopleAreAccountedFor
    BY AccountedSuffices DEF PeopleAreAccountedFor
  <1> QED BY <1>1, <1>2, <1>3, PTL DEF AllSpec

-----------------------------------------------------------------------------
(* Induction                                                               *)

\* Induction over the natural numbers, for a set: were a number not in it, adding one would map
\* the finite set of smaller ones that are into itself, and miss zero.
LEMMA Induction ==
  ASSUME NEW N, 0 \in N, \A n \in Nat : n \in N => n + 1 \in N
  PROVE  Nat \subseteq N
  <1> SUFFICES ASSUME NEW m \in Nat, m \notin N PROVE FALSE
    OBVIOUS
  <1> DEFINE B == (0 .. m) \cap N
             f == [x \in B |-> x + 1]
  <1>0. IsFiniteSet(0 .. m)
    BY 0 \in Int, m \in Int, FS_Interval, Zenon
  <1>1. IsFiniteSet(B)
    <2>1. B \subseteq 0 .. m
      OBVIOUS
    <2> QED
      BY <1>0, <2>1, FS_Subset
  <1>2. \A x \in B : x + 1 \in B
    OBVIOUS
  <1>3. f \in [B -> B] /\ (\A x, y \in B : f[x] = f[y] => x = y)
    BY <1>2
  <1>4. f \in Injection(B, B)
    BY <1>3, Zenon DEF Injection, IsInjective
  <1>5. f \in Surjection(B, B)
    <2> HIDE DEF f, B
    <2> QED
      BY <1>1, <1>4, FS_Injection
  <1>6. PICK x \in B : f[x] = 0
    <2>1. 0 \in B
      OBVIOUS
    <2> QED
      BY <1>5, <2>1, Zenon DEF Surjection
  <1> QED
    BY <1>6

-----------------------------------------------------------------------------
(* What one event does to the episodes                                     *)

Episodes == [R!Ids -> R!Episode]

\* Two projections that agree on whether an episode is there, and at which revision.
Alike(es, fs, i) ==
    /\ R!There(es, i) <=> R!There(fs, i)
    /\ es[i].revision = fs[i].revision

LEMMA IdsAreNumbers ==
    ASSUME QuestionsSensible
    PROVE  R!Ids = 1..(MaxEmployee + MaxScheduled) /\ MaxEmployee + MaxScheduled \in Nat
  BY DEF QuestionsSensible, R!Ids

LEMMA SmallestIsOne ==
    ASSUME QuestionsSensible, NEW X \in SUBSET R!Ids, X # {}
    PROVE  R!Min(X) \in X
  <1> DEFINE N == {n \in Nat : \A x \in X : x > n}
  <1> SUFFICES ASSUME ~ \E x \in X : \A y \in X : x <= y
               PROVE  FALSE
    BY DEF R!Min
  <1>1. 0 \in N
    BY IdsAreNumbers
  <1>2. \A n \in Nat : n \in N => n + 1 \in N
    BY IdsAreNumbers
  <1>3. Nat \subseteq N
    <2> HIDE DEF N
    <2> QED BY <1>1, <1>2, Induction
  <1>4. PICK x \in X : TRUE
    OBVIOUS
  <1>5. x \in Nat
    BY IdsAreNumbers
  <1> QED BY <1>3, <1>5

LEMMA LargestIsOne ==
    ASSUME QuestionsSensible, NEW X \in SUBSET R!Ids, X # {}
    PROVE  R!Max(X) \in X
  <1> DEFINE m == MaxEmployee + MaxScheduled
             N == {n \in Nat : \A x \in X : x + n <= m}
  <1> SUFFICES ASSUME ~ \E x \in X : \A y \in X : x >= y
               PROVE  FALSE
    BY DEF R!Max
  <1>0. m \in Nat /\ \A x \in X : x \in Nat /\ x <= m
    BY IdsAreNumbers
  <1>1. 0 \in N
    BY <1>0
  <1>2. \A n \in Nat : n \in N => n + 1 \in N
    BY <1>0
  <1>3. Nat \subseteq N
    <2> HIDE DEF N
    <2> QED BY <1>1, <1>2, Induction
  <1>4. PICK x \in X : TRUE
    OBVIOUS
  <1>5. m + 1 \in Nat
    BY <1>0
  <1>6. x + (m + 1) <= m
    BY <1>3, <1>5
  <1> QED BY <1>0, <1>6

LEMMA AnotherDayIsEpisodes ==
    ASSUME QuestionsSensible, NEW es \in Episodes, NEW d \in Nat
    PROVE  /\ R!OnDay(es, d) \in Episodes
           /\ \A i \in R!Ids : Alike(R!OnDay(es, d), es, i)
           /\ \A i \in R!Ids : R!OnDay(es, d)[i].status = es[i].status
  BY DEF Episodes, R!OnDay, R!Episode, R!There, Alike

LEMMA CountIsEpisodes ==
    ASSUME QuestionsSensible, NEW es \in Episodes, NEW v \in R!Event
    PROVE  /\ R!Counted(es, v) \in Episodes
           /\ \A i \in R!Ids : Alike(R!Counted(es, v), es, i)
  <1> DEFINE today == R!OnDay(es, v.day)
             in == {i \in R!Ids : R!ActiveSession(today[i], v.day) /\ today[i].session.id = v.session}
  <1>1. v.day \in Nat /\ v.episode \in R!Ids
    BY DEF R!Event
  <1>2. today \in Episodes /\ \A i \in R!Ids : Alike(today, es, i)
    BY <1>1, AnotherDayIsEpisodes
  <1> HIDE DEF today
  <1>3. ASSUME NEW j \in R!Ids
        PROVE  /\ [today EXCEPT ![j].session.count = @ + 1] \in Episodes
               /\ \A i \in R!Ids : Alike([today EXCEPT ![j].session.count = @ + 1], es, i)
    <2>1. today[j] \in R!Episode /\ today[j].session \in R!Session
      BY <1>2 DEF Episodes, R!Episode
    <2>2. [today[j].session EXCEPT !.count = @ + 1] \in R!Session
      BY <2>1 DEF R!Session
    <2>3. [today[j] EXCEPT !.session = [today[j].session EXCEPT !.count = @ + 1]] \in R!Episode
      BY <2>1, <2>2 DEF R!Episode
    <2>4. [today EXCEPT ![j].session.count = @ + 1]
            = [today EXCEPT ![j] = [today[j] EXCEPT !.session = [today[j].session EXCEPT !.count = @ + 1]]]
      OBVIOUS
    <2> QED BY <1>2, <2>3, <2>4 DEF Episodes, R!Episode, Alike, R!There
  <1>4. ASSUME NEW j \in R!Ids
        PROVE  /\ [today EXCEPT ![j].count = @ + 1] \in Episodes
               /\ \A i \in R!Ids : Alike([today EXCEPT ![j].count = @ + 1], es, i)
    BY <1>2 DEF Episodes, R!Episode, Alike, R!There
  <1>5. in # {} => R!Min(in) \in R!Ids
    BY SmallestIsOne
  <1>6. R!Counted(es, v) = IF in # {} THEN [today EXCEPT ![R!Min(in)].session.count = @ + 1]
                           ELSE [today EXCEPT ![v.episode].count = @ + 1]
    BY DEF R!Counted, today
  <1> HIDE DEF in
  <1> QED BY <1>1, <1>3, <1>4, <1>5, <1>6

\* Whatever an event means, no episode is forgotten or made by it but by a selection.
LEMMA EffectIsEpisodes ==
    ASSUME QuestionsSensible, NEW es \in Episodes, NEW v \in R!Event
    PROVE  /\ R!Effect(es, v) \in Episodes
           /\ \A i \in R!Ids : i # v.episode => Alike(R!Effect(es, v), es, i)
           /\ R!There(es, v.episode) => R!There(R!Effect(es, v), v.episode)
  <1> DEFINE e == v.episode
             closing == IF es[e].pending = v.question THEN 0 ELSE es[e].pending
             Good(fs) == /\ fs \in Episodes
                         /\ \A i \in R!Ids : i # e => Alike(fs, es, i)
                         /\ R!There(es, e) => R!There(fs, e)
  <1>1. e \in R!Ids /\ v.day \in Nat /\ v.question \in R!Ids \cup {0} /\ v.session \in R!Ids \cup {0}
    BY DEF R!Event
  <1>2. es[e] \in R!Episode /\ closing \in R!Ids \cup {0}
    BY <1>1 DEF Episodes, R!Episode
  <1>3. Good([es EXCEPT ![e].pending = closing])
    BY <1>1, <1>2 DEF Episodes, R!Episode, Alike, R!There
  <1>4. ASSUME NEW s \in {"paused", "declined"}
        PROVE  Good([es EXCEPT ![e].pending = closing, ![e].status = s])
    BY <1>1, <1>2 DEF Episodes, R!Episode, Alike, R!There
  <1>5. Good([R!OnDay(es, v.day) EXCEPT ![e].pending = IF @ = v.question THEN 0 ELSE @])
    <2> DEFINE today == R!OnDay(es, v.day)
    <2>1. today \in Episodes /\ (\A i \in R!Ids : Alike(today, es, i))
      BY <1>1, AnotherDayIsEpisodes
    <2> HIDE DEF today
    <2>2. (IF today[e].pending = v.question THEN 0 ELSE today[e].pending) \in R!Ids \cup {0}
      BY <1>1, <2>1 DEF Episodes, R!Episode
    <2>3. [today EXCEPT ![e].pending = IF @ = v.question THEN 0 ELSE @]
            = [today EXCEPT ![e].pending = IF today[e].pending = v.question THEN 0 ELSE today[e].pending]
      OBVIOUS
    <2>4. Good([today EXCEPT ![e].pending = IF today[e].pending = v.question THEN 0 ELSE today[e].pending])
      BY <1>1, <2>1, <2>2, SMTT(30) DEF Episodes, R!Episode, Alike, R!There
    <2> QED BY <2>3, <2>4 DEF today
  <1>6. Good([i \in R!Ids |-> IF i = e THEN [es[i] EXCEPT !.pending = v.question]
                              ELSE IF es[i].status = "active"
                                   THEN [es[i] EXCEPT !.pending = 0, !.status = "paused"]
                                   ELSE [es[i] EXCEPT !.pending = 0]])
    BY <1>1, <1>2 DEF Episodes, R!Episode, Alike, R!There
  <1>7. Good([es EXCEPT ![e].session = [id |-> v.session, day |-> v.day, count |-> 0, closed |-> FALSE]])
    <2>1. [id |-> v.session, day |-> v.day, count |-> 0, closed |-> FALSE] \in R!Session
      BY <1>1 DEF R!Session
    <2> QED BY <1>1, <1>2, <2>1 DEF Episodes, R!Episode, Alike, R!There
  <1>8. Good([i \in R!Ids |-> [es[i] EXCEPT !.session.closed = @ \/ es[i].session.id # 0,
                                            !.pending = IF i = e THEN 0 ELSE @]])
    <2> DEFINE Shut(i) == [es[i] EXCEPT !.session.closed = @ \/ es[i].session.id # 0,
                                          !.pending = IF i = e THEN 0 ELSE @]
    <2>1. ASSUME NEW i \in R!Ids
          PROVE  Shut(i) \in R!Episode /\ Shut(i).status = es[i].status /\ Shut(i).revision = es[i].revision
      <3>1. es[i] \in R!Episode /\ es[i].session \in R!Session
        BY DEF Episodes, R!Episode
      <3>2. [es[i].session EXCEPT !.closed = (es[i].session.closed \/ es[i].session.id # 0)] \in R!Session
        BY <3>1 DEF R!Session
      <3>3. Shut(i) = [es[i] EXCEPT !.session = [es[i].session EXCEPT !.closed =
                                                     (es[i].session.closed \/ es[i].session.id # 0)],
                                      !.pending = IF i = e THEN 0 ELSE es[i].pending]
        BY <3>1 DEF R!Episode, R!Session
      <3> HIDE DEF Shut
      <3> QED BY <3>1, <3>2, <3>3 DEF R!Episode
    <2> HIDE DEF Shut
    <2>2. Good([i \in R!Ids |-> Shut(i)])
      BY <1>1, <2>1 DEF Episodes, Alike, R!There
    <2> QED BY <2>2 DEF Shut
  <1>9. Good(R!Counted(es, v))
    BY <1>1, CountIsEpisodes DEF Alike
  <1>10. Good(es)
    BY <1>1, SMTT(30) DEF Alike
  <1> HIDE DEF Good
  <1>11. Good(R!Effect(es, v))
    BY <1>3, <1>4, <1>5, <1>6, <1>7, <1>8, <1>9, <1>10 DEF R!Effect
  <1> QED BY <1>11 DEF Good

\* The two forms of Applied: what an event finds, and what it leaves.
WithCopy(es, v) ==
    IF v.kind \notin {"selected", "updated"} THEN es
    ELSE IF R!There(es, v.episode) THEN [es EXCEPT ![v.episode].status = v.copy.status]
    ELSE [es EXCEPT ![v.episode] = v.copy]

WithEffect(fs, v) == [R!Effect(fs, v) EXCEPT ![v.episode].revision = v.revision + 1,
                                       ![v.episode].pending = IF v.day > LastDay THEN 0 ELSE @]

LEMMA FoundIsEpisodes ==
    ASSUME QuestionsSensible, NEW es \in Episodes, NEW v \in R!Event
    PROVE  /\ WithCopy(es, v) \in Episodes
           /\ \A i \in R!Ids : i # v.episode => WithCopy(es, v)[i] = es[i]
           /\ R!There(WithCopy(es, v), v.episode)
                <=> IF v.kind \in {"selected", "updated"} THEN v.copy.status # "none"
                    ELSE R!There(es, v.episode)
  <1>1. v.episode \in R!Ids /\ v.copy \in R!Episode
    BY DEF R!Event
  <1>2. es[v.episode] \in R!Episode /\ v.copy.status \in {"none", "active", "paused", "declined"}
    BY <1>1 DEF Episodes, R!Episode
  <1> QED BY <1>1, <1>2 DEF WithCopy, Episodes, R!Episode, R!There

LEMMA LeftIsEpisodes ==
    ASSUME QuestionsSensible, NEW fs \in Episodes, NEW v \in R!Event, R!There(fs, v.episode)
    PROVE  /\ WithEffect(fs, v) \in Episodes
           /\ \A i \in R!Ids : i # v.episode => Alike(WithEffect(fs, v), fs, i)
           /\ R!There(WithEffect(fs, v), v.episode)
           /\ WithEffect(fs, v)[v.episode].revision = v.revision + 1
  <1> DEFINE gs == R!Effect(fs, v)
             e == v.episode
  <1>1. e \in R!Ids /\ v.revision + 1 \in Nat
    BY DEF R!Event
  <1>2. gs \in Episodes /\ (\A i \in R!Ids : i # e => Alike(gs, fs, i)) /\ R!There(gs, e)
    BY EffectIsEpisodes
  <1>3. WithEffect(fs, v) = [gs EXCEPT ![e] = [gs[e] EXCEPT !.revision = v.revision + 1,
                                                     !.pending = IF v.day > LastDay THEN 0 ELSE gs[e].pending]]
    BY <1>1, <1>2 DEF WithEffect, Episodes, R!Episode
  <1>4. gs[e] \in R!Episode
    BY <1>1, <1>2 DEF Episodes
  <1> DEFINE x == [gs[e] EXCEPT !.revision = v.revision + 1,
                                !.pending = IF v.day > LastDay THEN 0 ELSE gs[e].pending]
  <1> HIDE DEF gs, e
  <1>5. x \in R!Episode /\ x.status = gs[e].status /\ x.revision = v.revision + 1
    BY <1>1, <1>4 DEF R!Episode
  <1> HIDE DEF x
  <1>6. /\ WithEffect(fs, v) \in Episodes
        /\ \A i \in R!Ids : i # e => Alike(WithEffect(fs, v), fs, i)
        /\ R!There(WithEffect(fs, v), e)
        /\ WithEffect(fs, v)[e].revision = v.revision + 1
    <2>1. WithEffect(fs, v) = [gs EXCEPT ![e] = x]
      BY <1>3, SMTT(30) DEF x
    <2> QED BY <1>1, <1>2, <1>5, <2>1 DEF Episodes, Alike, R!There
  <1> QED BY <1>6 DEF e

LEMMA AppliedIs ==
    ASSUME NEW es, NEW v
    PROVE  R!Applied(es, v) = IF R!There(WithCopy(es, v), v.episode) THEN WithEffect(WithCopy(es, v), v) ELSE es
  BY DEF R!Applied, WithCopy, WithEffect

\* An event changes neither whether another episode is there nor its revision.
LEMMA AppliedIsEpisodes ==
    ASSUME QuestionsSensible, NEW es \in Episodes, NEW v \in R!Event
    PROVE  /\ R!Applied(es, v) \in Episodes
           /\ \A i \in R!Ids : i # v.episode => Alike(R!Applied(es, v), es, i)
  <1>1. v.episode \in R!Ids
    BY DEF R!Event
  <1>2. CASE R!There(WithCopy(es, v), v.episode)
    <2>1. WithCopy(es, v) \in Episodes /\ \A i \in R!Ids : i # v.episode => Alike(WithCopy(es, v), es, i)
      BY FoundIsEpisodes DEF Alike, R!There
    <2>2. /\ WithEffect(WithCopy(es, v), v) \in Episodes
          /\ \A i \in R!Ids : i # v.episode => Alike(WithEffect(WithCopy(es, v), v), WithCopy(es, v), i)
      BY <1>2, <2>1, LeftIsEpisodes
    <2>3. R!Applied(es, v) = WithEffect(WithCopy(es, v), v)
      BY <1>2, AppliedIs
    <2> QED BY <2>1, <2>2, <2>3 DEF Alike
  <1>3. CASE ~R!There(WithCopy(es, v), v.episode)
    <2>1. R!Applied(es, v) = es
      BY <1>3, AppliedIs
    <2> QED BY <2>1 DEF Alike
  <1> QED BY <1>2, <1>3

\* What it makes of its own depends on nothing else of the episodes.
LEMMA AppliedInStep ==
    ASSUME QuestionsSensible, NEW es \in Episodes, NEW fs \in Episodes, NEW v \in R!Event, NEW i \in R!Ids,
           Alike(es, fs, i)
    PROVE  Alike(R!Applied(es, v), R!Applied(fs, v), i)
  <1>1. CASE i # v.episode
    BY <1>1, AppliedIsEpisodes DEF Alike
  <1>2. CASE i = v.episode
    <2>1. R!There(WithCopy(es, v), i) <=> R!There(WithCopy(fs, v), i)
      BY <1>2, FoundIsEpisodes DEF Alike
    <2>2. CASE R!There(WithCopy(es, v), i)
      <3>1. WithCopy(es, v) \in Episodes /\ WithCopy(fs, v) \in Episodes
        BY FoundIsEpisodes
      <3>2. /\ R!There(WithEffect(WithCopy(es, v), v), i) /\ R!There(WithEffect(WithCopy(fs, v), v), i)
            /\ WithEffect(WithCopy(es, v), v)[i].revision = v.revision + 1
            /\ WithEffect(WithCopy(fs, v), v)[i].revision = v.revision + 1
        BY <1>2, <2>1, <2>2, <3>1, LeftIsEpisodes
      <3>3. R!Applied(es, v) = WithEffect(WithCopy(es, v), v) /\ R!Applied(fs, v) = WithEffect(WithCopy(fs, v), v)
        BY <1>2, <2>1, <2>2, AppliedIs
      <3> QED BY <3>2, <3>3 DEF Alike
    <2>3. CASE ~R!There(WithCopy(es, v), i)
      <3>1. R!Applied(es, v) = es /\ R!Applied(fs, v) = fs
        BY <1>2, <2>1, <2>3, AppliedIs
      <3> QED BY <3>1
    <2> QED BY <2>2, <2>3
  <1> QED BY <1>1, <1>2

-----------------------------------------------------------------------------
(* What a ledger makes of the episodes                                     *)

Blank == [i \in R!Ids |-> R!NoEpisode]

\* The episodes after each of the first events of a ledger.
NextOf(f, s, n) == IF n = 0 THEN Blank ELSE R!Applied(f[n - 1], s[n])
Follows(f, s, m) == f = [n \in 0..m |-> NextOf(f, s, n)]

LEMMA BlankIsEpisodes ==
    ASSUME QuestionsSensible
    PROVE  Blank \in Episodes /\ \A i \in R!Ids : ~R!There(Blank, i)
  <1>1. R!NoSession \in R!Session
    BY DEF R!NoSession, R!Session
  <1>2. R!NoEpisode \in R!Episode /\ R!NoEpisode.status = "none"
    BY <1>1 DEF R!NoEpisode, R!Episode
  <1> QED BY <1>2 DEF Blank, Episodes, R!There

LEMMA SomethingFollows ==
    ASSUME QuestionsSensible, NEW s \in Seq(R!Event)
    PROVE  \E f : Follows(f, s, Len(s))
  <1> DEFINE P(n) == \E f : Follows(f, s, n)
             N == {n \in Nat : P(n)}
  <1>1. P(0)
    <2> DEFINE f == [n \in 0..0 |-> Blank]
    <2>1. f = [n \in 0..0 |-> NextOf(f, s, n)]
      BY DEF NextOf
    <2> QED BY <2>1 DEF Follows
  <1>2. ASSUME NEW n \in Nat, P(n) PROVE P(n + 1)
    <2>1. PICK f : Follows(f, s, n)
      BY <1>2
    <2> DEFINE g == [k \in 0..(n + 1) |-> IF k = n + 1 THEN NextOf(f, s, k) ELSE f[k]]
    <2>2. \A k \in 0..n : f[k] = NextOf(f, s, k)
      BY <2>1 DEF Follows
    <2>3. ASSUME NEW k \in 0..(n + 1) PROVE g[k] = NextOf(g, s, k)
      <3>1. CASE k = 0
        <4>1. g[0] = f[0]
          OBVIOUS
        <4>2. f[0] = Blank
          BY <2>2 DEF NextOf
        <4> QED BY <3>1, <4>1, <4>2 DEF NextOf
      <3>2. CASE k # 0
        <4>1. g[k - 1] = f[k - 1]
          BY <3>2
        <4>2. g[k] = NextOf(f, s, k)
          BY <2>2
        <4> HIDE DEF g
        <4> QED BY <3>2, <4>1, <4>2 DEF NextOf
      <3> QED BY <3>1, <3>2
    <2>4. g = [k \in 0..(n + 1) |-> g[k]]
      OBVIOUS
    <2> HIDE DEF g
    <2>5. g = [k \in 0..(n + 1) |-> NextOf(g, s, k)]
      BY <2>3, <2>4
    <2> QED BY <2>5 DEF Follows
  <1>3. 0 \in N
    BY <1>1
  <1>4. \A n \in Nat : n \in N => n + 1 \in N
    BY <1>2
  <1>5. Nat \subseteq N
    <2> HIDE DEF N
    <2> QED BY <1>3, <1>4, Induction
  <1> QED BY <1>5

\* The function that Projected computes with.
Path(s) == CHOOSE f : Follows(f, s, Len(s))

LEMMA ProjectedIsLast ==
    ASSUME NEW s
    PROVE  R!Projected(s) = Path(s)[Len(s)]
  BY Zenon DEF R!Projected, Path, Follows, NextOf, Blank

LEMMA PathFollows ==
    ASSUME QuestionsSensible, NEW s \in Seq(R!Event)
    PROVE  /\ Path(s)[0] = Blank
           /\ \A n \in 1..Len(s) : Path(s)[n] = R!Applied(Path(s)[n - 1], s[n])
           /\ \A n \in 0..Len(s) : Path(s)[n] \in Episodes
  <1>1. Follows(Path(s), s, Len(s))
    BY SomethingFollows, Zenon DEF Path
  <1>2. \A n \in 0..Len(s) : Path(s)[n] = NextOf(Path(s), s, n)
    BY <1>1 DEF Follows
  <1>3. Path(s)[0] = Blank
    BY <1>2 DEF NextOf
  <1>4. \A n \in 1..Len(s) : Path(s)[n] = R!Applied(Path(s)[n - 1], s[n])
    BY <1>2 DEF NextOf
  <1> DEFINE P(n) == n <= Len(s) => Path(s)[n] \in Episodes
             N == {n \in Nat : P(n)}
  <1>5. P(0)
    BY <1>3, BlankIsEpisodes
  <1>6. ASSUME NEW n \in Nat, P(n) PROVE P(n + 1)
    <2> SUFFICES ASSUME n + 1 <= Len(s) PROVE Path(s)[n + 1] \in Episodes
      OBVIOUS
    <2>1. Path(s)[n] \in Episodes /\ s[n + 1] \in R!Event
      BY <1>6
    <2>2. Path(s)[n + 1] = R!Applied(Path(s)[(n + 1) - 1], s[n + 1])
      BY <1>4
    <2>3. (n + 1) - 1 = n
      OBVIOUS
    <2> QED BY <2>1, <2>2, <2>3, AppliedIsEpisodes
  <1>7. 0 \in N
    BY <1>5
  <1>8. \A n \in Nat : n \in N => n + 1 \in N
    BY <1>6
  <1>9. Nat \subseteq N
    <2> HIDE DEF N
    <2> QED BY <1>7, <1>8, Induction
  <1>10. \A n \in 0..Len(s) : Path(s)[n] \in Episodes
    BY <1>9
  <1> QED BY <1>3, <1>4, <1>10

LEMMA ProjectedIsEpisodes ==
    ASSUME QuestionsSensible, NEW s \in Seq(R!Event)
    PROVE  R!Projected(s) \in Episodes
  <1>1. Len(s) \in 0..Len(s)
    OBVIOUS
  <1> QED BY <1>1, PathFollows, ProjectedIsLast

\* What is there was selected, or updated, by an event of its own.
LEMMA ThereHasEvent ==
    ASSUME QuestionsSensible, NEW s \in Seq(R!Event), NEW i \in R!Ids, R!There(R!Projected(s), i)
    PROVE  \E n \in DOMAIN s : s[n].episode = i
  <1> DEFINE P(n) == n <= Len(s) => (R!There(Path(s)[n], i) => \E k \in 1..n : s[k].episode = i)
             N == {n \in Nat : P(n)}
  <1>1. P(0)
    BY PathFollows, BlankIsEpisodes
  <1>2. ASSUME NEW n \in Nat, P(n) PROVE P(n + 1)
    <2> SUFFICES ASSUME n + 1 <= Len(s), R!There(Path(s)[n + 1], i)
                 PROVE  \E k \in 1..(n + 1) : s[k].episode = i
      OBVIOUS
    <2>1. n \in 0..Len(s) /\ n + 1 \in 1..Len(s) /\ (n + 1) - 1 = n
      OBVIOUS
    <2>2. Path(s)[n] \in Episodes /\ s[n + 1] \in R!Event
      BY <2>1, PathFollows
    <2>3. Path(s)[n + 1] = R!Applied(Path(s)[n], s[n + 1])
      BY <2>1, PathFollows
    <2>4. CASE s[n + 1].episode = i
      BY <2>1, <2>4
    <2>5. CASE s[n + 1].episode # i
      <3>1. Alike(R!Applied(Path(s)[n], s[n + 1]), Path(s)[n], i)
        BY <2>2, <2>5, AppliedIsEpisodes
      <3>2. R!There(Path(s)[n], i)
        BY <2>3, <3>1 DEF Alike
      <3> QED BY <1>2, <2>1, <3>2
    <2> QED BY <2>4, <2>5
  <1>3. 0 \in N
    BY <1>1
  <1>4. \A n \in Nat : n \in N => n + 1 \in N
    BY <1>2
  <1>5. Nat \subseteq N
    <2> HIDE DEF N
    <2> QED BY <1>3, <1>4, Induction
  <1>6. P(Len(s))
    BY <1>5
  <1> QED BY <1>6, ProjectedIsLast

\* Two ledgers that go on alike keep an episode alike.
LEMMA GoesOnAlike ==
    ASSUME QuestionsSensible, NEW s \in Seq(R!Event), NEW r \in Seq(R!Event), NEW i \in R!Ids,
           NEW a \in 0..Len(s), NEW b \in 0..Len(r), NEW m \in Nat, a + m <= Len(s), b + m <= Len(r),
           \A k \in 1..m : s[a + k] = r[b + k],
           Alike(Path(s)[a], Path(r)[b], i)
    PROVE  Alike(Path(s)[a + m], Path(r)[b + m], i)
  <1> DEFINE P(n) == n <= m => Alike(Path(s)[a + n], Path(r)[b + n], i)
             N == {n \in Nat : P(n)}
  <1>1. P(0)
    BY a + 0 = a, b + 0 = b
  <1>2. ASSUME NEW n \in Nat, P(n) PROVE P(n + 1)
    <2> SUFFICES ASSUME n + 1 <= m
                 PROVE  Alike(Path(s)[a + (n + 1)], Path(r)[b + (n + 1)], i)
      OBVIOUS
    <2> DEFINE j == a + (n + 1)
               l == b + (n + 1)
    <2>1. /\ j \in 1..Len(s) /\ j - 1 = a + n /\ a + n \in 0..Len(s)
          /\ l \in 1..Len(r) /\ l - 1 = b + n /\ b + n \in 0..Len(r)
      OBVIOUS
    <2>2. s[j] = r[l]
      <3>1. n + 1 \in 1..m
        OBVIOUS
      <3> QED BY <3>1
    <2> HIDE DEF j, l
    <2>3. Path(s)[j] = R!Applied(Path(s)[a + n], s[j]) /\ Path(r)[l] = R!Applied(Path(r)[b + n], s[j])
      BY <2>1, <2>2, PathFollows
    <2>4. Path(s)[a + n] \in Episodes /\ Path(r)[b + n] \in Episodes /\ s[j] \in R!Event
      BY <2>1, PathFollows
    <2>5. Alike(Path(s)[a + n], Path(r)[b + n], i)
      BY <1>2
    <2>6. Alike(Path(s)[j], Path(r)[l], i)
      BY <2>3, <2>4, <2>5, AppliedInStep
    <2> QED BY <2>6 DEF j, l
  <1>3. 0 \in N
    BY <1>1
  <1>4. \A n \in Nat : n \in N => n + 1 \in N
    BY <1>2
  <1>5. Nat \subseteq N
    <2> HIDE DEF N
    <2> QED BY <1>3, <1>4, Induction
  <1>6. P(m)
    BY <1>5
  <1> QED BY <1>6

\* Events of other episodes leave it as it was.
LEMMA OthersPassBy ==
    ASSUME QuestionsSensible, NEW s \in Seq(R!Event), NEW i \in R!Ids,
           NEW a \in 0..Len(s), NEW m \in Nat, a + m <= Len(s),
           \A k \in 1..m : s[a + k].episode # i
    PROVE  Alike(Path(s)[a + m], Path(s)[a], i)
  <1> DEFINE P(n) == n <= m => Alike(Path(s)[a + n], Path(s)[a], i)
             N == {n \in Nat : P(n)}
  <1>1. P(0)
    BY a + 0 = a DEF Alike
  <1>2. ASSUME NEW n \in Nat, P(n) PROVE P(n + 1)
    <2> SUFFICES ASSUME n + 1 <= m
                 PROVE  Alike(Path(s)[a + (n + 1)], Path(s)[a], i)
      OBVIOUS
    <2> DEFINE j == a + (n + 1)
    <2>1. j \in 1..Len(s) /\ j - 1 = a + n /\ a + n \in 0..Len(s)
      OBVIOUS
    <2>2. s[j].episode # i
      <3>1. n + 1 \in 1..m
        OBVIOUS
      <3> QED BY <3>1
    <2> HIDE DEF j
    <2>3. Path(s)[j] = R!Applied(Path(s)[a + n], s[j])
      BY <2>1, PathFollows
    <2>4. Path(s)[a + n] \in Episodes /\ s[j] \in R!Event
      BY <2>1, PathFollows
    <2>5. Alike(Path(s)[j], Path(s)[a + n], i)
      BY <2>2, <2>3, <2>4, AppliedIsEpisodes
    <2>6. Alike(Path(s)[j], Path(s)[a], i)
      BY <1>2, <2>5 DEF Alike
    <2> QED BY <2>6 DEF j
  <1>3. 0 \in N
    BY <1>1
  <1>4. \A n \in Nat : n \in N => n + 1 \in N
    BY <1>2
  <1>5. Nat \subseteq N
    <2> HIDE DEF N
    <2> QED BY <1>3, <1>4, Induction
  <1>6. P(m)
    BY <1>5
  <1> QED BY <1>6

LEMMA JoinedSequences ==
    ASSUME NEW X, NEW s \in Seq(X), NEW r \in Seq(X)
    PROVE  /\ s \o r \in Seq(X) /\ Len(s \o r) = Len(s) + Len(r)
           /\ \A n \in 1..Len(s) : (s \o r)[n] = s[n]
           /\ \A n \in 1..Len(r) : (s \o r)[Len(s) + n] = r[n]
  <1>1. s \o r \in Seq(X) /\ Len(s \o r) = Len(s) + Len(r)
    OBVIOUS
  <1>2. \A n \in 1..Len(s) : (s \o r)[n] = s[n]
    OBVIOUS
  <1>3. \A n \in 1..Len(r) : (s \o r)[Len(s) + n] = r[n]
    OBVIOUS
  <1> QED BY <1>1, <1>2, <1>3

\* Where a turn's events, or a receipt, enter the ledger.
LEMMA MergedIs ==
    ASSUME events \in Seq(R!Event), NEW u \in Seq(R!Event), u # << >>
    PROVE  \E n \in 0..Len(events) :
               /\ R!Merged(u) = SubSeq(events, 1, n) \o u \o SubSeq(events, n + 1, Len(events))
               /\ R!Merged(u) \in Seq(R!Event)
               /\ Len(R!Merged(u)) = Len(events) + Len(u)
               /\ \A k \in 1..n : R!Merged(u)[k] = events[k]
               /\ \A k \in 1..Len(u) : R!Merged(u)[n + k] = u[k]
               /\ \A k \in 1..(Len(events) - n) : R!Merged(u)[(n + Len(u)) + k] = events[n + k]
  <1> DEFINE n == R!Earlier(u[1])
             X == {k \in DOMAIN events : events[k].stamp <= u[1].stamp}
             head == SubSeq(events, 1, n)
             tail == SubSeq(events, n + 1, Len(events))
  <1>1. n \in 0..Len(events)
    <2>1. IsFiniteSet(1..Len(events)) /\ Cardinality(1..Len(events)) = Len(events)
      <3>1. 1 \in Int /\ Len(events) \in Int /\ Len(events) \in Nat
        OBVIOUS
      <3>2. /\ IsFiniteSet(1..Len(events))
            /\ Cardinality(1..Len(events)) = IF 1 > Len(events) THEN 0 ELSE Len(events) - 1 + 1
        BY <3>1, FS_Interval, Zenon
      <3>3. (IF 1 > Len(events) THEN 0 ELSE Len(events) - 1 + 1) = Len(events)
        BY <3>1
      <3> QED BY <3>2, <3>3
    <2>2. X \subseteq 1..Len(events)
      OBVIOUS
    <2>3. Cardinality(X) \in Nat /\ Cardinality(X) <= Len(events)
      <3> HIDE DEF X
      <3> QED BY <2>1, <2>2, FS_Subset, FS_CardinalityType
    <2>4. R!Cardinality(X) = Cardinality(X)
      BY DEF R!Cardinality, Cardinality
    <2>5. n = R!Cardinality(X)
      BY DEF R!Earlier
    <2> HIDE DEF X, n
    <2> QED BY <2>3, <2>4, <2>5
  <1>2. R!Merged(u) = head \o u \o tail
    BY DEF R!Merged
  <1> HIDE DEF n
  <1>3. /\ head \in Seq(R!Event) /\ Len(head) = n
        /\ \A k \in 1..n : head[k] = events[k]
    BY <1>1
  <1>4. /\ tail \in Seq(R!Event) /\ Len(tail) = Len(events) - n
        /\ \A k \in 1..(Len(events) - n) : tail[k] = events[n + k]
    BY <1>1
  <1> HIDE DEF head, tail
  <1> DEFINE front == head \o u
  <1>5. /\ front \in Seq(R!Event) /\ Len(front) = n + Len(u)
        /\ \A k \in 1..n : front[k] = head[k]
        /\ \A k \in 1..Len(u) : front[n + k] = u[k]
    BY <1>1, <1>3
  <1> HIDE DEF front
  <1> DEFINE whole == front \o tail
  <1>6. /\ whole \in Seq(R!Event) /\ Len(whole) = (n + Len(u)) + (Len(events) - n)
        /\ \A k \in 1..(n + Len(u)) : whole[k] = front[k]
        /\ \A k \in 1..(Len(events) - n) : whole[(n + Len(u)) + k] = tail[k]
    <2>0. Len(u) \in Nat /\ Len(events) \in Nat /\ Len(front) = n + Len(u) /\ Len(tail) = Len(events) - n
      BY <1>4, <1>5
    <2>1. whole \in Seq(R!Event) /\ Len(whole) = Len(front) + Len(tail)
      BY <1>4, <1>5, JoinedSequences
    <2>2. \A k \in 1..Len(front) : whole[k] = front[k]
      BY <1>4, <1>5
    <2>3. \A k \in 1..Len(tail) : whole[Len(front) + k] = tail[k]
      BY <1>4, <1>5
    <2> HIDE DEF whole
    <2> QED BY <2>0, <2>1, <2>2, <2>3
  <1>7. whole = R!Merged(u)
    BY <1>2 DEF front
  <1> HIDE DEF whole
  <1>8. \A k \in 1..n : k \in 1..(n + Len(u))
    BY <1>1
  <1>9. \A k \in 1..Len(u) : n + k \in 1..(n + Len(u))
    BY <1>1
  <1>10. /\ Len(whole) = Len(events) + Len(u)
         /\ \A k \in 1..n : whole[k] = events[k]
         /\ \A k \in 1..Len(u) : whole[n + k] = u[k]
         /\ \A k \in 1..(Len(events) - n) : whole[(n + Len(u)) + k] = events[n + k]
    BY <1>1, <1>3, <1>4, <1>5, <1>6, <1>8, <1>9, SMTT(30)
  <1> QED BY <1>1, <1>2, <1>6, <1>7, <1>10 DEF head, tail

\* It holds what it held and what was appended, and nothing else.
LEMMA MergedHolds ==
    ASSUME events \in Seq(R!Event), NEW u \in Seq(R!Event), u # << >>
    PROVE  /\ R!Merged(u) \in Seq(R!Event)
           /\ \A k \in DOMAIN events : \E j \in DOMAIN R!Merged(u) : R!Merged(u)[j] = events[k]
           /\ \A k \in DOMAIN u : \E j \in DOMAIN R!Merged(u) : R!Merged(u)[j] = u[k]
           /\ \A j \in DOMAIN R!Merged(u) : \/ \E k \in DOMAIN events : R!Merged(u)[j] = events[k]
                                           \/ \E k \in DOMAIN u : R!Merged(u)[j] = u[k]
  <1> DEFINE w == R!Merged(u)
  <1>1. PICK n \in 0..Len(events) :
               /\ w \in Seq(R!Event)
               /\ Len(w) = Len(events) + Len(u)
               /\ \A k \in 1..n : w[k] = events[k]
               /\ \A k \in 1..Len(u) : w[n + k] = u[k]
               /\ \A k \in 1..(Len(events) - n) : w[(n + Len(u)) + k] = events[n + k]
    BY MergedIs
  <1> HIDE DEF w
  <1>2. ASSUME NEW k \in DOMAIN events PROVE \E j \in DOMAIN w : w[j] = events[k]
    <2>1. CASE k <= n
      BY <1>1, <2>1
    <2>2. CASE k > n
      <3>1. k - n \in 1..(Len(events) - n) /\ n + (k - n) = k /\ (n + Len(u)) + (k - n) \in DOMAIN w
        BY <1>1, <2>2
      <3>2. w[(n + Len(u)) + (k - n)] = events[n + (k - n)]
        BY <1>1, <3>1
      <3> QED BY <3>1, <3>2
    <2> QED BY <1>1, <2>1, <2>2
  <1>3. ASSUME NEW k \in DOMAIN u PROVE \E j \in DOMAIN w : w[j] = u[k]
    <2>1. n + k \in DOMAIN w /\ k \in 1..Len(u)
      BY <1>1
    <2> QED BY <1>1, <2>1
  <1>4. ASSUME NEW j \in DOMAIN w
        PROVE  (\E k \in DOMAIN events : w[j] = events[k]) \/ (\E k \in DOMAIN u : w[j] = u[k])
    <2>1. CASE j <= n
      BY <1>1, <2>1
    <2>2. CASE j > n /\ j <= n + Len(u)
      <3>1. j - n \in 1..Len(u) /\ n + (j - n) = j
        BY <1>1, <2>2
      <3>2. w[n + (j - n)] = u[j - n]
        BY <1>1, <3>1
      <3> QED BY <3>1, <3>2
    <2>3. CASE j > n + Len(u)
      <3> DEFINE k == j - (n + Len(u))
      <3>1. k \in 1..(Len(events) - n) /\ (n + Len(u)) + k = j /\ n + k \in DOMAIN events
        <4>1. /\ DOMAIN events = 1..Len(events) /\ DOMAIN w = 1..Len(w)
              /\ Len(events) \in Nat /\ Len(u) \in Nat /\ Len(w) = Len(events) + Len(u)
          BY <1>1
        <4> QED BY <2>3, <4>1
      <3> HIDE DEF k
      <3>2. w[(n + Len(u)) + k] = events[n + k]
        BY <1>1, <3>1
      <3> QED BY <3>1, <3>2
    <2> QED BY <1>1, <2>1, <2>2, <2>3
  <1> QED BY <1>1, <1>2, <1>3, <1>4 DEF w

\* Appended to other episodes, wherever in the ledger, events leave one alike.
LEMMA MergedPassBy ==
    ASSUME QuestionsSensible, events \in Seq(R!Event), NEW u \in Seq(R!Event), u # << >>,
           NEW i \in R!Ids, \A k \in DOMAIN u : u[k].episode # i
    PROVE  Alike(R!Projected(R!Merged(u)), R!Projected(events), i)
  <1> DEFINE w == R!Merged(u)
             m == Len(u)
  <1>1. PICK n \in 0..Len(events) :
               /\ w \in Seq(R!Event)
               /\ Len(w) = Len(events) + m
               /\ \A k \in 1..n : w[k] = events[k]
               /\ \A k \in 1..m : w[n + k] = u[k]
               /\ \A k \in 1..(Len(events) - n) : w[(n + m) + k] = events[n + k]
    BY MergedIs
  <1>2. m \in Nat /\ m = Len(u)
    OBVIOUS
  <1> HIDE DEF w, m
  <1>3. Alike(Path(w)[n], Path(events)[n], i)
    <2>1. Alike(Path(w)[0], Path(events)[0], i)
      BY <1>1, PathFollows DEF Alike
    <2>2. 0 \in 0..Len(w) /\ 0 \in 0..Len(events) /\ 0 + n <= Len(w) /\ 0 + n <= Len(events) /\ n \in Nat
      BY <1>1, <1>2
    <2>3. \A k \in 1..n : w[0 + k] = events[0 + k]
      BY <1>1
    <2>4. Alike(Path(w)[0 + n], Path(events)[0 + n], i)
      BY <1>1, <2>1, <2>2, <2>3, GoesOnAlike
    <2> QED BY <2>4, <2>2, 0 + n = n
  <1>4. Alike(Path(w)[n + m], Path(w)[n], i)
    <2>1. n \in 0..Len(w) /\ n + m <= Len(w)
      BY <1>1, <1>2
    <2>2. \A k \in 1..m : w[n + k].episode # i
      <3>1. \A k \in 1..m : k \in DOMAIN u
        BY <1>2
      <3> QED BY <1>1, <3>1
    <2> QED BY <1>1, <1>2, <2>1, <2>2, OthersPassBy
  <1>5. Alike(Path(w)[(n + m) + (Len(events) - n)], Path(events)[n + (Len(events) - n)], i)
    <2>1. Alike(Path(w)[n + m], Path(events)[n], i)
      BY <1>3, <1>4 DEF Alike
    <2>2. /\ n + m \in 0..Len(w) /\ n \in 0..Len(events) /\ Len(events) - n \in Nat
          /\ (n + m) + (Len(events) - n) <= Len(w) /\ n + (Len(events) - n) <= Len(events)
      BY <1>1, <1>2
    <2>3. \A k \in 1..(Len(events) - n) : w[(n + m) + k] = events[n + k]
      BY <1>1
    <2> QED BY <1>1, <2>1, <2>2, <2>3, GoesOnAlike
  <1>6. (n + m) + (Len(events) - n) = Len(w) /\ n + (Len(events) - n) = Len(events)
    BY <1>1, <1>2
  <1>7. Alike(R!Projected(w), R!Projected(events), i)
    BY <1>5, <1>6, ProjectedIsLast
  <1> QED BY <1>7 DEF w

-----------------------------------------------------------------------------
(* The inductive invariant of the questions                                *)

Begun == begun["employee"] + begun["scheduled"]
Told == {events[n].episode : n \in DOMAIN events}
Receipts == {"delivered", "failed"}

\* The episode a turn stages events of: the one it continues, or one of its own.
EpisodeOf(t) == IF t.episode = 0 THEN t.id ELSE t.episode

Stages(t) == t.phase \in {"open", "checked"}
Unsaved(t) == t.phase = "began" \/ Stages(t)

QuestionsTyped ==
    /\ R!TypeOK
    /\ episodes = R!Projected(events)
    /\ begun \in [R!Origins -> Nat] /\ \A o \in R!Origins : begun[o] <= R!MostTurns[o]
    /\ clock \in Nat /\ day \in Nat
    /\ rewound \in BOOLEAN

\* The turns of the two origins have ids of their own, and one is saved at a time.
TurnsAreApart ==
    /\ \A o \in R!Origins : turns[o].phase # "idle" => turns[o].id \in 1..Begun
    /\ \A o, p \in R!Origins : o # p =>
           /\ turns[o].phase # "idle" /\ turns[p].phase # "idle" => turns[o].id # turns[p].id
           /\ ~(turns[o].phase = "checked" /\ turns[p].phase = "checked")

\* The ledger has nothing of an episode that a turn may still begin, and something of each that
\* one continues.
IsTold(t) ==
    /\ Unsaved(t) => t.id \notin Told
    /\ Stages(t) => t.episode \in Told \cup {0}
    /\ t.phase \in {"sent", "recording"} => t.episode \in Told

EpisodesAreTold == Told \subseteq 1..Begun /\ \A o \in R!Origins : IsTold(turns[o])

\* What a turn has staged is of its episode, and continues the revision it read; one that asked has
\* its question in the ledger once it is appended.
IsOwn(t) ==
    /\ t.phase = "began" => t.events = << >>
    /\ Stages(t) => \A n \in DOMAIN t.events :
           /\ t.events[n].episode = EpisodeOf(t) /\ t.events[n].source = t.id
           /\ t.events[n].kind \notin Receipts
    /\ Stages(t) /\ t.events # << >> => t.events[1].revision = t.read.revision
    /\ t.phase = "checked" =>
           t.events # << >> /\ (t.asked => \E n \in DOMAIN t.events : t.events[n].kind = "asked")
    /\ t.phase = "sent" => \E n \in DOMAIN events : events[n].kind = "asked" /\ events[n].source = t.id
    /\ t.phase = "recording" =>
           Len(t.events) = 1 /\ t.events[1].kind \in Receipts /\ t.events[1].episode = t.episode

StagedIsOwn == \A o \in R!Origins : IsOwn(turns[o])

\* While revisions only grow, an episode that still has the revision a turn read has no news for it.
IsCurrent(t) ==
    /\ t.phase = "open" /\ t.episode # 0 =>
           /\ t.read.revision <= episodes[t.episode].revision
           /\ t.read.revision = episodes[t.episode].revision => R!SourcesOf(t.episode) \subseteq t.known
    /\ t.phase = "checked" => R!SourcesOf(EpisodeOf(t)) \subseteq t.known

ReadIsCurrent == ~rewound => \A o \in R!Origins : IsCurrent(turns[o])

QuestionsInv ==
    QuestionsTyped /\ TurnsAreApart /\ EpisodesAreTold /\ StagedIsOwn /\ ReadIsCurrent /\ ~blind


LEMMA InvParts ==
    ASSUME QuestionsSensible, QuestionsInv
    PROVE  /\ events \in Seq(R!Event) /\ turns \in [R!Origins -> R!Turn] /\ episodes \in Episodes
           /\ episodes = R!Projected(events)
           /\ begun["employee"] \in Nat /\ begun["scheduled"] \in Nat /\ Begun \in Nat
           /\ begun["employee"] <= MaxEmployee /\ begun["scheduled"] <= MaxScheduled
           /\ 1..Begun \subseteq R!Ids /\ Told \subseteq R!Ids
           /\ clock \in Nat /\ day \in Nat /\ ~blind
  <1>1. /\ events \in Seq(R!Event) /\ turns \in [R!Origins -> R!Turn] /\ episodes \in Episodes
        /\ episodes = R!Projected(events) /\ clock \in Nat /\ day \in Nat /\ ~blind
    BY DEF QuestionsInv, QuestionsTyped, R!TypeOK, Episodes
  <1>2. /\ begun["employee"] \in Nat /\ begun["scheduled"] \in Nat
        /\ begun["employee"] <= MaxEmployee /\ begun["scheduled"] <= MaxScheduled
    BY DEF QuestionsInv, QuestionsTyped, R!Origins, R!MostTurns
  <1>3. Begun \in Nat /\ Begun <= MaxEmployee + MaxScheduled
    BY <1>2 DEF Begun, QuestionsSensible
  <1>4. 1..Begun \subseteq R!Ids
    BY <1>3, IdsAreNumbers
  <1>5. Told \subseteq R!Ids
    BY <1>4 DEF QuestionsInv, EpisodesAreTold
  <1> QED BY <1>1, <1>2, <1>3, <1>4, <1>5

LEMMA NoneAreTyped ==
    ASSUME QuestionsSensible
    PROVE  R!NoEpisode \in R!Episode /\ R!NoTurn \in R!Turn
  <1>1. R!NoSession \in R!Session
    BY DEF R!NoSession, R!Session
  <1>2. R!NoEpisode \in R!Episode
    BY <1>1 DEF R!NoEpisode, R!Episode
  <1>3. << >> \in Seq(R!Event)
    OBVIOUS
  <1>4. R!NoTurn \in R!Turn
    BY <1>2, <1>3 DEF R!NoTurn, R!Turn
  <1> QED BY <1>2, <1>4

\* While the ledger stands, a turn goes on well if what becomes of it is well.
LEMMA LedgerStands ==
    ASSUME QuestionsSensible, QuestionsInv, NEW o \in R!Origins, NEW t \in R!Turn,
           turns' = [turns EXCEPT ![o] = t],
           UNCHANGED <<events, episodes, rewound, blind>>,
           begun' \in [R!Origins -> Nat], \A p \in R!Origins : begun'[p] <= R!MostTurns[p],
           Begun <= Begun', clock' \in Nat, day' \in Nat,
           t.phase # "idle" => /\ t.id \in 1..Begun'
                               /\ \A p \in R!Origins : p # o /\ turns[p].phase # "idle" => turns[p].id # t.id,
           t.phase = "checked" => \A p \in R!Origins : p # o => turns[p].phase # "checked",
           IsTold(t), IsOwn(t), ~rewound => IsCurrent(t)
    PROVE  QuestionsInv'
  <1>1. turns'[o] = t /\ (\A p \in R!Origins : p # o => turns'[p] = turns[p])
    BY InvParts
  <1>2. events' = events /\ episodes' = episodes /\ rewound' = rewound /\ blind' = blind
    OBVIOUS
  <1>3. QuestionsTyped'
    BY <1>2 DEF QuestionsInv, QuestionsTyped, R!TypeOK
  <1>4. Begun \in Nat /\ Begun' \in Nat
    <2>1. begun'["employee"] \in Nat /\ begun'["scheduled"] \in Nat
      BY DEF R!Origins
    <2> QED BY <2>1, InvParts DEF Begun
  <1>5. TurnsAreApart'
    <2>1. \A p \in R!Origins : turns'[p].phase # "idle" => turns'[p].id \in 1..Begun'
      BY <1>1, <1>4 DEF QuestionsInv, TurnsAreApart
    <2>2. \A p, q \in R!Origins : p # q =>
              /\ turns'[p].phase # "idle" /\ turns'[q].phase # "idle" => turns'[p].id # turns'[q].id
              /\ ~(turns'[p].phase = "checked" /\ turns'[q].phase = "checked")
      BY <1>1 DEF QuestionsInv, TurnsAreApart
    <2> QED BY <2>1, <2>2 DEF TurnsAreApart
  <1>6. Told' = Told
    BY <1>2 DEF Told
  <1>7. EpisodesAreTold'
    <2>1. Told' \subseteq 1..Begun'
      BY <1>4, <1>6 DEF QuestionsInv, EpisodesAreTold
    <2>2. \A p \in R!Origins : IsTold(turns[p])'
      BY <1>1, <1>6 DEF QuestionsInv, EpisodesAreTold, IsTold, Unsaved, Stages
    <2> QED BY <2>1, <2>2 DEF EpisodesAreTold
  <1>8. \A p \in R!Origins : IsOwn(turns[p])'
    BY <1>1, <1>2 DEF QuestionsInv, StagedIsOwn, IsOwn, Stages, EpisodeOf
  <1>9. \A e : R!SourcesOf(e)' = R!SourcesOf(e)
    BY <1>2 DEF R!SourcesOf
  <1>10. ASSUME ~rewound', NEW p \in R!Origins PROVE IsCurrent(turns[p])'
    BY <1>1, <1>2, <1>9, <1>10 DEF QuestionsInv, ReadIsCurrent, IsCurrent, EpisodeOf
  <1>11. ReadIsCurrent'
    BY <1>10 DEF ReadIsCurrent
  <1>12. StagedIsOwn'
    BY <1>8 DEF StagedIsOwn
  <1>13. ~blind'
    BY <1>2 DEF QuestionsInv
  <1> QED BY <1>3, <1>5, <1>7, <1>11, <1>12, <1>13 DEF QuestionsInv

\* A turn that ends leaves nothing to be true of it.
LEMMA TurnEnds ==
    ASSUME QuestionsSensible, QuestionsInv, NEW o \in R!Origins,
           turns' = [turns EXCEPT ![o] = R!NoTurn],
           UNCHANGED <<events, episodes, begun, clock, day, rewound, blind>>
    PROVE  QuestionsInv'
  <1>1. R!NoTurn \in R!Turn /\ R!NoTurn.phase = "idle"
    BY NoneAreTyped DEF R!NoTurn
  <1>2. IsTold(R!NoTurn) /\ IsOwn(R!NoTurn) /\ IsCurrent(R!NoTurn)
    BY <1>1 DEF IsTold, IsOwn, IsCurrent, Unsaved, Stages
  <1>3. /\ begun' \in [R!Origins -> Nat] /\ \A p \in R!Origins : begun'[p] <= R!MostTurns[p]
        /\ Begun' = Begun /\ Begun \in Nat /\ clock' \in Nat /\ day' \in Nat
    BY InvParts DEF QuestionsInv, QuestionsTyped, Begun
  <1>4. Begun <= Begun'
    BY <1>3
  <1>5. UNCHANGED <<events, episodes, rewound, blind>>
    OBVIOUS
  <1> QED BY <1>1, <1>2, <1>3, <1>4, <1>5, LedgerStands

LEMMA QuestionsAtFirst ==
    ASSUME QuestionsSensible, R!Init
    PROVE  QuestionsInv
  <1>1. events = << >> /\ episodes = R!Projected(<< >>)
    BY DEF R!Init
  <1>2. << >> \in Seq(R!Event)
    OBVIOUS
  <1>3. episodes \in Episodes
    BY <1>1, <1>2, ProjectedIsEpisodes
  <1>4. turns = [o \in R!Origins |-> R!NoTurn] /\ begun = [o \in R!Origins |-> 0]
    BY DEF R!Init
  <1>5. \A o \in R!Origins : turns[o] = R!NoTurn /\ turns[o].phase = "idle"
    BY <1>4 DEF R!NoTurn
  <1>6. turns \in [R!Origins -> R!Turn]
    BY <1>4, NoneAreTyped
  <1>7. \A o \in R!Origins : R!MostTurns[o] \in Nat
    BY DEF R!Origins, R!MostTurns, QuestionsSensible
  <1>8. QuestionsTyped
    <2>1. R!TypeOK
      BY <1>1, <1>2, <1>3, <1>6 DEF R!TypeOK, Episodes
    <2>2. episodes = R!Projected(events)
      BY <1>1
    <2>3. begun \in [R!Origins -> Nat] /\ \A o \in R!Origins : begun[o] <= R!MostTurns[o]
      BY <1>4, <1>7
    <2>4. clock \in Nat /\ day \in Nat /\ rewound \in BOOLEAN
      BY DEF R!Init
    <2> QED BY <2>1, <2>2, <2>3, <2>4 DEF QuestionsTyped
  <1>9. Told = {}
    BY <1>1 DEF Told
  <1>10. TurnsAreApart /\ EpisodesAreTold /\ StagedIsOwn /\ ReadIsCurrent
    BY <1>5, <1>9 DEF TurnsAreApart, EpisodesAreTold, IsTold, StagedIsOwn, IsOwn, ReadIsCurrent, IsCurrent,
                      Unsaved, Stages
  <1> QED BY <1>8, <1>10 DEF QuestionsInv, R!Init


-----------------------------------------------------------------------------
(* Turns begin, read and stage                                             *)

EventKinds == R!Reasons \cup {"selected", "updated", "asked", "new_day", "stopped", "weekly_started",
                              "weekly_closed"}

LEMMA StagedIsTyped ==
    ASSUME QuestionsSensible, NEW t \in R!Turn, t.id \in R!Ids, NEW kinds \in Seq(EventKinds)
    PROVE  /\ R!Staged(t, kinds) \in Seq(R!Event) /\ Len(R!Staged(t, kinds)) = Len(kinds)
           /\ \A n \in 1..Len(kinds) :
                  /\ R!Staged(t, kinds)[n].kind = kinds[n]
                  /\ R!Staged(t, kinds)[n].kind \notin Receipts
                  /\ R!Staged(t, kinds)[n].episode = EpisodeOf(t)
                  /\ R!Staged(t, kinds)[n].source = t.id
                  /\ R!Staged(t, kinds)[n].revision = t.read.revision + Len(t.events) + n - 1
  <1> DEFINE copy == IF t.episode = 0 THEN [R!NoEpisode EXCEPT !.status = "active", !.day = t.day] ELSE t.read
             Of(n) == [kind |-> kinds[n], stamp |-> t.stamp, day |-> t.day, source |-> t.id,
                      episode |-> EpisodeOf(t),
                      revision |-> t.read.revision + Len(t.events) + n - 1,
                      question |-> IF kinds[n] = "asked" THEN t.id ELSE t.read.pending,
                      session |-> IF kinds[n] = "weekly_started" THEN t.id ELSE 0,
                      copy |-> IF kinds[n] \in {"selected", "updated"} THEN copy ELSE R!NoEpisode]
  <1>1. R!Staged(t, kinds) = [n \in DOMAIN kinds |-> Of(n)]
    BY DEF R!Staged, EpisodeOf
  <1>2. /\ t.read \in R!Episode /\ t.stamp \in Nat /\ t.day \in Nat /\ t.episode \in R!Ids \cup {0}
        /\ t.events \in Seq(R!Event)
    BY DEF R!Turn
  <1>3. t.read.revision \in Nat /\ t.read.pending \in R!Ids \cup {0} /\ Len(t.events) \in Nat
    BY <1>2 DEF R!Episode
  <1>4. copy \in R!Episode
    <2>1. R!NoEpisode \in R!Episode
      BY NoneAreTyped
    <2> QED BY <1>2, <2>1 DEF R!Episode
  <1> HIDE DEF copy
  <1>5. EpisodeOf(t) \in R!Ids
    BY <1>2 DEF EpisodeOf
  <1>6. ASSUME NEW n \in 1..Len(kinds)
        PROVE  Of(n) \in R!Event /\ kinds[n] \in EventKinds /\ kinds[n] \notin Receipts
    <2>1. kinds[n] \in EventKinds
      OBVIOUS
    <2>2. t.read.revision + Len(t.events) + n - 1 \in Nat
      BY <1>3
    <2>3. (IF kinds[n] \in {"selected", "updated"} THEN copy ELSE R!NoEpisode) \in R!Episode
      BY <1>4, NoneAreTyped
    <2>4. (IF kinds[n] = "asked" THEN t.id ELSE t.read.pending) \in R!Ids \cup {0}
      BY <1>3
    <2>5. (IF kinds[n] = "weekly_started" THEN t.id ELSE 0) \in R!Ids \cup {0}
      OBVIOUS
    <2>6. Of(n) \in R!Event
      BY <1>2, <1>5, <2>1, <2>2, <2>3, <2>4, <2>5 DEF R!Event, EventKinds
    <2>7. kinds[n] \notin Receipts
      BY <2>1 DEF EventKinds, Receipts, R!Reasons
    <2> QED BY <2>1, <2>6, <2>7
  <1>7. \A n \in 1..Len(kinds) :
            /\ Of(n).kind = kinds[n] /\ Of(n).episode = EpisodeOf(t) /\ Of(n).source = t.id
            /\ Of(n).revision = t.read.revision + Len(t.events) + n - 1
    OBVIOUS
  <1> HIDE DEF Of
  <1>8. DOMAIN kinds = 1..Len(kinds) /\ Len(kinds) \in Nat
    OBVIOUS
  <1> DEFINE s == R!Staged(t, kinds)
  <1>9. s = [n \in 1..Len(kinds) |-> Of(n)]
    BY <1>1, <1>8
  <1> HIDE DEF s
  <1>10. s \in Seq(R!Event) /\ Len(s) = Len(kinds)
    BY <1>6, <1>8, <1>9
  <1>11. \A n \in 1..Len(kinds) : s[n] = Of(n)
    BY <1>9
  <1> QED BY <1>6, <1>7, <1>10, <1>11 DEF s

LEMMA FewAreTyped ==
    ASSUME NEW X
    PROVE  << >> \in Seq(X) /\ \A x \in X : <<x>> \in Seq(X)
  OBVIOUS

LEMMA BoundaryIsTyped ==
    ASSUME NEW t
    PROVE  R!Boundary(t) \in Seq(EventKinds)
  <1>1. "stopped" \in EventKinds /\ "new_day" \in EventKinds
    BY DEF EventKinds
  <1>2. R!Boundary(t) \in {<< >>, <<"stopped">>, <<"new_day">>}
    BY DEF R!Boundary
  <1> QED BY <1>1, <1>2, FewAreTyped

LEMMA KindsAreTyped ==
    ASSUME QuestionsSensible, NEW t, NEW w \in SomeWishes
    PROVE  R!Kinds(t, w) \in Seq(EventKinds)
  <1> DEFINE ends == w.weekly = "no" \/ w.close = "declined"
             a == R!If(t.episode = 0, "selected")
             b == R!If(w.note, "updated")
             c == R!If(w.close # "none" /\ t.read.pending # 0, w.close)
             d == R!If(w.weekly = "yes", "weekly_started")
             e == R!If(ends, "weekly_closed")
             f == R!If(w.ask /\ ~ends, "asked")
  <1>1. w.close \in R!Reasons \cup {"none"}
    BY DEF SomeWishes, R!Reasons
  <1>2. /\ a \in Seq(EventKinds) /\ b \in Seq(EventKinds) /\ d \in Seq(EventKinds)
        /\ e \in Seq(EventKinds) /\ f \in Seq(EventKinds)
    <2>1. /\ "selected" \in EventKinds /\ "updated" \in EventKinds /\ "weekly_started" \in EventKinds
          /\ "weekly_closed" \in EventKinds /\ "asked" \in EventKinds
      BY DEF EventKinds
    <2>2. /\ a \in {<< >>, <<"selected">>} /\ b \in {<< >>, <<"updated">>}
          /\ d \in {<< >>, <<"weekly_started">>} /\ e \in {<< >>, <<"weekly_closed">>}
          /\ f \in {<< >>, <<"asked">>}
      BY DEF R!If
    <2> HIDE DEF a, b, d, e, f
    <2> QED BY <2>1, <2>2, FewAreTyped
  <1>3. c \in Seq(EventKinds)
    <2>1. c = << >> \/ (c = <<w.close>> /\ w.close # "none")
      BY DEF R!If
    <2>2. w.close # "none" => w.close \in EventKinds
      BY <1>1 DEF EventKinds
    <2> HIDE DEF c
    <2> QED BY <2>1, <2>2, FewAreTyped
  <1>4. R!Kinds(t, w) = a \o b \o c \o d \o e \o f
    BY DEF R!Kinds
  <1> HIDE DEF a, b, c, d, e, f
  <1>5. a \o b \in Seq(EventKinds)
    BY <1>2, JoinedSequences
  <1>6. a \o b \o c \in Seq(EventKinds)
    BY <1>3, <1>5, JoinedSequences
  <1>7. a \o b \o c \o d \in Seq(EventKinds)
    BY <1>2, <1>6, JoinedSequences
  <1>8. a \o b \o c \o d \o e \in Seq(EventKinds)
    BY <1>2, <1>7, JoinedSequences
  <1>9. a \o b \o c \o d \o e \o f \in Seq(EventKinds)
    BY <1>2, <1>8, JoinedSequences
  <1> QED BY <1>4, <1>9

LEMMA ContinuedIs ==
    ASSUME QuestionsSensible, NEW es \in Episodes
    PROVE  /\ R!Continued(es) \in R!Ids \cup {0}
           /\ R!Continued(es) # 0 => R!There(es, R!Continued(es))
  <1> DEFINE on == R!Active(es)
  <1>1. on \subseteq R!Ids /\ \A i \in on : es[i].status = "active"
    BY DEF R!Active
  <1>2. CASE on = {}
    BY <1>2 DEF R!Continued
  <1>3. CASE on # {}
    <2>1. R!Max(on) \in on
      BY <1>1, <1>3, LargestIsOne
    <2>2. R!Continued(es) = R!Max(on)
      BY <1>3 DEF R!Continued
    <2> QED BY <1>1, <2>1, <2>2 DEF R!There
  <1> QED BY <1>2, <1>3

LEMMA SourcesAre ==
    ASSUME QuestionsSensible, QuestionsInv, NEW e
    PROVE  R!SourcesOf(e) \subseteq R!Ids /\ (e \notin Told => R!SourcesOf(e) = {})
  <1>1. \A n \in DOMAIN events : events[n].source \in R!Ids
    <2>1. events \in Seq(R!Event)
      BY InvParts
    <2>2. \A n \in DOMAIN events : events[n] \in R!Event
      BY <2>1
    <2> QED BY <2>2 DEF R!Event
  <1> QED BY <1>1 DEF R!SourcesOf, Told

LEMMA BeginGoesOn ==
    ASSUME QuestionsSensible, QuestionsInv, NEW o \in R!Origins, R!Begin(o)
    PROVE  QuestionsInv'
  <1> DEFINE id == begun["employee"] + begun["scheduled"] + 1
             t == [R!NoTurn EXCEPT !.phase = "began", !.id = id, !.stamp = clock, !.day = day,
                                   !.keep = o = "scheduled" /\ R!PendingNow(episodes)]
  <1>1. /\ turns' = [turns EXCEPT ![o] = t] /\ begun' = [begun EXCEPT ![o] = @ + 1] /\ clock' = clock + 1
        /\ begun[o] < R!MostTurns[o]
        /\ UNCHANGED <<events, episodes, day, rewound, blind>>
    BY DEF R!Begin, R!Set
  <1>2. begun \in [R!Origins -> Nat] /\ (\A p \in R!Origins : begun[p] <= R!MostTurns[p])
    BY DEF QuestionsInv, QuestionsTyped
  <1>3. begun' \in [R!Origins -> Nat] /\ (\A p \in R!Origins : begun'[p] <= R!MostTurns[p])
    <2>1. R!MostTurns[o] \in Nat
      BY DEF R!Origins, R!MostTurns, QuestionsSensible
    <2>2. begun[o] + 1 <= R!MostTurns[o] /\ begun[o] + 1 \in Nat
      BY <1>1, <1>2, <2>1
    <2> QED BY <1>1, <1>2, <2>2
  <1>4. Begun' = Begun + 1 /\ Begun \in Nat /\ id = Begun + 1
    BY <1>1, <1>2, InvParts DEF Begun, R!Origins
  <1>5. id \in R!Ids /\ id \in 1..Begun' /\ id \notin 1..Begun
    <2>1. begun'["employee"] <= MaxEmployee /\ begun'["scheduled"] <= MaxScheduled
      BY <1>3 DEF R!Origins, R!MostTurns
    <2>2. id <= MaxEmployee + MaxScheduled
      <3>1. begun'["employee"] \in Nat /\ begun'["scheduled"] \in Nat
        BY <1>3 DEF R!Origins
      <3>2. id = begun'["employee"] + begun'["scheduled"]
        BY <1>4 DEF Begun
      <3> HIDE DEF id
      <3> QED BY <2>1, <3>1, <3>2 DEF QuestionsSensible
    <2> HIDE DEF id
    <2> QED BY <1>4, <2>2, IdsAreNumbers
  <1>6. clock \in Nat /\ day \in Nat /\ clock' \in Nat /\ day' \in Nat
    BY <1>1, InvParts
  <1> HIDE DEF id
  <1>7. /\ t \in R!Turn /\ t.phase = "began" /\ t.id = id /\ t.events = << >>
    BY <1>5, <1>6, NoneAreTyped DEF R!Turn, R!NoTurn
  <1> HIDE DEF t
  <1>8. id \notin Told /\ \A p \in R!Origins : turns[p].phase # "idle" => turns[p].id # id
    BY <1>5 DEF QuestionsInv, EpisodesAreTold, TurnsAreApart
  <1>9. IsTold(t) /\ IsOwn(t) /\ IsCurrent(t)
    BY <1>7, <1>8 DEF IsTold, IsOwn, IsCurrent, Unsaved, Stages
  <1>10. Begun <= Begun'
    BY <1>4
  <1>11. UNCHANGED <<events, episodes, rewound, blind>>
    BY <1>1
  <1>12. t.phase # "idle" => /\ t.id \in 1..Begun'
                            /\ \A p \in R!Origins : p # o /\ turns[p].phase # "idle" => turns[p].id # t.id
    BY <1>5, <1>7, <1>8
  <1>13. t.phase # "checked"
    BY <1>7
  <1> QED BY <1>1, <1>3, <1>6, <1>7, <1>9, <1>10, <1>11, <1>12, <1>13, LedgerStands


LEMMA ReadGoesOn ==
    ASSUME QuestionsSensible, QuestionsInv, NEW o \in R!Origins, R!Read(o)
    PROVE  QuestionsInv'
  <1> DEFINE c == R!Continued(episodes)
             read == IF c = 0 THEN R!NoEpisode ELSE episodes[c]
             held == \E i \in R!Ids : episodes[i].session.id # 0
             t == [turns[o] EXCEPT !.phase = "open", !.episode = c, !.known = R!SourcesOf(c),
                                   !.read = read, !.held = held]
             staged == R!Staged(t, R!Boundary(t))
             u == [t EXCEPT !.events = staged]
  <1>1. /\ turns[o].phase = "began" /\ turns' = [turns EXCEPT ![o] = u]
        /\ UNCHANGED <<events, episodes, begun, clock, day, rewound, blind>>
    BY DEF R!Read, R!Set
  <1>2. turns[o] \in R!Turn /\ turns[o].id \in 1..Begun /\ turns[o].events = << >> /\ turns[o].id \notin Told
    BY <1>1, InvParts
       DEF QuestionsInv, TurnsAreApart, StagedIsOwn, IsOwn, EpisodesAreTold, IsTold, Unsaved
  <1>3. turns[o].id \in R!Ids
    BY <1>2, InvParts
  <1>4. episodes \in Episodes
    BY InvParts
  <1>5. c \in R!Ids \cup {0} /\ (c # 0 => c \in Told)
    <2>1. c \in R!Ids \cup {0} /\ (c # 0 => R!There(episodes, c))
      BY <1>4, ContinuedIs
    <2> HIDE DEF c
    <2>2. ASSUME c # 0 PROVE c \in Told
      <3>1. c \in R!Ids /\ R!There(R!Projected(events), c) /\ events \in Seq(R!Event)
        BY <2>1, <2>2, InvParts
      <3>2. \E n \in DOMAIN events : events[n].episode = c
        BY <3>1, ThereHasEvent
      <3> QED BY <3>2 DEF Told
    <2> QED BY <2>1, <2>2
  <1>6. read \in R!Episode
    BY <1>4, <1>5, NoneAreTyped DEF Episodes
  <1>7. R!SourcesOf(c) \subseteq R!Ids
    BY SourcesAre
  <1> HIDE DEF c, read, held
  <1>8. held \in BOOLEAN
    BY DEF held
  <1>9. /\ t \in R!Turn /\ t.phase = "open" /\ t.id = turns[o].id /\ t.episode = c /\ t.read = read
        /\ t.events = << >> /\ t.known = R!SourcesOf(c)
    BY <1>2, <1>5, <1>6, <1>7, <1>8 DEF R!Turn
  <1> HIDE DEF t
  <1>10. /\ staged \in Seq(R!Event)
         /\ \A n \in 1..Len(staged) :
                /\ staged[n].episode = EpisodeOf(t) /\ staged[n].source = t.id
                /\ staged[n].kind \notin Receipts
                /\ staged[n].revision = t.read.revision + Len(t.events) + n - 1
    BY <1>3, <1>9, BoundaryIsTyped, StagedIsTyped
  <1>11. staged # << >> => staged[1].revision = read.revision
    <2>1. read.revision \in Nat
      BY <1>6 DEF R!Episode
    <2>2. Len(t.events) = 0
      BY <1>9
    <2>3. ASSUME staged # << >> PROVE 1 \in 1..Len(staged)
      <3> HIDE DEF staged
      <3> QED BY <1>10, <2>3
    <2> HIDE DEF staged
    <2> QED BY <1>9, <1>10, <2>1, <2>2, <2>3
  <1> HIDE DEF staged
  <1>12. /\ u \in R!Turn /\ u.phase = "open" /\ u.id = t.id /\ u.episode = c /\ u.read = read
         /\ u.events = staged /\ u.known = R!SourcesOf(c) /\ EpisodeOf(u) = EpisodeOf(t)
    BY <1>9, <1>10 DEF R!Turn, EpisodeOf
  <1> HIDE DEF u
  <1>13. IsTold(u)
    BY <1>2, <1>5, <1>9, <1>12 DEF IsTold, Unsaved, Stages
  <1>14. IsOwn(u)
    <2>1. \A n \in DOMAIN u.events : n \in 1..Len(staged)
      BY <1>10, <1>12
    <2> QED BY <1>10, <1>11, <1>12, <2>1 DEF IsOwn, Stages
  <1>15. IsCurrent(u)
    <2>1. u.episode # 0 => u.read.revision = episodes[u.episode].revision /\ u.read.revision \in Nat
      BY <1>4, <1>5, <1>12 DEF read, Episodes, R!Episode
    <2> QED BY <1>12, <2>1 DEF IsCurrent
  <1>16. u.phase # "idle" => /\ u.id \in 1..Begun'
                            /\ \A p \in R!Origins : p # o /\ turns[p].phase # "idle" => turns[p].id # u.id
    <2>1. Begun' = Begun
      BY <1>1 DEF Begun
    <2> QED BY <1>1, <1>2, <1>9, <1>12, <2>1 DEF QuestionsInv, TurnsAreApart
  <1>17. /\ begun' \in [R!Origins -> Nat] /\ \A p \in R!Origins : begun'[p] <= R!MostTurns[p]
         /\ Begun' = Begun /\ Begun \in Nat /\ clock' \in Nat /\ day' \in Nat
    BY <1>1, InvParts DEF QuestionsInv, QuestionsTyped, Begun
  <1>18. Begun <= Begun' /\ UNCHANGED <<events, episodes, rewound, blind>> /\ u.phase # "checked"
    BY <1>1, <1>12, <1>17
  <1> QED BY <1>1, <1>12, <1>13, <1>14, <1>15, <1>16, <1>17, <1>18, LedgerStands

LEMMA UpdatesAreTyped ==
    ASSUME QuestionsSensible, NEW o \in R!Origins, NEW kinds \in R!Updates(o)
    PROVE  kinds \in Seq(EventKinds)
  BY KindsAreTyped, FewAreTyped DEF R!Updates

LEMMA CheckGoesOn ==
    ASSUME QuestionsSensible, QuestionsInv, NEW o \in R!Origins, NEW kinds \in R!Updates(o),
           R!Check(o, kinds)
    PROVE  QuestionsInv'
  <1> DEFINE t == turns[o]
             staged == R!Staged(t, kinds)
             asked == \E n \in DOMAIN kinds : kinds[n] = "asked"
             w == R!With(o, kinds)
             u == [w EXCEPT !.phase = "checked"]
  <1>1. /\ t.phase = "open" /\ \A p \in R!Origins : turns[p].phase # "checked"
        /\ w.events # << >> /\ R!Valid(w)
        /\ turns' = [turns EXCEPT ![o] = u]
        /\ UNCHANGED <<events, episodes, begun, clock, day, rewound, blind>>
    BY DEF R!Check, R!Saving, R!Set
  <1>2. t \in R!Turn /\ t.id \in 1..Begun
    BY <1>1, InvParts DEF QuestionsInv, TurnsAreApart
  <1>3. t.id \in R!Ids
    BY <1>2, InvParts
  <1>4. IsTold(t) /\ IsOwn(t) /\ (~rewound => IsCurrent(t))
    BY DEF QuestionsInv, EpisodesAreTold, StagedIsOwn, ReadIsCurrent
  <1>5. w = [t EXCEPT !.events = t.events \o staged, !.asked = asked]
    BY DEF R!With
  <1> HIDE DEF t, w
  <1>6. kinds \in Seq(EventKinds)
    BY UpdatesAreTyped
  <1>7. /\ staged \in Seq(R!Event) /\ Len(staged) = Len(kinds)
        /\ \A n \in 1..Len(kinds) :
               /\ staged[n].kind = kinds[n] /\ staged[n].kind \notin Receipts
               /\ staged[n].episode = EpisodeOf(t) /\ staged[n].source = t.id
               /\ staged[n].revision = t.read.revision + Len(t.events) + n - 1
    BY <1>2, <1>3, <1>6, StagedIsTyped
  <1>8. t.events \in Seq(R!Event) /\ t.read.revision \in Nat
    BY <1>2 DEF R!Turn, R!Episode
  <1> HIDE DEF staged, asked
  <1> DEFINE whole == t.events \o staged
  <1>9. /\ whole \in Seq(R!Event) /\ Len(whole) = Len(t.events) + Len(staged)
        /\ \A n \in 1..Len(t.events) : whole[n] = t.events[n]
        /\ \A n \in 1..Len(staged) : whole[Len(t.events) + n] = staged[n]
    <2>1. t.events \in Seq(R!Event) /\ staged \in Seq(R!Event)
      BY <1>7, <1>8
    <2> DEFINE a == t.events
    <2> HIDE DEF a
    <2>2. /\ a \o staged \in Seq(R!Event) /\ Len(a \o staged) = Len(a) + Len(staged)
          /\ \A n \in 1..Len(a) : (a \o staged)[n] = a[n]
          /\ \A n \in 1..Len(staged) : (a \o staged)[Len(a) + n] = staged[n]
      <3>1. a \in Seq(R!Event)
        BY <2>1 DEF a
      <3> QED BY <2>1, <3>1, JoinedSequences
    <2> QED BY <2>2 DEF a
  <1> HIDE DEF whole
  <1>10. /\ u \in R!Turn /\ u.phase = "checked" /\ u.id = t.id /\ u.episode = t.episode /\ u.read = t.read
         /\ u.events = whole /\ u.known = t.known /\ u.asked = asked /\ EpisodeOf(u) = EpisodeOf(t)
         /\ w.events = whole
    <2>1. asked \in BOOLEAN
      BY DEF asked
    <2>2. w = [t EXCEPT !.events = whole, !.asked = asked]
      BY <1>5 DEF whole
    <2> QED BY <1>2, <1>9, <2>1, <2>2 DEF R!Turn, EpisodeOf
  <1> HIDE DEF u
  <1>11. \A n \in 1..Len(whole) : /\ whole[n].episode = EpisodeOf(t) /\ whole[n].source = t.id
                                 /\ whole[n].kind \notin Receipts
    <2> SUFFICES ASSUME NEW n \in 1..Len(whole)
                 PROVE  /\ whole[n].episode = EpisodeOf(t) /\ whole[n].source = t.id
                        /\ whole[n].kind \notin Receipts
      OBVIOUS
    <2>1. CASE n <= Len(t.events)
      <3>1. n \in 1..Len(t.events) /\ n \in DOMAIN t.events
        BY <1>8, <1>9, <2>1
      <3> QED BY <1>1, <1>4, <1>9, <3>1 DEF IsOwn, Stages, t
    <2>2. CASE n > Len(t.events)
      <3>1. n - Len(t.events) \in 1..Len(staged) /\ Len(t.events) + (n - Len(t.events)) = n
        BY <1>7, <1>8, <1>9, <2>2
      <3>2. whole[n] = staged[n - Len(t.events)]
        BY <1>9, <3>1
      <3> QED BY <1>7, <3>1, <3>2
    <2> QED BY <1>7, <1>8, <1>9, <2>1, <2>2
  <1>12. whole # << >> /\ 1 \in 1..Len(whole)
    BY <1>1, <1>9, <1>10
  <1>13. whole[1].revision = t.read.revision
    <2>1. CASE t.events # << >>
      <3>1. 1 \in 1..Len(t.events)
        BY <1>8, <2>1
      <3> QED BY <1>1, <1>4, <1>9, <2>1, <3>1 DEF IsOwn, Stages, t
    <2>2. CASE t.events = << >>
      <3>1. Len(t.events) = 0 /\ 1 \in 1..Len(staged)
        BY <1>9, <1>12, <2>2
      <3>2. whole[1] = staged[1]
        BY <1>9, <3>1
      <3> QED BY <1>7, <1>8, <3>1, <3>2
    <2> QED BY <2>1, <2>2
  <1>14. IsTold(u)
    BY <1>1, <1>4, <1>10 DEF IsTold, Unsaved, Stages, t
  <1>15. IsOwn(u)
    <2>1. DOMAIN u.events = 1..Len(whole)
      BY <1>9, <1>10
    <2>2. ASSUME asked PROVE \E n \in DOMAIN u.events : u.events[n].kind = "asked"
      <3>1. PICK n \in 1..Len(kinds) : kinds[n] = "asked"
        BY <1>6, <2>2 DEF asked
      <3>2. n \in 1..Len(staged) /\ staged[n].kind = "asked"
        BY <1>7, <3>1
      <3>3. Len(t.events) + n \in 1..Len(whole) /\ whole[Len(t.events) + n] = staged[n]
        BY <1>8, <1>9, <3>2
      <3> QED BY <1>10, <2>1, <3>2, <3>3
    <2> QED BY <1>10, <1>11, <1>12, <1>13, <2>1, <2>2 DEF IsOwn, Stages
  <1>16. ASSUME ~rewound PROVE IsCurrent(u)
    <2>1. episodes[EpisodeOf(t)].revision = t.read.revision
      <3>1. episodes[whole[1].episode].revision = whole[1].revision
        BY <1>1, <1>10 DEF R!Valid, R!AtRevision
      <3> QED BY <1>11, <1>12, <1>13, <3>1
    <2>2. R!SourcesOf(EpisodeOf(t)) \subseteq t.known
      <3>1. CASE t.episode = 0
        <4>1. t.id \notin Told /\ EpisodeOf(t) = t.id
          BY <1>1, <1>4, <3>1 DEF IsTold, Unsaved, Stages, EpisodeOf, t
        <4>2. R!SourcesOf(t.id) = {}
          BY <4>1, SourcesAre
        <4> QED BY <4>1, <4>2
      <3>2. CASE t.episode # 0
        <4>1. EpisodeOf(t) = t.episode
          BY <3>2 DEF EpisodeOf
        <4> QED BY <1>1, <1>4, <1>16, <2>1, <3>2, <4>1 DEF IsCurrent, t
      <3> QED BY <3>1, <3>2
    <2> QED BY <1>10, <2>2 DEF IsCurrent
  <1>17. /\ begun' \in [R!Origins -> Nat] /\ \A p \in R!Origins : begun'[p] <= R!MostTurns[p]
         /\ Begun' = Begun /\ Begun \in Nat /\ clock' \in Nat /\ day' \in Nat
    BY <1>1, InvParts DEF QuestionsInv, QuestionsTyped, Begun
  <1>18. Begun <= Begun' /\ UNCHANGED <<events, episodes, rewound, blind>>
    BY <1>1, <1>17
  <1>19. u.phase # "idle" => /\ u.id \in 1..Begun'
                            /\ \A p \in R!Origins : p # o /\ turns[p].phase # "idle" => turns[p].id # u.id
    BY <1>1, <1>2, <1>10, <1>17 DEF QuestionsInv, TurnsAreApart, t
  <1>20. u.phase = "checked" => \A p \in R!Origins : p # o => turns[p].phase # "checked"
    BY <1>1
  <1> QED BY <1>1, <1>10, <1>14, <1>15, <1>16, <1>17, <1>18, <1>19, <1>20, LedgerStands


-----------------------------------------------------------------------------
(* Receipts are read                                                       *)

LEMMA SessionThenIsTyped ==
    ASSUME QuestionsSensible, QuestionsInv, NEW t,
           \E n \in DOMAIN events : events[n].kind = "asked" /\ events[n].source = t.id
    PROVE  R!SessionThen(t) \in R!Ids \cup {0}
  <1> DEFINE asked == CHOOSE n \in DOMAIN events : events[n].kind = "asked" /\ events[n].source = t.id
             before == SubSeq(events, 1, asked)
             es == R!Projected(before)
             on == {i \in R!Ids : R!ActiveSession(es[i], day)}
  <1>1. asked \in DOMAIN events
    OBVIOUS
  <1>2. events \in Seq(R!Event)
    BY InvParts
  <1> HIDE DEF asked
  <1>3. before \in Seq(R!Event)
    BY <1>1, <1>2
  <1> HIDE DEF before
  <1>4. es \in Episodes
    BY <1>3, ProjectedIsEpisodes
  <1> HIDE DEF es
  <1>5. R!SessionThen(t) = IF on = {} THEN 0 ELSE es[R!Min(on)].session.id
    BY DEF R!SessionThen, asked, before, es
  <1>6. CASE on = {}
    BY <1>5, <1>6
  <1>7. CASE on # {}
    <2>1. on \subseteq R!Ids
      OBVIOUS
    <2> HIDE DEF on
    <2>2. R!Min(on) \in R!Ids
      BY <1>7, <2>1, SmallestIsOne
    <2>3. es[R!Min(on)].session.id \in R!Ids \cup {0}
      BY <1>4, <2>2 DEF Episodes, R!Episode, R!Session
    <2> QED BY <1>5, <1>7, <2>3
  <1> QED BY <1>6, <1>7

LEMMA ReadReceiptGoesOn ==
    ASSUME QuestionsSensible, QuestionsInv, NEW o \in R!Origins, NEW status \in Receipts,
           R!ReadReceipt(o, status)
    PROVE  QuestionsInv'
  <1> DEFINE t == turns[o]
             r == R!Receipt(t, status)
             u == [t EXCEPT !.phase = "recording", !.events = <<r>>]
  <1>1. /\ t.phase = "sent" /\ turns' = [turns EXCEPT ![o] = u] /\ clock' = clock + 1
        /\ UNCHANGED <<events, episodes, begun, day, rewound, blind>>
    BY DEF R!ReadReceipt, R!Set
  <1>2. /\ t \in R!Turn /\ t.id \in 1..Begun /\ t.episode \in Told
        /\ \E n \in DOMAIN events : events[n].kind = "asked" /\ events[n].source = t.id
    BY <1>1, InvParts DEF QuestionsInv, TurnsAreApart, EpisodesAreTold, IsTold, StagedIsOwn, IsOwn
  <1>3. t.id \in R!Ids /\ t.episode \in R!Ids /\ episodes \in Episodes /\ clock \in Nat /\ day \in Nat
    BY <1>2, InvParts
  <1>4. R!SessionThen(t) \in R!Ids \cup {0}
    BY <1>2, SessionThenIsTyped
  <1> HIDE DEF t
  <1>5. r \in R!Event /\ r.kind = status /\ r.episode = t.episode
    <2>1. episodes[t.episode].revision \in Nat
      BY <1>3 DEF Episodes, R!Episode
    <2>2. r = [kind |-> status, stamp |-> clock, day |-> day, source |-> t.id, episode |-> t.episode,
               revision |-> episodes[t.episode].revision, question |-> t.id,
               session |-> R!SessionThen(t), copy |-> R!NoEpisode]
      BY DEF R!Receipt
    <2> HIDE DEF r
    <2> QED BY <1>3, <1>4, <2>1, <2>2, NoneAreTyped DEF R!Event, Receipts
  <1> HIDE DEF r
  <1>6. <<r>> \in Seq(R!Event) /\ Len(<<r>>) = 1 /\ <<r>>[1] = r
    BY <1>5
  <1>7. /\ u \in R!Turn /\ u.phase = "recording" /\ u.id = t.id /\ u.episode = t.episode /\ u.events = <<r>>
    BY <1>2, <1>6 DEF R!Turn
  <1> HIDE DEF u
  <1>8. IsTold(u)
    BY <1>2, <1>7 DEF IsTold, Unsaved, Stages
  <1>9. IsOwn(u)
    BY <1>5, <1>6, <1>7 DEF IsOwn, Stages
  <1>10. IsCurrent(u)
    BY <1>7 DEF IsCurrent
  <1>11. /\ begun' \in [R!Origins -> Nat] /\ \A p \in R!Origins : begun'[p] <= R!MostTurns[p]
         /\ Begun' = Begun /\ Begun \in Nat /\ clock' \in Nat /\ day' \in Nat
    BY <1>1, <1>3, InvParts DEF QuestionsInv, QuestionsTyped, Begun
  <1>12. Begun <= Begun' /\ UNCHANGED <<events, episodes, rewound, blind>> /\ u.phase # "checked"
    BY <1>1, <1>7, <1>11
  <1>13. u.phase # "idle" => /\ u.id \in 1..Begun'
                            /\ \A p \in R!Origins : p # o /\ turns[p].phase # "idle" => turns[p].id # u.id
    BY <1>1, <1>2, <1>7, <1>11 DEF QuestionsInv, TurnsAreApart, t
  <1> QED BY <1>1, <1>7, <1>8, <1>9, <1>10, <1>11, <1>12, <1>13, LedgerStands

-----------------------------------------------------------------------------
(* Turns and receipts are appended                                         *)

\* What events of one episode, appended, change of the ledger and the projection.
LEMMA AppendedToOne ==
    ASSUME QuestionsSensible, QuestionsInv, NEW u \in Seq(R!Event), u # << >>, NEW e \in R!Ids,
           \A k \in DOMAIN u : u[k].episode = e,
           events' = R!Merged(u), episodes' = R!Projected(events')
    PROVE  /\ events' \in Seq(R!Event) /\ episodes' \in Episodes
           /\ Told' = Told \cup {e}
           /\ \A n \in DOMAIN events : \E m \in DOMAIN events' : events'[m] = events[n]
           /\ \A n \in DOMAIN u : \E m \in DOMAIN events' : events'[m] = u[n]
           /\ \A i \in R!Ids : i # e => /\ episodes'[i].revision = episodes[i].revision
                                        /\ R!SourcesOf(i)' = R!SourcesOf(i)
           /\ (\A k \in DOMAIN u : u[k].kind \in Receipts) =>
                  \A i \in R!Ids : R!SourcesOf(i)' = R!SourcesOf(i)
  <1>1. events \in Seq(R!Event) /\ episodes = R!Projected(events)
    BY InvParts
  <1>2. /\ events' \in Seq(R!Event)
        /\ \A n \in DOMAIN events : \E m \in DOMAIN events' : events'[m] = events[n]
        /\ \A n \in DOMAIN u : \E m \in DOMAIN events' : events'[m] = u[n]
        /\ \A m \in DOMAIN events' : \/ \E n \in DOMAIN events : events'[m] = events[n]
                                     \/ \E n \in DOMAIN u : events'[m] = u[n]
    BY <1>1, MergedHolds
  <1>3. episodes' \in Episodes
    BY <1>2, ProjectedIsEpisodes
  <1>4. 1 \in DOMAIN u
    OBVIOUS
  <1>5. Told' = Told \cup {e}
    <2>1. Told' \subseteq Told \cup {e}
      BY <1>2 DEF Told
    <2>2. Told \subseteq Told'
      BY <1>2 DEF Told
    <2>3. e \in Told'
      BY <1>2, <1>4 DEF Told
    <2> QED BY <2>1, <2>2, <2>3
  <1>6. ASSUME NEW i \in R!Ids, i # e PROVE episodes'[i].revision = episodes[i].revision
    <2>1. Alike(R!Projected(R!Merged(u)), R!Projected(events), i)
      BY <1>1, <1>6, MergedPassBy
    <2> QED BY <1>1, <2>1 DEF Alike
  <1>7. ASSUME NEW i \in R!Ids, i # e \/ \A k \in DOMAIN u : u[k].kind \in Receipts
        PROVE  R!SourcesOf(i)' = R!SourcesOf(i)
    <2> DEFINE Counts(v) == v.episode = i /\ v.kind \notin Receipts
    <2>1. R!SourcesOf(i) = {events[n].source : n \in {k \in DOMAIN events : Counts(events[k])}}
      BY DEF R!SourcesOf, Receipts
    <2>2. R!SourcesOf(i)' = {events'[n].source : n \in {k \in DOMAIN events' : Counts(events'[k])}}
      BY DEF R!SourcesOf, Receipts
    <2>3. \A k \in DOMAIN u : ~Counts(u[k])
      BY <1>7
    <2> HIDE DEF Counts
    <2>4. R!SourcesOf(i) \subseteq R!SourcesOf(i)'
      BY <1>2, <2>1, <2>2
    <2>5. R!SourcesOf(i)' \subseteq R!SourcesOf(i)
      BY <1>2, <2>1, <2>2, <2>3
    <2> QED BY <2>4, <2>5
  <1> QED BY <1>2, <1>3, <1>5, <1>6, <1>7


\* The ledger grew: a turn that goes on is the one of the other origin, which saves nothing now.
LEMMA LedgerGrows ==
    ASSUME QuestionsSensible, QuestionsInv, NEW o \in R!Origins, NEW t \in R!Turn,
           NEW u \in Seq(R!Event), u # << >>, NEW e \in R!Ids, e \in 1..Begun,
           \A k \in DOMAIN u : u[k].episode = e,
           events' = R!Merged(u), episodes' = R!Projected(events'),
           turns' = [turns EXCEPT ![o] = t],
           UNCHANGED <<begun, clock, day>>, rewound' = (rewound \/ R!Rewinds(u)), ~blind',
           t.phase = "idle" \/ (t.phase = "sent" /\ t.id = turns[o].id /\ turns[o].phase # "idle"),
           t.phase = "sent" => /\ t.episode = e
                               /\ \E n \in DOMAIN u : u[n].kind = "asked" /\ u[n].source = t.id,
           \A p \in R!Origins : p # o /\ Unsaved(turns[p]) => turns[p].id # e,
           \A p \in R!Origins : p # o /\ turns[p].phase = "checked" => \A k \in DOMAIN u : u[k].kind \in Receipts
    PROVE  QuestionsInv'
  <1>1. turns'[o] = t /\ (\A p \in R!Origins : p # o => turns'[p] = turns[p])
    BY InvParts
  <1>2. /\ events' \in Seq(R!Event) /\ episodes' \in Episodes
        /\ Told' = Told \cup {e}
        /\ \A n \in DOMAIN events : \E m \in DOMAIN events' : events'[m] = events[n]
        /\ \A n \in DOMAIN u : \E m \in DOMAIN events' : events'[m] = u[n]
    BY AppendedToOne
  <1>3. /\ \A i \in R!Ids : i # e => /\ episodes'[i].revision = episodes[i].revision
                                     /\ R!SourcesOf(i)' = R!SourcesOf(i)
        /\ (\A k \in DOMAIN u : u[k].kind \in Receipts) =>
               \A i \in R!Ids : R!SourcesOf(i)' = R!SourcesOf(i)
    BY AppendedToOne
  <1>4. Begun' = Begun /\ Begun \in Nat
    BY InvParts DEF Begun
  <1>5. QuestionsTyped'
    <2>1. R!TypeOK'
      <3>1. turns' \in [R!Origins -> R!Turn]
        BY InvParts
      <3> QED BY <1>2, <3>1 DEF R!TypeOK, Episodes
    <2>2. (episodes = R!Projected(events))'
      OBVIOUS
    <2>3. /\ begun' \in [R!Origins -> Nat] /\ \A p \in R!Origins : begun'[p] <= R!MostTurns[p]
          /\ clock' \in Nat /\ day' \in Nat
      BY InvParts DEF QuestionsInv, QuestionsTyped
    <2>4. rewound' \in BOOLEAN
      BY DEF QuestionsInv, QuestionsTyped, R!Rewinds
    <2> QED BY <2>1, <2>2, <2>3, <2>4 DEF QuestionsTyped
  <1>6. TurnsAreApart'
    <2>1. \A p \in R!Origins : turns'[p].phase # "idle" => turns'[p].id \in 1..Begun'
      BY <1>1, <1>4 DEF QuestionsInv, TurnsAreApart
    <2>2. \A p, q \in R!Origins : p # q =>
              /\ turns'[p].phase # "idle" /\ turns'[q].phase # "idle" => turns'[p].id # turns'[q].id
              /\ ~(turns'[p].phase = "checked" /\ turns'[q].phase = "checked")
      BY <1>1 DEF QuestionsInv, TurnsAreApart
    <2> QED BY <2>1, <2>2 DEF TurnsAreApart
  <1>7. EpisodesAreTold'
    <2>1. Told' \subseteq 1..Begun'
      BY <1>2, <1>4 DEF QuestionsInv, EpisodesAreTold
    <2>2. ASSUME NEW p \in R!Origins PROVE IsTold(turns[p])'
      <3>1. CASE p = o
        BY <1>1, <1>2, <3>1 DEF IsTold, Unsaved, Stages
      <3>2. CASE p # o
        BY <1>1, <1>2, <3>2 DEF QuestionsInv, EpisodesAreTold, IsTold, Unsaved, Stages
      <3> QED BY <3>1, <3>2
    <2> QED BY <2>1, <2>2 DEF EpisodesAreTold
  <1>8. ASSUME NEW p \in R!Origins PROVE IsOwn(turns[p])'
    <2>1. CASE p = o
      <3>1. t.phase = "sent" => \E n \in DOMAIN events' : events'[n].kind = "asked" /\ events'[n].source = t.id
        BY <1>2
      <3> QED BY <1>1, <2>1, <3>1 DEF IsOwn, Stages
    <2>2. CASE p # o
      <3>1. IsOwn(turns[p]) /\ turns'[p] = turns[p]
        BY <1>1, <2>2 DEF QuestionsInv, StagedIsOwn
      <3>2. turns[p].phase = "sent" =>
                \E n \in DOMAIN events' : events'[n].kind = "asked" /\ events'[n].source = turns[p].id
        BY <1>2, <3>1 DEF IsOwn
      <3> QED BY <3>1, <3>2 DEF IsOwn, Stages, EpisodeOf
    <2> QED BY <2>1, <2>2
  <1>9. ASSUME ~rewound', NEW p \in R!Origins PROVE IsCurrent(turns[p])'
    <2>1. ~rewound /\ episodes'[e].revision = episodes[e].revision + Len(u)
      <3>1. u[1].episode = e
        OBVIOUS
      <3> QED BY <1>9, <3>1 DEF R!Rewinds
    <2>2. CASE p = o
      BY <1>1, <2>2 DEF IsCurrent
    <2>3. CASE p # o
      <3> DEFINE q == turns[p]
      <3>1. turns'[p] = q /\ IsCurrent(q) /\ q \in R!Turn
        BY <1>1, <2>1, <2>3, InvParts DEF QuestionsInv, ReadIsCurrent
      <3>2. q.episode \in R!Ids \cup {0} /\ q.read.revision \in Nat
        BY <3>1 DEF R!Turn, R!Episode
      <3>3. episodes[e].revision \in Nat /\ Len(u) \in Nat /\ Len(u) > 0
        BY InvParts DEF Episodes, R!Episode
      <3>4. ASSUME q.phase = "open", q.episode # 0
            PROVE  /\ q.read.revision <= episodes'[q.episode].revision
                   /\ q.read.revision = episodes'[q.episode].revision =>
                          R!SourcesOf(q.episode)' \subseteq q.known
        <4>1. CASE q.episode = e
          <5>1. q.read.revision <= episodes[e].revision
            BY <3>1, <3>4, <4>1 DEF IsCurrent
          <5>2. q.read.revision < episodes'[e].revision
            BY <2>1, <3>2, <3>3, <5>1
          <5> HIDE DEF q
          <5> QED BY <2>1, <3>2, <3>3, <4>1, <5>2
        <4>2. CASE q.episode # e
          BY <1>3, <3>1, <3>2, <3>4, <4>2 DEF IsCurrent
        <4> QED BY <4>1, <4>2
      <3>5. ASSUME q.phase = "checked" PROVE R!SourcesOf(EpisodeOf(q))' \subseteq q.known
        <4>1. EpisodeOf(q) \in R!Ids
          <5>1. q.id \in R!Ids
            BY <3>5, InvParts DEF QuestionsInv, TurnsAreApart
          <5> QED BY <3>2, <5>1 DEF EpisodeOf
        <4>2. \A i \in R!Ids : R!SourcesOf(i)' = R!SourcesOf(i)
          BY <1>3, <2>3, <3>5
        <4>3. R!SourcesOf(EpisodeOf(q)) \subseteq q.known
          BY <3>1, <3>5 DEF IsCurrent
        <4> QED BY <3>1, <4>1, <4>2, <4>3 DEF EpisodeOf
      <3> QED BY <3>1, <3>4, <3>5 DEF IsCurrent, EpisodeOf
    <2> QED BY <2>2, <2>3
  <1>10. ReadIsCurrent'
    BY <1>9 DEF ReadIsCurrent
  <1>11. StagedIsOwn'
    BY <1>8 DEF StagedIsOwn
  <1> QED BY <1>5, <1>6, <1>7, <1>10, <1>11 DEF QuestionsInv


LEMMA AppendTurnGoesOn ==
    ASSUME QuestionsSensible, QuestionsInv, NEW o \in R!Origins, R!AppendTurn(o)
    PROVE  QuestionsInv'
  <1> DEFINE t == turns[o]
             u == t.events
             e == EpisodeOf(t)
             next == IF t.asked THEN R!Sent(t) ELSE R!NoTurn
  <1>1. /\ t.phase = "checked" /\ events' = R!Merged(u) /\ episodes' = R!Projected(events')
        /\ rewound' = (rewound \/ R!Rewinds(u))
        /\ blind' = (blind \/ (~rewound /\ ~(R!SourcesOf(u[1].episode) \subseteq t.known)))
        /\ turns' = [turns EXCEPT ![o] = next]
        /\ UNCHANGED <<begun, clock, day>>
    BY DEF R!AppendTurn, R!Set
  <1>2. /\ t \in R!Turn /\ t.id \in 1..Begun
        /\ \A p \in R!Origins : p # o => turns[p].phase # "checked"
        /\ \A p \in R!Origins : p # o /\ turns[p].phase # "idle" => turns[p].id # t.id
    BY <1>1, InvParts DEF QuestionsInv, TurnsAreApart
  <1>3. IsTold(t) /\ IsOwn(t) /\ (~rewound => IsCurrent(t)) /\ ~blind
    BY DEF QuestionsInv, EpisodesAreTold, StagedIsOwn, ReadIsCurrent
  <1>4. t.id \in R!Ids /\ t.episode \in R!Ids \cup {0} /\ u \in Seq(R!Event)
    BY <1>2, InvParts DEF R!Turn
  <1>5. /\ u # << >> /\ (t.asked => \E n \in DOMAIN u : u[n].kind = "asked")
        /\ \A n \in DOMAIN u : u[n].episode = e /\ u[n].source = t.id
    BY <1>1, <1>3 DEF IsOwn, Stages
  <1>6. e \in R!Ids /\ e \in 1..Begun
    <2>1. t.episode \in Told \cup {0}
      BY <1>1, <1>3 DEF IsTold, Stages
    <2>2. Told \subseteq 1..Begun /\ Told \subseteq R!Ids
      BY InvParts DEF QuestionsInv, EpisodesAreTold
    <2> QED BY <1>2, <1>4, <2>1, <2>2 DEF EpisodeOf
  <1>7. \A p \in R!Origins : p # o /\ Unsaved(turns[p]) => turns[p].id # e
    <2> SUFFICES ASSUME NEW p \in R!Origins, p # o, Unsaved(turns[p]) PROVE turns[p].id # e
      OBVIOUS
    <2>1. turns[p].id \notin Told /\ turns[p].phase # "idle"
      BY DEF QuestionsInv, EpisodesAreTold, IsTold, Unsaved, Stages
    <2>2. t.episode \in Told \cup {0}
      BY <1>1, <1>3 DEF IsTold, Stages
    <2> QED BY <1>2, <2>1, <2>2 DEF EpisodeOf
  <1>8. u[1].episode = e
    <2>1. 1 \in DOMAIN u
      BY <1>4, <1>5
    <2> QED BY <1>5, <2>1
  <1>9. ~blind'
    <2>1. ~rewound => R!SourcesOf(e) \subseteq t.known
      BY <1>1, <1>3 DEF IsCurrent
    <2>2. R!SourcesOf(u[1].episode) = R!SourcesOf(e)
      BY <1>8
    <2>3. ~(~rewound /\ ~(R!SourcesOf(u[1].episode) \subseteq t.known))
      BY <2>1, <2>2
    <2> QED BY <1>1, <1>3, <2>3
  <1> HIDE DEF t, u, e
  <1>10. /\ next \in R!Turn
         /\ next.phase = "idle" \/ (next.phase = "sent" /\ next.id = t.id /\ t.phase # "idle")
         /\ next.phase = "sent" => next.episode = e /\ \E n \in DOMAIN u : u[n].kind = "asked" /\ u[n].source = next.id
    <2>1. CASE t.asked
      <3>1. R!Sent(t) = [R!NoTurn EXCEPT !.phase = "sent", !.id = t.id, !.episode = e]
        BY <1>8 DEF R!Sent, u
      <3>2. /\ R!Sent(t) \in R!Turn /\ R!Sent(t).phase = "sent" /\ R!Sent(t).id = t.id /\ R!Sent(t).episode = e
        BY <1>4, <1>6, <3>1, NoneAreTyped, ZenonT(60) DEF R!Turn
      <3>3. \E n \in DOMAIN u : u[n].kind = "asked" /\ u[n].source = t.id
        BY <1>5, <2>1
      <3> QED BY <1>1, <2>1, <3>2, <3>3
    <2>2. CASE ~t.asked
      BY <2>2, NoneAreTyped DEF R!NoTurn
    <2> QED BY <2>1, <2>2
  <1> HIDE DEF next
  <1>11. /\ next.phase = "idle" \/ (next.phase = "sent" /\ next.id = turns[o].id /\ turns[o].phase # "idle")
    BY <1>10 DEF t
  <1>12. \A p \in R!Origins : p # o /\ turns[p].phase = "checked" => \A k \in DOMAIN u : u[k].kind \in Receipts
    BY <1>2
  <1>13. \A k \in DOMAIN u : u[k].episode = e
    BY <1>5
  <1> QED BY <1>1, <1>4, <1>5, <1>6, <1>7, <1>9, <1>10, <1>11, <1>12, <1>13, LedgerGrows, ZenonT(60)

LEMMA AppendReceiptGoesOn ==
    ASSUME QuestionsSensible, QuestionsInv, NEW o \in R!Origins, R!AppendReceipt(o)
    PROVE  QuestionsInv'
  <1> DEFINE t == turns[o]
             u == t.events
             e == t.episode
  <1>1. /\ t.phase = "recording" /\ events' = R!Merged(u) /\ episodes' = R!Projected(events')
        /\ rewound' = (rewound \/ R!Rewinds(u)) /\ blind' = blind
        /\ turns' = [turns EXCEPT ![o] = R!NoTurn]
        /\ UNCHANGED <<begun, clock, day>>
    BY DEF R!AppendReceipt, R!Set
  <1>2. t \in R!Turn /\ u \in Seq(R!Event)
    BY InvParts DEF R!Turn
  <1>3. Len(u) = 1 /\ u[1].kind \in Receipts /\ u[1].episode = e
    BY <1>1 DEF QuestionsInv, StagedIsOwn, IsOwn
  <1>4. e \in Told
    BY <1>1 DEF QuestionsInv, EpisodesAreTold, IsTold
  <1>5. e \in R!Ids /\ e \in 1..Begun
    BY <1>4, InvParts DEF QuestionsInv, EpisodesAreTold
  <1>6. \A p \in R!Origins : p # o /\ Unsaved(turns[p]) => turns[p].id # e
    BY <1>4 DEF QuestionsInv, EpisodesAreTold, IsTold
  <1> HIDE DEF u, e
  <1>7. DOMAIN u = {1} /\ u # << >>
    BY <1>2, <1>3
  <1>8. \A k \in DOMAIN u : u[k].episode = e
    BY <1>3, <1>7
  <1> DEFINE next == R!NoTurn
  <1>9. next \in R!Turn /\ next.phase = "idle"
    BY NoneAreTyped DEF R!NoTurn
  <1>10. turns' = [turns EXCEPT ![o] = next]
    BY <1>1
  <1>11. ~blind'
    BY <1>1, InvParts
  <1>12. UNCHANGED <<begun, clock, day>> /\ rewound' = (rewound \/ R!Rewinds(u))
    BY <1>1
  <1> HIDE DEF next
  <1>13. next.phase = "sent" => next.episode = e /\ \E n \in DOMAIN u : u[n].kind = "asked" /\ u[n].source = next.id
    BY <1>9
  <1>14. next.phase = "idle" \/ (next.phase = "sent" /\ next.id = turns[o].id /\ turns[o].phase # "idle")
    BY <1>9
  <1>15. events' = R!Merged(u) /\ episodes' = R!Projected(events')
    BY <1>1
  <1>16. \A p \in R!Origins : p # o /\ turns[p].phase = "checked" => \A k \in DOMAIN u : u[k].kind \in Receipts
    BY <1>3, <1>7
  <1>17. u \in Seq(R!Event) /\ u # << >>
    BY <1>2, <1>7
  <1> QED BY <1>5, <1>6, <1>8, <1>9, <1>10, <1>11, <1>12, <1>13, <1>14, <1>15, <1>16, <1>17, LedgerGrows, ZenonT(60)

-----------------------------------------------------------------------------
(* The questions of the bot                                                *)

LEMMA QuestionStepGoesOn ==
    ASSUME QuestionsSensible, QuestionsInv, R!Next PROVE QuestionsInv'
  <1>1. ASSUME NEW o \in R!Origins, R!Begin(o) PROVE QuestionsInv'
    BY <1>1, BeginGoesOn
  <1>2. ASSUME NEW o \in R!Origins, R!Read(o) PROVE QuestionsInv'
    BY <1>2, ReadGoesOn
  <1>3. ASSUME NEW o \in R!Origins, R!AppendTurn(o) PROVE QuestionsInv'
    BY <1>3, AppendTurnGoesOn
  <1>4. ASSUME NEW o \in R!Origins, R!AppendReceipt(o) PROVE QuestionsInv'
    BY <1>4, AppendReceiptGoesOn
  <1>5. ASSUME NEW o \in R!Origins, NEW kinds \in R!Updates(o), R!Check(o, kinds) PROVE QuestionsInv'
    BY <1>5, CheckGoesOn
  <1>6. ASSUME NEW o \in R!Origins, NEW s \in {"delivered", "failed"}, R!ReadReceipt(o, s) PROVE QuestionsInv'
    BY <1>6, ReadReceiptGoesOn DEF Receipts
  <1>7. ASSUME NEW o \in R!Origins, NEW kinds \in R!Updates(o), R!Refuse(o, kinds) PROVE QuestionsInv'
    <2>1. turns' = [turns EXCEPT ![o] = R!NoTurn] /\ UNCHANGED <<events, episodes, begun, clock, day, rewound, blind>>
      BY <1>7 DEF R!Refuse, R!Set
    <2> QED BY <2>1, TurnEnds
  <1>8. ASSUME NEW o \in R!Origins, R!NothingToSave(o) \/ R!Fails(o) PROVE QuestionsInv'
    <2>1. turns' = [turns EXCEPT ![o] = R!NoTurn] /\ UNCHANGED <<events, episodes, begun, clock, day, rewound, blind>>
      BY <1>8 DEF R!NothingToSave, R!Fails, R!Set
    <2> QED BY <2>1, TurnEnds
  <1>9. ASSUME R!NextDay PROVE QuestionsInv'
    <2>1. day' = day + 1 /\ UNCHANGED <<events, episodes, turns, begun, clock, rewound, blind>>
      BY <1>9 DEF R!NextDay
    <2>2. QuestionsTyped'
      BY <2>1 DEF QuestionsInv, QuestionsTyped, R!TypeOK
    <2>3. TurnsAreApart' /\ EpisodesAreTold'
      BY <2>1 DEF QuestionsInv, TurnsAreApart, EpisodesAreTold, IsTold, Told, Begun, Unsaved, Stages
    <2>4. StagedIsOwn'
      BY <2>1 DEF QuestionsInv, StagedIsOwn, IsOwn, EpisodeOf, Stages
    <2>5. ReadIsCurrent'
      BY <2>1 DEF QuestionsInv, ReadIsCurrent, IsCurrent, EpisodeOf, R!SourcesOf
    <2>6. ~blind'
      BY <2>1 DEF QuestionsInv
    <2> QED BY <2>2, <2>3, <2>4, <2>5, <2>6 DEF QuestionsInv
  <1> QED BY <1>1, <1>2, <1>3, <1>4, <1>5, <1>6, <1>7, <1>8, <1>9 DEF R!Next

LEMMA QuestionsStandStill ==
    ASSUME QuestionsInv, UNCHANGED questionVars PROVE QuestionsInv'
  <1>1. UNCHANGED <<events, episodes, turns, begun, clock, day, rewound, blind>>
    BY DEF questionVars
  <1>2. QuestionsTyped'
    BY <1>1 DEF QuestionsInv, QuestionsTyped, R!TypeOK
  <1>3. TurnsAreApart' /\ EpisodesAreTold'
    BY <1>1 DEF QuestionsInv, TurnsAreApart, EpisodesAreTold, IsTold, Told, Begun, Unsaved, Stages
  <1>4. StagedIsOwn'
    BY <1>1 DEF QuestionsInv, StagedIsOwn, IsOwn, EpisodeOf, Stages
  <1>5. ReadIsCurrent'
    BY <1>1 DEF QuestionsInv, ReadIsCurrent, IsCurrent, EpisodeOf, R!SourcesOf
  <1>6. ~blind'
    BY <1>1 DEF QuestionsInv
  <1> QED BY <1>2, <1>3, <1>4, <1>5, <1>6 DEF QuestionsInv

LEMMA QuestionsGoOn ==
    QuestionsSensible /\ (about = "questions" => QuestionsInv) /\ [AllNext]_all
        => (about = "questions" => QuestionsInv)'
  <1> SUFFICES ASSUME QuestionsSensible, about = "questions" => QuestionsInv, [AllNext]_all,
                      about' = "questions"
               PROVE  QuestionsInv'
    OBVIOUS
  <1>1. about = "questions" /\ QuestionsInv BY TopicStays
  <1>2. R!Next \/ UNCHANGED questionVars BY <1>1 DEF AllNext, all
  <1> QED BY <1>1, <1>2, QuestionStepGoesOn, QuestionsStandStill

\* However the turns of employee and scheduler overlap, and whatever is not saved, not sent or
\* recorded late: while revisions only grow, a turn is accepted over no other it has not read.
THEOREM TurnsStaySeen ==
    QuestionsSensible => (AllSpec => []TurnsSeeEachOther)
  <1> SUFFICES ASSUME QuestionsSensible PROVE AllSpec => []TurnsSeeEachOther OBVIOUS
  <1>1. AllInit => (about = "questions" => QuestionsInv) BY QuestionsAtFirst DEF AllInit
  <1>2. (about = "questions" => QuestionsInv) /\ [AllNext]_all => (about = "questions" => QuestionsInv)'
    BY QuestionsGoOn
  <1>3. (about = "questions" => QuestionsInv) => TurnsSeeEachOther
    BY DEF TurnsSeeEachOther, R!TurnsSeeEachOther, QuestionsInv
  <1> QED BY <1>1, <1>2, <1>3, PTL DEF AllSpec

\* The cards, the people and the questions have their types.
THEOREM BotTypes ==
    EnrolmentSensible /\ QuestionsSensible => (AllSpec => []BotTypeOK)
  <1> SUFFICES ASSUME EnrolmentSensible, QuestionsSensible PROVE AllSpec => []BotTypeOK OBVIOUS
  <1> DEFINE People == about = "enrolment" => Accounted
             Questions == about = "questions" => QuestionsInv
  <1>1. AllInit => IInv /\ People /\ Questions
    BY NobodyAtFirst, QuestionsAtFirst, InitInv DEF AllInit
  <1>2. IInv /\ People /\ Questions /\ [AllNext]_all => (IInv /\ People /\ Questions)'
    <2>1. IInv /\ [AllNext]_all => IInv'
      <3>1. [AllNext]_all => [Next]_vars
        BY DEF AllNext, all, cardVars
      <3> QED BY <3>1, NextInv
    <2> QED BY <2>1, EnrolmentGoesOn, QuestionsGoOn
  <1>3. IInv /\ People /\ Questions => BotTypeOK
    BY DEF IInv, BotTypeOK, Accounted, QuestionsInv, QuestionsTyped
  <1> HIDE DEF People, Questions
  <1> QED BY <1>1, <1>2, <1>3, PTL DEF AllSpec

=============================================================================
