----------------------------- MODULE CompanyReport -----------------------------
(***************************************************************************)
(* What a client is told about a group: the report is computed anew from   *)
(* the active activities of the group and the directory of routines        *)
(* (application/company-reporting.ts, report-preflight.ts).  A routine is  *)
(* an entry of the directory within a role, or a free label; what matches  *)
(* neither counts as other work.  Only what the report tells apart is kept *)
(* of an activity, so the activities are a bag.  Hours are counted in      *)
(* twentieths, exactly: the code adds floating-point numbers, which may    *)
(* round a tie the other way.                                              *)
(***************************************************************************)
EXTENDS Integers, Sequences, FiniteSets, SequencesExt

CONSTANTS Rows,         \* activities that may be recorded
          Directories,  \* versions of the directory: <<role, id>> -> [category, step]
          Policy,       \* [signalSubjects, confirmedSubjects, confirmedObservations,
                        \*  confirmedDates, clientMinimum, top, friction, steps]
          MaxRows       \* bound on the activities of the group

VARIABLES recorded,     \* the active activities of the group, each with its number
          directory     \* the directory the report is built with

vars == <<recorded, directory>>

Nothing == "none"
FrictionSignals == {"manual_reporting", "coordination_overhead", "context_switching",
                    "waiting_for_input", "meeting_overload", "unclear_priority"}
EnergySignals == {"frustration", "fatigue", "overload", "focus_loss", "blocked_progress"}

\* The assigned entry, the label in the employee's words (0 where there is none), the role
\* the activity was recorded in, the twentieths of an hour (0: not sized) and two markers.
Row == [subject : Nat, role : Nat, date : Nat, entry : Nat, label : Nat, size : Nat,
        friction : FrictionSignals \cup {"other", Nothing},
        energy : EnergySignals \cup {"neutral", Nothing}]

Other == 0      \* the category of work that matches no entry
DeepDive == 0   \* the quick win of an entry that has none yet; else the effort it takes
Entry == [category : Nat, step : 0 .. 3]

TypeOK ==
    /\ DOMAIN recorded \subseteq Rows /\ Rows \subseteq Row
    /\ \A r \in DOMAIN recorded : recorded[r] \in 1 .. MaxRows
    /\ directory \in Directories
    /\ \A k \in DOMAIN directory : k \in Nat \X (Nat \ {0}) /\ directory[k] \in Entry

-----------------------------------------------------------------------------
(* Counting *)

Count(b) == MapThenSumSet(LAMBDA r : b[r], DOMAIN b)
Contributors(b) == Cardinality({r.subject : r \in DOMAIN b})
ActiveDates(b) == Cardinality({r.date : r \in DOMAIN b})
Unsized(b) == MapThenSumSet(LAMBDA r : IF r.size = 0 THEN b[r] ELSE 0, DOMAIN b)
EstimatedHours(b) == (MapThenSumSet(LAMBDA r : b[r] * r.size, DOMAIN b) + 1) \div 2

\* The activities of b that pass Test.
Only(b, Test(_)) == [r \in {s \in DOMAIN b : Test(s)} |-> b[r]]

Confidence(b) ==
    CASE /\ Contributors(b) >= Policy.confirmedSubjects
         /\ Count(b) >= Policy.confirmedObservations
         /\ ActiveDates(b) >= Policy.confirmedDates -> "confirmed"
      [] Contributors(b) >= Policy.signalSubjects \/ ActiveDates(b) >= 2 -> "signal"
      [] OTHER -> "hypothesis"

\* Sequences of numbers compared from the left.
Lexical(s, t) == \E i \in 1 .. Len(s) : s[i] < t[i] /\ \A n \in 1 .. i - 1 : s[n] = t[n]
Ranked(S, Rank(_)) == SetToSortSeq(S, LAMBDA x, y : Lexical(Rank(x), Rank(y)))
First(n, s) == SubSeq(s, 1, IF Len(s) < n THEN Len(s) ELSE n)

-----------------------------------------------------------------------------
(* Routines *)

NoKey == <<>>
Named(d, k) == k # NoKey /\ k[2] = 1
EntryOf(d, k) == d[<<k[1], k[3]>>]

\* An assignment the directory knows in this role, else the label, else nothing.
Classified(d, r) ==
    IF <<r.role, r.entry>> \in DOMAIN d THEN <<r.role, 1, r.entry>>
    ELSE IF r.label # 0 THEN <<r.role, 2, r.label>>
    ELSE NoKey

Routine(b, d, k) == Only(b, LAMBDA r : Classified(d, r) = k)
Routines(b, d) == {Classified(d, r) : r \in DOMAIN b} \ {NoKey}

ByHours(b, d) ==
    Ranked(Routines(b, d),
           LAMBDA k : <<-EstimatedHours(Routine(b, d, k)), -Count(Routine(b, d, k))>> \o k)

Tally(b, Marker(_), allowed) ==
    [m \in {Marker(r) : r \in DOMAIN b} \cap allowed |-> Count(Only(b, LAMBDA r : Marker(r) = m))]

Friction(b) == Tally(b, LAMBDA r : r.friction, FrictionSignals)
Energy(b) == Tally(b, LAMBDA r : r.energy, EnergySignals)

\* How one person felt is not shown; what stood in the way is.
ClientSignals(b) ==
    IF Contributors(b) = 1 THEN Friction(b) ELSE Friction(b) @@ Energy(b)

\* A slip: everything that was said counts for the place in the list.
SignalCountOfAll(b) ==
    LET s == Friction(b) @@ Energy(b) IN MapThenSumSet(LAMBDA m : s[m], DOMAIN s)

SignalCount(b) == LET s == ClientSignals(b) IN MapThenSumSet(LAMBDA m : s[m], DOMAIN s)

-----------------------------------------------------------------------------
(* The budget of time *)

CategoryOf(d, r) ==
    LET k == Classified(d, r) IN IF Named(d, k) THEN EntryOf(d, k).category ELSE Other

Categories(b, d) == {CategoryOf(d, r) : r \in DOMAIN b}
Category(b, d, c) == Only(b, LAMBDA r : CategoryOf(d, r) = c)
Total(hours) == MapThenSumSet(LAMBDA c : hours[c], DOMAIN hours)

\* A slip: each share rounded on its own.
SharesRounded(hours) ==
    LET total == Total(hours)
    IN [c \in DOMAIN hours |-> IF total = 0 THEN 0 ELSE (200 * hours[c] + total) \div (2 * total)]

\* Hundredths: rounded down, and what is left goes to the largest remainders.
Shares(hours) ==
    LET total == Total(hours)
        Floor(c) == (100 * hours[c]) \div total
        left == 100 - MapThenSumSet(Floor, DOMAIN hours)
        order == Ranked(DOMAIN hours, LAMBDA c : <<-((100 * hours[c]) % total), -hours[c], c>>)
        favoured == {order[i] : i \in 1 .. left}
    IN IF total = 0 THEN [c \in DOMAIN hours |-> 0]
       ELSE [c \in DOMAIN hours |-> Floor(c) + (IF c \in favoured THEN 1 ELSE 0)]

HoursOf(b, d) == [c \in Categories(b, d) |-> EstimatedHours(Category(b, d, c))]

TimeBudget(b, d) ==
    LET hours == HoursOf(b, d)
        share == Shares(hours)
    IN [c \in DOMAIN hours |->
          [hours |-> hours[c], share |-> share[c], unsized |-> Unsized(Category(b, d, c)),
           contributors |-> Contributors(Category(b, d, c)), observations |-> Count(Category(b, d, c))]]

-----------------------------------------------------------------------------
(* The report *)

Limitations(b, d) ==
    {x \in {"one_contributor", "few_dates", "unattributed"} :
        \/ x = "one_contributor" /\ Contributors(b) < 2
        \/ x = "few_dates" /\ ActiveDates(b) < 3
        \/ x = "unattributed" /\ \E r \in DOMAIN b : Classified(d, r) = NoKey}
    \cup {<<"role", o>> : o \in {p \in {r.role : r \in DOMAIN b} :
                                   Contributors(Only(b, LAMBDA r : r.role = p)) = 1}}

Coverage(b, d) ==
    [contributors |-> Contributors(b), dates |-> ActiveDates(b), observations |-> Count(b),
     unsized |-> Unsized(b), limitations |-> Limitations(b, d),
     assessment |-> IF Count(b) = 0 THEN "insufficient"
                    ELSE IF Contributors(b) >= 3 /\ ActiveDates(b) >= 3 THEN "usable"
                    ELSE "usable_with_limits"]

\* What the client may see of single routines: those with a name and enough observations.
Visible(b, d) ==
    SelectSeq(ByHours(b, d),
              LAMBDA k : Named(d, k) /\ Count(Routine(b, d, k)) >= Policy.clientMinimum)

Evidence(b) == [contributors |-> Contributors(b), observations |-> Count(b),
                dates |-> ActiveDates(b), hours |-> EstimatedHours(b), unsized |-> Unsized(b)]

Card(b, d, k) ==
    LET own == Routine(b, d, k)
    IN [key |-> k, evidence |-> Evidence(own), confidence |-> Confidence(own), step |-> EntryOf(d, k).step]

TopRoutines(b, d) ==
    LET seen == First(Policy.top, Visible(b, d)) IN [i \in DOMAIN seen |-> Card(b, d, seen[i])]

FrictionRoutines(b, d) ==
    LET Own(k) == Routine(b, d, k)
        felt == {k \in Routines(b, d) : Named(d, k) /\ Count(Own(k)) >= Policy.clientMinimum
                                                    /\ SignalCount(Own(k)) > 0}
        seen == First(Policy.friction, Ranked(felt,
                  LAMBDA k : <<-SignalCount(Own(k)), -EstimatedHours(Own(k)), -Count(Own(k))>> \o k))
    IN [i \in DOMAIN seen |-> [card |-> Card(b, d, seen[i]), signals |-> ClientSignals(Own(seen[i]))]]

FirstSteps(b, d) ==
    LET top == TopRoutines(b, d)
        hard == FrictionRoutines(b, d)
        shown == {top[i].key : i \in DOMAIN top} \cup {hard[i].card.key : i \in DOMAIN hard}
    IN First(Policy.steps, Ranked({k \in shown : EntryOf(d, k).step # DeepDive},
                                  LAMBDA k : <<EntryOf(d, k).step, k[3], k[1]>>))

Deeper(b, d) == First(Policy.top, SelectSeq(Visible(b, d), LAMBDA k : EntryOf(d, k).step = DeepDive))

CannotConclude(b, d) ==
    {x \in {"exact_hours", "rare_routines"} :
        \/ x = "exact_hours" /\ Unsized(b) > 0
        \/ x = "rare_routines" /\ \E k \in Routines(b, d) :
              Named(d, k) /\ Count(Routine(b, d, k)) < Policy.clientMinimum}

Client(b, d) ==
    [coverage |-> Coverage(b, d), timeBudget |-> TimeBudget(b, d), topRoutines |-> TopRoutines(b, d),
     frictionRoutines |-> FrictionRoutines(b, d), firstSteps |-> FirstSteps(b, d),
     deepDive |-> Deeper(b, d), cannotConclude |-> CannotConclude(b, d)]

\* The checks made on the finished report, whoever made it.
PolicyFindings(client) ==
    LET top == client.topRoutines
        hard == client.frictionRoutines
    IN {<<"single_contributor_energy", hard[i].card.key>> : i \in {j \in DOMAIN hard :
            /\ hard[j].card.evidence.contributors = 1
            /\ DOMAIN hard[j].signals \cap EnergySignals # {}}}
       \cup {<<"client_minimum_observations", c.key>> : c \in
               {x \in {top[i] : i \in DOMAIN top} \cup {hard[i].card : i \in DOMAIN hard} :
                  x.evidence.observations < Policy.clientMinimum}}

-----------------------------------------------------------------------------
(* What the report is built from *)

Init == recorded = <<>> /\ directory \in Directories

Collect(r) ==
    /\ Count(recorded) < MaxRows
    /\ recorded' = IF r \in DOMAIN recorded THEN [recorded EXCEPT ![r] = @ + 1]
                   ELSE recorded @@ (r :> 1)
    /\ UNCHANGED directory

\* An activity is corrected, superseded or deleted: it is not active any more.
Withdraw(r) ==
    /\ r \in DOMAIN recorded
    /\ recorded' = IF recorded[r] > 1 THEN [recorded EXCEPT ![r] = @ - 1]
                   ELSE Only(recorded, LAMBDA s : s # r)
    /\ UNCHANGED directory

Import(d) == directory # d /\ directory' = d /\ UNCHANGED recorded

Next ==
    \/ \E r \in Rows : Collect(r) \/ Withdraw(r)
    \/ \E d \in Directories : Import(d)

Spec == Init /\ [][Next]_vars

-----------------------------------------------------------------------------
(* Properties *)

\* The activities with nothing said about energy in the routine k.
Muted(k) ==
    LET Mute(r) == IF Classified(directory, r) = k THEN [r EXCEPT !.energy = Nothing] ELSE r
    IN [q \in {Mute(r) : r \in DOMAIN recorded} |->
          MapThenSumSet(LAMBDA r : IF Mute(r) = q THEN recorded[r] ELSE 0, DOMAIN recorded)]

\* How a person felt about work only that person does, or work without a name in the directory,
\* leaves no trace in what the client gets: not in a card, not in the order of cards, not in the
\* choice of the first steps (clientSignals, buildClientReport).
FeelingsStayPrivate ==
    LET told == Client(recorded, directory)
    IN \A k \in Routines(recorded, directory) \cup {NoKey} :
          (~Named(directory, k) \/ Contributors(Routine(recorded, directory, k)) = 1)
             => Client(Muted(k), directory) = told

\* The checks of the finished report agree with the builder: neither finds what the other
\* promised to leave out (buildPreflightFindings beside buildClientReport).
ChecksAgree == PolicyFindings(Client(recorded, directory)) = {}

\* The shares of the budget add up to the whole, each is its exact value rounded up or down, and
\* more hours never have the smaller share (assignNormalizedShares).
SharesAddUp ==
    LET hours == HoursOf(recorded, directory)
        share == Shares(hours)
    IN Total(hours) > 0 =>
          /\ Total(share) = 100
          /\ \A c \in DOMAIN hours :
                100 * hours[c] - Total(hours) * share[c] \in 1 - Total(hours) .. Total(hours) - 1
          /\ \A c, e \in DOMAIN hours : hours[c] > hours[e] => share[c] >= share[e]

ReportIsSound == FeelingsStayPrivate /\ ChecksAgree /\ SharesAddUp

=============================================================================
