------------------------------ MODULE MCTelegram ------------------------------
(***************************************************************************)
(* Small instances of what the employee does through the bot: deciding     *)
(* proposals on cards and in words, joining and leaving, and the questions *)
(* of the work retrospective.  They share no state, so a behaviour takes   *)
(* steps of one of them only.                                              *)
(***************************************************************************)
EXTENDS ActionCards, TLC

CONSTANTS h1, h2
CONSTANTS Employees, Chats, Codes, Workers
CONSTANTS DailyLimit, WeeklyLimit, LastDay, MaxDay, MaxMishaps, MaxEmployee, MaxScheduled

VARIABLES about
VARIABLES people, sessions, moved, kept, commands
VARIABLES events, episodes, turns, begun, clock, day, mishaps, rewound, blind

\* What the model asks of retrospective.update.
SomeWishes ==
    {[note |-> TRUE,  close |-> "answered", weekly |-> "none", ask |-> TRUE],
     [note |-> FALSE, close |-> "answered", weekly |-> "yes",  ask |-> TRUE],
     [note |-> FALSE, close |-> "declined", weekly |-> "none", ask |-> FALSE]}

E == INSTANCE Enrolment WITH Commands <- Workers
R == INSTANCE WorkRetrospective WITH Wishes <- SomeWishes, MaxFaults <- MaxMishaps,
         ledger <- events, now <- clock, faults <- mishaps

TwoActions == 1..2

cardVars == vars
enrolmentVars == <<people, sessions, moved, kept, commands>>
questionVars == <<events, episodes, turns, begun, clock, day, mishaps, rewound, blind>>
all == <<about, cardVars, enrolmentVars, questionVars>>

\* What a behaviour is not about is absent.
Absent(v) == v = "absent"

AllInit ==
    /\ about \in {"cards", "enrolment", "questions"}
    /\ Init
    /\ IF about = "enrolment" THEN E!Init
       ELSE Absent(people) /\ Absent(sessions) /\ Absent(moved) /\ Absent(kept) /\ Absent(commands)
    /\ R!Init

AllNext ==
    \/ about = "cards" /\ Next /\ UNCHANGED <<about, enrolmentVars, questionVars>>
    \/ about = "enrolment" /\ E!Next /\ UNCHANGED <<about, cardVars, questionVars>>
    \/ about = "questions" /\ R!Next /\ UNCHANGED <<about, cardVars, enrolmentVars>>

AllSpec == AllInit /\ [][AllNext]_all

\* The names for no employee and for a revoked invite are none of theirs.
EnrolmentSensible == "none" \notin Employees /\ "revoked" \notin Codes

\* The turns of each origin are numbered.
QuestionsSensible == MaxEmployee \in Nat /\ MaxScheduled \in Nat

ASSUME ConstantsAreSensible == EnrolmentSensible /\ QuestionsSensible

\* Handlers and Workers are the same values, so that one permutation serves both.
Symmetry == Permutations(Handlers)

\* The variables of each module have their types.
BotTypeOK ==
    /\ TypeOK
    /\ about = "enrolment" => E!TypeOK
    /\ about = "questions" => R!TypeOK

\* A chat speaks for one employee, who is there and has consented, and nothing is kept about
\* somebody no deletion could find.
PeopleAreAccountedFor == about = "enrolment" => E!ChatsAreOwn /\ E!NothingIsOrphaned

\* At most one question is pending, and what was delivered is what the budgets count.
QuestionsAreBudgeted == about = "questions" => R!QuestionsAreBudgeted

\* While revisions only grow, a turn is accepted over no other turn it has not read.
TurnsSeeEachOther == about = "questions" => R!TurnsSeeEachOther

=============================================================================
