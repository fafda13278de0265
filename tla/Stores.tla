-------------------------------- MODULE Stores --------------------------------
(***************************************************************************)
(* The stores of which there are two each: what the executable specs run   *)
(* on, in memory, and what production runs on, in PostgreSQL and the       *)
(* bucket.  A specification that passes in memory says something of        *)
(* production only as far as both answer alike.                            *)
(*                                                                         *)
(* One behaviour is about one kind of store.                               *)
(***************************************************************************)
EXTENDS Integers

CONSTANTS
    People, Things,     \* owners; the ids of what they own, chats and codes
    Words, Names,       \* texts that change, and texts and dates of which one kind is enough
    Sizes,              \* sizes of files
    Soft, Hard, Overall,        \* their quotas
    Pages,              \* limits of a list, 0 for none
    Entries,            \* ids of events, feedback and insights, and of turns
    Edits, Reminders,   \* bounds of revisions and of reminders
    Moments, Days, Writes       \* bounds of the clocks

VARIABLES store, memory, table, clock

storeVars == <<store, memory, table, clock>>

Limits == Pages \ {0}

T == INSTANCE TaskStores WITH Owners <- People, TaskIds <- Things, Ideas <- Names, Texts <- Words,
        Dates <- Names, Limits <- Pages, MaxRevision <- Edits, MaxClock <- Moments
S == INSTANCE ScheduleStores WITH Owners <- People, ScheduleIds <- Things, Texts <- Names,
        Times <- Names, MaxClock <- Days
A == INSTANCE ActivityStores WITH Owners <- Names, ActivityIds <- Things, Categories <- Names,
        Labels <- Names, Window <- 0, MaxRevision <- Edits, MaxClock <- Moments
P == INSTANCE ProfileStores WITH Employees <- People, Codes <- Names, Groups <- Names,
        Versions <- Names, Roles <- Names, Words <- Names, MaxSent <- Reminders, MaxClock <- Days
D == INSTANCE DocumentStores WITH Owners <- Names, Documents <- Things, Contents <- Words,
        Aliased <- Names, Limits <- Words, MaxClock <- Writes + 1
C == INSTANCE SessionStores WITH Chats <- Things, Users <- Names, Employees <- People,
        Threads <- Names, Drafts <- Names, MessageIds <- Names, MaxClock <- Days
F == INSTANCE ArtifactStores WITH Owners <- People, Deliveries <- Things, Contents <- Sizes,
        SoftQuota <- Soft, OwnerQuota <- Hard, GlobalQuota <- Overall, Limits <- Pages,
        MaxClock <- Writes
U == INSTANCE UsageStores WITH Users <- People, Requests <- Names, Groups <- Things, Sources <- Things,
        Costs <- Names, SoftLimits <- Pages, MaxClock <- Moments
J == INSTANCE JournalStores WITH Ids <- Entries, Owners <- Names, Threads <- Names, Keys <- Names,
        Kinds <- Words, Limits <- Words, MaxClock <- Moments
M == INSTANCE ConversationStores WITH MessageIds <- Entries, Owners <- Names, Subjects <- Names,
        Threads <- Words, Texts <- Names, Limits <- Words, Recents <- Pages, MaxClock <- Moments

ASSUME StoresAssumption ==
    /\ T!Sensible /\ S!Sensible /\ A!Sensible /\ P!Sensible /\ D!Sensible /\ C!Sensible /\ F!Sensible
    /\ U!Sensible /\ J!Sensible /\ M!Sensible

StoresInit ==
    \/ store = "tasks" /\ T!Init
    \/ store = "schedules" /\ S!Init
    \/ store = "activities" /\ A!Init
    \/ store = "profiles" /\ P!Init
    \/ store = "documents" /\ D!Init
    \/ store = "sessions" /\ C!Init
    \/ store = "files" /\ F!Init
    \/ store = "usage" /\ U!Init
    \/ store = "journals" /\ J!Init
    \/ store = "conversations" /\ M!Init

StoresNext ==
    /\ UNCHANGED store
    /\ \/ store = "tasks" /\ T!Next
       \/ store = "schedules" /\ S!Next
       \/ store = "activities" /\ A!Next
       \/ store = "profiles" /\ P!Next
       \/ store = "documents" /\ D!Next
       \/ store = "sessions" /\ C!Next
       \/ store = "files" /\ F!Next
       \/ store = "usage" /\ U!Next
       \/ store = "journals" /\ J!Next
       \/ store = "conversations" /\ M!Next

StoresSpec == StoresInit /\ [][StoresNext]_storeVars

\* After any calls, of any owner, the two stores answer every further call alike: what an
\* executable spec observes in memory is what production would have answered.
StoresAgree ==
    /\ store = "tasks" => T!Agree
    /\ store = "schedules" => S!Agree
    /\ store = "activities" => A!Agree
    /\ store = "profiles" => P!Agree
    /\ store = "documents" => D!Agree
    /\ store = "sessions" => C!Agree
    /\ store = "files" => F!Agree
    /\ store = "usage" => U!Agree
    /\ store = "journals" => J!Agree
    /\ store = "conversations" => M!Agree

=============================================================================
