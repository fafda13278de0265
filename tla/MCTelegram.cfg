CONSTANTS
    h1 = h1  h2 = h2
    Handlers = {h1, h2}
    Actions <- TwoActions
    MaxCards = 3
    MaxAnswers = 3
    MaxEvents = 4
    MaxFaults = 1
    Workers = {h1, h2}
    Employees = {"e1", "e2"}  Chats = {"t1", "t2"}  Codes = {"k1", "k2"}
    DailyLimit = 1  WeeklyLimit = 1  LastDay = 2  MaxDay = 2  MaxMishaps = 1
    MaxEmployee = 2  MaxScheduled = 1
SPECIFICATION AllSpec
SYMMETRY Symmetry
CHECK_DEADLOCK FALSE
INVARIANTS
    BotTypeOK
    GroupsFollowLedgers
    EndsAreTrue
    OneTapAtATime
    NobodyIsStuck
    PeopleAreAccountedFor
    QuestionsAreBudgeted
    TurnsSeeEachOther
