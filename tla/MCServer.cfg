CONSTANTS
    server = server  oneoff = oneoff
    Processes = {server, oneoff}
    RecentLimit = 1  BatchLimit = 2  Overtaking = 1  MaxTurns = 4  MaxFaults = 2
    Schedules = {1}
    Period = 2  Limit = 1  MaxClock = 3  MaxSaves = 2  MaxInterruptions = 1
    Participants = {e1}  Sweeps = {s1, s2}
    DayLength = 2  MaxReminders = 2  MaxNow = 15  MaxMishaps = 1
    MaxRows = 4
    Clocks = {2, 3, 5, 6}  Changes = {9, 12}
    DaySlots = 4  WeekDays = 3  Horizon = 22  MaxLate = 2
SPECIFICATION AllSpec
CHECK_DEADLOCK FALSE
INVARIANTS
    ServerTypeOK
    SummaryIsFaithful
    NextFireFollowsRule
    SendsAreLimited
    ReportIsSound
    ContextFits
PROPERTIES
    Drains
