CONSTANTS
    o1 = o1  o2 = o2  d1 = d1  i1 = i1  a = a  b = b  r1 = r1  r2 = r2
    None = None
    Owners = {o1}
    ConfirmationIds = {1, 2}
    DirectIds = {d1}
    Ideas = {}
    IdeaOwner <- OneOwner
    Contents = {a, b}
    Requests = {r1, r2}
    Ttl = 1
    UndoWindow = 1
    Retention = 2
    MaxTime = 0
    MaxExpected = 2
    MaxIdeaRevision = 3
    Schedules = {1, 2}
    Period = 2  Limit = 1  MaxClock = 2
    MaxSaves = 1  MaxInterruptions = 1
SPECIFICATION LedgersSpec
CHECK_DEADLOCK FALSE
INVARIANTS
    TypeOK
    RevisionNamesOneRow
PROPERTIES
    WritesAreLedgered
    DecisionIsFinal
    RequestsEnd
    RecordedTouchesStand
    FiresAreSettled
    DueIsClaimed
