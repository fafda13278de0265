CONSTANTS
    a1 = a1  a2 = a2  a3 = a3
    Calls = {a1, a2, a3}
    Limit = 2
    Paths = {p, q}  Contents = {x, y}  Changes = {d1}  Workers = {a1, a2}
    MaxVersions = 4
    Ideas = {i1}  Proposals = {p1, p2}
    Ttl = 1  UndoWindow = 1  Retention = 1  MaxTime = 2  MaxEdits = 3
    Ids = {1, 2, 3, 4}  EarlierIds = 2  Messages = {m1}  Values = {x}
    MaxItems = 2  MaxTickets = 2  MaxFaults = 1
    Roles = {"r"}  Names = {"x", "y"}  Zones = {"z"}
    MaxRevision = 3  MaxDrafts = 2  MaxLapses = 1
    OwnerQuota = 2  GlobalQuota = 2  MaxErrors = 1
    Subjects = {a1, a2}  SignalSubjects = 2  MaxSteps = 1  MaxCommands = 5
SYMMETRY Symmetry
SPECIFICATION AllSpec
CHECK_DEADLOCK FALSE
INVARIANTS
    RecordsTypeOK
    RoomForAnswers
    PendingIsCounted
    RetryFindsNothing
    ToldIsTrue
    WorkCountsOnce
    ArtifactsAreSound
    PublishedIsReviewed
PROPERTIES
    AnswersCount
    RetryAdviceIsSafe
    ProposalsAreShown
    DocumentsAreSafe
    ImplementsLedger
