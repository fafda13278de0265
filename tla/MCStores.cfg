CONSTANTS
    o1 = o1  o2 = o2  d1 = d1  i1 = i1  a = a  b = b  r1 = r1  r2 = r2
    None = None
    Owners = {o1, o2}
    ConfirmationIds = {1, 2}
    DirectIds = {}
    Ideas = {i1}
    IdeaOwner <- OneOwner
    Contents = {a}
    Requests = {r1}
    Ttl = 1
    UndoWindow = 1
    Retention = 2
    MaxTime = 3
    MaxExpected = 1
    MaxIdeaRevision = 3
    People = {1, 2}  Things = {1, 2}  Words = {1, 2}  Names = {1}
    Sizes = {0, 1, 2}  Soft = 1  Hard = 2  Overall = 3
    Pages = {0, 1}  Entries = {1, 2, 3}  Edits = 2  Reminders = 1  Moments = 1  Days = 2  Writes = 3
SYMMETRY Symmetry
SPECIFICATION AllSpec
CHECK_DEADLOCK FALSE
INVARIANTS
    DecisionTimes
    IdeaContextCurrent
    StoresAgree
PROPERTIES
    OwnersDecide
