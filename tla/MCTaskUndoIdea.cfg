CONSTANTS
    o1 = o1  o2 = o2  d1 = d1  i1 = i1  a = a  b = b  r1 = r1  r2 = r2
    None = None
    Owners = {o1}
    ConfirmationIds = {1, 2}
    DirectIds = {}
    Ideas = {i1}
    IdeaOwner <- OneOwner
    Contents = {a, b}
    Requests = {r1, r2}
    Ttl = 1
    UndoWindow = 1
    Retention = 2
    MaxTime = 1
    MaxExpected = 2
    MaxIdeaRevision = 3
SYMMETRY Symmetry
SPECIFICATION Spec
CHECK_DEADLOCK FALSE
PROPERTY
    UndoneConversionRestoresIdea
