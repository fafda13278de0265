CONSTANTS
    Requests = {r1, r2, r3}
    Roles = {"r"}  Names = {"x"}  Zones = {"z"}
    MaxRevision = 4  MaxDrafts = 2  MaxLapses = 0
SPECIFICATION Spec
CHECK_DEADLOCK FALSE
PROPERTY
    ResetWins
