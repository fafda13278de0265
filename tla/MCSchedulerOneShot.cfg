CONSTANTS
    Schedules = {1}
    Role <- Plain
    Shots <- OneShot
    Period = 2
    Limit = 1
    MaxTime = 3
    MaxSaves = 1
    MaxInterruptions = 1
SPECIFICATION Spec
INVARIANTS
    OneShotFiresOnce
