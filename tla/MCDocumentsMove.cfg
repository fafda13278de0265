\* A move whose PUT was carried out and whose decision was not kept is confirmed again.
SPECIFICATION Spec
CONSTANTS
    Paths = {p, q}
    Contents = {x, y}
    Changes = {d1}
    Workers = {w1}
    MaxVersions = 4
INVARIANT MoveLeavesOneCopy
\* The bucket fills up, and the one confirmation is purged.
CHECK_DEADLOCK FALSE
