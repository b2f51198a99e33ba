SPECIFICATION Spec
CONSTANTS
    Fields = {x, y}
    Values = {1}
    Absent = 0
    MaxWrites = 2
    MaxVersions = 4
INVARIANTS ViewIsQueue
CHECK_DEADLOCK FALSE
