SPECIFICATION Spec
CONSTANTS
    Phones = {p1, p2}
    Emails = {e1, e2}
    None = None
    MaxCalls = 3
    MaxKills = 1
INVARIANTS HomeHasUser
CHECK_DEADLOCK FALSE
