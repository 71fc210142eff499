CONSTANTS
    r1 = r1
    r2 = r2
    c1 = c1
    c2 = c2
    Ids = {r1, r2}
    Addressed = {r1}
    Calls = {c1, c2}
    MaxRestarts = 0
SPECIFICATION Spec
PROPERTIES
    DeclineSkipsSettled
CHECK_DEADLOCK FALSE
