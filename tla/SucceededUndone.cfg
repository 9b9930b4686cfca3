SPECIFICATION Spec
CONSTANTS
    Calls = {c1, c2}
    Hooks = {h1}
    MaxRows = 1
PROPERTY SucceededStays
CHECK_DEADLOCK FALSE
