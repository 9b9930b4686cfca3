SPECIFICATION Spec
CONSTANTS
    Families = {f1, f2}
    Requests = {r1, r2, r3}
    MaxTokens = 4
SYMMETRY Symmetry
INVARIANTS
    OnlyNewestIsLive
PROPERTIES
    KeepsFamilies
    NoneComesBack
CHECK_DEADLOCK FALSE
