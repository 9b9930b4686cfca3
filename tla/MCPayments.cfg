SPECIFICATION Spec
CONSTANTS
    Calls = {c1, c2}
    Hooks = {h1, h2}
    MaxRows = 2
SYMMETRY Symmetry
INVARIANTS
    OnePayable
    SucceededIsPaid
PROPERTIES
    OnlyLateAnswerUndoes
    AnsweredIsRecorded
CHECK_DEADLOCK FALSE
