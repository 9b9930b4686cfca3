\* The batch is as small as the number of rows without a limit allows.
SPECIFICATION SweepSpec
CONSTANTS
    timed = timed
    untimed = untimed
    p1 = p1
    p2 = p2
    q1 = q1
    Games = {timed, untimed}
    Passings = {p1, p2, q1}
    GameOf <- MCGameOf
    Limited = {timed}
    LastLevel = 2
    BatchSize = 2
    MaxMoves = 2
INVARIANTS
    OneRowPerPassing
    OnlyMovedGamesAreStuck
PROPERTIES
    EnforcedWithRoom
CHECK_DEADLOCK FALSE
