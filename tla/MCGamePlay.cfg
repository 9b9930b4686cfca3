\* Two teams in a game of two ordinary levels, two instances of the server
\* that sweep it in batches of two, and an editor.
SPECIFICATION Spec
CONSTANTS
    l1 = l1
    l2 = l2
    l3 = l3
    Teams = {t1, t2}
    Testers = {}
    Levels = {l1, l2}
    Blackbox = {}
    FileUpload = {}
    MaxTeamNumber = 2
    Sweepers = {w1, w2}
    BatchSize = 2
    MaxPosition = 2
    NoLevel = NoLevel
    InitialPosition <- MCPositions
SYMMETRY Symmetry
INVARIANTS
    TypeOK
    AtMostOneOpen
    LocksAreExclusive
PROPERTIES
    FollowsLife
CHECK_DEADLOCK FALSE
