\* A team and a tester in a game of an ordinary level and a black box, to which
\* the editor adds a level that expects a file.
SPECIFICATION Spec
CONSTANTS
    l1 = l1
    l2 = l2
    l3 = l3
    Teams = {t1}
    Testers = {m1}
    Levels = {l1, l2, l3}
    Blackbox = {l2}
    FileUpload = {l3}
    MaxTeamNumber = 1
    Sweepers = {w1}
    BatchSize = 2
    MaxPosition = 3
    NoLevel = NoLevel
    InitialPosition <- MCPositions
PROPERTIES
    DoneStaysDone
    KeepsALevel
CHECK_DEADLOCK FALSE
