CONSTANTS
    g1 = g1
    g2 = g2
    Games <- MCGames
    MaxTimers = 4
    MaxVersion = 3
SPECIFICATION DispatcherSpec
INVARIANTS
    DispatcherTypeOK
    PendingIsCovered
PROPERTY
    EventIsProcessed
CHECK_DEADLOCK FALSE
