\* Three processes, so that two computations and one that waits are side by side.
SPECIFICATION FairSpec
CONSTANTS
    p1 = p1
    p2 = p2
    p3 = p3
    None = None
    Procs = {p1, p2, p3}
    JsonProcs = {p1}
    MaxChanges = 2
INVARIANTS
    WaitsForLiveCall
    RegisteredLoadIsFresh
PROPERTIES
    WrittenInItsEpoch
    StaleEndsWithTtl
    CurrentStays
