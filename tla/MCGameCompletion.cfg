SPECIFICATION Spec
CONSTANTS
    a = a
    b = b
    c = c
    x = x
    y = y
    ForceCall = ForceCall
    e1 = e1
    Edits = {e1}
    MaxTroubled = 1
    Teams = {a, b, c}
    Players = {x, y}
    MembersOf <- MCMembersOf
    Author = y
    Durations = {1, 2}
    PointsFor <- MCPointsFor
SYMMETRY MCSymmetry
INVARIANTS
    TypeOK
    PlacesRank
    PaidOncePerFlag
    AwardedOnce
    
CHECK_DEADLOCK FALSE
