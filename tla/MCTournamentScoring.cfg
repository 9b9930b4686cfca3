\* Two tournaments that share a game of two teams; every place is worth something.
SPECIFICATION Spec
CONSTANTS
    t1 = t1
    t2 = t2
    g1 = g1
    g2 = g2
    a = a
    b = b
    Tournaments = {t1, t2}
    Games = {g1}
    Teams = {a, b}
    Points = {2, 3}
    MaxCalls = 2
SYMMETRY Symmetry
INVARIANTS
    TypeOK
    TotalsMatch
PROPERTIES
    AwardsStay
CHECK_DEADLOCK FALSE
