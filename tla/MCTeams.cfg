SPECIFICATION Spec
CONSTANTS
    Users = {u1, u2}
    Admins = {u1, u2}
    NoUser = NoUser
    Calls = {c1, c2}
    MaxTeams = 2
    MaxInvs = 2
SYMMETRY Symmetry
INVARIANTS
    OnlyInvitedAreStranded
PROPERTIES
    AdmittedOnce
    CaptainKeepsRow
