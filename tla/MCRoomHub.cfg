SPECIFICATION Spec
CONSTANTS
    Clients = {c1, c2}
    Rooms = {r1}
    r1 = r1
    RoomOf <- MCRoomOf
    MaxTotal = 2
    UnregCap = 1
    QueueCap = 1
    MaxWorkers = 2
    MaxBroadcasts = 2
    NoClient = NoClient
    NoRoom = NoRoom
INVARIANTS
    CountIsExact
    PlacesAreGivenBack
    QueueHasWorker
    CacheHasEveryMember
    StopIsNotStuck
SYMMETRY Symmetry
CHECK_DEADLOCK FALSE
