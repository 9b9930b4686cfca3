------------------------------ MODULE RoomHub ------------------------------
(***************************************************************************)
(* The hub of WebSocket rooms (internal/pkg/websocket).  One goroutine,    *)
(* the run loop, takes registrations, unregistrations and broadcasts from  *)
(* channels; every room that was broadcast to has a queue and a worker     *)
(* goroutine of its own; a periodic cleanup removes dead connections; and  *)
(* a connection is two goroutines, its handler and its write pump, both of *)
(* which unregister it.                                                    *)
(*                                                                         *)
(* The mutex is released between the sections of one operation, and each   *)
(* section is a step here: the run loop counts a client before it adds it, *)
(* looks a queue up before it sends to it, and calls the presence callback *)
(* after it unlocks; a worker visits the clients of a slice it copied.     *)
(* Payloads, addresses of the bus and the send buffers (which drop) are    *)
(* left out: a delivery changes no state of the hub.                       *)
(***************************************************************************)
EXTENDS Naturals, Sequences, FiniteSets

CONSTANTS
    Clients,        \* connections, each of which registers once
    Rooms,
    RoomOf,         \* client.RoomID
    MaxTotal,       \* maxTotalConns
    UnregCap,       \* capacity of the unregister channel
    QueueCap,       \* capacity of a room's queue
    MaxWorkers,     \* bound: queues (each with its worker) a behaviour creates
    MaxBroadcasts,  \* bound: messages a behaviour broadcasts
    NoClient, NoRoom

ASSUME RoomOfAssumption == RoomOf \in [Clients -> Rooms]
ASSUME BoundsAssumption ==
    /\ MaxTotal \in Nat /\ UnregCap \in Nat /\ QueueCap \in Nat
    /\ MaxWorkers \in Nat /\ MaxBroadcasts \in 0 .. MaxWorkers
ASSUME NoneAssumption == NoClient \notin Clients /\ NoRoom \notin Rooms
ASSUME ClientsFinite == IsFiniteSet(Clients)

NoQueue == 0
Queues == 1 .. MaxWorkers   \* a queue and its worker share an identity

VARIABLES
    conn,       \* where a connection's handler is
    pump,       \* connections whose write pump still runs
    hubSet,     \* connections whose Hub field is set
    closed,     \* connections whose done channel is closed
    registered, \* client.registered
    total,      \* h.totalConns
    exists,     \* the keys of h.rooms
    members,    \* h.rooms
    cached,     \* the keys of h.roomClients
    cache,      \* h.roomClients
    queue,      \* h.roomQueues
    unreg,      \* the unregister channel
    broadcast,  \* the broadcast channel: the rooms its messages are for
    sent,       \* how many messages were broadcast
    loopAt,     \* the run loop: where it is,
    loopClient, \* the client it has counted and not yet added,
    loopRoom,   \* the room and
    loopQueue,  \* the queue its case is about
    workerAt,   \* the room workers, by queue: where they are,
    workerRoom, \* the room they serve,
    pending,    \* how many messages their queue holds,
    todo,       \* the rest of the slice they copied
    removed,    \* and whether they took anybody out of the room
    cleanerAt,  \* the cleanup goroutine
    found,      \* the candidates its first phase collected
    stopping,   \* how far Stop has come
    stale       \* rooms whose composition changed after the last callback

connVars == <<conn, pump, hubSet>>
roomVars == <<exists, members, cached, cache, queue>>
loopVars == <<loopAt, loopClient, loopRoom, loopQueue>>
cleanerVars == <<cleanerAt, found>>
workerVars == <<workerAt, workerRoom, pending, todo, removed>>
vars == <<conn, pump, hubSet, closed, registered, total, exists, members,
          cached, cache, queue, unreg, broadcast, sent, loopAt, loopClient,
          loopRoom, loopQueue, workerAt, workerRoom, pending, todo, removed,
          cleanerAt, found, stopping, stale>>

TypeOK ==
    /\ conn \in [Clients -> {"new", "registering", "open", "leaving", "ended"}]
    /\ pump \subseteq Clients
    /\ hubSet \subseteq Clients
    /\ closed \subseteq Clients
    /\ registered \subseteq Clients
    /\ total \in Nat
    /\ exists \subseteq Rooms
    /\ members \in [Rooms -> SUBSET Clients]
    /\ cached \subseteq Rooms
    /\ cache \in [Rooms -> SUBSET Clients]
    /\ queue \in [Rooms -> Queues \cup {NoQueue}]
    /\ unreg \in Seq(Clients)
    /\ broadcast \in Seq(Rooms)
    /\ sent \in 0 .. MaxBroadcasts
    /\ loopAt \in {"select", "add", "announce", "create", "send", "gone"}
    /\ loopClient \in Clients \cup {NoClient}
    /\ loopRoom \in Rooms \cup {NoRoom}
    /\ loopQueue \in Queues \cup {NoQueue}
    /\ workerAt \in [Queues -> {"none", "starting", "select", "visiting", "gone"}]
    /\ workerRoom \in [Queues -> Rooms \cup {NoRoom}]
    /\ pending \in [Queues -> 0 .. QueueCap]
    /\ todo \in [Queues -> SUBSET Clients]
    /\ removed \in [Queues -> BOOLEAN]
    /\ cleanerAt \in {"waiting", "applying", "gone"}
    /\ found \subseteq Clients
    /\ stopping \in {"no", "waiting", "done"}
    /\ stale \subseteq Rooms

Init ==
    /\ conn = [c \in Clients |-> "new"]
    /\ pump = {} /\ hubSet = {} /\ closed = {} /\ registered = {}
    /\ total = 0
    /\ exists = {} /\ cached = {} /\ stale = {}
    /\ members = [r \in Rooms |-> {}]
    /\ cache = [r \in Rooms |-> {}]
    /\ queue = [r \in Rooms |-> NoQueue]
    /\ unreg = <<>> /\ broadcast = <<>> /\ sent = 0
    /\ loopAt = "select" /\ loopClient = NoClient
    /\ loopRoom = NoRoom /\ loopQueue = NoQueue
    /\ workerAt = [q \in Queues |-> "none"]
    /\ workerRoom = [q \in Queues |-> NoRoom]
    /\ pending = [q \in Queues |-> 0]
    /\ todo = [q \in Queues |-> {}]
    /\ removed = [q \in Queues |-> FALSE]
    /\ cleanerAt = "waiting" /\ found = {}
    /\ stopping = "no"

stopped == stopping # "no"

-----------------------------------------------------------------------------
(* The connections. *)

\* CanAccept, the upgrade, and the call of RegisterClient: the send on the
\* unbuffered channel waits for the run loop.
Connect(c) ==
    /\ conn[c] = "new"
    /\ ~stopped /\ total < MaxTotal
    /\ conn' = [conn EXCEPT ![c] = "registering"]
    /\ UNCHANGED <<pump, hubSet, closed, registered, total, roomVars, unreg, broadcast,
                   sent, loopVars, workerVars, cleanerVars, stopping, stale>>

\* RegisterClient's other branch: the hub is stopped, the connection closed.
RegisterRefused(c) ==
    /\ conn[c] = "registering"
    /\ stopped
    /\ conn' = [conn EXCEPT ![c] = "open"]
    /\ pump' = pump \cup {c}
    /\ closed' = closed \cup {c}
    /\ UNCHANGED <<hubSet, registered, total, roomVars, unreg, broadcast, sent, loopVars,
                   workerVars, cleanerVars, stopping, stale>>

\* The network fails or the peer leaves: a read or write error closes the client.
Disconnect(c) ==
    /\ conn[c] = "open"
    /\ c \notin closed
    /\ closed' = closed \cup {c}
    /\ UNCHANGED <<connVars, registered, total, roomVars, unreg, broadcast, sent,
                   loopVars, workerVars, cleanerVars, stopping, stale>>

\* Mutant: a full channel drops the unregistration.
UnregisterClient_Drops(c) ==
    \/ Len(unreg) < UnregCap /\ unreg' = Append(unreg, c)
    \/ (Len(unreg) = UnregCap \/ stopped) /\ UNCHANGED unreg

\* UnregisterClient: the send waits for room in the channel, unless the hub
\* is stopped.
UnregisterClient(c) ==
    \/ Len(unreg) < UnregCap /\ unreg' = Append(unreg, c)
    \/ stopped /\ UNCHANGED unreg

\* The handler's deferred calls, after its read loop closed the client: the
\* second Close does nothing.
HandlerUnregisters(c) ==
    /\ conn[c] = "open"
    /\ c \in closed
    /\ UnregisterClient(c)
    /\ conn' = [conn EXCEPT ![c] = "ended"]
    /\ UNCHANGED <<pump, hubSet, closed, registered, total, roomVars, broadcast, sent,
                   loopVars, workerVars, cleanerVars, stopping, stale>>

\* ChatWS leaves its own read loop without closing the client first; the
\* Close comes after the unregistration.
HandlerLeaves(c) ==
    /\ conn[c] = "open"
    /\ c \notin closed
    /\ UnregisterClient(c)
    /\ conn' = [conn EXCEPT ![c] = "leaving"]
    /\ UNCHANGED <<pump, hubSet, closed, registered, total, roomVars, broadcast, sent,
                   loopVars, workerVars, cleanerVars, stopping, stale>>

HandlerCloses(c) ==
    /\ conn[c] = "leaving"
    /\ conn' = [conn EXCEPT ![c] = "ended"]
    /\ closed' = closed \cup {c}
    /\ UNCHANGED <<pump, hubSet, registered, total, roomVars, unreg, broadcast, sent,
                   loopVars, workerVars, cleanerVars, stopping, stale>>

\* The write pump ends once the client is closed, and unregisters it if the
\* run loop has set its Hub.
PumpEnds(c) ==
    /\ c \in pump
    /\ c \in closed
    /\ pump' = pump \ {c}
    /\ IF c \in hubSet THEN UnregisterClient(c) ELSE UNCHANGED unreg
    /\ UNCHANGED <<conn, hubSet, closed, registered, total, roomVars, broadcast, sent,
                   loopVars, workerVars, cleanerVars, stopping, stale>>

\* BroadcastToRoom by anyone; a full channel drops the message, which leaves
\* the state as it was.
BroadcastToRoom(r) ==
    /\ sent < MaxBroadcasts
    /\ ~stopped
    /\ sent' = sent + 1
    /\ broadcast' = Append(broadcast, r)
    /\ UNCHANGED <<connVars, closed, registered, total, roomVars, unreg, loopVars,
                   workerVars, cleanerVars, stopping, stale>>

-----------------------------------------------------------------------------
(* What the sections under the mutex have in common. *)

\* Mutant: a new member leaves the cached slice of its room as it was.
ForgetCaches_OnlyEmptied(rs) ==
    LET gone == {r \in rs : members[r] = {}}
    IN  /\ cached' = cached \ gone
        /\ cache' = [r \in Rooms |-> IF r \in gone THEN {} ELSE cache[r]]

\* delete(h.roomClients, room)
ForgetCaches(rs) ==
    /\ cached' = cached \ rs
    /\ cache' = [r \in Rooms |-> IF r \in rs THEN {} ELSE cache[r]]

\* delete(h.rooms, room) and delete(h.roomQueues, room): the queue is not
\* closed, its worker finds out by itself.
DeleteRooms(rs) ==
    /\ exists' = exists \ rs
    /\ queue' = [r \in Rooms |-> IF r \in rs THEN NoQueue ELSE queue[r]]

\* Mutant: the counters go down whether or not the client still counts.
Uncount_Always(c) ==
    /\ registered' = registered \ {c}
    /\ total' = IF total > 0 THEN total - 1 ELSE 0

\* registered = false and decConnectionNoLock, once for a client.
Uncount(c) ==
    /\ registered' = registered \ {c}
    /\ total' = IF c \in registered /\ total > 0 THEN total - 1 ELSE total

-----------------------------------------------------------------------------
(* The run loop. *)

LoopIs(at, c, r, q) ==
    /\ loopAt' = at /\ loopClient' = c /\ loopRoom' = r /\ loopQueue' = q

LoopIsIdle == LoopIs("select", NoClient, NoRoom, NoQueue)

\* case client := <-h.register, up to Acquire: a stopped hub and a full one
\* close the client, otherwise it counts from here on.
TakeRegister(c) ==
    /\ loopAt = "select"
    /\ conn[c] = "registering"
    /\ conn' = [conn EXCEPT ![c] = "open"]
    /\ pump' = pump \cup {c}
    /\ IF stopped \/ total >= MaxTotal
         THEN /\ closed' = closed \cup {c}
              /\ UNCHANGED <<total, loopVars>>
         ELSE /\ total' = total + 1
              /\ LoopIs("add", c, RoomOf[c], NoQueue)
              /\ UNCHANGED closed
    /\ UNCHANGED <<hubSet, registered, roomVars, unreg, broadcast, sent,
                   workerVars, cleanerVars, stopping, stale>>

\* The rest of the case: the client becomes a member of its room.
AddClient ==
    /\ loopAt = "add"
    /\ hubSet' = hubSet \cup {loopClient}
    /\ registered' = registered \cup {loopClient}
    /\ exists' = exists \cup {loopRoom}
    /\ members' = [members EXCEPT ![loopRoom] = @ \cup {loopClient}]
    /\ ForgetCaches({loopRoom})
    /\ stale' = stale \cup {loopRoom}
    /\ LoopIs("announce", NoClient, loopRoom, NoQueue)
    /\ UNCHANGED <<conn, pump, closed, total, queue, unreg, broadcast, sent,
                   workerVars, cleanerVars, stopping>>

\* case client := <-h.unregister: only the first one of a client counts.
TakeUnregister(c) ==
    /\ loopAt = "select"
    /\ unreg # <<>> /\ c = Head(unreg)
    /\ unreg' = Tail(unreg)
    /\ \/ /\ c \notin registered
          /\ UNCHANGED <<registered, total, roomVars, loopVars, stale>>
       \/ /\ c \in registered
          /\ Uncount(c)
          /\ LET r == RoomOf[c]
                 left == members[r] \ {c}
             IN  /\ members' = [members EXCEPT ![r] = left]
                 /\ ForgetCaches({r} \cap exists)
                 /\ DeleteRooms(IF left = {} THEN {r} \cap exists ELSE {})
                 /\ stale' = stale \cup {r}
                 /\ LoopIs("announce", NoClient, r, NoQueue)
    /\ UNCHANGED <<connVars, closed, broadcast, sent, workerVars, cleanerVars, stopping>>

\* Mutant: the callback's own broadcast waits for a place in the channel.
Announce_Waits ==
    /\ loopAt = "announce"
    /\ broadcast = <<>>
    /\ stale' = stale \ {loopRoom}
    /\ LoopIsIdle
    /\ UNCHANGED <<connVars, closed, registered, total, roomVars, unreg,
                   broadcast, sent, workerVars, cleanerVars, stopping>>

\* onRoomChange: the callback reads the composition of the room it is given.
Announce ==
    /\ loopAt = "announce"
    /\ stale' = stale \ {loopRoom}
    /\ LoopIsIdle
    /\ UNCHANGED <<connVars, closed, registered, total, roomVars, unreg,
                   broadcast, sent, workerVars, cleanerVars, stopping>>

\* case msg := <-h.broadcast, up to the look at the maps under RLock.
TakeBroadcast(r) ==
    /\ loopAt = "select"
    /\ broadcast # <<>> /\ r = Head(broadcast)
    /\ broadcast' = Tail(broadcast)
    /\ IF stopped \/ r \notin exists
         THEN LoopIsIdle
         ELSE LoopIs(IF queue[r] = NoQueue THEN "create" ELSE "send",
                     NoClient, r, queue[r])
    /\ UNCHANGED <<connVars, closed, registered, total, roomVars, unreg, sent,
                   workerVars, cleanerVars, stopping, stale>>

\* The queue and its worker.
NewQueue(r, q) ==
    /\ queue' = [queue EXCEPT ![r] = q]
    /\ workerAt' = [workerAt EXCEPT ![q] = "starting"]
    /\ workerRoom' = [workerRoom EXCEPT ![q] = r]
    /\ LoopIs("send", NoClient, r, q)

\* Mutant: the room is not looked up again under the lock.
CreateQueue_NoRecheck(q) ==
    /\ loopAt = "create"
    /\ workerAt[q] = "none"
    /\ NewQueue(loopRoom, q)
    /\ UNCHANGED <<connVars, closed, registered, total, exists, members, cached,
                   cache, unreg, broadcast, sent, pending, todo, removed,
                   cleanerVars, stopping, stale>>

\* Under the lock: look the room up again, then make the queue and its worker.
CreateQueue(q) ==
    /\ loopAt = "create"
    /\ workerAt[q] = "none"
    /\ \/ /\ loopRoom \notin exists
          /\ LoopIsIdle
          /\ UNCHANGED <<queue, workerAt, workerRoom>>
       \/ /\ loopRoom \in exists
          /\ NewQueue(loopRoom, q)
    /\ UNCHANGED <<connVars, closed, registered, total, exists, members, cached,
                   cache, unreg, broadcast, sent, pending, todo, removed,
                   cleanerVars, stopping, stale>>

\* The send to the queue, after the unlock; a full queue drops the message.
SendToQueue ==
    /\ loopAt = "send"
    /\ pending' = [pending EXCEPT ![loopQueue] = IF @ < QueueCap THEN @ + 1 ELSE @]
    /\ LoopIsIdle
    /\ UNCHANGED <<connVars, closed, registered, total, roomVars, unreg,
                   broadcast, sent, workerAt, workerRoom, todo, removed,
                   cleanerVars, stopping, stale>>

LoopEnds ==
    /\ loopAt = "select"
    /\ stopped
    /\ LoopIs("gone", NoClient, NoRoom, NoQueue)
    /\ UNCHANGED <<connVars, closed, registered, total, roomVars, unreg,
                   broadcast, sent, workerVars, cleanerVars, stopping, stale>>

RunLoop ==
    \/ \E c \in Clients : TakeRegister(c) \/ TakeUnregister(c)
    \/ AddClient
    \/ Announce
    \/ \E r \in Rooms : TakeBroadcast(r)
    \/ \E q \in Queues : CreateQueue(q)
    \/ SendToQueue
    \/ LoopEnds

-----------------------------------------------------------------------------
(* The workers of the rooms. *)

\* The worker's first look: a room that is gone already ends it.
WorkerStarts(q) ==
    /\ workerAt[q] = "starting"
    /\ workerAt' = [workerAt EXCEPT ![q] =
                      IF workerRoom[q] \in exists THEN "select" ELSE "gone"]
    /\ UNCHANGED <<connVars, closed, registered, total, roomVars, unreg,
                   broadcast, sent, loopVars, workerRoom, pending, todo, removed,
                   cleanerVars, stopping, stale>>

\* case msg := <-queue, and dispatchToRoom up to the copy of the slice, which
\* is built from the room when it is not cached.
WorkerTakes(q) ==
    /\ workerAt[q] = "select"
    /\ pending[q] > 0
    /\ pending' = [pending EXCEPT ![q] = @ - 1]
    /\ LET r == workerRoom[q]
           slice == IF r \in cached THEN cache[r] ELSE members[r]
       IN  \/ /\ r \notin exists
              /\ UNCHANGED <<workerAt, todo, cached, cache>>
           \/ /\ r \in exists
              /\ workerAt' = [workerAt EXCEPT ![q] = "visiting"]
              /\ todo' = [todo EXCEPT ![q] = slice]
              /\ cached' = cached \cup {r}
              /\ cache' = [cache EXCEPT ![r] = slice]
    /\ UNCHANGED <<connVars, closed, registered, total, exists, members, queue,
                   unreg, broadcast, sent, loopVars, workerRoom, removed,
                   cleanerVars, stopping, stale>>

\* An open client is offered the message; a closed one is skipped when the
\* room is gone.
WorkerPasses(q, c) ==
    /\ workerAt[q] = "visiting"
    /\ c \in todo[q]
    /\ c \notin closed \/ workerRoom[q] \notin exists
    /\ todo' = [todo EXCEPT ![q] = @ \ {c}]
    /\ UNCHANGED <<connVars, closed, registered, total, roomVars, unreg,
                   broadcast, sent, loopVars, workerAt, workerRoom, pending,
                   removed, cleanerVars, stopping, stale>>

\* removeClosedClientLocked.
WorkerRemoves(q, c) ==
    /\ workerAt[q] = "visiting"
    /\ c \in todo[q] \cap closed
    /\ workerRoom[q] \in exists
    /\ todo' = [todo EXCEPT ![q] = @ \ {c}]
    /\ removed' = [removed EXCEPT ![q] = TRUE]
    /\ members' = [members EXCEPT ![workerRoom[q]] = @ \ {c}]
    /\ stale' = IF c \in members[workerRoom[q]] THEN stale \cup {workerRoom[q]} ELSE stale
    /\ Uncount(c)
    /\ UNCHANGED <<connVars, closed, exists, cached, cache, queue, unreg,
                   broadcast, sent, loopVars, workerAt, workerRoom, pending,
                   cleanerVars, stopping>>

\* The end of dispatchToRoom: the slice is outdated if a client was removed,
\* and the room goes when nobody is left.
WorkerFinishes(q) ==
    /\ workerAt[q] = "visiting"
    /\ todo[q] = {}
    /\ workerAt' = [workerAt EXCEPT ![q] = "select"]
    /\ removed' = [removed EXCEPT ![q] = FALSE]
    /\ LET r == workerRoom[q]
           emptied == IF r \in exists /\ members[r] = {} THEN {r} ELSE {}
       IN  /\ ForgetCaches(IF removed[q] THEN {r} ELSE emptied)
           /\ DeleteRooms(emptied)
    /\ UNCHANGED <<connVars, closed, registered, total, members, unreg,
                   broadcast, sent, loopVars, workerRoom, pending, todo,
                   cleanerVars, stopping, stale>>

\* The idle tick ends a worker whose room is gone or has another queue; a
\* stopped hub ends every worker.
WorkerEnds(q) ==
    /\ workerAt[q] = "select"
    /\ workerRoom[q] \notin exists \/ queue[workerRoom[q]] # q \/ stopped
    /\ workerAt' = [workerAt EXCEPT ![q] = "gone"]
    /\ UNCHANGED <<connVars, closed, registered, total, roomVars, unreg,
                   broadcast, sent, loopVars, workerRoom, pending, todo, removed,
                   cleanerVars, stopping, stale>>

RoomWorker(q) ==
    \/ WorkerStarts(q) \/ WorkerTakes(q) \/ WorkerFinishes(q) \/ WorkerEnds(q)
    \/ \E c \in Clients : WorkerPasses(q, c) \/ WorkerRemoves(q, c)

-----------------------------------------------------------------------------
(* The cleanup goroutine and Stop. *)

AllMembers == UNION {members[r] : r \in exists}

\* Phase 1 under RLock: the closed members and some that were inactive too long.
CleanupCollects ==
    /\ cleanerAt = "waiting"
    /\ cleanerAt' = "applying"
    /\ found' \in SUBSET AllMembers \ {{}}
    /\ AllMembers \cap closed \subseteq found'
    /\ UNCHANGED <<connVars, closed, registered, total, roomVars, unreg,
                   broadcast, sent, loopVars, workerVars, stopping, stale>>

\* Phase 2 under Lock.  It closes what it removes and leaves the counters to
\* the unregistration that follows.
CleanupApplies ==
    /\ cleanerAt = "applying"
    /\ cleanerAt' = "waiting"
    /\ found' = {}
    /\ LET gone == found \cap AllMembers
           touched == {r \in exists : members[r] \cap gone # {}}
       IN  /\ closed' = closed \cup gone
           /\ members' = [r \in Rooms |-> IF r \in touched THEN members[r] \ gone ELSE
                          members[r]]
           /\ ForgetCaches(touched)
           /\ DeleteRooms({r \in touched : members[r] \subseteq gone})
           /\ stale' = stale \cup touched
    /\ UNCHANGED <<connVars, registered, total, unreg, broadcast, sent, loopVars,
                   workerVars, stopping>>

CleanerEnds ==
    /\ cleanerAt = "waiting"
    /\ stopped
    /\ cleanerAt' = "gone"
    /\ UNCHANGED <<connVars, closed, registered, total, roomVars, unreg,
                   broadcast, sent, loopVars, workerVars, found, stopping, stale>>

Cleaner == CleanupCollects \/ CleanupApplies \/ CleanerEnds

\* Stop up to wg.Wait: the flag, the done channel and the map of queues.
StopBegins ==
    /\ stopping = "no"
    /\ stopping' = "waiting"
    /\ queue' = [r \in Rooms |-> NoQueue]
    /\ UNCHANGED <<connVars, closed, registered, total, exists, members, cached,
                   cache, unreg, broadcast, sent, loopVars, workerVars,
                   cleanerVars, stale>>

\* The goroutines have ended: close every connection still in a room.
StopFinishes ==
    /\ stopping = "waiting"
    /\ loopAt = "gone" /\ cleanerAt = "gone"
    /\ \A q \in Queues : workerAt[q] \in {"none", "gone"}
    /\ stopping' = "done"
    /\ closed' = closed \cup AllMembers
    /\ members' = [r \in Rooms |-> {}]
    /\ exists' = {}
    /\ UNCHANGED <<connVars, registered, total, cached, cache, queue, unreg,
                   broadcast, sent, loopVars, workerVars, cleanerVars, stale>>

-----------------------------------------------------------------------------

Connection(c) ==
    \/ Connect(c) \/ RegisterRefused(c) \/ Disconnect(c)
    \/ HandlerUnregisters(c) \/ HandlerLeaves(c) \/ HandlerCloses(c) \/ PumpEnds(c)

Next ==
    \/ \E c \in Clients : Connection(c)
    \/ \E r \in Rooms : BroadcastToRoom(r)
    \/ RunLoop
    \/ \E q \in Queues : RoomWorker(q)
    \/ Cleaner
    \/ StopBegins \/ StopFinishes

\* The Go scheduler runs every goroutine that can run.  A closed connection
\* unregisters, and the cleanup finds it; nothing makes a peer connect, leave,
\* send or be silent for too long, and nothing makes the process stop.
Fairness ==
    /\ WF_vars(RunLoop)
    /\ \A q \in Queues : WF_vars(RoomWorker(q))
    /\ WF_vars(AllMembers \cap closed # {} /\ CleanupCollects)
    /\ WF_vars(CleanupApplies \/ CleanerEnds)
    /\ WF_vars(StopFinishes)
    /\ \A c \in Clients :
          WF_vars(RegisterRefused(c) \/ HandlerUnregisters(c) \/ HandlerCloses(c))
            /\ WF_vars(PumpEnds(c))

Spec == Init /\ [][Next]_vars /\ Fairness

-----------------------------------------------------------------------------

\* A client counts from Acquire on, before it is registered.
Acquired == IF loopAt = "add" THEN {loopClient} ELSE {}

\* The counter of connections is exactly the clients that hold a place, never
\* above the limit, and whoever is in a room holds one, although three paths
\* take a client out of its room and two goroutines unregister it (room_hub.go:149-182, 238-258, 460-466;
\* cleanup.go:92-128).
CountIsExact ==
    /\ total = Cardinality(registered \cup Acquired)
    /\ total <= MaxTotal
    /\ \A r \in Rooms : members[r] \subseteq registered

\* A connection whose handler has left and that still holds a place, counted
\* or about to be added, has an unregistration waiting in the channel: no place
\* is lost for good, though the first unregistration is the only one that
\* counts and may have been taken before (client.go:119-121, room_hub.go:238-246,
\* 526-532).
PlacesAreGivenBack ==
    ~stopped => \A c \in registered \cup Acquired :
        conn[c] \in {"leaving", "ended"} => \E i \in DOMAIN unreg : unreg[i] = c

\* A queue in the map belongs to a room that exists and has a worker that is
\* going to read it: a message put in it is not put into the void
\* (room_hub.go:269-311, 319-358; the comment M8 at 287).
QueueHasWorker ==
    \A r \in Rooms : queue[r] # NoQueue /\ ~stopped =>
        /\ r \in exists
        /\ workerRoom[queue[r]] = r
        /\ workerAt[queue[r]] \in {"starting", "select", "visiting"}

\* The cached slice of a room leaves no member out: nobody who is in the room
\* misses a message (room_hub.go:363-451).
CacheHasEveryMember ==
    \A r \in cached \cap exists : members[r] \subseteq cache[r]

\* Stop cannot hang: while it waits, a goroutine it waits for can take a step
\* (room_hub.go:480-513; every send of the run loop and of its callback is
\* one that never blocks).
StopIsNotStuck ==
    stopping = "waiting" =>
        ENABLED (RunLoop \/ Cleaner \/ StopFinishes \/ \E q \in Queues : RoomWorker(q))

\* What the comment at room_hub.go:57-59 says, the callback is called after a
\* client was added to a room or removed from it: those who are in a room do
\* not stay with the composition it had.
ChangeIsAnnounced ==
    \A r \in Rooms :
        r \in stale /\ members[r] # {} ~> (r \notin stale \/ members[r] = {} \/ stopped)

=============================================================================
