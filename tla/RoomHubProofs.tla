--------------------------- MODULE RoomHubProofs ---------------------------
(***************************************************************************)
(* What the hub guarantees for any number of connections, rooms, workers   *)
(* and messages.                                                           *)
(*                                                                         *)
(* The count is exact because every path that takes a client off the       *)
(* counter looks at its registered flag under the same lock, and because   *)
(* the client the run loop has counted but not yet added is not registered *)
(* (AcquiredIsNew): registered clients have left the register channel      *)
(* (RegisteredHasConnected).  A client sits in its own room only           *)
(* (OwnRoom), so what one room removes no other room still holds.  That a  *)
(* place comes back (PlacesAreGivenBack) is then a matter of the channel:  *)
(* an unregistration in it is only taken out to be acted on.               *)
(***************************************************************************)
EXTENDS RoomHub, FiniteSetTheorems, TLAPS

RegisteredHasConnected ==
    \A c \in registered \cup Acquired : conn[c] \notin {"new", "registering"}

AcquiredIsNew ==
    loopAt = "add" =>
        /\ loopClient \in Clients \ registered
        /\ loopRoom = RoomOf[loopClient]

LoopHoldsRoom ==
    /\ loopAt \in {"announce", "create", "send"} => loopRoom \in Rooms
    /\ loopAt = "send" => loopQueue \in Queues

WorkerHasRoom == \A q \in Queues : workerAt[q] # "none" => workerRoom[q] \in Rooms

OwnRoom ==
    /\ \A r \in Rooms : \A c \in members[r] \cup cache[r] : RoomOf[c] = r
    /\ \A q \in Queues : \A c \in todo[q] : RoomOf[c] = workerRoom[q]

\* A worker that does not visit clients has none left to visit.
RestingHasNoTodo == \A q \in Queues : workerAt[q] # "visiting" => todo[q] = {}

Shape ==
    /\ RegisteredHasConnected
    /\ AcquiredIsNew
    /\ LoopHoldsRoom
    /\ WorkerHasRoom
    /\ OwnRoom
    /\ RestingHasNoTodo

IInv ==
    /\ TypeOK
    /\ Shape
    /\ CountIsExact
    /\ QueueHasWorker
    /\ CacheHasEveryMember

USE RoomOfAssumption, BoundsAssumption, NoneAssumption, ClientsFinite

\* The types.
LEMMA TypeStep ==
    ASSUME IInv, [Next]_vars PROVE TypeOK'
  <1>1. ASSUME NEW c \in Clients, Connect(c) PROVE TypeOK'
    BY <1>1 DEF Connect, roomVars, connVars, loopVars, workerVars, cleanerVars, LoopIs, LoopIsIdle,
      stopped, NoQueue, IInv, TypeOK, Shape, LoopHoldsRoom, WorkerHasRoom
  <1>2. ASSUME NEW c \in Clients, RegisterRefused(c) PROVE TypeOK'
    BY <1>2 DEF RegisterRefused, roomVars, connVars, loopVars, workerVars, cleanerVars, LoopIs,
      LoopIsIdle, stopped, NoQueue, IInv, TypeOK, Shape, LoopHoldsRoom, WorkerHasRoom
  <1>3. ASSUME NEW c \in Clients, Disconnect(c) PROVE TypeOK'
    BY <1>3 DEF Disconnect, roomVars, connVars, loopVars, workerVars, cleanerVars, LoopIs,
      LoopIsIdle, stopped, NoQueue, IInv, TypeOK, Shape, LoopHoldsRoom, WorkerHasRoom
  <1>4. ASSUME NEW c \in Clients, HandlerUnregisters(c) PROVE TypeOK'
    <2>1. Append(unreg, c) \in Seq(Clients)
      BY DEF IInv, TypeOK
    <2>2. unreg' \in Seq(Clients)
      BY <1>4, <2>1 DEF HandlerUnregisters, UnregisterClient, IInv, TypeOK
    <2> QED BY <1>4, <2>2 DEF HandlerUnregisters, IInv, TypeOK, roomVars, connVars, loopVars,
      workerVars, cleanerVars
  <1>5. ASSUME NEW c \in Clients, HandlerLeaves(c) PROVE TypeOK'
    <2>1. Append(unreg, c) \in Seq(Clients)
      BY DEF IInv, TypeOK
    <2>2. unreg' \in Seq(Clients)
      BY <1>5, <2>1 DEF HandlerLeaves, UnregisterClient, IInv, TypeOK
    <2> QED BY <1>5, <2>2 DEF HandlerLeaves, IInv, TypeOK, roomVars, connVars, loopVars,
      workerVars, cleanerVars
  <1>6. ASSUME NEW c \in Clients, HandlerCloses(c) PROVE TypeOK'
    BY <1>6 DEF HandlerCloses, roomVars, connVars, loopVars, workerVars, cleanerVars, LoopIs,
      LoopIsIdle, stopped, NoQueue, IInv, TypeOK, Shape, LoopHoldsRoom, WorkerHasRoom
  <1>7. ASSUME NEW c \in Clients, PumpEnds(c) PROVE TypeOK'
    <2>1. Append(unreg, c) \in Seq(Clients)
      BY DEF IInv, TypeOK
    <2>2. unreg' \in Seq(Clients)
      BY <1>7, <2>1 DEF PumpEnds, UnregisterClient, IInv, TypeOK
    <2> QED BY <1>7, <2>2 DEF PumpEnds, IInv, TypeOK, roomVars, connVars, loopVars, workerVars,
      cleanerVars
  <1>8. ASSUME NEW r \in Rooms, BroadcastToRoom(r) PROVE TypeOK'
    BY <1>8 DEF BroadcastToRoom, roomVars, connVars, loopVars, workerVars, cleanerVars, LoopIs,
      LoopIsIdle, stopped, NoQueue, IInv, TypeOK, Shape, LoopHoldsRoom, WorkerHasRoom
  <1>9. ASSUME NEW c \in Clients, TakeRegister(c) PROVE TypeOK'
    BY <1>9 DEF TakeRegister, roomVars, connVars, loopVars, workerVars, cleanerVars, LoopIs,
      LoopIsIdle, stopped, NoQueue, IInv, TypeOK, Shape, LoopHoldsRoom, WorkerHasRoom
  <1>10. CASE AddClient
    <2>1. loopClient \in Clients /\ loopRoom \in Rooms
      BY <1>10 DEF AddClient, ForgetCaches, roomVars, connVars, loopVars, workerVars, cleanerVars,
      LoopIs, LoopIsIdle, stopped, NoQueue, IInv, TypeOK, Shape, LoopHoldsRoom, WorkerHasRoom,
      AcquiredIsNew
    <2>2. members' \in [Rooms -> SUBSET Clients]
      BY <1>10, <2>1 DEF AddClient, ForgetCaches, roomVars, connVars, loopVars, workerVars,
      cleanerVars, LoopIs, LoopIsIdle, stopped, NoQueue, IInv, TypeOK, Shape, LoopHoldsRoom,
      WorkerHasRoom
    <2>3. cached' \subseteq Rooms /\ cache' \in [Rooms -> SUBSET Clients]
      BY <1>10, <2>1 DEF AddClient, ForgetCaches, roomVars, connVars, loopVars, workerVars,
      cleanerVars, LoopIs, LoopIsIdle, stopped, NoQueue, IInv, TypeOK, Shape, LoopHoldsRoom,
      WorkerHasRoom
    <2>4. TypeOK'
      BY <1>10, <2>1, <2>2, <2>3 DEF AddClient, ForgetCaches, roomVars, connVars, loopVars,
      workerVars, cleanerVars, LoopIs, LoopIsIdle, stopped, NoQueue, IInv, TypeOK, Shape,
      LoopHoldsRoom, WorkerHasRoom
    <2> QED BY <2>4
  <1>11. ASSUME NEW c \in Clients, TakeUnregister(c) PROVE TypeOK'
    <2>1. unreg' \in Seq(Clients)
      BY <1>11 DEF TakeUnregister, IInv, TypeOK
    <2>2. CASE c \notin registered
      BY <1>11, <2>1, <2>2 DEF TakeUnregister, IInv, TypeOK, roomVars, connVars, loopVars,
      workerVars, cleanerVars
    <2>3. CASE c \in registered
      <3> DEFINE r == RoomOf[c]
                 emptied == IF members[r] \ {c} = {} THEN {r} \cap exists ELSE {}
      <3>0. r \in Rooms
        OBVIOUS
      <3>1. /\ Uncount(c) /\ ForgetCaches({r} \cap exists) /\ DeleteRooms(emptied)
            /\ members' = [members EXCEPT ![r] = members[r] \ {c}]
            /\ stale' = stale \cup {r}
            /\ LoopIs("announce", NoClient, r, NoQueue)
            /\ UNCHANGED <<connVars, closed, broadcast, sent, workerVars, cleanerVars, stopping>>
        BY <1>11, <2>3 DEF TakeUnregister
      <3>2. members' \in [Rooms -> SUBSET Clients] /\ stale' \subseteq Rooms
        BY <3>0, <3>1 DEF IInv, TypeOK
      <3>3. cached' \subseteq Rooms /\ cache' \in [Rooms -> SUBSET Clients]
        BY <3>1 DEF ForgetCaches, IInv, TypeOK
      <3>4. exists' \subseteq Rooms /\ queue' \in [Rooms -> Queues \cup {NoQueue}]
        BY <3>1 DEF DeleteRooms, IInv, TypeOK
      <3>5. registered' \subseteq Clients /\ total' \in Nat
        BY <3>1 DEF Uncount, IInv, TypeOK
      <3> QED BY <2>1, <3>0, <3>1, <3>2, <3>3, <3>4, <3>5
                 DEF LoopIs, IInv, TypeOK, connVars, workerVars, cleanerVars
    <2> QED BY <2>2, <2>3
  <1>12. CASE Announce
    BY <1>12 DEF Announce, roomVars, connVars, loopVars, workerVars, cleanerVars, LoopIs,
      LoopIsIdle, stopped, NoQueue, IInv, TypeOK, Shape, LoopHoldsRoom, WorkerHasRoom
  <1>13. ASSUME NEW r \in Rooms, TakeBroadcast(r) PROVE TypeOK'
    BY <1>13 DEF TakeBroadcast, roomVars, connVars, loopVars, workerVars, cleanerVars, LoopIs,
      LoopIsIdle, stopped, NoQueue, IInv, TypeOK, Shape, LoopHoldsRoom, WorkerHasRoom
  <1>14. ASSUME NEW q \in Queues, CreateQueue(q) PROVE TypeOK'
    <2>1. loopRoom \in Rooms
      BY <1>14 DEF CreateQueue, IInv, TypeOK, Shape, LoopHoldsRoom
    <2>2. CASE loopRoom \notin exists
      BY <1>14, <2>2 DEF CreateQueue, LoopIsIdle, LoopIs, IInv, TypeOK, connVars, cleanerVars
    <2>3. CASE loopRoom \in exists
      <3>1. NewQueue(loopRoom, q)
        BY <1>14, <2>3 DEF CreateQueue
      <3>2. queue' \in [Rooms -> Queues \cup {NoQueue}] /\ workerAt' \in [Queues -> {"none",
      "starting", "select", "visiting", "gone"}] /\ workerRoom' \in [Queues -> Rooms \cup {NoRoom}]
        BY <2>1, <3>1 DEF NewQueue, IInv, TypeOK
      <3>3. loopAt' = "send" /\ loopClient' = NoClient /\ loopRoom' = loopRoom /\ loopQueue' = q
        BY <3>1 DEF NewQueue, LoopIs
      <3> QED BY <1>14, <2>1, <3>2, <3>3 DEF CreateQueue, IInv, TypeOK, connVars, cleanerVars
    <2> QED BY <2>2, <2>3
  <1>15. CASE SendToQueue
    BY <1>15 DEF SendToQueue, roomVars, connVars, loopVars, workerVars, cleanerVars, LoopIs,
      LoopIsIdle, stopped, NoQueue, IInv, TypeOK, Shape, LoopHoldsRoom, WorkerHasRoom
  <1>16. CASE LoopEnds
    BY <1>16 DEF LoopEnds, roomVars, connVars, loopVars, workerVars, cleanerVars, LoopIs,
      LoopIsIdle, stopped, NoQueue, IInv, TypeOK, Shape, LoopHoldsRoom, WorkerHasRoom
  <1>17. ASSUME NEW q \in Queues, WorkerStarts(q) PROVE TypeOK'
    BY <1>17 DEF WorkerStarts, roomVars, connVars, loopVars, workerVars, cleanerVars, LoopIs,
      LoopIsIdle, stopped, NoQueue, IInv, TypeOK, Shape, LoopHoldsRoom, WorkerHasRoom
  <1>18. ASSUME NEW q \in Queues, WorkerTakes(q) PROVE TypeOK'
    <2> DEFINE r == workerRoom[q]
               slice == IF r \in cached THEN cache[r] ELSE members[r]
    <2>1. r \in Rooms /\ slice \subseteq Clients
      BY <1>18 DEF WorkerTakes, IInv, TypeOK, Shape, WorkerHasRoom
    <2>2. pending' \in [Queues -> 0 .. QueueCap]
      BY <1>18 DEF WorkerTakes, IInv, TypeOK
    <2>3. CASE r \notin exists
      BY <1>18, <2>2, <2>3 DEF WorkerTakes, IInv, TypeOK, connVars, loopVars, cleanerVars
    <2>4. CASE r \in exists
      <3>1. todo' = [todo EXCEPT ![q] = slice] /\ cached' = cached \cup {r} /\ cache' = [cache
      EXCEPT ![r] = slice]
        BY <1>18, <2>4 DEF WorkerTakes
      <3>2. todo' \in [Queues -> SUBSET Clients] /\ cached' \subseteq Rooms /\ cache' \in [Rooms ->
      SUBSET Clients]
        BY <2>1, <3>1 DEF IInv, TypeOK
      <3> QED BY <1>18, <2>2, <2>4, <3>2 DEF WorkerTakes, IInv, TypeOK, connVars, loopVars,
      cleanerVars
    <2> QED BY <2>3, <2>4
  <1>19. ASSUME NEW q \in Queues, NEW c \in Clients, WorkerPasses(q, c) PROVE TypeOK'
    BY <1>19 DEF WorkerPasses, roomVars, connVars, loopVars, workerVars, cleanerVars, LoopIs,
      LoopIsIdle, stopped, NoQueue, IInv, TypeOK, Shape, LoopHoldsRoom, WorkerHasRoom
  <1>20. ASSUME NEW q \in Queues, NEW c \in Clients, WorkerRemoves(q, c) PROVE TypeOK'
    BY <1>20 DEF WorkerRemoves, Uncount, roomVars, connVars, loopVars, workerVars, cleanerVars,
      LoopIs, LoopIsIdle, stopped, NoQueue, IInv, TypeOK, Shape, LoopHoldsRoom, WorkerHasRoom
  <1>21. ASSUME NEW q \in Queues, WorkerFinishes(q) PROVE TypeOK'
    BY <1>21 DEF WorkerFinishes, ForgetCaches, DeleteRooms, roomVars, connVars, loopVars,
      workerVars, cleanerVars, LoopIs, LoopIsIdle, stopped, NoQueue, IInv, TypeOK, Shape,
      LoopHoldsRoom, WorkerHasRoom
  <1>22. ASSUME NEW q \in Queues, WorkerEnds(q) PROVE TypeOK'
    BY <1>22 DEF WorkerEnds, roomVars, connVars, loopVars, workerVars, cleanerVars, LoopIs,
      LoopIsIdle, stopped, NoQueue, IInv, TypeOK, Shape, LoopHoldsRoom, WorkerHasRoom
  <1>23. CASE CleanupCollects
    BY <1>23 DEF CleanupCollects, AllMembers, roomVars, connVars, loopVars, workerVars,
      cleanerVars, LoopIs, LoopIsIdle, stopped, NoQueue, IInv, TypeOK, Shape, LoopHoldsRoom,
      WorkerHasRoom
  <1>24. CASE CleanupApplies
    BY <1>24 DEF CleanupApplies, ForgetCaches, DeleteRooms, AllMembers, roomVars, connVars,
      loopVars, workerVars, cleanerVars, LoopIs, LoopIsIdle, stopped, NoQueue, IInv, TypeOK, Shape,
      LoopHoldsRoom, WorkerHasRoom
  <1>25. CASE CleanerEnds
    BY <1>25 DEF CleanerEnds, roomVars, connVars, loopVars, workerVars, cleanerVars, LoopIs,
      LoopIsIdle, stopped, NoQueue, IInv, TypeOK, Shape, LoopHoldsRoom, WorkerHasRoom
  <1>26. CASE StopBegins
    BY <1>26 DEF StopBegins, roomVars, connVars, loopVars, workerVars, cleanerVars, LoopIs,
      LoopIsIdle, stopped, NoQueue, IInv, TypeOK, Shape, LoopHoldsRoom, WorkerHasRoom
  <1>27. CASE StopFinishes
    BY <1>27 DEF StopFinishes, AllMembers, roomVars, connVars, loopVars, workerVars, cleanerVars,
      LoopIs, LoopIsIdle, stopped, NoQueue, IInv, TypeOK, Shape, LoopHoldsRoom, WorkerHasRoom
  <1>28. CASE UNCHANGED vars
    BY <1>28 DEF vars, roomVars, connVars, loopVars, workerVars, cleanerVars, LoopIs, LoopIsIdle,
      stopped, NoQueue, IInv, TypeOK, Shape, LoopHoldsRoom, WorkerHasRoom
  <1> QED BY <1>1, <1>2, <1>3, <1>4, <1>5, <1>6, <1>7, <1>8, <1>9, <1>10, <1>11, <1>12, <1>13,
      <1>14, <1>15, <1>16, <1>17, <1>18, <1>19, <1>20, <1>21, <1>22, <1>23, <1>24, <1>25, <1>26,
      <1>27, <1>28 DEF Next, Connection, RunLoop, RoomWorker, Cleaner

\* What the unregistration of a registered client does.
LEMMA TakenOff ==
    ASSUME IInv, NEW c \in Clients, TakeUnregister(c), c \in registered
    PROVE  /\ Uncount(c)
           /\ ForgetCaches({RoomOf[c]} \cap exists)
           /\ RoomOf[c] \in Rooms
           /\ members' = [members EXCEPT ![RoomOf[c]] = members[RoomOf[c]] \ {c}]
           /\ members' \in [Rooms -> SUBSET Clients]
           /\ \A r \in Rooms : members'[r] \subseteq members[r] \ {c}
           /\ \A r \in Rooms : cache'[r] \subseteq cache[r]
  <1>1. RoomOf[c] \in Rooms
    OBVIOUS
  <1>2. /\ Uncount(c) /\ ForgetCaches({RoomOf[c]} \cap exists)
        /\ members' = [members EXCEPT ![RoomOf[c]] = members[RoomOf[c]] \ {c}]
    BY DEF TakeUnregister
  <1>3. members \in [Rooms -> SUBSET Clients] /\ \A r \in Rooms : c \in members[r] => r = RoomOf[c]
    BY DEF IInv, TypeOK, Shape, OwnRoom
  <1>4. members' \in [Rooms -> SUBSET Clients]
    BY <1>1, <1>2, <1>3
  <1>5. \A r \in Rooms : members'[r] \subseteq members[r] \ {c}
    <2> TAKE r \in Rooms
    <2>1. CASE r = RoomOf[c]
      BY <1>1, <1>2, <1>3, <2>1
    <2>2. CASE r # RoomOf[c]
      BY <1>1, <1>2, <1>3, <2>2
    <2> QED BY <2>1, <2>2
  <1>6. \A r \in Rooms : cache'[r] \subseteq cache[r]
    BY <1>2 DEF ForgetCaches
  <1> QED BY <1>1, <1>2, <1>4, <1>5, <1>6

\* Where the clients are.
LEMMA ShapeStep ==
    ASSUME IInv, [Next]_vars PROVE Shape'
  <1>1. ASSUME NEW c \in Clients, Connect(c) PROVE Shape'
    BY <1>1 DEF Connect, roomVars, connVars, loopVars, workerVars, cleanerVars, LoopIs, LoopIsIdle,
      stopped, NoQueue, IInv, TypeOK, Shape, RegisteredHasConnected, AcquiredIsNew, LoopHoldsRoom,
      WorkerHasRoom, OwnRoom, RestingHasNoTodo, Acquired
  <1>2. ASSUME NEW c \in Clients, RegisterRefused(c) PROVE Shape'
    BY <1>2 DEF RegisterRefused, roomVars, connVars, loopVars, workerVars, cleanerVars, LoopIs,
      LoopIsIdle, stopped, NoQueue, IInv, TypeOK, Shape, RegisteredHasConnected, AcquiredIsNew,
      LoopHoldsRoom, WorkerHasRoom, OwnRoom, RestingHasNoTodo, Acquired
  <1>3. ASSUME NEW c \in Clients, Disconnect(c) PROVE Shape'
    BY <1>3 DEF Disconnect, roomVars, connVars, loopVars, workerVars, cleanerVars, LoopIs,
      LoopIsIdle, stopped, NoQueue, IInv, TypeOK, Shape, RegisteredHasConnected, AcquiredIsNew,
      LoopHoldsRoom, WorkerHasRoom, OwnRoom, RestingHasNoTodo, Acquired
  <1>4. ASSUME NEW c \in Clients, HandlerUnregisters(c) PROVE Shape'
    BY <1>4 DEF HandlerUnregisters, UnregisterClient, roomVars, connVars, loopVars, workerVars,
      cleanerVars, LoopIs, LoopIsIdle, stopped, NoQueue, IInv, TypeOK, Shape,
      RegisteredHasConnected, AcquiredIsNew, LoopHoldsRoom, WorkerHasRoom, OwnRoom,
      RestingHasNoTodo, Acquired
  <1>5. ASSUME NEW c \in Clients, HandlerLeaves(c) PROVE Shape'
    BY <1>5 DEF HandlerLeaves, UnregisterClient, roomVars, connVars, loopVars, workerVars,
      cleanerVars, LoopIs, LoopIsIdle, stopped, NoQueue, IInv, TypeOK, Shape,
      RegisteredHasConnected, AcquiredIsNew, LoopHoldsRoom, WorkerHasRoom, OwnRoom,
      RestingHasNoTodo, Acquired
  <1>6. ASSUME NEW c \in Clients, HandlerCloses(c) PROVE Shape'
    BY <1>6 DEF HandlerCloses, roomVars, connVars, loopVars, workerVars, cleanerVars, LoopIs,
      LoopIsIdle, stopped, NoQueue, IInv, TypeOK, Shape, RegisteredHasConnected, AcquiredIsNew,
      LoopHoldsRoom, WorkerHasRoom, OwnRoom, RestingHasNoTodo, Acquired
  <1>7. ASSUME NEW c \in Clients, PumpEnds(c) PROVE Shape'
    BY <1>7 DEF PumpEnds, UnregisterClient, roomVars, connVars, loopVars, workerVars, cleanerVars,
      LoopIs, LoopIsIdle, stopped, NoQueue, IInv, TypeOK, Shape, RegisteredHasConnected,
      AcquiredIsNew, LoopHoldsRoom, WorkerHasRoom, OwnRoom, RestingHasNoTodo, Acquired
  <1>8. ASSUME NEW r \in Rooms, BroadcastToRoom(r) PROVE Shape'
    BY <1>8 DEF BroadcastToRoom, roomVars, connVars, loopVars, workerVars, cleanerVars, LoopIs,
      LoopIsIdle, stopped, NoQueue, IInv, TypeOK, Shape, RegisteredHasConnected, AcquiredIsNew,
      LoopHoldsRoom, WorkerHasRoom, OwnRoom, RestingHasNoTodo, Acquired
  <1>9. ASSUME NEW c \in Clients, TakeRegister(c) PROVE Shape'
    BY <1>9 DEF TakeRegister, roomVars, connVars, loopVars, workerVars, cleanerVars, LoopIs,
      LoopIsIdle, stopped, NoQueue, IInv, TypeOK, Shape, RegisteredHasConnected, AcquiredIsNew,
      LoopHoldsRoom, WorkerHasRoom, OwnRoom, RestingHasNoTodo, Acquired
  <1>10. CASE AddClient
    BY <1>10 DEF AddClient, ForgetCaches, roomVars, connVars, loopVars, workerVars, cleanerVars,
      LoopIs, LoopIsIdle, stopped, NoQueue, IInv, TypeOK, Shape, RegisteredHasConnected,
      AcquiredIsNew, LoopHoldsRoom, WorkerHasRoom, OwnRoom, RestingHasNoTodo, Acquired
  <1>11. ASSUME NEW c \in Clients, TakeUnregister(c) PROVE Shape'
    <2>1. RegisteredHasConnected' /\ AcquiredIsNew'
      BY <1>11 DEF TakeUnregister, Uncount, LoopIs, connVars, loopVars, IInv, TypeOK, Shape,
      RegisteredHasConnected,
         AcquiredIsNew, Acquired
    <2>2. LoopHoldsRoom' /\ WorkerHasRoom' /\ RestingHasNoTodo'
      <3>1. RoomOf[c] \in Rooms
        OBVIOUS
      <3> QED BY <1>11, <3>1 DEF TakeUnregister, LoopIs, loopVars, workerVars, IInv, Shape,
      LoopHoldsRoom,
            WorkerHasRoom, RestingHasNoTodo
    <2>3. \A r \in Rooms : members'[r] \subseteq members[r] /\ cache'[r] \subseteq cache[r]
      <3>1. CASE c \in registered
        BY <1>11, <3>1, TakenOff
      <3>2. CASE c \notin registered
        BY <1>11, <3>2 DEF TakeUnregister, roomVars
      <3> QED BY <3>1, <3>2
    <2>4. OwnRoom'
      BY <1>11, <2>3 DEF TakeUnregister, workerVars, IInv, Shape, OwnRoom
    <2> QED BY <2>1, <2>2, <2>4 DEF Shape
  <1>12. CASE Announce
    BY <1>12 DEF Announce, roomVars, connVars, loopVars, workerVars, cleanerVars, LoopIs,
      LoopIsIdle, stopped, NoQueue, IInv, TypeOK, Shape, RegisteredHasConnected, AcquiredIsNew,
      LoopHoldsRoom, WorkerHasRoom, OwnRoom, RestingHasNoTodo, Acquired
  <1>13. ASSUME NEW r \in Rooms, TakeBroadcast(r) PROVE Shape'
    BY <1>13 DEF TakeBroadcast, roomVars, connVars, loopVars, workerVars, cleanerVars, LoopIs,
      LoopIsIdle, stopped, NoQueue, IInv, TypeOK, Shape, RegisteredHasConnected, AcquiredIsNew,
      LoopHoldsRoom, WorkerHasRoom, OwnRoom, RestingHasNoTodo, Acquired
  <1>14. ASSUME NEW q \in Queues, CreateQueue(q) PROVE Shape'
    <2>1. RegisteredHasConnected' /\ AcquiredIsNew'
      BY <1>14 DEF CreateQueue, NewQueue, LoopIs, LoopIsIdle, connVars, IInv, Shape,
      RegisteredHasConnected,
         AcquiredIsNew, Acquired
    <2>2. loopRoom \in Rooms
      BY <1>14 DEF CreateQueue, IInv, Shape, LoopHoldsRoom
    <2>3. LoopHoldsRoom' /\ WorkerHasRoom'
      BY <1>14, <2>2 DEF CreateQueue, NewQueue, LoopIs, LoopIsIdle, IInv, TypeOK, Shape,
      LoopHoldsRoom, WorkerHasRoom
    <2>4. todo[q] = {}
      BY <1>14 DEF CreateQueue, IInv, Shape, RestingHasNoTodo
    <2>5. OwnRoom' /\ RestingHasNoTodo'
      BY <1>14, <2>4 DEF CreateQueue, NewQueue, IInv, TypeOK, Shape, OwnRoom, RestingHasNoTodo
    <2> QED BY <2>1, <2>3, <2>5 DEF Shape
  <1>15. CASE SendToQueue
    BY <1>15 DEF SendToQueue, roomVars, connVars, loopVars, workerVars, cleanerVars, LoopIs,
      LoopIsIdle, stopped, NoQueue, IInv, TypeOK, Shape, RegisteredHasConnected, AcquiredIsNew,
      LoopHoldsRoom, WorkerHasRoom, OwnRoom, RestingHasNoTodo, Acquired
  <1>16. CASE LoopEnds
    BY <1>16 DEF LoopEnds, roomVars, connVars, loopVars, workerVars, cleanerVars, LoopIs,
      LoopIsIdle, stopped, NoQueue, IInv, TypeOK, Shape, RegisteredHasConnected, AcquiredIsNew,
      LoopHoldsRoom, WorkerHasRoom, OwnRoom, RestingHasNoTodo, Acquired
  <1>17. ASSUME NEW q \in Queues, WorkerStarts(q) PROVE Shape'
    BY <1>17 DEF WorkerStarts, roomVars, connVars, loopVars, workerVars, cleanerVars, LoopIs,
      LoopIsIdle, stopped, NoQueue, IInv, TypeOK, Shape, RegisteredHasConnected, AcquiredIsNew,
      LoopHoldsRoom, WorkerHasRoom, OwnRoom, RestingHasNoTodo, Acquired
  <1>18. ASSUME NEW q \in Queues, WorkerTakes(q) PROVE Shape'
    <2> DEFINE r == workerRoom[q]
               slice == IF r \in cached THEN cache[r] ELSE members[r]
    <2>1. RegisteredHasConnected' /\ AcquiredIsNew' /\ LoopHoldsRoom' /\ WorkerHasRoom'
      BY <1>18 DEF WorkerTakes, connVars, loopVars, IInv, TypeOK, Shape, RegisteredHasConnected,
      AcquiredIsNew,
         Acquired, LoopHoldsRoom, WorkerHasRoom
    <2>2. r \in Rooms /\ \A c \in slice : RoomOf[c] = r
      BY <1>18 DEF WorkerTakes, IInv, TypeOK, Shape, WorkerHasRoom, OwnRoom
    <2>3. CASE r \notin exists
      BY <1>18, <2>1, <2>3 DEF WorkerTakes, IInv, Shape, OwnRoom, RestingHasNoTodo
    <2>4. CASE r \in exists
      <3>1. /\ workerAt' = [workerAt EXCEPT ![q] = "visiting"] /\ todo' = [todo EXCEPT ![q] = slice]
            /\ cache' = [cache EXCEPT ![r] = slice] /\ UNCHANGED <<members, workerRoom>>
        BY <1>18, <2>4 DEF WorkerTakes
      <3>2. OwnRoom' /\ RestingHasNoTodo'
        BY <2>2, <3>1 DEF IInv, TypeOK, Shape, OwnRoom, RestingHasNoTodo
      <3> QED BY <2>1, <3>2 DEF Shape
    <2> QED BY <2>3, <2>4
  <1>19. ASSUME NEW q \in Queues, NEW c \in Clients, WorkerPasses(q, c) PROVE Shape'
    BY <1>19 DEF WorkerPasses, roomVars, connVars, loopVars, workerVars, cleanerVars, LoopIs,
      LoopIsIdle, stopped, NoQueue, IInv, TypeOK, Shape, RegisteredHasConnected, AcquiredIsNew,
      LoopHoldsRoom, WorkerHasRoom, OwnRoom, RestingHasNoTodo, Acquired
  <1>20. ASSUME NEW q \in Queues, NEW c \in Clients, WorkerRemoves(q, c) PROVE Shape'
    BY <1>20 DEF WorkerRemoves, Uncount, roomVars, connVars, loopVars, workerVars, cleanerVars,
      LoopIs, LoopIsIdle, stopped, NoQueue, IInv, TypeOK, Shape, RegisteredHasConnected,
      AcquiredIsNew, LoopHoldsRoom, WorkerHasRoom, OwnRoom, RestingHasNoTodo, Acquired
  <1>21. ASSUME NEW q \in Queues, WorkerFinishes(q) PROVE Shape'
    BY <1>21 DEF WorkerFinishes, ForgetCaches, DeleteRooms, roomVars, connVars, loopVars,
      workerVars, cleanerVars, LoopIs, LoopIsIdle, stopped, NoQueue, IInv, TypeOK, Shape,
      RegisteredHasConnected, AcquiredIsNew, LoopHoldsRoom, WorkerHasRoom, OwnRoom,
      RestingHasNoTodo, Acquired
  <1>22. ASSUME NEW q \in Queues, WorkerEnds(q) PROVE Shape'
    BY <1>22 DEF WorkerEnds, roomVars, connVars, loopVars, workerVars, cleanerVars, LoopIs,
      LoopIsIdle, stopped, NoQueue, IInv, TypeOK, Shape, RegisteredHasConnected, AcquiredIsNew,
      LoopHoldsRoom, WorkerHasRoom, OwnRoom, RestingHasNoTodo, Acquired
  <1>23. CASE CleanupCollects
    BY <1>23 DEF CleanupCollects, AllMembers, roomVars, connVars, loopVars, workerVars,
      cleanerVars, LoopIs, LoopIsIdle, stopped, NoQueue, IInv, TypeOK, Shape,
      RegisteredHasConnected, AcquiredIsNew, LoopHoldsRoom, WorkerHasRoom, OwnRoom,
      RestingHasNoTodo, Acquired
  <1>24. CASE CleanupApplies
    BY <1>24 DEF CleanupApplies, ForgetCaches, DeleteRooms, AllMembers, roomVars, connVars,
      loopVars, workerVars, cleanerVars, LoopIs, LoopIsIdle, stopped, NoQueue, IInv, TypeOK, Shape,
      RegisteredHasConnected, AcquiredIsNew, LoopHoldsRoom, WorkerHasRoom, OwnRoom,
      RestingHasNoTodo, Acquired
  <1>25. CASE CleanerEnds
    BY <1>25 DEF CleanerEnds, roomVars, connVars, loopVars, workerVars, cleanerVars, LoopIs,
      LoopIsIdle, stopped, NoQueue, IInv, TypeOK, Shape, RegisteredHasConnected, AcquiredIsNew,
      LoopHoldsRoom, WorkerHasRoom, OwnRoom, RestingHasNoTodo, Acquired
  <1>26. CASE StopBegins
    BY <1>26 DEF StopBegins, roomVars, connVars, loopVars, workerVars, cleanerVars, LoopIs,
      LoopIsIdle, stopped, NoQueue, IInv, TypeOK, Shape, RegisteredHasConnected, AcquiredIsNew,
      LoopHoldsRoom, WorkerHasRoom, OwnRoom, RestingHasNoTodo, Acquired
  <1>27. CASE StopFinishes
    BY <1>27 DEF StopFinishes, AllMembers, roomVars, connVars, loopVars, workerVars, cleanerVars,
      LoopIs, LoopIsIdle, stopped, NoQueue, IInv, TypeOK, Shape, RegisteredHasConnected,
      AcquiredIsNew, LoopHoldsRoom, WorkerHasRoom, OwnRoom, RestingHasNoTodo, Acquired
  <1>28. CASE UNCHANGED vars
    BY <1>28 DEF vars, roomVars, connVars, loopVars, workerVars, cleanerVars, LoopIs, LoopIsIdle,
      stopped, NoQueue, IInv, TypeOK, Shape, RegisteredHasConnected, AcquiredIsNew, LoopHoldsRoom,
      WorkerHasRoom, OwnRoom, RestingHasNoTodo, Acquired
  <1> QED BY <1>1, <1>2, <1>3, <1>4, <1>5, <1>6, <1>7, <1>8, <1>9, <1>10, <1>11, <1>12, <1>13,
      <1>14, <1>15, <1>16, <1>17, <1>18, <1>19, <1>20, <1>21, <1>22, <1>23, <1>24, <1>25, <1>26,
      <1>27, <1>28 DEF Next, Connection, RunLoop, RoomWorker, Cleaner

\* The clients that count are finitely many.
LEMMA FiniteParts ==
    ASSUME IInv
    PROVE  \A S \in SUBSET (registered \cup Acquired) :
              IsFiniteSet(S) /\ Cardinality(S) \in Nat
  <1>1. registered \cup Acquired \subseteq Clients
    BY DEF IInv, TypeOK, Shape, AcquiredIsNew, Acquired
  <1> QED BY <1>1, FS_Subset, FS_CardinalityType

\* Uncount takes the client off the counter if it counted, and only then; the
\* client the run loop has acquired is not touched.
LEMMA UncountIsExact ==
    ASSUME IInv, NEW c \in Clients, Uncount(c)
    PROVE  /\ total' = Cardinality(registered' \cup Acquired)
           /\ total' <= MaxTotal
           /\ registered' = registered \ {c}
  <1> DEFINE All == registered \cup Acquired
  <1>1. IsFiniteSet(All) /\ total = Cardinality(All) /\ total <= MaxTotal /\ total \in Nat
    BY FiniteParts DEF IInv, TypeOK, CountIsExact
  <1>2. CASE c \notin registered
    BY <1>1, <1>2 DEF Uncount
  <1>3. CASE c \in registered
    <2>1. c \in All /\ registered' = registered \ {c} /\ registered' \cup Acquired = All \ {c}
      BY <1>3 DEF Uncount, IInv, Shape, AcquiredIsNew, Acquired
    <2>2. Cardinality(All \ {c}) = Cardinality(All) - 1 /\ Cardinality(All \ {c}) \in Nat
      <3>1. IsFiniteSet(All \ {c})
        BY <1>1, FS_RemoveElement
      <3> QED BY <1>1, <2>1, <3>1, FS_RemoveElement, FS_CardinalityType
    <2>3. total > 0 /\ total' = total - 1
      BY <1>1, <1>3, <2>2 DEF Uncount
    <2> QED BY <1>1, <2>1, <2>2, <2>3
  <1> QED BY <1>2, <1>3

\* The counter.
LEMMA CountStep ==
    ASSUME IInv, [Next]_vars PROVE CountIsExact'
  <1>1. ASSUME NEW c \in Clients, Connect(c) PROVE CountIsExact'
    BY <1>1 DEF Connect, roomVars, connVars, loopVars, workerVars, cleanerVars, LoopIs, LoopIsIdle,
      stopped, NoQueue, IInv, TypeOK, CountIsExact, Acquired
  <1>2. ASSUME NEW c \in Clients, RegisterRefused(c) PROVE CountIsExact'
    BY <1>2 DEF RegisterRefused, roomVars, connVars, loopVars, workerVars, cleanerVars, LoopIs,
      LoopIsIdle, stopped, NoQueue, IInv, TypeOK, CountIsExact, Acquired
  <1>3. ASSUME NEW c \in Clients, Disconnect(c) PROVE CountIsExact'
    BY <1>3 DEF Disconnect, roomVars, connVars, loopVars, workerVars, cleanerVars, LoopIs,
      LoopIsIdle, stopped, NoQueue, IInv, TypeOK, CountIsExact, Acquired
  <1>4. ASSUME NEW c \in Clients, HandlerUnregisters(c) PROVE CountIsExact'
    BY <1>4 DEF HandlerUnregisters, UnregisterClient, roomVars, connVars, loopVars, workerVars,
      cleanerVars, LoopIs, LoopIsIdle, stopped, NoQueue, IInv, TypeOK, CountIsExact, Acquired
  <1>5. ASSUME NEW c \in Clients, HandlerLeaves(c) PROVE CountIsExact'
    BY <1>5 DEF HandlerLeaves, UnregisterClient, roomVars, connVars, loopVars, workerVars,
      cleanerVars, LoopIs, LoopIsIdle, stopped, NoQueue, IInv, TypeOK, CountIsExact, Acquired
  <1>6. ASSUME NEW c \in Clients, HandlerCloses(c) PROVE CountIsExact'
    BY <1>6 DEF HandlerCloses, roomVars, connVars, loopVars, workerVars, cleanerVars, LoopIs,
      LoopIsIdle, stopped, NoQueue, IInv, TypeOK, CountIsExact, Acquired
  <1>7. ASSUME NEW c \in Clients, PumpEnds(c) PROVE CountIsExact'
    BY <1>7 DEF PumpEnds, UnregisterClient, roomVars, connVars, loopVars, workerVars, cleanerVars,
      LoopIs, LoopIsIdle, stopped, NoQueue, IInv, TypeOK, CountIsExact, Acquired
  <1>8. ASSUME NEW r \in Rooms, BroadcastToRoom(r) PROVE CountIsExact'
    BY <1>8 DEF BroadcastToRoom, roomVars, connVars, loopVars, workerVars, cleanerVars, LoopIs,
      LoopIsIdle, stopped, NoQueue, IInv, TypeOK, CountIsExact, Acquired
  <1>9. ASSUME NEW c \in Clients, TakeRegister(c) PROVE CountIsExact'
    <2>1. CASE stopped \/ total >= MaxTotal
      BY <1>9, <2>1 DEF TakeRegister, roomVars, loopVars, IInv, CountIsExact, Acquired
    <2>2. CASE ~(stopped \/ total >= MaxTotal)
      <3>1. c \notin registered /\ Acquired = {} /\ Acquired' = {c}
        BY <1>9, <2>2 DEF TakeRegister, LoopIs, IInv, Shape, RegisteredHasConnected, Acquired
      <3>2. Cardinality(registered \cup {c}) = Cardinality(registered) + 1
        BY <3>1, FiniteParts, FS_AddElement DEF IInv, TypeOK
      <3>3. total' = total + 1 /\ registered' = registered /\ UNCHANGED members
        BY <1>9, <2>2 DEF TakeRegister, roomVars
      <3>4. total = Cardinality(registered)
        BY <3>1 DEF IInv, CountIsExact
      <3>5. total' <= MaxTotal
        BY <2>2, <3>3 DEF IInv, TypeOK
      <3> QED BY <3>1, <3>2, <3>3, <3>4, <3>5 DEF IInv, CountIsExact
    <2> QED BY <2>1, <2>2
  <1>10. CASE AddClient
    <2>1. Acquired = {loopClient} /\ Acquired' = {} /\ registered' = registered \cup {loopClient}
      BY <1>10 DEF AddClient, LoopIs, Acquired
    <2>2. (registered \cup Acquired)' = registered \cup Acquired
      BY <2>1
    <2>3. \A r \in Rooms : members'[r] \subseteq registered'
      BY <1>10, <2>1 DEF AddClient, IInv, TypeOK, CountIsExact
    <2> QED BY <1>10, <2>2, <2>3 DEF AddClient, IInv, CountIsExact
  <1>11. ASSUME NEW c \in Clients, TakeUnregister(c) PROVE CountIsExact'
    <2>1. CASE c \notin registered
      BY <1>11, <2>1 DEF TakeUnregister, roomVars, loopVars, IInv, CountIsExact, Acquired
    <2>2. CASE c \in registered
      <3>1. Acquired = {} /\ Acquired' = {}
        BY <1>11, <2>2 DEF TakeUnregister, LoopIs, Acquired
      <3>2. total' = Cardinality(registered') /\ total' <= MaxTotal /\ registered' = registered \
      {c}
        BY <1>11, <2>2, <3>1, UncountIsExact DEF TakeUnregister, IInv, CountIsExact
      <3>3. \A r \in Rooms : members'[r] \subseteq members[r] \ {c}
        BY <1>11, <2>2, TakenOff
      <3> QED BY <3>1, <3>2, <3>3 DEF IInv, CountIsExact
    <2> QED BY <2>1, <2>2
  <1>12. CASE Announce
    BY <1>12 DEF Announce, roomVars, connVars, loopVars, workerVars, cleanerVars, LoopIs,
      LoopIsIdle, stopped, NoQueue, IInv, TypeOK, CountIsExact, Acquired
  <1>13. ASSUME NEW r \in Rooms, TakeBroadcast(r) PROVE CountIsExact'
    BY <1>13 DEF TakeBroadcast, roomVars, connVars, loopVars, workerVars, cleanerVars, LoopIs,
      LoopIsIdle, stopped, NoQueue, IInv, TypeOK, CountIsExact, Acquired
  <1>14. ASSUME NEW q \in Queues, CreateQueue(q) PROVE CountIsExact'
    BY <1>14 DEF CreateQueue, NewQueue, Queues, roomVars, connVars, loopVars, workerVars,
      cleanerVars, LoopIs, LoopIsIdle, stopped, NoQueue, IInv, TypeOK, CountIsExact, Acquired
  <1>15. CASE SendToQueue
    BY <1>15 DEF SendToQueue, roomVars, connVars, loopVars, workerVars, cleanerVars, LoopIs,
      LoopIsIdle, stopped, NoQueue, IInv, TypeOK, CountIsExact, Acquired
  <1>16. CASE LoopEnds
    BY <1>16 DEF LoopEnds, roomVars, connVars, loopVars, workerVars, cleanerVars, LoopIs,
      LoopIsIdle, stopped, NoQueue, IInv, TypeOK, CountIsExact, Acquired
  <1>17. ASSUME NEW q \in Queues, WorkerStarts(q) PROVE CountIsExact'
    BY <1>17 DEF WorkerStarts, roomVars, connVars, loopVars, workerVars, cleanerVars, LoopIs,
      LoopIsIdle, stopped, NoQueue, IInv, TypeOK, CountIsExact, Acquired
  <1>18. ASSUME NEW q \in Queues, WorkerTakes(q) PROVE CountIsExact'
    BY <1>18 DEF WorkerTakes, roomVars, connVars, loopVars, workerVars, cleanerVars, LoopIs,
      LoopIsIdle, stopped, NoQueue, IInv, TypeOK, CountIsExact, Acquired
  <1>19. ASSUME NEW q \in Queues, NEW c \in Clients, WorkerPasses(q, c) PROVE CountIsExact'
    BY <1>19 DEF WorkerPasses, roomVars, connVars, loopVars, workerVars, cleanerVars, LoopIs,
      LoopIsIdle, stopped, NoQueue, IInv, TypeOK, CountIsExact, Acquired
  <1>20. ASSUME NEW q \in Queues, NEW c \in Clients, WorkerRemoves(q, c) PROVE CountIsExact'
    <2>1. Uncount(c) /\ UNCHANGED loopVars
      BY <1>20 DEF WorkerRemoves
    <2>2. Acquired' = Acquired
      BY <2>1 DEF loopVars, Acquired
    <2>3. total' = Cardinality(registered' \cup Acquired) /\ total' <= MaxTotal /\ registered' =
      registered \ {c}
      BY <2>1, UncountIsExact
    <2>4. \A r \in Rooms : members'[r] \subseteq members[r] \ {c}
      BY <1>20 DEF WorkerRemoves, IInv, TypeOK, Shape, OwnRoom
    <2> QED BY <2>2, <2>3, <2>4 DEF IInv, CountIsExact
  <1>21. ASSUME NEW q \in Queues, WorkerFinishes(q) PROVE CountIsExact'
    BY <1>21 DEF WorkerFinishes, ForgetCaches, DeleteRooms, roomVars, connVars, loopVars,
      workerVars, cleanerVars, LoopIs, LoopIsIdle, stopped, NoQueue, IInv, TypeOK, CountIsExact,
      Acquired
  <1>22. ASSUME NEW q \in Queues, WorkerEnds(q) PROVE CountIsExact'
    BY <1>22 DEF WorkerEnds, roomVars, connVars, loopVars, workerVars, cleanerVars, LoopIs,
      LoopIsIdle, stopped, NoQueue, IInv, TypeOK, CountIsExact, Acquired
  <1>23. CASE CleanupCollects
    BY <1>23 DEF CleanupCollects, AllMembers, roomVars, connVars, loopVars, workerVars,
      cleanerVars, LoopIs, LoopIsIdle, stopped, NoQueue, IInv, TypeOK, CountIsExact, Acquired
  <1>24. CASE CleanupApplies
    BY <1>24 DEF CleanupApplies, ForgetCaches, DeleteRooms, AllMembers, roomVars, connVars,
      loopVars, workerVars, cleanerVars, LoopIs, LoopIsIdle, stopped, NoQueue, IInv, TypeOK,
      CountIsExact, Acquired
  <1>25. CASE CleanerEnds
    BY <1>25 DEF CleanerEnds, roomVars, connVars, loopVars, workerVars, cleanerVars, LoopIs,
      LoopIsIdle, stopped, NoQueue, IInv, TypeOK, CountIsExact, Acquired
  <1>26. CASE StopBegins
    BY <1>26 DEF StopBegins, roomVars, connVars, loopVars, workerVars, cleanerVars, LoopIs,
      LoopIsIdle, stopped, NoQueue, IInv, TypeOK, CountIsExact, Acquired
  <1>27. CASE StopFinishes
    BY <1>27 DEF StopFinishes, AllMembers, roomVars, connVars, loopVars, workerVars, cleanerVars,
      LoopIs, LoopIsIdle, stopped, NoQueue, IInv, TypeOK, CountIsExact, Acquired
  <1>28. CASE UNCHANGED vars
    BY <1>28 DEF vars, roomVars, connVars, loopVars, workerVars, cleanerVars, LoopIs, LoopIsIdle,
      stopped, NoQueue, IInv, TypeOK, CountIsExact, Acquired
  <1> QED BY <1>1, <1>2, <1>3, <1>4, <1>5, <1>6, <1>7, <1>8, <1>9, <1>10, <1>11, <1>12, <1>13,
      <1>14, <1>15, <1>16, <1>17, <1>18, <1>19, <1>20, <1>21, <1>22, <1>23, <1>24, <1>25, <1>26,
      <1>27, <1>28 DEF Next, Connection, RunLoop, RoomWorker, Cleaner

\* Queues and workers.
LEMMA QueueStep ==
    ASSUME IInv, [Next]_vars PROVE QueueHasWorker'
  <1>1. ASSUME NEW c \in Clients, Connect(c) PROVE QueueHasWorker'
    BY <1>1 DEF Connect, roomVars, connVars, loopVars, workerVars, cleanerVars, LoopIs, LoopIsIdle,
      stopped, NoQueue, IInv, TypeOK, Shape, LoopHoldsRoom, WorkerHasRoom, QueueHasWorker
  <1>2. ASSUME NEW c \in Clients, RegisterRefused(c) PROVE QueueHasWorker'
    BY <1>2 DEF RegisterRefused, roomVars, connVars, loopVars, workerVars, cleanerVars, LoopIs,
      LoopIsIdle, stopped, NoQueue, IInv, TypeOK, Shape, LoopHoldsRoom, WorkerHasRoom,
      QueueHasWorker
  <1>3. ASSUME NEW c \in Clients, Disconnect(c) PROVE QueueHasWorker'
    BY <1>3 DEF Disconnect, roomVars, connVars, loopVars, workerVars, cleanerVars, LoopIs,
      LoopIsIdle, stopped, NoQueue, IInv, TypeOK, Shape, LoopHoldsRoom, WorkerHasRoom,
      QueueHasWorker
  <1>4. ASSUME NEW c \in Clients, HandlerUnregisters(c) PROVE QueueHasWorker'
    BY <1>4 DEF HandlerUnregisters, UnregisterClient, roomVars, connVars, loopVars, workerVars,
      cleanerVars, LoopIs, LoopIsIdle, stopped, NoQueue, IInv, TypeOK, Shape, LoopHoldsRoom,
      WorkerHasRoom, QueueHasWorker
  <1>5. ASSUME NEW c \in Clients, HandlerLeaves(c) PROVE QueueHasWorker'
    BY <1>5 DEF HandlerLeaves, UnregisterClient, roomVars, connVars, loopVars, workerVars,
      cleanerVars, LoopIs, LoopIsIdle, stopped, NoQueue, IInv, TypeOK, Shape, LoopHoldsRoom,
      WorkerHasRoom, QueueHasWorker
  <1>6. ASSUME NEW c \in Clients, HandlerCloses(c) PROVE QueueHasWorker'
    BY <1>6 DEF HandlerCloses, roomVars, connVars, loopVars, workerVars, cleanerVars, LoopIs,
      LoopIsIdle, stopped, NoQueue, IInv, TypeOK, Shape, LoopHoldsRoom, WorkerHasRoom,
      QueueHasWorker
  <1>7. ASSUME NEW c \in Clients, PumpEnds(c) PROVE QueueHasWorker'
    BY <1>7 DEF PumpEnds, UnregisterClient, roomVars, connVars, loopVars, workerVars, cleanerVars,
      LoopIs, LoopIsIdle, stopped, NoQueue, IInv, TypeOK, Shape, LoopHoldsRoom, WorkerHasRoom,
      QueueHasWorker
  <1>8. ASSUME NEW r \in Rooms, BroadcastToRoom(r) PROVE QueueHasWorker'
    BY <1>8 DEF BroadcastToRoom, roomVars, connVars, loopVars, workerVars, cleanerVars, LoopIs,
      LoopIsIdle, stopped, NoQueue, IInv, TypeOK, Shape, LoopHoldsRoom, WorkerHasRoom,
      QueueHasWorker
  <1>9. ASSUME NEW c \in Clients, TakeRegister(c) PROVE QueueHasWorker'
    BY <1>9 DEF TakeRegister, roomVars, connVars, loopVars, workerVars, cleanerVars, LoopIs,
      LoopIsIdle, stopped, NoQueue, IInv, TypeOK, Shape, LoopHoldsRoom, WorkerHasRoom,
      QueueHasWorker
  <1>10. CASE AddClient
    BY <1>10 DEF AddClient, ForgetCaches, roomVars, connVars, loopVars, workerVars, cleanerVars,
      LoopIs, LoopIsIdle, stopped, NoQueue, IInv, TypeOK, Shape, LoopHoldsRoom, WorkerHasRoom,
      QueueHasWorker
  <1>11. ASSUME NEW c \in Clients, TakeUnregister(c) PROVE QueueHasWorker'
    BY <1>11 DEF TakeUnregister, ForgetCaches, DeleteRooms, Uncount, roomVars, connVars, loopVars,
      workerVars, cleanerVars, LoopIs, LoopIsIdle, stopped, NoQueue, IInv, TypeOK, Shape,
      LoopHoldsRoom, WorkerHasRoom, QueueHasWorker
  <1>12. CASE Announce
    BY <1>12 DEF Announce, roomVars, connVars, loopVars, workerVars, cleanerVars, LoopIs,
      LoopIsIdle, stopped, NoQueue, IInv, TypeOK, Shape, LoopHoldsRoom, WorkerHasRoom,
      QueueHasWorker
  <1>13. ASSUME NEW r \in Rooms, TakeBroadcast(r) PROVE QueueHasWorker'
    BY <1>13 DEF TakeBroadcast, roomVars, connVars, loopVars, workerVars, cleanerVars, LoopIs,
      LoopIsIdle, stopped, NoQueue, IInv, TypeOK, Shape, LoopHoldsRoom, WorkerHasRoom,
      QueueHasWorker
  <1>14. ASSUME NEW q \in Queues, CreateQueue(q) PROVE QueueHasWorker'
    BY <1>14 DEF CreateQueue, NewQueue, Queues, roomVars, connVars, loopVars, workerVars,
      cleanerVars, LoopIs, LoopIsIdle, stopped, NoQueue, IInv, TypeOK, Shape, LoopHoldsRoom,
      WorkerHasRoom, QueueHasWorker
  <1>15. CASE SendToQueue
    BY <1>15 DEF SendToQueue, roomVars, connVars, loopVars, workerVars, cleanerVars, LoopIs,
      LoopIsIdle, stopped, NoQueue, IInv, TypeOK, Shape, LoopHoldsRoom, WorkerHasRoom,
      QueueHasWorker
  <1>16. CASE LoopEnds
    BY <1>16 DEF LoopEnds, roomVars, connVars, loopVars, workerVars, cleanerVars, LoopIs,
      LoopIsIdle, stopped, NoQueue, IInv, TypeOK, Shape, LoopHoldsRoom, WorkerHasRoom,
      QueueHasWorker
  <1>17. ASSUME NEW q \in Queues, WorkerStarts(q) PROVE QueueHasWorker'
    BY <1>17 DEF WorkerStarts, roomVars, connVars, loopVars, workerVars, cleanerVars, LoopIs,
      LoopIsIdle, stopped, NoQueue, IInv, TypeOK, Shape, LoopHoldsRoom, WorkerHasRoom,
      QueueHasWorker
  <1>18. ASSUME NEW q \in Queues, WorkerTakes(q) PROVE QueueHasWorker'
    BY <1>18 DEF WorkerTakes, roomVars, connVars, loopVars, workerVars, cleanerVars, LoopIs,
      LoopIsIdle, stopped, NoQueue, IInv, TypeOK, Shape, LoopHoldsRoom, WorkerHasRoom,
      QueueHasWorker
  <1>19. ASSUME NEW q \in Queues, NEW c \in Clients, WorkerPasses(q, c) PROVE QueueHasWorker'
    BY <1>19 DEF WorkerPasses, roomVars, connVars, loopVars, workerVars, cleanerVars, LoopIs,
      LoopIsIdle, stopped, NoQueue, IInv, TypeOK, Shape, LoopHoldsRoom, WorkerHasRoom,
      QueueHasWorker
  <1>20. ASSUME NEW q \in Queues, NEW c \in Clients, WorkerRemoves(q, c) PROVE QueueHasWorker'
    BY <1>20 DEF WorkerRemoves, Uncount, roomVars, connVars, loopVars, workerVars, cleanerVars,
      LoopIs, LoopIsIdle, stopped, NoQueue, IInv, TypeOK, Shape, LoopHoldsRoom, WorkerHasRoom,
      QueueHasWorker
  <1>21. ASSUME NEW q \in Queues, WorkerFinishes(q) PROVE QueueHasWorker'
    BY <1>21 DEF WorkerFinishes, ForgetCaches, DeleteRooms, roomVars, connVars, loopVars,
      workerVars, cleanerVars, LoopIs, LoopIsIdle, stopped, NoQueue, IInv, TypeOK, Shape,
      LoopHoldsRoom, WorkerHasRoom, QueueHasWorker
  <1>22. ASSUME NEW q \in Queues, WorkerEnds(q) PROVE QueueHasWorker'
    BY <1>22 DEF WorkerEnds, roomVars, connVars, loopVars, workerVars, cleanerVars, LoopIs,
      LoopIsIdle, stopped, NoQueue, IInv, TypeOK, Shape, LoopHoldsRoom, WorkerHasRoom,
      QueueHasWorker
  <1>23. CASE CleanupCollects
    BY <1>23 DEF CleanupCollects, AllMembers, roomVars, connVars, loopVars, workerVars,
      cleanerVars, LoopIs, LoopIsIdle, stopped, NoQueue, IInv, TypeOK, Shape, LoopHoldsRoom,
      WorkerHasRoom, QueueHasWorker
  <1>24. CASE CleanupApplies
    BY <1>24 DEF CleanupApplies, ForgetCaches, DeleteRooms, AllMembers, roomVars, connVars,
      loopVars, workerVars, cleanerVars, LoopIs, LoopIsIdle, stopped, NoQueue, IInv, TypeOK, Shape,
      LoopHoldsRoom, WorkerHasRoom, QueueHasWorker
  <1>25. CASE CleanerEnds
    BY <1>25 DEF CleanerEnds, roomVars, connVars, loopVars, workerVars, cleanerVars, LoopIs,
      LoopIsIdle, stopped, NoQueue, IInv, TypeOK, Shape, LoopHoldsRoom, WorkerHasRoom,
      QueueHasWorker
  <1>26. CASE StopBegins
    BY <1>26 DEF StopBegins, roomVars, connVars, loopVars, workerVars, cleanerVars, LoopIs,
      LoopIsIdle, stopped, NoQueue, IInv, TypeOK, Shape, LoopHoldsRoom, WorkerHasRoom,
      QueueHasWorker
  <1>27. CASE StopFinishes
    BY <1>27 DEF StopFinishes, AllMembers, roomVars, connVars, loopVars, workerVars, cleanerVars,
      LoopIs, LoopIsIdle, stopped, NoQueue, IInv, TypeOK, Shape, LoopHoldsRoom, WorkerHasRoom,
      QueueHasWorker
  <1>28. CASE UNCHANGED vars
    BY <1>28 DEF vars, roomVars, connVars, loopVars, workerVars, cleanerVars, LoopIs, LoopIsIdle,
      stopped, NoQueue, IInv, TypeOK, Shape, LoopHoldsRoom, WorkerHasRoom, QueueHasWorker
  <1> QED BY <1>1, <1>2, <1>3, <1>4, <1>5, <1>6, <1>7, <1>8, <1>9, <1>10, <1>11, <1>12, <1>13,
      <1>14, <1>15, <1>16, <1>17, <1>18, <1>19, <1>20, <1>21, <1>22, <1>23, <1>24, <1>25, <1>26,
      <1>27, <1>28 DEF Next, Connection, RunLoop, RoomWorker, Cleaner

\* Slices and rooms.
LEMMA CacheStep ==
    ASSUME IInv, [Next]_vars PROVE CacheHasEveryMember'
  <1>1. ASSUME NEW c \in Clients, Connect(c) PROVE CacheHasEveryMember'
    BY <1>1 DEF Connect, roomVars, connVars, loopVars, workerVars, cleanerVars, LoopIs, LoopIsIdle,
      stopped, NoQueue, IInv, TypeOK, Shape, LoopHoldsRoom, AcquiredIsNew, WorkerHasRoom,
      CacheHasEveryMember
  <1>2. ASSUME NEW c \in Clients, RegisterRefused(c) PROVE CacheHasEveryMember'
    BY <1>2 DEF RegisterRefused, roomVars, connVars, loopVars, workerVars, cleanerVars, LoopIs,
      LoopIsIdle, stopped, NoQueue, IInv, TypeOK, Shape, LoopHoldsRoom, AcquiredIsNew,
      WorkerHasRoom, CacheHasEveryMember
  <1>3. ASSUME NEW c \in Clients, Disconnect(c) PROVE CacheHasEveryMember'
    BY <1>3 DEF Disconnect, roomVars, connVars, loopVars, workerVars, cleanerVars, LoopIs,
      LoopIsIdle, stopped, NoQueue, IInv, TypeOK, Shape, LoopHoldsRoom, AcquiredIsNew,
      WorkerHasRoom, CacheHasEveryMember
  <1>4. ASSUME NEW c \in Clients, HandlerUnregisters(c) PROVE CacheHasEveryMember'
    BY <1>4 DEF HandlerUnregisters, UnregisterClient, roomVars, connVars, loopVars, workerVars,
      cleanerVars, LoopIs, LoopIsIdle, stopped, NoQueue, IInv, TypeOK, Shape, LoopHoldsRoom,
      AcquiredIsNew, WorkerHasRoom, CacheHasEveryMember
  <1>5. ASSUME NEW c \in Clients, HandlerLeaves(c) PROVE CacheHasEveryMember'
    BY <1>5 DEF HandlerLeaves, UnregisterClient, roomVars, connVars, loopVars, workerVars,
      cleanerVars, LoopIs, LoopIsIdle, stopped, NoQueue, IInv, TypeOK, Shape, LoopHoldsRoom,
      AcquiredIsNew, WorkerHasRoom, CacheHasEveryMember
  <1>6. ASSUME NEW c \in Clients, HandlerCloses(c) PROVE CacheHasEveryMember'
    BY <1>6 DEF HandlerCloses, roomVars, connVars, loopVars, workerVars, cleanerVars, LoopIs,
      LoopIsIdle, stopped, NoQueue, IInv, TypeOK, Shape, LoopHoldsRoom, AcquiredIsNew,
      WorkerHasRoom, CacheHasEveryMember
  <1>7. ASSUME NEW c \in Clients, PumpEnds(c) PROVE CacheHasEveryMember'
    BY <1>7 DEF PumpEnds, UnregisterClient, roomVars, connVars, loopVars, workerVars, cleanerVars,
      LoopIs, LoopIsIdle, stopped, NoQueue, IInv, TypeOK, Shape, LoopHoldsRoom, AcquiredIsNew,
      WorkerHasRoom, CacheHasEveryMember
  <1>8. ASSUME NEW r \in Rooms, BroadcastToRoom(r) PROVE CacheHasEveryMember'
    BY <1>8 DEF BroadcastToRoom, roomVars, connVars, loopVars, workerVars, cleanerVars, LoopIs,
      LoopIsIdle, stopped, NoQueue, IInv, TypeOK, Shape, LoopHoldsRoom, AcquiredIsNew,
      WorkerHasRoom, CacheHasEveryMember
  <1>9. ASSUME NEW c \in Clients, TakeRegister(c) PROVE CacheHasEveryMember'
    BY <1>9 DEF TakeRegister, roomVars, connVars, loopVars, workerVars, cleanerVars, LoopIs,
      LoopIsIdle, stopped, NoQueue, IInv, TypeOK, Shape, LoopHoldsRoom, AcquiredIsNew,
      WorkerHasRoom, CacheHasEveryMember
  <1>10. CASE AddClient
    BY <1>10 DEF AddClient, ForgetCaches, roomVars, connVars, loopVars, workerVars, cleanerVars,
      LoopIs, LoopIsIdle, stopped, NoQueue, IInv, TypeOK, Shape, LoopHoldsRoom, AcquiredIsNew,
      WorkerHasRoom, CacheHasEveryMember
  <1>11. ASSUME NEW c \in Clients, TakeUnregister(c) PROVE CacheHasEveryMember'
    BY <1>11 DEF TakeUnregister, ForgetCaches, DeleteRooms, Uncount, roomVars, connVars, loopVars,
      workerVars, cleanerVars, LoopIs, LoopIsIdle, stopped, NoQueue, IInv, TypeOK, Shape,
      LoopHoldsRoom, AcquiredIsNew, WorkerHasRoom, CacheHasEveryMember
  <1>12. CASE Announce
    BY <1>12 DEF Announce, roomVars, connVars, loopVars, workerVars, cleanerVars, LoopIs,
      LoopIsIdle, stopped, NoQueue, IInv, TypeOK, Shape, LoopHoldsRoom, AcquiredIsNew,
      WorkerHasRoom, CacheHasEveryMember
  <1>13. ASSUME NEW r \in Rooms, TakeBroadcast(r) PROVE CacheHasEveryMember'
    BY <1>13 DEF TakeBroadcast, roomVars, connVars, loopVars, workerVars, cleanerVars, LoopIs,
      LoopIsIdle, stopped, NoQueue, IInv, TypeOK, Shape, LoopHoldsRoom, AcquiredIsNew,
      WorkerHasRoom, CacheHasEveryMember
  <1>14. ASSUME NEW q \in Queues, CreateQueue(q) PROVE CacheHasEveryMember'
    BY <1>14 DEF CreateQueue, NewQueue, Queues, roomVars, connVars, loopVars, workerVars,
      cleanerVars, LoopIs, LoopIsIdle, stopped, NoQueue, IInv, TypeOK, Shape, LoopHoldsRoom,
      AcquiredIsNew, WorkerHasRoom, CacheHasEveryMember
  <1>15. CASE SendToQueue
    BY <1>15 DEF SendToQueue, roomVars, connVars, loopVars, workerVars, cleanerVars, LoopIs,
      LoopIsIdle, stopped, NoQueue, IInv, TypeOK, Shape, LoopHoldsRoom, AcquiredIsNew,
      WorkerHasRoom, CacheHasEveryMember
  <1>16. CASE LoopEnds
    BY <1>16 DEF LoopEnds, roomVars, connVars, loopVars, workerVars, cleanerVars, LoopIs,
      LoopIsIdle, stopped, NoQueue, IInv, TypeOK, Shape, LoopHoldsRoom, AcquiredIsNew,
      WorkerHasRoom, CacheHasEveryMember
  <1>17. ASSUME NEW q \in Queues, WorkerStarts(q) PROVE CacheHasEveryMember'
    BY <1>17 DEF WorkerStarts, roomVars, connVars, loopVars, workerVars, cleanerVars, LoopIs,
      LoopIsIdle, stopped, NoQueue, IInv, TypeOK, Shape, LoopHoldsRoom, AcquiredIsNew,
      WorkerHasRoom, CacheHasEveryMember
  <1>18. ASSUME NEW q \in Queues, WorkerTakes(q) PROVE CacheHasEveryMember'
    BY <1>18 DEF WorkerTakes, roomVars, connVars, loopVars, workerVars, cleanerVars, LoopIs,
      LoopIsIdle, stopped, NoQueue, IInv, TypeOK, Shape, LoopHoldsRoom, AcquiredIsNew,
      WorkerHasRoom, CacheHasEveryMember
  <1>19. ASSUME NEW q \in Queues, NEW c \in Clients, WorkerPasses(q, c) PROVE CacheHasEveryMember'
    BY <1>19 DEF WorkerPasses, roomVars, connVars, loopVars, workerVars, cleanerVars, LoopIs,
      LoopIsIdle, stopped, NoQueue, IInv, TypeOK, Shape, LoopHoldsRoom, AcquiredIsNew,
      WorkerHasRoom, CacheHasEveryMember
  <1>20. ASSUME NEW q \in Queues, NEW c \in Clients, WorkerRemoves(q, c) PROVE CacheHasEveryMember'
    BY <1>20 DEF WorkerRemoves, Uncount, roomVars, connVars, loopVars, workerVars, cleanerVars,
      LoopIs, LoopIsIdle, stopped, NoQueue, IInv, TypeOK, Shape, LoopHoldsRoom, AcquiredIsNew,
      WorkerHasRoom, CacheHasEveryMember
  <1>21. ASSUME NEW q \in Queues, WorkerFinishes(q) PROVE CacheHasEveryMember'
    BY <1>21 DEF WorkerFinishes, ForgetCaches, DeleteRooms, roomVars, connVars, loopVars,
      workerVars, cleanerVars, LoopIs, LoopIsIdle, stopped, NoQueue, IInv, TypeOK, Shape,
      LoopHoldsRoom, AcquiredIsNew, WorkerHasRoom, CacheHasEveryMember
  <1>22. ASSUME NEW q \in Queues, WorkerEnds(q) PROVE CacheHasEveryMember'
    BY <1>22 DEF WorkerEnds, roomVars, connVars, loopVars, workerVars, cleanerVars, LoopIs,
      LoopIsIdle, stopped, NoQueue, IInv, TypeOK, Shape, LoopHoldsRoom, AcquiredIsNew,
      WorkerHasRoom, CacheHasEveryMember
  <1>23. CASE CleanupCollects
    BY <1>23 DEF CleanupCollects, AllMembers, roomVars, connVars, loopVars, workerVars,
      cleanerVars, LoopIs, LoopIsIdle, stopped, NoQueue, IInv, TypeOK, Shape, LoopHoldsRoom,
      AcquiredIsNew, WorkerHasRoom, CacheHasEveryMember
  <1>24. CASE CleanupApplies
    BY <1>24 DEF CleanupApplies, ForgetCaches, DeleteRooms, AllMembers, roomVars, connVars,
      loopVars, workerVars, cleanerVars, LoopIs, LoopIsIdle, stopped, NoQueue, IInv, TypeOK, Shape,
      LoopHoldsRoom, AcquiredIsNew, WorkerHasRoom, CacheHasEveryMember
  <1>25. CASE CleanerEnds
    BY <1>25 DEF CleanerEnds, roomVars, connVars, loopVars, workerVars, cleanerVars, LoopIs,
      LoopIsIdle, stopped, NoQueue, IInv, TypeOK, Shape, LoopHoldsRoom, AcquiredIsNew,
      WorkerHasRoom, CacheHasEveryMember
  <1>26. CASE StopBegins
    BY <1>26 DEF StopBegins, roomVars, connVars, loopVars, workerVars, cleanerVars, LoopIs,
      LoopIsIdle, stopped, NoQueue, IInv, TypeOK, Shape, LoopHoldsRoom, AcquiredIsNew,
      WorkerHasRoom, CacheHasEveryMember
  <1>27. CASE StopFinishes
    BY <1>27 DEF StopFinishes, AllMembers, roomVars, connVars, loopVars, workerVars, cleanerVars,
      LoopIs, LoopIsIdle, stopped, NoQueue, IInv, TypeOK, Shape, LoopHoldsRoom, AcquiredIsNew,
      WorkerHasRoom, CacheHasEveryMember
  <1>28. CASE UNCHANGED vars
    BY <1>28 DEF vars, roomVars, connVars, loopVars, workerVars, cleanerVars, LoopIs, LoopIsIdle,
      stopped, NoQueue, IInv, TypeOK, Shape, LoopHoldsRoom, AcquiredIsNew, WorkerHasRoom,
      CacheHasEveryMember
  <1> QED BY <1>1, <1>2, <1>3, <1>4, <1>5, <1>6, <1>7, <1>8, <1>9, <1>10, <1>11, <1>12, <1>13,
      <1>14, <1>15, <1>16, <1>17, <1>18, <1>19, <1>20, <1>21, <1>22, <1>23, <1>24, <1>25, <1>26,
      <1>27, <1>28 DEF Next, Connection, RunLoop, RoomWorker, Cleaner

LEMMA InitIInv == Init => IInv
  <1> SUFFICES ASSUME Init PROVE IInv
    OBVIOUS
  <1>1. TypeOK
    BY DEF Init, TypeOK, NoQueue
  <1>2. Shape
    BY DEF Init, Shape, RegisteredHasConnected, AcquiredIsNew, LoopHoldsRoom, WorkerHasRoom,
      OwnRoom,
       RestingHasNoTodo, Acquired
  <1>3. CountIsExact
    BY FS_EmptySet DEF Init, CountIsExact, Acquired
  <1>4. QueueHasWorker /\ CacheHasEveryMember
    BY DEF Init, QueueHasWorker, CacheHasEveryMember
  <1> QED BY <1>1, <1>2, <1>3, <1>4 DEF IInv

\* The inductive invariant.
THEOREM Invariance == Spec => []IInv
  <1>1. IInv /\ [Next]_vars => IInv'
    <2> SUFFICES ASSUME IInv, [Next]_vars PROVE IInv'
      OBVIOUS
    <2> QED BY TypeStep, ShapeStep, CountStep, QueueStep, CacheStep DEF IInv
  <1> QED BY InitIInv, <1>1, PTL DEF Spec

\* Every variable keeps its type (room_hub.go).
THEOREM TypeCorrect == Spec => []TypeOK
  <1>1. IInv => TypeOK
    BY DEF IInv
  <1> QED BY Invariance, <1>1, PTL

\* The counter of connections is exact and bounded, for any number of
\* connections, workers and cleanups (room_hub.go:149-182, 238-258, 460-466).
THEOREM CountCorrect == Spec => []CountIsExact
  <1>1. IInv => CountIsExact
    BY DEF IInv
  <1> QED BY Invariance, <1>1, PTL

\* No message is put in a queue that nobody reads (room_hub.go:269-311).
THEOREM QueueCorrect == Spec => []QueueHasWorker
  <1>1. IInv => QueueHasWorker
    BY DEF IInv
  <1> QED BY Invariance, <1>1, PTL

\* The cached slice of a room has every member (room_hub.go:363-451).
THEOREM CacheCorrect == Spec => []CacheHasEveryMember
  <1>1. IInv => CacheHasEveryMember
    BY DEF IInv
  <1> QED BY Invariance, <1>1, PTL

-----------------------------------------------------------------------------
(***************************************************************************)
(* The run loop always finds a place for the queue it is about to make:    *)
(* every queue was made for a message of its own, and MaxWorkers is not    *)
(* below the number of messages.  The bound of the model therefore never   *)
(* stops a step that the code would take, and the loop, which every send   *)
(* of its own lets pass, is never what keeps Stop waiting.                 *)
(***************************************************************************)

Made == {q \in Queues : workerAt[q] # "none"}

Creating == IF loopAt = "create" THEN 1 ELSE 0

\* A message is either waiting, or the one a queue is being made for, or has
\* been taken, with a queue made for it at most.
MadeForMessages == Cardinality(Made) + Len(broadcast) + Creating <= sent

LEMMA MadeIsFinite == IsFiniteSet(Made) /\ Cardinality(Made) \in Nat
  <1>1. IsFiniteSet(Queues)
    BY FS_Interval DEF Queues
  <1>2. IsFiniteSet(Made)
    BY <1>1, FS_Subset DEF Made
  <1> QED BY <1>2, FS_CardinalityType

\* A step that makes no queue and touches no message.
LEMMA MadeUnchanged ==
    ASSUME TypeOK, MadeForMessages,
           UNCHANGED <<broadcast, sent>>, loopAt' # "create" \/ loopAt' = loopAt,
           \A q \in Queues : workerAt'[q] = "none" <=> workerAt[q] = "none"
    PROVE  MadeForMessages'
  <1>1. Made' = Made
    BY DEF Made
  <1>2. Creating' <= Creating /\ Creating \in Nat /\ Creating' \in Nat
    BY DEF Creating
  <1>3. Len(broadcast) \in Nat /\ sent \in Nat
    BY DEF TypeOK
  <1> QED BY <1>1, <1>2, <1>3, MadeIsFinite DEF MadeForMessages

LEMMA MadeStep ==
    ASSUME IInv, MadeForMessages, [Next]_vars PROVE MadeForMessages'
  <1> USE DEF IInv
  <1>0. /\ TypeOK /\ Len(broadcast) \in Nat /\ sent \in Nat /\ Creating \in Nat
        /\ workerAt \in [Queues -> {"none", "starting", "select", "visiting", "gone"}]
    BY DEF TypeOK, Creating
  <1>1. ASSUME NEW r \in Rooms, BroadcastToRoom(r) PROVE MadeForMessages'
    <2>1. sent' = sent + 1 /\ Len(broadcast') = Len(broadcast) + 1
      BY <1>1 DEF BroadcastToRoom, TypeOK
    <2>2. Made' = Made /\ Creating' = Creating
      BY <1>1 DEF BroadcastToRoom, Made, Creating, workerVars, loopVars
    <2> QED BY <1>0, <2>1, <2>2, MadeIsFinite DEF MadeForMessages
  <1>2. ASSUME NEW r \in Rooms, TakeBroadcast(r) PROVE MadeForMessages'
    <2>1. broadcast \in Seq(Rooms) /\ broadcast # <<>> /\ broadcast' = Tail(broadcast)
      BY <1>2 DEF TakeBroadcast, TypeOK
    <2>2. Len(broadcast') = Len(broadcast) - 1
      BY <2>1
    <2>3. Made' = Made /\ sent' = sent /\ Creating = 0
      BY <1>2 DEF TakeBroadcast, Made, Creating, workerVars
    <2>4. Creating' \in 0 .. 1
      BY DEF Creating
    <2> QED BY <1>0, <2>2, <2>3, <2>4, MadeIsFinite DEF MadeForMessages
  <1>3. ASSUME NEW q \in Queues, CreateQueue(q) PROVE MadeForMessages'
    <2>1. loopAt = "create" /\ workerAt[q] = "none" /\ loopAt' # "create"
          /\ UNCHANGED <<broadcast, sent>>
      BY <1>3 DEF CreateQueue, NewQueue, LoopIsIdle, LoopIs
    <2>2. CASE workerAt' = workerAt
      BY <1>0, <2>1, <2>2, MadeUnchanged
    <2>3. CASE workerAt' = [workerAt EXCEPT ![q] = "starting"]
      <3>1. Made' = Made \cup {q} /\ q \notin Made
        BY <1>0, <2>1, <2>3 DEF Made
      <3>2. Cardinality(Made') = Cardinality(Made) + 1
        BY <3>1, MadeIsFinite, FS_AddElement
      <3>3. Creating = 1 /\ Creating' = 0
        BY <2>1 DEF Creating
      <3> QED BY <1>0, <2>1, <3>2, <3>3, MadeIsFinite DEF MadeForMessages
    <2> QED BY <1>3, <2>2, <2>3 DEF CreateQueue, NewQueue
  <1>4. ASSUME NEW c \in Clients, Connection(c) PROVE MadeForMessages'
    BY <1>0, <1>4, MadeUnchanged DEF Connection, Connect, RegisterRefused, Disconnect,
       HandlerUnregisters, HandlerLeaves, HandlerCloses, PumpEnds, workerVars, loopVars
  <1>5. ASSUME NEW c \in Clients, TakeRegister(c) \/ TakeUnregister(c) PROVE MadeForMessages'
    BY <1>0, <1>5, MadeUnchanged DEF TakeRegister, TakeUnregister, LoopIs, workerVars, loopVars
  <1>6. CASE AddClient \/ Announce \/ SendToQueue \/ LoopEnds
    BY <1>0, <1>6, MadeUnchanged DEF AddClient, Announce, SendToQueue, LoopEnds, LoopIsIdle, LoopIs,
       workerVars
  <1>7. ASSUME NEW q \in Queues, RoomWorker(q) PROVE MadeForMessages'
    <2>1. /\ workerAt' = workerAt
             \/ /\ workerAt[q] # "none"
                /\ \E s \in {"select", "gone", "visiting"} : workerAt' = [workerAt EXCEPT ![q] = s]
          /\ UNCHANGED <<broadcast, sent, loopAt>>
      BY <1>7 DEF RoomWorker, WorkerStarts, WorkerTakes, WorkerFinishes, WorkerEnds, WorkerPasses,
         WorkerRemoves, loopVars
    <2>2. \A p \in Queues : workerAt'[p] = "none" <=> workerAt[p] = "none"
      BY <1>0, <2>1
    <2> QED BY <1>0, <2>1, <2>2, MadeUnchanged
  <1>8. CASE Cleaner \/ StopBegins \/ StopFinishes
    BY <1>0, <1>8, MadeUnchanged DEF Cleaner, CleanupCollects, CleanupApplies, CleanerEnds, StopBegins,
       StopFinishes, workerVars, loopVars
  <1>9. CASE UNCHANGED vars
    BY <1>0, <1>9, MadeUnchanged DEF vars
  <1> QED BY <1>1, <1>2, <1>3, <1>4, <1>5, <1>6, <1>7, <1>8, <1>9 DEF Next, RunLoop

\* No queue is made but for a message (room_hub.go:269-305).
THEOREM QueuesAreForMessages == Spec => []MadeForMessages
  <1>1. Init => MadeForMessages
    <2> SUFFICES ASSUME Init PROVE MadeForMessages
      OBVIOUS
    <2>1. Made = {} /\ Len(broadcast) = 0 /\ Creating = 0 /\ sent = 0
      BY DEF Init, Made, Creating
    <2> QED BY <2>1, FS_EmptySet DEF MadeForMessages
  <1> QED BY <1>1, MadeStep, Invariance, PTL DEF Spec

\* What the run loop needs for its next step, wherever it is: only the making
\* of a queue needs anything.
LoopCanGoOn == loopAt = "create" => \E q \in Queues : workerAt[q] = "none"

\* The goroutines Stop waits for, as their guards are: where none can go on,
\* all have ended and Stop returns.  This is StopIsNotStuck with the guards in
\* the place of ENABLED, for every number of rooms, workers and clients.
StopCanGoOn ==
    stopping = "waiting" =>
        \/ loopAt # "gone" /\ LoopCanGoOn
        \/ cleanerAt = "applying"
        \/ cleanerAt = "waiting" /\ stopped
        \/ \E q \in Queues :
              \/ workerAt[q] = "starting"
              \/ workerAt[q] = "select" /\ stopped
              \/ workerAt[q] = "visiting" /\ todo[q] = {}
              \/ workerAt[q] = "visiting" /\ \E c \in Clients :
                    c \in todo[q] /\ (c \notin closed \/ workerRoom[q] \notin exists)
              \/ workerAt[q] = "visiting" /\ \E c \in Clients :
                    c \in todo[q] \cap closed /\ workerRoom[q] \in exists
        \/ /\ loopAt = "gone" /\ cleanerAt = "gone"
           /\ \A q \in Queues : workerAt[q] \in {"none", "gone"}

\* There is always a place for the queue the run loop is about to make.
THEOREM LoopNeverWaits == Spec => []LoopCanGoOn
  <1>1. TypeOK /\ MadeForMessages => LoopCanGoOn
    <2> SUFFICES ASSUME TypeOK, MadeForMessages, loopAt = "create",
                        \A q \in Queues : workerAt[q] # "none"
                 PROVE  FALSE
      BY DEF LoopCanGoOn
    <2>1. Made = 1 .. MaxWorkers
      BY DEF Made, Queues
    <2>2. Cardinality(Made) = MaxWorkers
      BY <2>1, FS_Interval
    <2>3. Len(broadcast) \in Nat /\ Creating = 1 /\ sent <= MaxBroadcasts /\ sent \in Nat
      BY DEF TypeOK, Creating
    <2> QED BY <2>2, <2>3 DEF MadeForMessages
  <1> QED BY <1>1, TypeCorrect, QueuesAreForMessages, PTL

\* Stop cannot hang (room_hub.go:480-513).
THEOREM StopNeverHangs == Spec => []StopCanGoOn
  <1>1. TypeOK /\ LoopCanGoOn => StopCanGoOn
    BY DEF TypeOK, StopCanGoOn, stopped
  <1> QED BY <1>1, TypeCorrect, LoopNeverWaits, PTL

-----------------------------------------------------------------------------
(* The places of the connections that have left. *)

Waits(c) == \E i \in DOMAIN unreg : unreg[i] = c

Held == registered \cup Acquired

Left == {"leaving", "ended"}

LEMMA WaitsAppended ==
    ASSUME unreg \in Seq(Clients), NEW c \in Clients, unreg' = Append(unreg, c)
    PROVE  Waits(c)' /\ \A d \in Clients : Waits(d) => Waits(d)'
  <1>1. /\ Len(unreg') = Len(unreg) + 1 /\ unreg'[Len(unreg) + 1] = c
        /\ \A i \in 1 .. Len(unreg) : unreg'[i] = unreg[i]
        /\ DOMAIN unreg = 1 .. Len(unreg) /\ DOMAIN unreg' = 1 .. (Len(unreg) + 1)
        /\ Len(unreg) \in Nat
    OBVIOUS
  <1>2. Waits(c)'
    BY <1>1 DEF Waits
  <1>3. ASSUME NEW d \in Clients, Waits(d) PROVE Waits(d)'
    BY <1>1, <1>3 DEF Waits
  <1> QED BY <1>2, <1>3

LEMMA WaitsTaken ==
    ASSUME unreg \in Seq(Clients), unreg # <<>>, unreg' = Tail(unreg),
           NEW d \in Clients, d # Head(unreg), Waits(d)
    PROVE  Waits(d)'
  <1>1. PICK i \in 1 .. Len(unreg) : unreg[i] = d
    BY DEF Waits
  <1>2. i # 1 /\ Len(unreg) \in Nat /\ Head(unreg) = unreg[1]
    BY <1>1
  <1>3. i - 1 \in 1 .. (Len(unreg) - 1)
    BY <1>1, <1>2
  <1>4. DOMAIN unreg' = 1 .. (Len(unreg) - 1) /\ \A j \in 1 .. (Len(unreg) - 1) : unreg'[j] = unreg[j + 1]
    OBVIOUS
  <1>5. unreg'[i - 1] = d
    BY <1>1, <1>3, <1>4
  <1> QED BY <1>3, <1>4, <1>5 DEF Waits

\* Nobody new holds a place, nobody leaves, and nobody stops waiting who holds
\* one.
LEMMA PlacesQuiet ==
    ASSUME PlacesAreGivenBack, stopped => stopped', Held' \subseteq Held,
           \A c \in Held' : conn'[c] \in Left => conn[c] \in Left,
           \A c \in Held' : Waits(c) => Waits(c)'
    PROVE  PlacesAreGivenBack'
  BY DEF PlacesAreGivenBack, Held, Left, Waits

LEMMA PlacesUnregister ==
    ASSUME IInv, PlacesAreGivenBack, NEW c \in Clients, UnregisterClient(c),
           UNCHANGED <<registered, loopVars, stopping>>,
           \A d \in Clients \ {c} : conn'[d] = conn[d]
    PROVE  PlacesAreGivenBack'
  <1> USE DEF IInv, TypeOK
  <1>1. Held' = Held /\ Held \subseteq Clients /\ (stopped' <=> stopped)
    BY DEF Held, Acquired, loopVars, stopped, Shape, AcquiredIsNew
  <1>2. CASE unreg' = Append(unreg, c)
    BY <1>1, <1>2, WaitsAppended DEF PlacesAreGivenBack, Held, Waits
  <1>3. CASE stopped
    BY <1>1, <1>3 DEF PlacesAreGivenBack
  <1> QED BY <1>2, <1>3 DEF UnregisterClient

LEMMA PlacesStep ==
    ASSUME IInv, PlacesAreGivenBack, [Next]_vars PROVE PlacesAreGivenBack'
  <1> USE DEF IInv, TypeOK, Left
  <1>0. Held \subseteq Clients
    BY DEF Held, Acquired, Shape, AcquiredIsNew
  <1>1. ASSUME NEW c \in Clients, Connect(c) \/ RegisterRefused(c) PROVE PlacesAreGivenBack'
    BY <1>0, <1>1, PlacesQuiet DEF Connect, RegisterRefused, loopVars, stopped, Held, Acquired, Waits
  <1>2. ASSUME NEW c \in Clients, Disconnect(c) PROVE PlacesAreGivenBack'
    BY <1>2, PlacesQuiet DEF Disconnect, connVars, loopVars, stopped, Held, Acquired, Waits
  <1>3. ASSUME NEW c \in Clients, HandlerCloses(c) PROVE PlacesAreGivenBack'
    BY <1>0, <1>3, PlacesQuiet DEF HandlerCloses, loopVars, stopped, Held, Acquired, Waits
  <1>4. ASSUME NEW c \in Clients, HandlerUnregisters(c) \/ HandlerLeaves(c) PROVE PlacesAreGivenBack'
    BY <1>4, PlacesUnregister DEF HandlerUnregisters, HandlerLeaves
  <1>5. ASSUME NEW c \in Clients, PumpEnds(c) PROVE PlacesAreGivenBack'
    <2>1. CASE UnregisterClient(c)
      BY <1>5, <2>1, PlacesUnregister DEF PumpEnds
    <2>2. CASE UNCHANGED unreg
      BY <1>5, <2>2, PlacesQuiet DEF PumpEnds, loopVars, stopped, Held, Acquired, Waits
    <2> QED BY <1>5, <2>1, <2>2 DEF PumpEnds
  <1>6. ASSUME NEW c \in Clients, TakeRegister(c) PROVE PlacesAreGivenBack'
    <2>1. /\ Held' \subseteq Held \cup {c} /\ conn'[c] = "open"
          /\ \A d \in Clients \ {c} : conn'[d] = conn[d]
          /\ UNCHANGED <<unreg, stopping>>
      BY <1>6 DEF TakeRegister, LoopIs, loopVars, Held, Acquired
    <2> QED BY <1>0, <2>1 DEF PlacesAreGivenBack, Held, stopped
  <1>7. CASE AddClient
    <2>1. Held' = Held /\ UNCHANGED <<conn, unreg, stopping>>
      BY <1>7 DEF AddClient, LoopIs, Held, Acquired
    <2> QED BY <2>1 DEF PlacesAreGivenBack, Held, stopped
  <1>8. ASSUME NEW c \in Clients, TakeUnregister(c) PROVE PlacesAreGivenBack'
    <2>1. /\ Held' = registered \ {c}
          /\ c = Head(unreg) /\ unreg # <<>> /\ unreg' = Tail(unreg)
          /\ UNCHANGED <<conn, stopping>>
      BY <1>8 DEF TakeUnregister, Uncount, LoopIs, loopVars, connVars, Held, Acquired
    <2>2. ASSUME NEW d \in Held', Waits(d) PROVE Waits(d)'
      BY <2>1, <2>2, WaitsTaken
    <2>3. Held' \subseteq Held /\ (stopped => stopped')
      BY <2>1 DEF Held, stopped
    <2> QED BY <2>1, <2>2, <2>3, PlacesQuiet
  <1>9. ASSUME NEW r \in Rooms, BroadcastToRoom(r) \/ TakeBroadcast(r) PROVE PlacesAreGivenBack'
    BY <1>9, PlacesQuiet DEF BroadcastToRoom, TakeBroadcast, LoopIs, LoopIsIdle, connVars, loopVars, stopped, Held, Acquired, Waits
  <1>10. CASE Announce \/ SendToQueue \/ LoopEnds \/ \E q \in Queues : CreateQueue(q)
    BY <1>10, PlacesQuiet DEF Announce, SendToQueue, LoopEnds, CreateQueue, NewQueue, LoopIs, LoopIsIdle, connVars, stopped, Held, Acquired, Waits
  <1>11. ASSUME NEW q \in Queues, RoomWorker(q) PROVE PlacesAreGivenBack'
    <2>1. UNCHANGED <<connVars, unreg, loopVars, stopping>> /\ registered' \subseteq registered
      BY <1>11 DEF RoomWorker, WorkerStarts, WorkerTakes, WorkerFinishes, WorkerEnds, WorkerPasses, WorkerRemoves, Uncount
    <2> QED BY <2>1, PlacesQuiet DEF connVars, loopVars, stopped, Held, Acquired, Waits
  <1>12. CASE Cleaner \/ StopBegins \/ StopFinishes
    BY <1>12, PlacesQuiet DEF Cleaner, CleanupCollects, CleanupApplies, CleanerEnds, StopBegins, StopFinishes, connVars, loopVars, stopped, Held, Acquired, Waits
  <1>13. CASE UNCHANGED vars
    BY <1>13, PlacesQuiet DEF vars, stopped, Held, Acquired, Waits
  <1> QED BY <1>1, <1>2, <1>3, <1>4, <1>5, <1>6, <1>7, <1>8, <1>9, <1>10, <1>11, <1>12, <1>13
          DEF Next, Connection, RunLoop

\* No place is lost with the handler of its connection (room_hub.go:238-246,
\* 526-532; RoomHub.PlacesAreGivenBack).
THEOREM PlacesCorrect == Spec => []PlacesAreGivenBack
  <1>1. Init => PlacesAreGivenBack
    BY DEF Init, PlacesAreGivenBack, Acquired
  <1> QED BY <1>1, PlacesStep, Invariance, PTL DEF Spec

=============================================================================
