--------------------------- MODULE SnapshotProofs ---------------------------
(***************************************************************************)
(* The two halves of the monitoring snapshot, proved for any number of     *)
(* games, timers, goroutines and changes: the dispatcher, which decides    *)
(* when a snapshot is recomputed, and the cache in front of it.            *)
(*                                                                         *)
(* Dispatcher.  PendingIsCovered is not inductive by itself: an outdated   *)
(* flush must be known not to be the one that covers a game, and stopping  *)
(* a timer must be known not to stop another game's.                       *)
(*                                                                         *)
(* Cache.  Neither property is inductive.  An entry may be written because *)
(* its computation is in its epoch still and was not older than the last   *)
(* invalidation from the moment it had loaded (FreshInEpoch), which holds  *)
(* at that moment because no invalidation is about a version the database  *)
(* does not have yet (Bounds).  A process that joins a call finds it       *)
(* computing because the group never names a call that is over             *)
(* (RegisteredIsLive).  CurrentStays is kept by each step: all places an   *)
(* old version could come from are named in Current.                       *)
(***************************************************************************)
EXTENDS SnapshotDispatcher, MonitorSnapshot, TLAPS

-----------------------------------------------------------------------------
(* The dispatcher.                                                         *)

\* Ids are used again, but never while a timer that holds them is alive.
IdsUnique == \A t, u \in Live : t.id = u.id => t = u

\* A map entry names a live timer of its game that captured the game's version,
\* and the two maps have the same keys.
EntryNamesLiveTimer ==
    \A g \in Games :
        /\ timers[g] # NoTimer =>
              \E t \in Live : t.id = timers[g] /\ t.game = g /\ t.version = versions[g]
        /\ timers[g] = NoTimer <=> versions[g] = 0

DirtyHasEntry == ~closed => \A g \in Games : dirty[g] => timers[g] # NoTimer

\* Close drops the maps and nothing fills them again.
ClosedIsEmpty == closed => \A g \in Games : timers[g] = NoTimer

DispatcherInv ==
    /\ DispatcherTypeOK
    /\ IdsUnique
    /\ EntryNamesLiveTimer
    /\ DirtyHasEntry
    /\ ClosedIsEmpty

-----------------------------------------------------------------------------

LEMMA InitDispatcherInv == DispatcherInit => DispatcherInv
<1> SUFFICES ASSUME DispatcherInit PROVE DispatcherInv
    OBVIOUS
<1> USE MaxTimersAssumption, MaxVersionAssumption DEF DispatcherInit, NoTimer
<1>1. DispatcherTypeOK
  <2>1. timers \in [Games -> TimerIds \cup {NoTimer}] /\ versions \in [Games -> 0 .. MaxVersion]
      OBVIOUS
  <2>2. armed \subseteq Timer /\ fired \subseteq Timer
      OBVIOUS
  <2>3. closed \in BOOLEAN /\ dirty \in [Games -> BOOLEAN]
      BY Zenon
  <2>4. QED
      BY <2>1, <2>2, <2>3 DEF DispatcherTypeOK
<1>2. Live = {}
    BY DEF Live
<1>3. IdsUnique
    BY <1>2 DEF IdsUnique
<1>4. EntryNamesLiveTimer /\ DirtyHasEntry /\ ClosedIsEmpty
    BY DEF EntryNamesLiveTimer, DirtyHasEntry, ClosedIsEmpty
<1>5. QED
    BY <1>1, <1>3, <1>4 DEF DispatcherInv

LEMMA DispatcherInvImpliesPendingIsCovered == DispatcherInv => PendingIsCovered
  BY DEF DispatcherInv, DirtyHasEntry, EntryNamesLiveTimer, PendingIsCovered, Live

\* The next version is a version, and never that of a missing entry.
LEMMA NextVersionIsVersion ==
    ASSUME DispatcherTypeOK, NEW g \in Games PROVE NextVersion(g) \in 1 .. MaxVersion
  BY MaxVersionAssumption DEF DispatcherTypeOK, NextVersion

\* Every step keeps the types.
LEMMA StepDispatcherTypeOK == DispatcherInv /\ [DispatcherNext]_dispatcherVars => DispatcherTypeOK'
<1> SUFFICES ASSUME DispatcherInv, [DispatcherNext]_dispatcherVars PROVE DispatcherTypeOK'
    OBVIOUS
<1> USE MaxTimersAssumption, MaxVersionAssumption DEF DispatcherInv, DispatcherTypeOK, NoTimer
<1>1. ASSUME NEW g \in Games, NEW id \in TimerIds, Schedule(g, id) PROVE DispatcherTypeOK'
    BY <1>1, NextVersionIsVersion DEF Schedule, Timer, CapturedVersion
<1>2. ASSUME NEW t \in armed, Fire(t) PROVE DispatcherTypeOK'
    BY <1>2 DEF Fire
<1>3. ASSUME NEW t \in fired, FlushCurrent(t) PROVE DispatcherTypeOK'
    BY <1>3 DEF FlushCurrent, Timer
<1>4. ASSUME NEW t \in fired, FlushOutdated(t) PROVE DispatcherTypeOK'
    BY <1>4 DEF FlushOutdated
<1>5. CASE Close
    BY <1>5 DEF Close
<1>6. CASE UNCHANGED dispatcherVars
    BY <1>6 DEF dispatcherVars
<1>7. QED
    BY <1>1, <1>2, <1>3, <1>4, <1>5, <1>6 DEF DispatcherNext, Flush

\* Every step keeps the rest of the invariant.
LEMMA StepDispatcherInv == DispatcherInv /\ [DispatcherNext]_dispatcherVars => DispatcherInv'
<1> SUFFICES ASSUME DispatcherInv, [DispatcherNext]_dispatcherVars PROVE DispatcherInv'
    OBVIOUS
<1>0. DispatcherTypeOK'
    BY StepDispatcherTypeOK
<1> USE MaxTimersAssumption, MaxVersionAssumption DEF DispatcherInv, NoTimer
<1>1. ASSUME NEW g \in Games, NEW id \in TimerIds, Schedule(g, id) PROVE DispatcherInv'
  <2> DEFINE new == [id |-> id, game |-> g, version |-> NextVersion(g)]
  <2>1. Live' = ({t \in armed : t.id # timers[g]} \cup fired) \cup {new}
      BY <1>1 DEF Schedule, CapturedVersion, Live
  <2>2. Live' \subseteq Live \cup {new} /\ new \in Live'
      BY <2>1 DEF Live
  <2>3. \A t \in Live : t.id # new.id
      BY <1>1 DEF Schedule, NewId, FreeIds
  <2>4. IdsUnique'
      BY <2>2, <2>3 DEF IdsUnique
  <2>5. EntryNamesLiveTimer'
    <3> SUFFICES ASSUME NEW h \in Games
                 PROVE  /\ timers'[h] # NoTimer =>
                             \E t \in Live' : /\ t.id = timers'[h]
                                              /\ t.game = h
                                              /\ t.version = versions'[h]
                        /\ timers'[h] = NoTimer <=> versions'[h] = 0
        BY DEF EntryNamesLiveTimer
    <3>1. CASE h = g
      <4>1. timers'[h] = id /\ id \in TimerIds /\ versions'[h] = NextVersion(g)
          BY <1>1, <3>1 DEF Schedule, DispatcherTypeOK
      <4>2. timers'[h] # NoTimer /\ versions'[h] # 0
          BY <4>1, NextVersionIsVersion DEF TimerIds
      <4>3. QED
          BY <2>2, <3>1, <4>1, <4>2
    <3>2. CASE h # g
      <4>1. timers'[h] = timers[h] /\ versions'[h] = versions[h]
          BY <1>1, <3>2 DEF Schedule, DispatcherTypeOK
      <4>2. ASSUME timers[h] # NoTimer
            PROVE  \E t \in Live' : t.id = timers[h] /\ t.game = h /\ t.version = versions[h]
        <5>1. PICK t \in Live : t.id = timers[h] /\ t.game = h /\ t.version = versions[h]
            BY <4>2 DEF EntryNamesLiveTimer
        <5>2. t.id # timers[g]
          <6> SUFFICES ASSUME t.id = timers[g] PROVE FALSE
              OBVIOUS
          <6>1. PICK u \in Live : u.id = timers[g] /\ u.game = g
              BY <4>2, <5>1 DEF EntryNamesLiveTimer
          <6>2. u = t
              BY <5>1, <6>1 DEF IdsUnique
          <6>3. QED
              BY <3>2, <5>1, <6>1, <6>2
        <5>3. QED
            BY <2>1, <5>1, <5>2 DEF Live
      <4>3. QED
          BY <4>1, <4>2 DEF EntryNamesLiveTimer
    <3>3. QED
        BY <3>1, <3>2
  <2>6. DirtyHasEntry' /\ ClosedIsEmpty'
      BY <1>1 DEF Schedule, DirtyHasEntry, ClosedIsEmpty, DispatcherTypeOK, TimerIds
  <2>7. QED
      BY <1>0, <2>4, <2>5, <2>6
<1>2. ASSUME NEW t \in armed, Fire(t) PROVE DispatcherInv'
  <2>1. Live' = Live
      BY <1>2 DEF Fire, Live
  <2>2. QED
      BY <1>0, <1>2, <2>1 DEF Fire, IdsUnique, EntryNamesLiveTimer, DirtyHasEntry, ClosedIsEmpty
<1>3. ASSUME NEW t \in fired, FlushCurrent(t) PROVE DispatcherInv'
  <2>1. Live' \subseteq Live /\ Live \ {t} \subseteq Live'
      BY <1>3 DEF FlushCurrent, Live
  <2>2. IdsUnique'
      BY <2>1 DEF IdsUnique
  <2>3. EntryNamesLiveTimer'
    <3>1. t \in Live /\ t.game \in Games
        BY <1>3 DEF DispatcherTypeOK, Timer, Live
    <3>2. ASSUME NEW h \in Games, timers'[h] # NoTimer
          PROVE  \E u \in Live' : u.id = timers'[h] /\ u.game = h /\ u.version = versions'[h]
      <4>1. h # t.game /\ timers'[h] = timers[h] /\ versions'[h] = versions[h]
          BY <1>3, <3>2 DEF FlushCurrent, DispatcherTypeOK
      <4>2. PICK u \in Live : u.id = timers[h] /\ u.game = h /\ u.version = versions[h]
          BY <3>2, <4>1 DEF EntryNamesLiveTimer
      <4>3. QED
          BY <2>1, <4>1, <4>2
    <3>3. \A h \in Games : timers'[h] = NoTimer <=> versions'[h] = 0
        BY <1>3, <3>1 DEF FlushCurrent, EntryNamesLiveTimer, DispatcherTypeOK
    <3>4. QED
        BY <3>2, <3>3 DEF EntryNamesLiveTimer
  <2>4. DirtyHasEntry' /\ ClosedIsEmpty'
      BY <1>3 DEF FlushCurrent, DirtyHasEntry, ClosedIsEmpty, DispatcherTypeOK
  <2>5. QED
      BY <1>0, <2>2, <2>3, <2>4
<1>4. ASSUME NEW t \in fired, FlushOutdated(t) PROVE DispatcherInv'
  <2>1. Live' \subseteq Live /\ Live \ {t} \subseteq Live'
      BY <1>4 DEF FlushOutdated, Live
  <2>2. IdsUnique'
      BY <2>1 DEF IdsUnique
  <2>3. EntryNamesLiveTimer'
    <3>1. ASSUME NEW g \in Games, timers[g] # NoTimer
          PROVE  \E u \in Live' : u.id = timers[g] /\ u.game = g /\ u.version = versions[g]
      <4>1. PICK u \in Live : u.id = timers[g] /\ u.game = g /\ u.version = versions[g]
          BY <3>1 DEF EntryNamesLiveTimer
      <4>2. u # t
          BY <1>4, <3>1, <4>1 DEF FlushOutdated, ClosedIsEmpty
      <4>3. QED
          BY <2>1, <4>1, <4>2
    <3>2. timers' = timers /\ versions' = versions
        BY <1>4 DEF FlushOutdated
    <3>3. QED
        BY <3>1, <3>2 DEF EntryNamesLiveTimer
  <2>4. DirtyHasEntry' /\ ClosedIsEmpty'
      BY <1>4 DEF FlushOutdated, DirtyHasEntry, ClosedIsEmpty
  <2>5. QED
      BY <1>0, <2>2, <2>3, <2>4
<1>5. CASE Close
  <2>1. Live' \subseteq Live
      BY <1>5 DEF Close, Live
  <2>2. QED
      BY <1>0, <1>5, <2>1 DEF Close, IdsUnique, EntryNamesLiveTimer, DirtyHasEntry, ClosedIsEmpty
<1>6. CASE UNCHANGED dispatcherVars
    BY <1>0, <1>6 DEF dispatcherVars, Live, IdsUnique, EntryNamesLiveTimer, DirtyHasEntry, ClosedIsEmpty
<1>7. QED
    BY <1>1, <1>2, <1>3, <1>4, <1>5, <1>6 DEF DispatcherNext, Flush

\* The dispatcher keeps its inductive invariant (svc_snapshot.go:42-98).
THEOREM DispatcherInvariance == DispatcherSpec => []DispatcherInv
<1>1. QED
    BY InitDispatcherInv, StepDispatcherInv, PTL DEF DispatcherSpec

\* The types of the dispatcher's timers and maps, whatever the number of games.
THEOREM DispatcherTypeCorrect == DispatcherSpec => []DispatcherTypeOK
<1>1. DispatcherInv => DispatcherTypeOK
    BY DEF DispatcherInv
<1>2. QED
    BY <1>1, DispatcherInvariance, PTL

\* For every set of games and every number of timers and versions, a game with
\* an event not yet recomputed has a live timer whose flush will find its
\* version current.
THEOREM NoEventIsLost == DispatcherSpec => []PendingIsCovered
<1>1. QED
    BY DispatcherInvariance, DispatcherInvImpliesPendingIsCovered, PTL
-----------------------------------------------------------------------------
(* The cache.                                                              *)

Bounds ==
    /\ floor <= db
    /\ \A p \in Procs : got[p] <= db
    /\ \A p \in Procs : cap[p] <= epoch

FreshInEpoch ==
    \A p \in Procs : pc[p] \in {"check", "add"} /\ cap[p] = epoch => got[p] \geq floor

RegisteredIsLive == flight # None => pc[flight] \in Computing

EntriesArePast ==
    /\ cache # None => cache.data <= db
    /\ \A p \in Procs : peeked[p] # None => peeked[p].data <= db

\* Whoever is about to put an entry back holds one.
PutHolds == \A p \in Procs : pc[p] = "put" => peeked[p] # None

IInv ==
    /\ TypeOK
    /\ Bounds
    /\ EntriesArePast
    /\ PutHolds
    /\ FreshInEpoch
    /\ RegisteredIsLive
    /\ WaitsForLiveCall

USE MonitorAssumption

\* An entry is one also after its TTL.
LEMMA AgedIsEntry ==
    ASSUME NEW e \in Entry
    PROVE  /\ e # None /\ Aged(e) \in Entry /\ Aged(e) # None
           /\ Aged(e).data = e.data /\ Aged(e).live = FALSE
  <1>1. None \notin Entry
    BY DEF Entry, Versions
  <1>2. Aged(e) = [e EXCEPT !.live = FALSE]
    BY <1>1 DEF Aged
  <1>3. Aged(e) \in Entry /\ Aged(e).data = e.data /\ Aged(e).live = FALSE
    BY <1>2 DEF Entry
  <1> QED BY <1>1, <1>3

LEMMA InitIInv == Init => IInv
  <1> SUFFICES ASSUME Init PROVE IInv
    OBVIOUS
  <1>1. 0 \in Versions /\ 0 \in Nat
    BY DEF Versions
  <1>2. TypeOK
    BY <1>1 DEF Init, TypeOK
  <1>3. Bounds /\ EntriesArePast /\ PutHolds
    BY DEF Init, Bounds, EntriesArePast, PutHolds
  <1>4. FreshInEpoch /\ RegisteredIsLive /\ WaitsForLiveCall
    BY DEF Init, FreshInEpoch, RegisteredIsLive, WaitsForLiveCall
  <1> QED BY <1>2, <1>3, <1>4 DEF IInv

\* The game changes; the entry leaves or expires.
LEMMA WorldSteps ==
    ASSUME IInv, Change \/ Expire \/ Evict PROVE IInv'
  <1>1. CASE Change
    BY <1>1 DEF Change, IInv, TypeOK, Bounds, EntriesArePast, PutHolds, FreshInEpoch, RegisteredIsLive, WaitsForLiveCall, Versions, Entry
  <1>2. CASE Expire
    <2>1. /\ UNCHANGED <<db, due, epoch, floor, flight, pc, json, cap, got, leader>>
          /\ cache' = Aged(cache) /\ peeked' = [p \in Procs |-> Aged(peeked[p])]
      BY <1>2 DEF Expire
    <2>2. \A e \in Entry \cup {None} : /\ Aged(e) \in Entry \cup {None}
                                       /\ e # None => e \in Entry
                                       /\ Aged(e) = None <=> e = None
                                       /\ e # None => Aged(e).data = e.data
      BY AgedIsEntry DEF Aged
    <2>3. /\ cache \in Entry \cup {None}
          /\ \A p \in Procs : peeked[p] \in Entry \cup {None} /\ peeked'[p] = Aged(peeked[p])
      BY <2>1 DEF IInv, TypeOK
    <2>4. TypeOK'
      BY <2>1, <2>2, <2>3 DEF IInv, TypeOK
    <2>5. EntriesArePast' /\ PutHolds'
      BY <2>1, <2>2, <2>3 DEF IInv, EntriesArePast, PutHolds
    <2>6. Bounds' /\ FreshInEpoch' /\ RegisteredIsLive' /\ WaitsForLiveCall'
      BY <2>1 DEF IInv, Bounds, FreshInEpoch, RegisteredIsLive, WaitsForLiveCall
    <2> QED BY <2>4, <2>5, <2>6 DEF IInv
  <1>3. CASE Evict
    BY <1>3 DEF Evict, IInv, TypeOK, Bounds, EntriesArePast, PutHolds, FreshInEpoch, RegisteredIsLive, WaitsForLiveCall, Versions, Entry
  <1> QED BY <1>1, <1>2, <1>3

\* An invalidation: the new epoch is nobody's.
LEMMA InvalidationSteps ==
    ASSUME IInv, NEW p \in Procs, Invalidate(p) PROVE IInv'
  <1>1. CASE RemoveEntry(p)
    <2>1. UNCHANGED <<db, epoch, floor, flight, json, cap, leader, peeked>> /\ due' = FALSE /\ cache' = None
      BY <1>1 DEF RemoveEntry
    <2>2. pc[p] = "idle" /\ pc' = [pc EXCEPT ![p] = "removed"] /\ got' = [got EXCEPT ![p] = db]
      BY <1>1 DEF RemoveEntry, Goes
    <2>3. TypeOK'
      BY <2>1, <2>2 DEF IInv, TypeOK
    <2>4. Bounds' /\ EntriesArePast' /\ PutHolds'
      BY <2>1, <2>2 DEF IInv, TypeOK, Bounds, EntriesArePast, PutHolds, Versions
    <2>5. FreshInEpoch'
      BY <2>1, <2>2 DEF IInv, TypeOK, FreshInEpoch
    <2>6. RegisteredIsLive' /\ WaitsForLiveCall'
      BY <2>1, <2>2 DEF IInv, TypeOK, RegisteredIsLive, WaitsForLiveCall, Computing
    <2> QED BY <2>3, <2>4, <2>5, <2>6 DEF IInv
  <1>2. CASE Forget(p)
    BY <1>2 DEF Forget, Goes, IInv, TypeOK, Bounds, EntriesArePast, PutHolds, FreshInEpoch, RegisteredIsLive, WaitsForLiveCall, Versions, Entry, Computing
  <1>3. CASE BumpEpoch(p)
    <2>1. floor' \in Versions /\ floor' <= db /\ epoch' = epoch + 1 /\ epoch \in Nat
      BY <1>3 DEF BumpEpoch, IInv, TypeOK, Bounds
    <2>2. UNCHANGED <<db, due, cache, flight, json, cap, leader, peeked>> /\ got' = [got EXCEPT ![p] = 0]
      BY <1>3 DEF BumpEpoch
    <2>3. pc[p] = "forgotten" /\ pc' = [pc EXCEPT ![p] = "get"]
      BY <1>3 DEF BumpEpoch, Goes
    <2>4. \A q \in Procs : cap[q] <= epoch /\ cap[q] \in Nat
      BY DEF IInv, Bounds, TypeOK
    <2>5. TypeOK'
      BY <2>1, <2>2, <2>3 DEF IInv, TypeOK, Versions
    <2>6. Bounds' /\ EntriesArePast' /\ PutHolds'
      BY <2>1, <2>2, <2>3, <2>4 DEF IInv, TypeOK, Bounds, EntriesArePast, PutHolds, Versions
    <2>7. FreshInEpoch'
      <3>1. \A q \in Procs : cap'[q] # epoch'
        BY <2>1, <2>2, <2>4
      <3> QED BY <3>1 DEF FreshInEpoch
    <2>8. RegisteredIsLive'
      BY <2>2, <2>3 DEF IInv, TypeOK, RegisteredIsLive, Computing
    <2>9. WaitsForLiveCall'
      BY <2>2, <2>3 DEF IInv, TypeOK, WaitsForLiveCall, Computing
    <2> QED BY <2>5, <2>6, <2>7, <2>8, <2>9 DEF IInv
  <1> QED BY <1>1, <1>2, <1>3 DEF Invalidate

\* The end of a call, whatever its callers do next: nobody waits for it
\* afterwards, and it is no longer registered.
LEMMA CallEndsStep ==
    ASSUME IInv, NEW p \in Procs, pc[p] \in Computing, CallEnds(p),
           NEW to \in [Procs -> {"json", "idle"}],
           NEW gets \in [Procs -> Versions], \A q \in Procs : gets[q] <= db,
           pc' = [q \in Procs |-> IF q \in Callers(p) THEN to[q] ELSE pc[q]],
           got' = [q \in Procs |-> IF q \in Callers(p) THEN gets[q] ELSE got[q]],
           json' \subseteq Procs,
           UNCHANGED <<db, due, epoch, floor, peeked>>,
           (cache' \in Entry \cup {None}) /\ (cache' # None => cache'.data <= db)
    PROVE  IInv'
  <1> DEFINE All == Callers(p)
  <1>1. /\ got' = [q \in Procs |-> IF q \in All THEN gets[q] ELSE got[q]]
        /\ cap' = [q \in Procs |-> IF q \in All THEN 0 ELSE cap[q]]
        /\ pc' = [q \in Procs |-> IF q \in All THEN to[q] ELSE pc[q]]
        /\ leader' = [q \in Procs |-> IF q \in All THEN None ELSE leader[q]]
        /\ flight' = IF flight = p THEN None ELSE flight
    BY DEF CallEnds, Group
  <1>2. \A q \in Procs : to[q] \in {"json", "idle"}
    OBVIOUS
  <1>3. \A q \in Procs : q # p /\ pc[q] \in Computing => q \notin All
    BY DEF Computing, Callers
  <1>4. TypeOK'
    <2> HIDE DEF All
    <2>1. got' \in [Procs -> Versions] /\ leader' \in [Procs -> Procs \cup {None}]
          /\ flight' \in Procs \cup {None} /\ cap' \in [Procs -> Nat]
      BY <1>1 DEF IInv, TypeOK, Versions
    <2>2. pc' \in [Procs -> {"idle", "removed", "forgotten", "get", "captured", "wait",
                         "peek", "load", "check", "add", "json", "patch", "put"}]
      BY <1>1, <1>2 DEF IInv, TypeOK
    <2> QED BY <2>1, <2>2 DEF IInv, TypeOK, Versions, Entry
  <1>5. Bounds' /\ EntriesArePast' /\ PutHolds'
    <2> HIDE DEF All
    <2> QED BY <1>1, <1>2 DEF IInv, TypeOK, Versions, Bounds, EntriesArePast, PutHolds
  <1>6. FreshInEpoch'
    <2> HIDE DEF All
    <2> QED BY <1>1, <1>2 DEF IInv, FreshInEpoch
  <1>7. RegisteredIsLive'
    <2> SUFFICES ASSUME flight' # None PROVE pc'[flight'] \in Computing
      BY DEF RegisteredIsLive
    <2>1. flight' = flight /\ flight # p /\ flight \in Procs
      BY <1>1 DEF IInv, TypeOK
    <2>2. pc[flight] \in Computing
      BY <2>1 DEF IInv, RegisteredIsLive
    <2>3. flight \notin All
      BY <1>3, <2>1, <2>2
    <2> HIDE DEF All
    <2> QED BY <1>1, <2>1, <2>2, <2>3
  <1>8. WaitsForLiveCall'
    <2> SUFFICES ASSUME NEW q \in Procs, pc'[q] = "wait"
                 PROVE  leader'[q] # None /\ pc'[leader'[q]] \in Computing
      BY DEF WaitsForLiveCall, Computing
    <2>1. q \notin All
      BY <1>1, <1>2
    <2>2. pc[q] = "wait" /\ leader'[q] = leader[q] /\ leader[q] # p
      BY <1>1, <2>1 DEF Callers
    <2>3. leader[q] # None /\ leader[q] \in Procs /\ pc[leader[q]] \in Computing
      BY <2>2 DEF IInv, TypeOK, WaitsForLiveCall
    <2>4. leader[q] \notin All
      BY <1>3, <2>2, <2>3
    <2> HIDE DEF All
    <2> QED BY <1>1, <2>2, <2>3, <2>4
  <1> QED BY <1>4, <1>5, <1>6, <1>7, <1>8 DEF IInv

\* A call that ends with a version.
LEMMA DeliverStep ==
    ASSUME IInv, NEW p \in Procs, NEW v \in Versions, v <= db,
           pc[p] \in Computing, Deliver(p, v),
           UNCHANGED <<db, due, epoch, floor, json, peeked>>,
           (cache' \in Entry \cup {None}) /\ (cache' # None => cache'.data <= db)
    PROVE  IInv'
  <1> DEFINE to == [q \in Procs |-> After(q)]
             gets == [q \in Procs |-> IF q \in json THEN v ELSE 0]
  <1>1. to \in [Procs -> {"json", "idle"}]
    BY DEF After
  <1>2. gets \in [Procs -> Versions] /\ \A q \in Procs : gets[q] <= db
    BY DEF Versions, IInv, TypeOK
  <1>3. /\ pc' = [q \in Procs |-> IF q \in Callers(p) THEN to[q] ELSE pc[q]]
        /\ got' = [q \in Procs |-> IF q \in Callers(p) THEN gets[q] ELSE got[q]]
        /\ CallEnds(p)
    BY DEF Deliver
  <1>4. json' \subseteq Procs
    BY DEF IInv, TypeOK
  <1> HIDE DEF to, gets
  <1> QED BY <1>1, <1>2, <1>3, <1>4, CallEndsStep

\* A call that ends with an error.
LEMMA LoadFailsStep ==
    ASSUME IInv, NEW p \in Procs, LoadFails(p) PROVE IInv'
  <1> DEFINE to == [q \in Procs |-> "idle"]
  <1>1. to \in [Procs -> {"json", "idle"}]
    OBVIOUS
  <1>2. got \in [Procs -> Versions] /\ \A q \in Procs : got[q] <= db
    BY DEF IInv, TypeOK, Bounds
  <1>3. /\ pc' = [q \in Procs |-> IF q \in Callers(p) THEN to[q] ELSE pc[q]]
        /\ CallEnds(p) /\ pc[p] \in Computing
    BY DEF LoadFails, Computing
  <1>4. got' = [q \in Procs |-> IF q \in Callers(p) THEN got[q] ELSE got[q]]
    BY <1>2 DEF LoadFails
  <1>5. json' \subseteq Procs /\ UNCHANGED <<db, due, epoch, floor, peeked>>
        /\ cache' \in Entry \cup {None} /\ (cache' # None => cache'.data <= db)
    BY DEF LoadFails, IInv, TypeOK, EntriesArePast
  <1> HIDE DEF to
  <1> QED BY <1>1, <1>2, <1>3, <1>4, <1>5, CallEndsStep

\* The steps of a fetch.
LEMMA FetchSteps ==
    ASSUME IInv, NEW p \in Procs, Fetch(p) PROVE IInv'
  <1>a. /\ got[p] \in Versions /\ got[p] <= db /\ db \in Nat
        /\ cache # None => cache \in Entry /\ cache.data \in Versions /\ cache.data <= db
    BY DEF IInv, TypeOK, Bounds, EntriesArePast, Versions, Entry
  <1>1. CASE PeekHit(p)
    BY <1>1, <1>a, DeliverStep DEF PeekHit, Served, Computing, IInv, TypeOK
  <1>2. CASE SkipCache(p)
    BY <1>2, <1>a, DeliverStep DEF SkipCache, Computing, IInv, TypeOK
  <1>3. CASE AddEntry(p)
    <2>1. cache' \in Entry /\ cache'.data <= db
      BY <1>3, <1>a DEF AddEntry, Entry
    <2> QED BY <1>3, <2>1, <1>a, DeliverStep DEF AddEntry, Computing
  <1>4. CASE PatchEntry(p)
    <2>1. /\ pc[p] = "put" /\ pc' = [pc EXCEPT ![p] = "idle"]
          /\ peeked' = [peeked EXCEPT ![p] = None] /\ got' = [got EXCEPT ![p] = 0]
          /\ json' = json \ {p}
          /\ UNCHANGED <<db, due, epoch, floor, flight, cap, leader>>
      BY <1>4 DEF PatchEntry, Goes
    <2>2. peeked[p] \in Entry /\ peeked[p].data <= db
      BY <2>1 DEF IInv, TypeOK, PutHolds, EntriesArePast
    <2>3. Aged(peeked[p]) \in Entry /\ Aged(peeked[p]).data = peeked[p].data
      BY <2>2, AgedIsEntry
    <2>4. cache' \in Entry /\ cache'.data <= db
      BY <1>4, <1>a, <2>2, <2>3 DEF PatchEntry, Patched, Entry
    <2>5. TypeOK'
      BY <2>1, <2>4 DEF IInv, TypeOK, Versions
    <2>6. Bounds' /\ EntriesArePast' /\ PutHolds'
      BY <2>1, <2>4 DEF IInv, TypeOK, Versions, Bounds, EntriesArePast, PutHolds
    <2>7. FreshInEpoch' /\ RegisteredIsLive' /\ WaitsForLiveCall'
      BY <2>1 DEF IInv, TypeOK, FreshInEpoch, RegisteredIsLive, WaitsForLiveCall, Computing
    <2> QED BY <2>5, <2>6, <2>7 DEF IInv
  <1>5. CASE Hit(p) \/ Miss(p) \/ PeekMiss(p) \/ CheckEpoch(p) \/ JsonHit(p) \/ JsonMiss(p)
               \/ PatchMiss(p) \/ PatchPeek(p)
    <2> USE DEF Goes, IInv, TypeOK, Bounds, EntriesArePast, PutHolds, FreshInEpoch, RegisteredIsLive, WaitsForLiveCall, Versions, Computing
    <2>1. CASE Hit(p)
      BY <2>1 DEF Hit
    <2>2. CASE Miss(p)
      BY <2>2 DEF Miss
    <2>3. CASE PeekMiss(p)
      BY <2>3 DEF PeekMiss
    <2>4. CASE CheckEpoch(p)
      <3>1. epoch = cap[p] /\ pc[p] = "check" /\ got[p] \geq floor
        BY <2>4 DEF CheckEpoch
      <3> QED BY <2>4, <3>1 DEF CheckEpoch
    <2>5. CASE JsonHit(p)
      BY <2>5 DEF JsonHit
    <2>6. CASE JsonMiss(p)
      BY <2>6 DEF JsonMiss
    <2>7. CASE PatchMiss(p)
      BY <2>7 DEF PatchMiss
    <2>8. CASE PatchPeek(p)
      BY <2>8 DEF PatchPeek
    <2> QED BY <1>5, <2>1, <2>2, <2>3, <2>4, <2>5, <2>6, <2>7, <2>8
  <1>6. CASE Lead(p) \/ Follow(p) \/ Load(p)
    <2> USE DEF Goes, IInv, TypeOK, Bounds, EntriesArePast, PutHolds, FreshInEpoch, RegisteredIsLive, WaitsForLiveCall, Versions, Computing
    <2>1. CASE Lead(p)
      BY <2>1 DEF Lead
    <2>2. CASE Follow(p)
      BY <2>2 DEF Follow
    <2>3. CASE Load(p)
      BY <2>3 DEF Load
    <2> QED BY <1>6, <2>1, <2>2, <2>3
  <1>7. CASE LateHit(p)
    BY <1>7, <1>a DEF LateHit, Served, Goes, IInv, TypeOK, Bounds, EntriesArePast, PutHolds, FreshInEpoch, RegisteredIsLive, WaitsForLiveCall, Versions, Entry, Computing
  <1>8. CASE LoadFails(p)
    BY <1>8, LoadFailsStep
  <1> QED BY <1>1, <1>2, <1>3, <1>4, <1>5, <1>6, <1>7, <1>8 DEF Fetch

LEMMA NextIInv == IInv /\ [Next]_vars => IInv'
  <1> SUFFICES ASSUME IInv, [Next]_vars PROVE IInv'
    OBVIOUS
  <1>1. CASE UNCHANGED vars
    BY <1>1 DEF vars, IInv, TypeOK, Bounds, EntriesArePast, PutHolds, FreshInEpoch, RegisteredIsLive, WaitsForLiveCall
  <1>2. CASE Change \/ Expire \/ Evict
    BY <1>2, WorldSteps
  <1>3. ASSUME NEW p \in Procs, Invalidate(p) PROVE IInv'
    BY <1>3, InvalidationSteps
  <1>4. ASSUME NEW p \in Procs, NEW asJson \in BOOLEAN, Poll(p, asJson) PROVE IInv'
    BY <1>4 DEF Poll, Goes, IInv, TypeOK, Bounds, EntriesArePast, PutHolds, FreshInEpoch, RegisteredIsLive, WaitsForLiveCall, Versions, Computing
  <1>5. ASSUME NEW p \in Procs, Fetch(p) PROVE IInv'
    BY <1>5, FetchSteps
  <1> QED BY <1>1, <1>2, <1>3, <1>4, <1>5 DEF Next

\* The inductive invariant of the snapshot cache.
THEOREM Invariance == Spec => []IInv
  <1> QED BY InitIInv, NextIInv, PTL DEF Spec

\* The types of the cache's state, for any number of goroutines and changes.
THEOREM TypeCorrect == Spec => []TypeOK
  <1>1. IInv => TypeOK
    BY DEF IInv
  <1> QED BY <1>1, Invariance, PTL

\* A process that joined a call waits for one that is still computing.
THEOREM NobodyWaitsForNothing == Spec => []WaitsForLiveCall
  <1>1. IInv => WaitsForLiveCall
    BY DEF IInv
  <1> QED BY <1>1, Invariance, PTL

\* An entry written in the epoch its computation started in is not older than
\* the last completed invalidation.
THEOREM EpochHolds == Spec => WrittenInItsEpoch
  <1>1. IInv => \A p \in Procs : AddEntry(p) /\ cap[p] = epoch => got[p] \geq floor
    BY DEF IInv, FreshInEpoch, AddEntry
  <1>2. IInv /\ [Next]_vars =>
            [\A p \in Procs : AddEntry(p) /\ cap[p] = epoch => got[p] \geq floor]_vars
    BY <1>1
  <1> QED BY <1>2, Invariance, PTL DEF Spec, WrittenInItsEpoch

-----------------------------------------------------------------------------
(***************************************************************************)
(* RegisteredLoadIsFresh is not inductive: an invalidation that is about to raise  *)
(* floor has forgotten the calls that loaded before it.  A call that is in *)
(* the group has therefore loaded after the entry was removed.             *)
(***************************************************************************)

LoadedAfterForget ==
    flight # None /\ pc[flight] \in {"check", "add"} =>
        \A i \in Procs : pc[i] = "forgotten" => got[flight] \geq got[i]

GroupInv == IInv /\ RegisteredLoadIsFresh /\ LoadedAfterForget

\* A step that leaves what the group's call has loaded, and what invalidations
\* under way are about, as it was.
LEMMA GroupUntouched ==
    ASSUME GroupInv, floor' = floor, flight' # None => flight' = flight,
           flight' # None /\ pc'[flight'] \in {"check", "add"} =>
              pc[flight] \in {"check", "add"} /\ got'[flight] = got[flight],
           \A i \in Procs : pc'[i] = "forgotten" => pc[i] = "forgotten" /\ got'[i] = got[i]
    PROVE  RegisteredLoadIsFresh' /\ LoadedAfterForget'
  BY DEF GroupInv, RegisteredLoadIsFresh, LoadedAfterForget

\* The end of a call does not touch the others that compute or invalidate.
LEMMA CallEndsGroup ==
    ASSUME GroupInv, NEW p \in Procs, CallEnds(p), floor' = floor,
           \A q \in Procs : pc'[q] \in {"check", "add", "forgotten"} =>
              pc'[q] = pc[q] /\ got'[q] = got[q]
    PROVE  RegisteredLoadIsFresh' /\ LoadedAfterForget'
  <1>1. flight' # None => flight' = flight /\ flight \in Procs
    BY DEF CallEnds, Group, GroupInv, IInv, TypeOK
  <1>2. flight' # None /\ pc'[flight'] \in {"check", "add"} =>
           pc[flight] \in {"check", "add"} /\ got'[flight] = got[flight]
    BY <1>1
  <1> QED BY <1>1, <1>2, GroupUntouched

LEMMA DeliverGroup ==
    ASSUME GroupInv, NEW p \in Procs, NEW v, Deliver(p, v), floor' = floor
    PROVE  RegisteredLoadIsFresh' /\ LoadedAfterForget'
  <1> DEFINE all == Callers(p)
  <1>1. /\ got' = [q \in Procs |-> IF q \notin all THEN got[q] ELSE IF q \in json THEN v ELSE 0]
        /\ pc' = [q \in Procs |-> IF q \in all THEN After(q) ELSE pc[q]]
        /\ CallEnds(p)
    BY DEF Deliver
  <1>2. \A q \in Procs : After(q) \in {"json", "idle"}
    BY DEF After
  <1>3. ASSUME NEW q \in Procs, pc'[q] \in {"check", "add", "forgotten"}
        PROVE  pc'[q] = pc[q] /\ got'[q] = got[q]
    <2> HIDE DEF all
    <2> QED BY <1>1, <1>2, <1>3
  <1> QED BY <1>1, <1>3, CallEndsGroup

LEMMA GroupStep == GroupInv /\ [Next]_vars => GroupInv'
  <1> SUFFICES ASSUME GroupInv, [Next]_vars PROVE RegisteredLoadIsFresh' /\ LoadedAfterForget'
    BY NextIInv DEF GroupInv
  <1>1. /\ TypeOK /\ Bounds /\ floor \in Nat /\ db \in Nat /\ \A q \in Procs : got[q] \in Nat
        /\ \A q \in Procs : got[q] <= db
        /\ pc \in [Procs -> {"idle", "removed", "forgotten", "get", "captured", "wait",
                             "peek", "load", "check", "add", "json", "patch", "put"}]
    BY DEF GroupInv, IInv, TypeOK, Bounds, Versions
  <1>2. CASE UNCHANGED vars \/ Change \/ Expire \/ Evict
    BY <1>1, <1>2, GroupUntouched DEF vars, Change, Expire, Evict
  <1>3. ASSUME NEW p \in Procs, NEW asJson \in BOOLEAN, Poll(p, asJson)
        PROVE  RegisteredLoadIsFresh' /\ LoadedAfterForget'
    BY <1>1, <1>3, GroupUntouched DEF Poll, Goes
  <1>4. ASSUME NEW p \in Procs, RemoveEntry(p) PROVE RegisteredLoadIsFresh' /\ LoadedAfterForget'
    BY <1>1, <1>4, GroupUntouched DEF RemoveEntry, Goes
  <1>5. ASSUME NEW p \in Procs, Forget(p) PROVE RegisteredLoadIsFresh' /\ LoadedAfterForget'
    BY <1>5 DEF Forget, RegisteredLoadIsFresh, LoadedAfterForget
  <1>6. ASSUME NEW p \in Procs, BumpEpoch(p) PROVE RegisteredLoadIsFresh' /\ LoadedAfterForget'
    <2>1. /\ pc[p] = "forgotten" /\ pc' = [pc EXCEPT ![p] = "get"]
          /\ floor' \in {got[p], floor} /\ flight' = flight /\ got' = [got EXCEPT ![p] = 0]
      BY <1>6 DEF BumpEpoch, Goes
    <2>2. \A q \in Procs : pc'[q] \in {"check", "add", "forgotten"} =>
                              pc[q] = pc'[q] /\ got[q] = got'[q]
      BY <1>1, <2>1
    <2>3. flight # None => flight \in Procs
      BY <1>1 DEF TypeOK
    <2>4. SUFFICES ASSUME flight # None, pc'[flight] \in {"check", "add"}
                   PROVE  /\ got'[flight] \geq floor'
                          /\ \A i \in Procs : pc'[i] = "forgotten" => got'[flight] \geq got'[i]
      BY <2>1 DEF RegisteredLoadIsFresh, LoadedAfterForget
    <2>5. pc[flight] \in {"check", "add"}
      BY <2>2, <2>3, <2>4
    <2> QED BY <2>1, <2>2, <2>4, <2>5 DEF GroupInv, RegisteredLoadIsFresh, LoadedAfterForget
  <1>7. ASSUME NEW p \in Procs, Load(p) PROVE RegisteredLoadIsFresh' /\ LoadedAfterForget'
    <2>1. /\ pc[p] = "load" /\ pc' = [pc EXCEPT ![p] = "check"] /\ got' = [got EXCEPT ![p] = db]
          /\ floor' = floor /\ flight' = flight
      BY <1>7 DEF Load, Goes
    <2>2. CASE flight = p
      BY <1>1, <2>1, <2>2 DEF Bounds, TypeOK, RegisteredLoadIsFresh, LoadedAfterForget
    <2>3. CASE flight # p
      BY <1>1, <2>1, <2>3, GroupUntouched DEF TypeOK
    <2> QED BY <2>2, <2>3
  <1>8. ASSUME NEW p \in Procs, Lead(p) PROVE RegisteredLoadIsFresh' /\ LoadedAfterForget'
    <2>1. flight' = p /\ pc'[p] = "peek"
      BY <1>1, <1>8 DEF Lead, Goes
    <2> QED BY <2>1 DEF RegisteredLoadIsFresh, LoadedAfterForget
  <1>9. ASSUME NEW p \in Procs, PeekHit(p) \/ SkipCache(p) \/ AddEntry(p)
        PROVE  RegisteredLoadIsFresh' /\ LoadedAfterForget'
    <2>1. floor' = floor /\ \E v \in {cache.data, got[p]} : Deliver(p, v)
      BY <1>9 DEF PeekHit, SkipCache, AddEntry, Computing
    <2> QED BY <2>1, DeliverGroup
  <1>10. ASSUME NEW p \in Procs,
                Hit(p) \/ Miss(p) \/ Follow(p) \/ PeekMiss(p) \/ CheckEpoch(p)
                   \/ JsonMiss(p) \/ PatchPeek(p)
         PROVE  RegisteredLoadIsFresh' /\ LoadedAfterForget'
    <2>1. /\ floor' = floor /\ flight' = flight /\ got' = got
          /\ \E s \in {"idle", "captured", "wait", "load", "patch", "put"} :
                pc' = [pc EXCEPT ![p] = s] \/ (pc[p] = "check" /\ pc' = [pc EXCEPT ![p] = "add"])
      BY <1>10 DEF Hit, Miss, Follow, PeekMiss, CheckEpoch, JsonMiss, PatchPeek, Goes
    <2>2. \A q \in Procs : /\ pc'[q] = "forgotten" => pc[q] = "forgotten"
                           /\ pc'[q] \in {"check", "add"} => pc[q] \in {"check", "add"}
      BY <1>1, <2>1
    <2> QED BY <1>1, <2>1, <2>2, GroupUntouched DEF TypeOK
  <1>11. ASSUME NEW p \in Procs,
                LateHit(p) \/ JsonHit(p) \/ PatchMiss(p) \/ PatchEntry(p)
         PROVE RegisteredLoadIsFresh' /\ LoadedAfterForget'
    <2>1. /\ floor' = floor /\ flight' = flight
          /\ \E s \in {"json", "idle"} : pc' = [pc EXCEPT ![p] = s]
          /\ \A q \in Procs \ {p} : got'[q] = got[q]
      BY <1>1, <1>11 DEF LateHit, JsonHit, PatchMiss, PatchEntry, Goes, TypeOK
    <2>2. \A q \in Procs : pc'[q] \in {"check", "add", "forgotten"} =>
                              pc'[q] = pc[q] /\ got'[q] = got[q]
      BY <1>1, <2>1
    <2> QED BY <1>1, <2>1, <2>2, GroupUntouched DEF TypeOK
  <1>12. ASSUME NEW p \in Procs, LoadFails(p)
         PROVE  RegisteredLoadIsFresh' /\ LoadedAfterForget'
    <2>1. /\ CallEnds(p) /\ floor' = floor /\ got' = got
          /\ pc' = [q \in Procs |-> IF q \in Callers(p) THEN "idle" ELSE pc[q]]
      BY <1>12 DEF LoadFails
    <2>2. \A q \in Procs : pc'[q] \in {"check", "add", "forgotten"} =>
                              pc'[q] = pc[q] /\ got'[q] = got[q]
      BY <2>1
    <2> QED BY <2>1, <2>2, CallEndsGroup
  <1> QED BY <1>2, <1>3, <1>4, <1>5, <1>6, <1>7, <1>8, <1>9, <1>10, <1>11, <1>12
         DEF Next, Invalidate, Fetch

\* A call that can be joined and has loaded did not load before the last
\* completed invalidation, for any number of goroutines, of invalidations that
\* overlap, and of changes.
THEOREM RegisteredLoadsAreFresh == Spec => []RegisteredLoadIsFresh
  <1>1. Init => GroupInv
    BY InitIInv DEF Init, GroupInv, RegisteredLoadIsFresh, LoadedAfterForget
  <1>2. GroupInv => RegisteredLoadIsFresh
    BY DEF GroupInv
  <1> QED BY <1>1, <1>2, GroupStep, PTL DEF Spec

-----------------------------------------------------------------------------
(***************************************************************************)
(* Current is kept by every step but a change of the game: what a process  *)
(* may write or give away is, step by step, the database's version, what   *)
(* it was given by one who held that version, or what is served.           *)
(***************************************************************************)

Holding == {"check", "add", "json", "patch", "put"}

\* A step that gives nobody an old version, and neither the cache nor what is
\* to be put back an old entry that would be served.
LEMMA CurrentUntouched ==
    ASSUME Current, db' = db,
           Served' => cache'.data = db /\ cache'.json = db,
           \A q \in Procs : pc'[q] \in Holding =>
              got'[q] = db \/ (pc[q] \in Holding /\ got'[q] = got[q]),
           \A q \in Procs : pc'[q] = "put" /\ peeked'[q].live =>
              peeked'[q].data = db \/ (pc[q] = "put" /\ peeked'[q] = peeked[q])
    PROVE  Current'
  <1>1. \A q \in Procs : pc'[q] \in Holding => got'[q] = db
    BY DEF Current, Holding
  <1>2. \A q \in Procs : pc'[q] = "put" /\ peeked'[q].live => peeked'[q].data = db
    BY DEF Current
  <1> QED BY <1>1, <1>2 DEF Current, Holding

\* A call that ends gives away what it holds.
LEMMA CurrentDelivered ==
    ASSUME IInv, Current, NEW p \in Procs, Deliver(p, db), db' = db, peeked' = peeked,
           Served' => cache'.data = db /\ cache'.json = db
    PROVE  Current'
  <1> DEFINE all == Callers(p)
  <1>1. /\ got' = [q \in Procs |-> IF q \notin all THEN got[q] ELSE IF q \in json THEN db ELSE 0]
        /\ pc' = [q \in Procs |-> IF q \in all THEN After(q) ELSE pc[q]]
    BY DEF Deliver
  <1>2. ASSUME NEW q \in Procs
        PROVE  After(q) = "idle" \/ (After(q) = "json" /\ q \in json)
    BY DEF After
  <1> HIDE DEF all
  <1>3. ASSUME NEW q \in Procs, pc'[q] \in Holding
        PROVE  got'[q] = db \/ (pc[q] \in Holding /\ got'[q] = got[q])
    <2>1. CASE q \in all
      BY <1>1, <1>2, <1>3, <2>1 DEF Holding
    <2>2. CASE q \notin all
      BY <1>1, <1>3, <2>2
    <2> QED BY <2>1, <2>2
  <1>4. \A q \in Procs : pc'[q] = "put" => pc[q] = "put"
    BY <1>1, <1>2
  <1> QED BY <1>3, <1>4, CurrentUntouched

\* Every step but Change.
LEMMA CurrentStep == IInv /\ Current /\ db' = db /\ [Next]_vars => Current'
  <1> SUFFICES ASSUME IInv, Current, db' = db, [Next]_vars PROVE Current'
    OBVIOUS
  <1>1. /\ db \in Nat /\ json \subseteq Procs
        /\ pc \in [Procs -> {"idle", "removed", "forgotten", "get", "captured", "wait",
                             "peek", "load", "check", "add", "json", "patch", "put"}]
        /\ got \in [Procs -> Versions] /\ peeked \in [Procs -> Entry \cup {None}]
        /\ cache \in Entry \cup {None}
    BY DEF IInv, TypeOK, Versions
  <1>2. Served => cache.data = db /\ cache.json = db
    BY DEF Current
  <1>3. CASE UNCHANGED vars
    BY <1>2, <1>3, CurrentUntouched DEF vars, Served
  <1>4. CASE Change
    BY <1>1, <1>4 DEF Change
  <1>5. CASE Expire
    <2>1. cache' = Aged(cache) /\ \A p \in Procs : peeked'[p] = Aged(peeked[p])
      BY <1>5 DEF Expire
    <2>2. UNCHANGED <<pc, got>>
      BY <1>5 DEF Expire
    <2>3. ~Served'
      BY <1>1, <2>1, AgedIsEntry DEF Served, Aged
    <2>4. \A p \in Procs : pc[p] = "put" => peeked[p] \in Entry
      BY <1>1 DEF IInv, PutHolds
    <2>5. \A p \in Procs : pc'[p] = "put" => ~peeked'[p].live
      BY <2>1, <2>2, <2>4, AgedIsEntry
    <2> QED BY <2>2, <2>3, <2>5, CurrentUntouched
  <1>6. CASE Evict
    BY <1>6, CurrentUntouched DEF Evict, Served
  <1>7. ASSUME NEW p \in Procs, Invalidate(p) PROVE Current'
    <2>1. Served' => Served /\ cache' = cache
      BY <1>7 DEF Invalidate, RemoveEntry, Forget, BumpEpoch, Served
    <2>2. /\ \E s \in {"removed", "forgotten", "get"} : pc' = [pc EXCEPT ![p] = s]
          /\ \E v \in Versions : got' = [got EXCEPT ![p] = v]
          /\ peeked' = peeked
      <3>1. got = [got EXCEPT ![p] = got[p]] /\ got[p] \in Versions /\ 0 \in Versions /\ db \in Versions
        BY <1>1 DEF Versions, IInv, TypeOK
      <3> QED BY <1>7, <3>1 DEF Invalidate, RemoveEntry, Forget, BumpEpoch, Goes
    <2>3. \A q \in Procs : pc'[q] \in Holding => pc[q] = pc'[q] /\ got'[q] = got[q]
      BY <1>1, <2>2 DEF Holding
    <2>4. \A q \in Procs : pc'[q] = "put" => pc[q] = "put"
      BY <2>3 DEF Holding
    <2> QED BY <1>2, <2>1, <2>2, <2>3, <2>4, CurrentUntouched
  <1>8. ASSUME NEW p \in Procs, NEW asJson \in BOOLEAN, Poll(p, asJson) PROVE Current'
    <2>1. UNCHANGED <<cache, got, peeked>> /\ pc' = [pc EXCEPT ![p] = "get"]
      BY <1>8 DEF Poll, Goes
    <2>2. \A q \in Procs : pc'[q] \in Holding => pc[q] = pc'[q]
      BY <1>1, <2>1 DEF Holding
    <2> QED BY <1>2, <2>1, <2>2, CurrentUntouched DEF Served, Holding
  <1>9. ASSUME NEW p \in Procs, PeekHit(p) \/ SkipCache(p) \/ AddEntry(p) PROVE Current'
    <2>1. pc[p] \in {"check", "add"} => got[p] = db
      BY DEF Current
    <2>2. Deliver(p, db) /\ peeked' = peeked
      BY <1>2, <1>9, <2>1 DEF PeekHit, SkipCache, AddEntry
    <2>3. Served' => cache'.data = db /\ cache'.json = db
      BY <1>2, <1>9, <2>1 DEF PeekHit, SkipCache, AddEntry, Served
    <2> QED BY <2>2, <2>3, CurrentDelivered
  <1>10. ASSUME NEW p \in Procs,
                Hit(p) \/ Miss(p) \/ Lead(p) \/ Follow(p) \/ PeekMiss(p)
         PROVE  Current'
    <2>1. /\ UNCHANGED <<cache, got, peeked>>
          /\ \E s \in {"idle", "captured", "peek", "wait", "load"} : pc' = [pc EXCEPT ![p] = s]
      BY <1>10 DEF Hit, Miss, Lead, Follow, PeekMiss, Goes
    <2>2. \A q \in Procs : pc'[q] \in Holding => pc[q] = pc'[q]
      BY <1>1, <2>1 DEF Holding
    <2> QED BY <1>2, <2>1, <2>2, CurrentUntouched DEF Served, Holding
  <1>11. ASSUME NEW p \in Procs, LateHit(p) \/ Load(p) PROVE Current'
    <2>1. /\ UNCHANGED <<cache, peeked>> /\ got' = [got EXCEPT ![p] = db]
          /\ \E s \in {"json", "check"} : pc' = [pc EXCEPT ![p] = s]
      BY <1>2, <1>11 DEF LateHit, Load, Goes
    <2>2. \A q \in Procs : pc'[q] \in Holding => got'[q] = db \/ (pc[q] \in Holding /\ got'[q] = got[q])
      BY <1>1, <2>1
    <2>3. \A q \in Procs : pc'[q] = "put" => pc[q] = "put"
      BY <1>1, <2>1
    <2> QED BY <1>2, <2>1, <2>2, <2>3, CurrentUntouched DEF Served
  <1>12. ASSUME NEW p \in Procs, CheckEpoch(p) \/ JsonMiss(p) PROVE Current'
    <2>1. /\ UNCHANGED <<cache, got, peeked>> /\ pc[p] \in {"check", "json"}
          /\ \E s \in {"add", "patch"} : pc' = [pc EXCEPT ![p] = s]
      BY <1>12 DEF CheckEpoch, JsonMiss, Goes
    <2>2. \A q \in Procs : /\ pc'[q] \in Holding => pc[q] \in Holding
                           /\ pc'[q] = "put" => pc[q] = "put"
      BY <1>1, <2>1 DEF Holding
    <2> QED BY <1>2, <2>1, <2>2, CurrentUntouched DEF Served
  <1>13. ASSUME NEW p \in Procs, JsonHit(p) \/ PatchMiss(p) PROVE Current'
    <2>1. /\ UNCHANGED <<cache, peeked>> /\ got' = [got EXCEPT ![p] = 0]
          /\ pc' = [pc EXCEPT ![p] = "idle"]
      BY <1>13 DEF JsonHit, PatchMiss, Goes
    <2>2. \A q \in Procs : pc'[q] \in Holding => pc[q] = pc'[q] /\ got'[q] = got[q]
      BY <1>1, <2>1 DEF Holding
    <2> QED BY <1>2, <2>1, <2>2, CurrentUntouched DEF Served, Holding
  <1>14. ASSUME NEW p \in Procs, PatchPeek(p) PROVE Current'
    <2>1. /\ UNCHANGED <<cache, got>> /\ peeked' = [peeked EXCEPT ![p] = cache] /\ cache # None
          /\ pc[p] = "patch" /\ pc' = [pc EXCEPT ![p] = "put"]
      BY <1>14 DEF PatchPeek, Goes
    <2>2. \A q \in Procs : pc'[q] \in Holding => pc[q] \in Holding
      BY <1>1, <2>1 DEF Holding
    <2>3. ASSUME NEW q \in Procs, pc'[q] = "put", peeked'[q].live
          PROVE  peeked'[q].data = db \/ (pc[q] = "put" /\ peeked'[q] = peeked[q])
      <3>1. CASE q = p
        BY <1>1, <1>2, <2>1, <2>3, <3>1 DEF Served
      <3>2. CASE q # p
        BY <1>1, <2>1, <2>3, <3>2
      <3> QED BY <3>1, <3>2
    <2> QED BY <1>2, <2>1, <2>2, <2>3, CurrentUntouched DEF Served
  <1>15. ASSUME NEW p \in Procs, PatchEntry(p) PROVE Current'
    <2>1. /\ pc[p] = "put" /\ pc' = [pc EXCEPT ![p] = "idle"]
          /\ peeked' = [peeked EXCEPT ![p] = None] /\ got' = [got EXCEPT ![p] = 0]
      BY <1>15 DEF PatchEntry, Goes
    <2>2. /\ peeked[p] \in Entry /\ got[p] = db
          /\ peeked[p].live => peeked[p].data = db
      BY <1>1, <2>1 DEF IInv, PutHolds, Current
    <2>3. Served' => cache'.data = db /\ cache'.json = db
      <3>1. PICK e \in {peeked[p], Aged(peeked[p])} : cache' = Patched(e, got[p])
        BY <1>15 DEF PatchEntry
      <3>2. e \in Entry /\ (e.live => e.data = db)
        BY <2>2, <3>1, AgedIsEntry
      <3>3. cache'.live = e.live /\ cache'.data = e.data /\ cache'.json = db
        BY <2>2, <3>1, <3>2 DEF Patched, Entry
      <3> QED BY <3>2, <3>3 DEF Served
    <2>4. \A q \in Procs : pc'[q] \in Holding => /\ pc[q] = pc'[q] /\ got'[q] = got[q]
                                                /\ peeked'[q] = peeked[q]
      BY <1>1, <2>1 DEF Holding
    <2> QED BY <2>1, <2>3, <2>4, CurrentUntouched DEF Holding
  <1>16. ASSUME NEW p \in Procs, LoadFails(p) PROVE Current'
    <2>1. UNCHANGED <<cache, got, peeked>>
          /\ pc' = [q \in Procs |-> IF q \in Callers(p) THEN "idle" ELSE pc[q]]
      BY <1>16 DEF LoadFails
    <2>2. \A q \in Procs : pc'[q] \in Holding => pc[q] = pc'[q]
      BY <2>1 DEF Holding
    <2> QED BY <1>2, <2>1, <2>2, CurrentUntouched DEF Served, Holding
  <1> QED BY <1>3, <1>4, <1>5, <1>6, <1>7, <1>8, <1>9, <1>10, <1>11, <1>12, <1>13, <1>14, <1>15, <1>16
         DEF Next, Fetch

\* Once what is served and what may still be written is current, it stays so
\* until the game changes, for any number of goroutines and invalidations
\* (svc_monitor.go:97-226).
THEOREM CurrentIsKept == Spec => CurrentStays
  <1>1. IInv /\ [Next]_vars => [Current /\ db' = db => Current']_vars
    BY CurrentStep
  <1> QED BY <1>1, Invariance, PTL DEF Spec, CurrentStays

=============================================================================
