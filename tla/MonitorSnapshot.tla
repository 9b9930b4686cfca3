-------------------------- MODULE MonitorSnapshot --------------------------
(***************************************************************************)
(* The cache of monitoring snapshots (internal/domain/game/svc_monitor.go) *)
(* for one game: an LRU entry with a TTL, a singleflight group in front of *)
(* the database and an epoch that InvalidateCache increments so that a     *)
(* computation under way does not write what it read before.               *)
(*                                                                         *)
(* A snapshot is the version of the game it was computed from.  Each call  *)
(* of the LRU, of the singleflight group and of epochMu is a step.         *)
(***************************************************************************)
EXTENDS Naturals, FiniteSets

CONSTANTS
    Procs,       \* goroutines: pollers, page requests, snapshot workers
    None,
    JsonProcs,   \* those of them that ask for the bytes
    MaxChanges   \* bound: how often the game changes

ASSUME MonitorAssumption ==
    /\ None \notin Procs \cup [data : Nat, json : Nat, live : BOOLEAN]
    /\ JsonProcs \subseteq Procs
    /\ MaxChanges \in Nat

VARIABLES
    db,          \* the version of the game in the database
    due,         \* the game has changed and nobody has invalidated the cache since
    epoch,       \* epochs[gameID]
    floor,       \* the version at the start of the last invalidation that is complete
    cache,       \* the LRU entry
    flight,      \* the singleflight call registered under the game's key
    pc,
    json,        \* processes in GetOrFetchSnapshotJSON
    cap,         \* the epoch a process read before it joined the group
    got,         \* the version a process has loaded or was given
    leader,      \* the process whose call a process waits for
    peeked       \* the entry a process is about to put back with other bytes

vars == <<db, due, epoch, floor, cache, flight, pc, json, cap, got, leader, peeked>>

Versions == 0 .. MaxChanges
Entry == [data : Versions, json : Versions, live : BOOLEAN]

TypeOK ==
    /\ db \in Versions
    /\ due \in BOOLEAN
    /\ epoch \in Nat
    /\ floor \in Versions
    /\ cache \in Entry \cup {None}
    /\ flight \in Procs \cup {None}
    /\ pc \in [Procs -> {"idle", "removed", "forgotten", "get", "captured", "wait",
                         "peek", "load", "check", "add", "json", "patch", "put"}]
    /\ json \subseteq Procs
    /\ cap \in [Procs -> Nat]
    /\ got \in [Procs -> Versions]
    /\ leader \in [Procs -> Procs \cup {None}]
    /\ peeked \in [Procs -> Entry \cup {None}]

Init ==
    /\ db = 0
    /\ due = FALSE
    /\ epoch = 0
    /\ floor = 0
    /\ cache = None
    /\ flight = None
    /\ pc = [p \in Procs |-> "idle"]
    /\ json = {}
    /\ cap = [p \in Procs |-> 0]
    /\ got = [p \in Procs |-> 0]
    /\ leader = [p \in Procs |-> None]
    /\ peeked = [p \in Procs |-> None]

\* Mutant: an entry is served as long as it is there.
Served_AtAnyAge == cache # None

\* The entry a reader is served: there, and within its TTL.
Served == cache # None /\ cache.live

Goes(p, from, to) == pc[p] = from /\ pc' = [pc EXCEPT ![p] = to]

-----------------------------------------------------------------------------
(* The game and the passing of time.                                       *)

Change ==
    /\ db < MaxChanges
    /\ db' = db + 1
    /\ due' = TRUE
    /\ UNCHANGED <<epoch, floor, cache, flight, pc, json, cap, got, leader, peeked>>

Aged(e) == IF e = None THEN None ELSE [e EXCEPT !.live = FALSE]

\* The TTL of what has been written so far ends, wherever the entry is.
Expire ==
    /\ Served \/ \E p \in Procs : peeked[p] # None /\ peeked[p].live
    /\ cache' = Aged(cache)
    /\ peeked' = [p \in Procs |-> Aged(peeked[p])]
    /\ UNCHANGED <<db, due, epoch, floor, flight, pc, json, cap, got, leader>>

\* The entry makes room for other games.
Evict ==
    /\ cache # None
    /\ cache' = None
    /\ UNCHANGED <<db, due, epoch, floor, flight, pc, json, cap, got, leader, peeked>>

-----------------------------------------------------------------------------
(* InvalidateCache, then the snapshot that is broadcast.  got holds the    *)
(* version the invalidation is about.                                      *)

RemoveEntry(p) ==
    /\ due
    /\ due' = FALSE
    /\ Goes(p, "idle", "removed")
    /\ cache' = None
    /\ got' = [got EXCEPT ![p] = db]
    /\ UNCHANGED <<db, epoch, floor, flight, json, cap, leader, peeked>>

\* Mutant: the call under way stays in the group.
Forget_KeepsCall(p) ==
    /\ Goes(p, "removed", "forgotten")
    /\ UNCHANGED <<db, due, epoch, floor, cache, flight, json, cap, got, leader, peeked>>

Forget(p) ==
    /\ Goes(p, "removed", "forgotten")
    /\ flight' = None
    /\ UNCHANGED <<db, due, epoch, floor, cache, json, cap, got, leader, peeked>>

BumpEpoch(p) ==
    /\ Goes(p, "forgotten", "get")
    /\ epoch' = epoch + 1
    /\ floor' = IF got[p] > floor THEN got[p] ELSE floor
    /\ got' = [got EXCEPT ![p] = 0]
    /\ UNCHANGED <<db, due, cache, flight, json, cap, leader, peeked>>

-----------------------------------------------------------------------------
(* GetOrFetchSnapshot and GetOrFetchSnapshotJSON.                          *)

Poll(p, asJson) ==
    /\ asJson => p \in JsonProcs
    /\ Goes(p, "idle", "get")
    /\ json' = IF asJson THEN json \cup {p} ELSE json
    /\ UNCHANGED <<db, due, epoch, floor, cache, flight, cap, got, leader, peeked>>

\* cache.Get: a hit ends the call, also for the bytes.
Hit(p) ==
    /\ Served
    /\ Goes(p, "get", "idle")
    /\ json' = json \ {p}
    /\ UNCHANGED <<db, due, epoch, floor, cache, flight, cap, got, leader, peeked>>

\* The second Get of a call for the bytes, in GetOrFetchSnapshot, hits.
LateHit(p) ==
    /\ p \in json
    /\ Served
    /\ Goes(p, "get", "json")
    /\ got' = [got EXCEPT ![p] = cache.data]
    /\ UNCHANGED <<db, due, epoch, floor, cache, flight, json, cap, leader, peeked>>

\* The epoch is read before the data.
Miss(p) ==
    /\ ~Served
    /\ Goes(p, "get", "captured")
    /\ cap' = [cap EXCEPT ![p] = epoch]
    /\ UNCHANGED <<db, due, epoch, floor, cache, flight, json, got, leader, peeked>>

\* sfGroup.Do with no call under way.
Lead(p) ==
    /\ flight = None
    /\ Goes(p, "captured", "peek")
    /\ flight' = p
    /\ UNCHANGED <<db, due, epoch, floor, cache, json, cap, got, leader, peeked>>

\* sfGroup.Do while another call is under way.
Follow(p) ==
    /\ flight # None
    /\ Goes(p, "captured", "wait")
    /\ leader' = [leader EXCEPT ![p] = flight]
    /\ UNCHANGED <<db, due, epoch, floor, cache, flight, json, cap, got, peeked>>

\* Where a process is that computes for the group.
Computing == {"peek", "load", "check", "add"}

After(p) == IF p \in json THEN "json" ELSE "idle"

\* Mutant: the call stays registered.
Group_Kept(p) == flight

\* The call leaves the group, unless Forget has let another one take its place.
Group(p) == IF flight = p THEN None ELSE flight

\* The call's own process and those who wait for it.
Callers(p) == {p} \cup {q \in Procs : pc[q] = "wait" /\ leader[q] = p}

\* The call of p is over for everyone who takes part in it.
CallEnds(p) ==
    /\ cap' = [q \in Procs |-> IF q \in Callers(p) THEN 0 ELSE cap[q]]
    /\ leader' = [q \in Procs |-> IF q \in Callers(p) THEN None ELSE leader[q]]
    /\ flight' = Group(p)

\* It ends with version v.  Only those who want the bytes go on with it.
Deliver(p, v) ==
    /\ CallEnds(p)
    /\ pc' = [q \in Procs |-> IF q \in Callers(p) THEN After(q) ELSE pc[q]]
    /\ got' = [q \in Procs |-> IF q \notin Callers(p) THEN got[q]
                               ELSE IF q \in json THEN v ELSE 0]

\* cache.Peek inside the call.
PeekHit(p) ==
    /\ pc[p] = "peek"
    /\ Served
    /\ Deliver(p, cache.data)
    /\ UNCHANGED <<db, due, epoch, floor, cache, json, peeked>>

PeekMiss(p) ==
    /\ ~Served
    /\ Goes(p, "peek", "load")
    /\ UNCHANGED <<db, due, epoch, floor, cache, flight, json, cap, got, leader, peeked>>

Load(p) ==
    /\ Goes(p, "load", "check")
    /\ got' = [got EXCEPT ![p] = db]
    /\ UNCHANGED <<db, due, epoch, floor, cache, flight, json, cap, leader, peeked>>

\* The queries fail, or the context of the process whose call it is ends: every
\* caller is given the error.
LoadFails(p) ==
    /\ pc[p] = "load"
    /\ CallEnds(p)
    /\ pc' = [q \in Procs |-> IF q \in Callers(p) THEN "idle" ELSE pc[q]]
    /\ json' = json \ Callers(p)
    /\ UNCHANGED <<db, due, epoch, floor, cache, got, peeked>>

\* The epoch has changed: the result is returned and not cached.
SkipCache(p) ==
    /\ pc[p] = "check"
    /\ epoch # cap[p]
    /\ Deliver(p, got[p])
    /\ UNCHANGED <<db, due, epoch, floor, cache, json, peeked>>

\* Mutant: the epoch is read when the data is there.
CheckEpoch_ReadsIt(p) ==
    /\ Goes(p, "check", "add")
    /\ cap' = [cap EXCEPT ![p] = epoch]
    /\ UNCHANGED <<db, due, epoch, floor, cache, flight, json, got, leader, peeked>>

CheckEpoch(p) ==
    /\ epoch = cap[p]
    /\ Goes(p, "check", "add")
    /\ UNCHANGED <<db, due, epoch, floor, cache, flight, json, cap, got, leader, peeked>>

\* cache.Add.
AddEntry(p) ==
    /\ pc[p] = "add"
    /\ cache' = [data |-> got[p], json |-> got[p], live |-> TRUE]
    /\ Deliver(p, got[p])
    /\ UNCHANGED <<db, due, epoch, floor, json, peeked>>

\* GetOrFetchSnapshotJSON, behind GetOrFetchSnapshot: the entry that is there
\* has the bytes.
JsonHit(p) ==
    /\ cache # None
    /\ Goes(p, "json", "idle")
    /\ json' = json \ {p}
    /\ got' = [got EXCEPT ![p] = 0]
    /\ UNCHANGED <<db, due, epoch, floor, cache, flight, cap, leader, peeked>>

JsonMiss(p) ==
    /\ cache = None
    /\ Goes(p, "json", "patch")
    /\ UNCHANGED <<db, due, epoch, floor, cache, flight, json, cap, got, leader, peeked>>

\* cache.Peek: an entry that has appeared since is to be given the bytes
\* marshalled here.
PatchMiss(p) ==
    /\ cache = None
    /\ Goes(p, "patch", "idle")
    /\ json' = json \ {p}
    /\ got' = [got EXCEPT ![p] = 0]
    /\ UNCHANGED <<db, due, epoch, floor, cache, flight, cap, leader, peeked>>

PatchPeek(p) ==
    /\ cache # None
    /\ Goes(p, "patch", "put")
    /\ peeked' = [peeked EXCEPT ![p] = cache]
    /\ UNCHANGED <<db, due, epoch, floor, cache, flight, json, cap, got, leader>>

\* Mutant: the entry is put back as if it had been computed now.
Patched_Renewed(e, v) == [e EXCEPT !.json = v, !.live = TRUE]

Patched(e, v) == [e EXCEPT !.json = v]

\* cache.Add, with the timestamp of the entry that was peeked: its TTL may have
\* passed by now, and another entry, or none, may be in its place.
PatchEntry(p) ==
    /\ Goes(p, "put", "idle")
    /\ cache' \in {Patched(peeked[p], got[p]), Patched(Aged(peeked[p]), got[p])}
    /\ peeked' = [peeked EXCEPT ![p] = None]
    /\ json' = json \ {p}
    /\ got' = [got EXCEPT ![p] = 0]
    /\ UNCHANGED <<db, due, epoch, floor, flight, cap, leader>>

-----------------------------------------------------------------------------

Fetch(p) ==
    \/ Hit(p) \/ LateHit(p) \/ Miss(p) \/ Lead(p) \/ Follow(p)
    \/ PeekHit(p) \/ PeekMiss(p) \/ Load(p) \/ LoadFails(p)
    \/ SkipCache(p) \/ CheckEpoch(p) \/ AddEntry(p)
    \/ JsonHit(p) \/ JsonMiss(p) \/ PatchMiss(p) \/ PatchPeek(p) \/ PatchEntry(p)

Invalidate(p) == RemoveEntry(p) \/ Forget(p) \/ BumpEpoch(p)

Next ==
    \/ Change
    \/ Expire
    \/ Evict
    \/ \E p \in Procs : Invalidate(p)
    \/ \E p \in Procs, asJson \in BOOLEAN : Poll(p, asJson)
    \/ \E p \in Procs : Fetch(p)

Spec == Init /\ [][Next]_vars

\* Goroutines that have begun a call run on, a change is followed by an
\* invalidation (the dispatcher, or the start handler), time passes, and
\* pollers keep polling.
Fairness ==
    /\ WF_vars(Expire)
    /\ WF_vars(\E p \in Procs : RemoveEntry(p))
    /\ \A p \in Procs : WF_vars(Fetch(p) \/ Forget(p) \/ BumpEpoch(p))

FairSpec == Spec /\ Fairness

-----------------------------------------------------------------------------

\* What the epoch guarantees: an entry that is written while the epoch its
\* computation started with still holds is not older than the last completed
\* invalidation, however the calls of Remove, Forget and the counter fall
\* between the computation's steps (MEDIUM #2, PASS-13).
WrittenInItsEpoch ==
    [][\A p \in Procs : AddEntry(p) /\ cap[p] = epoch => got[p] \geq floor]_vars

\* Nobody waits for a call that has ended: a process that joined a call is
\* joined to one that is still computing, also when Forget has let a second
\* call start beside it.
WaitsForLiveCall ==
    \A q \in Procs : pc[q] = "wait" =>
        leader[q] # None /\ pc[leader[q]] \in Computing

\* A call that can still be joined and has loaded from the database did not load
\* before the last completed invalidation, also when the epoch came only after
\* the call had begun: Forget takes such a call out of the group before the
\* counter goes up (P-4, svc_monitor.go:231-233).  It says nothing of a call
\* that finds an entry by cache.Peek (:111-113): that entry may be an old one
\* written late, and NoStaleEntry, which fails, is about it.
RegisteredLoadIsFresh ==
    flight # None /\ pc[flight] \in {"check", "add"} => got[flight] \geq floor

\* What does not hold of those calls: one that begins after an invalidation is
\* complete, and joins no older one, is not given an older version.
PeekIsFresh ==
    [][\A p \in Procs : PeekHit(p) /\ cap[p] = epoch => cache.data \geq floor]_vars

\* Neither the entry a reader is served nor a process that may still write to it,
\* or give it away, holds an old version of the game.
Current ==
    /\ Served => cache.data = db /\ cache.json = db
    /\ \A p \in Procs :
        /\ pc[p] \in {"check", "add", "json", "patch", "put"} => got[p] = db
        /\ pc[p] = "put" /\ peeked[p].live => peeked[p].data = db

\* A stale entry has its origin in a process that had loaded before the change:
\* once no such process is left and what is served is current, no order of
\* polls, invalidations and late patches of the bytes makes it stale before the
\* game changes again (svc_monitor.go:133-165, 207-272).
CurrentStays == [][Current /\ db' = db => Current']_vars

\* Whatever stale entry the races leave behind, it does not outlive its TTL:
\* once the game has stopped changing, all that is served is current for good.
StaleEndsWithTtl == <>[](Served => cache.data = db /\ cache.json = db)

\* «in-flight singleflight-вычисление, завершившееся после инвалидации, видит
\* старую эпоху и НЕ пишет в кэш» (svc_monitor.go:39-43): the entry is never
\* older than the last completed invalidation.
NoStaleEntry == cache # None => cache.data >= floor

\* «кэшируя маршалнутые байты вместе с данными» (svc_monitor.go:178-179): the
\* bytes of the entry are those of its data.
JsonIsOfData == cache # None => cache.json = cache.data

=============================================================================
