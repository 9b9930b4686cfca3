------------------------- MODULE SnapshotDispatcher -------------------------
(***************************************************************************)
(* The debouncing dispatcher of monitoring snapshots                       *)
(* (internal/domain/game/svc_snapshot.go).  Players' requests Schedule a   *)
(* recomputation for their game; a time.AfterFunc timer fires after a      *)
(* quiet period and its goroutine flushes: it takes the mutex, compares    *)
(* the version it captured with the map, and runs the worker function.     *)
(*                                                                         *)
(* A timer that has fired is a goroutine that may wait for the mutex       *)
(* arbitrarily long, so Fire and the two flush outcomes are steps of their *)
(* own and Schedule, Close and other flushes may fall between them.        *)
(*                                                                         *)
(* The usual names carry the prefix Dispatcher because SnapshotProofs      *)
(* extends this module together with MonitorSnapshot.                      *)
(***************************************************************************)
EXTENDS Naturals

CONSTANTS
    Games,      \* game identifiers
    MaxTimers,  \* bound: how many timers are alive at a time
    MaxVersion  \* bound: the largest version, 2^64 - 1 in the code

ASSUME MaxTimersAssumption == MaxTimers \in Nat
ASSUME MaxVersionAssumption == MaxVersion \in Nat \ {0}

NoTimer == 0
TimerIds == 1 .. MaxTimers

VARIABLES
    timers,     \* d.timers: the timer a game's map entry names, or NoTimer
    versions,   \* d.versions: 0 is the zero value read from a missing entry
    closed,     \* d.closed
    armed,      \* timers still counting down
    fired,      \* timers whose flush goroutine waits for the mutex
    dirty       \* the game has an event no worker function started after

dispatcherVars == <<timers, versions, closed, armed, fired, dirty>>

\* What a timer's closure captured.
Timer == [id : TimerIds, game : Games, version : 1 .. MaxVersion]

Live == armed \cup fired

DispatcherTypeOK ==
    /\ timers \in [Games -> TimerIds \cup {NoTimer}]
    /\ versions \in [Games -> 0 .. MaxVersion]
    /\ closed \in BOOLEAN
    /\ armed \subseteq Timer
    /\ fired \subseteq Timer
    /\ dirty \in [Games -> BOOLEAN]

DispatcherInit ==
    /\ timers = [g \in Games |-> NoTimer]
    /\ versions = [g \in Games |-> 0]
    /\ closed = FALSE
    /\ armed = {}
    /\ fired = {}
    /\ dirty = [g \in Games |-> FALSE]

-----------------------------------------------------------------------------

\* A new timer is told from every timer alive.  Ids are used again, so that
\* events may go on for ever in a finite model.
FreeIds == TimerIds \ {t.id : t \in Live}
NewId(id) == id \in FreeIds /\ \A i \in FreeIds : id <= i

NextVersion(g) == IF versions[g] = MaxVersion THEN 1 ELSE versions[g] + 1

\* The counter starts again only when no goroutine still holds a version of
\* the game from before.  The bound delays an event; it never ends the events.
VersionIsFree(g) ==
    versions[g] = MaxVersion => \A t \in Live : t.game = g => t \in armed /\ t.id = timers[g]

\* Mutant: the closure captures the version before it is incremented.
CapturedVersion_BeforeIncrement(g) == versions[g]

CapturedVersion(g) == NextVersion(g)

\* Stop the game's previous timer and arm one that captures the new version.
\* Stop does nothing to a timer that has already fired.
Schedule(g, id) ==
    /\ ~closed
    /\ NewId(id)
    /\ VersionIsFree(g)
    /\ versions' = [versions EXCEPT ![g] = NextVersion(g)]
    /\ timers' = [timers EXCEPT ![g] = id]
    /\ armed' = {t \in armed : t.id # timers[g]}
                  \cup {[id |-> id, game |-> g, version |-> CapturedVersion(g)]}
    /\ dirty' = [dirty EXCEPT ![g] = TRUE]
    /\ UNCHANGED <<closed, fired>>

\* The runtime starts the goroutine of an expired timer.
Fire(t) ==
    /\ t \in armed
    /\ armed' = armed \ {t}
    /\ fired' = fired \cup {t}
    /\ UNCHANGED <<timers, versions, closed, dirty>>

\* flush with a version that is still current: forget the entry, run fn.
FlushCurrent(t) ==
    /\ t \in fired
    /\ ~closed
    /\ versions[t.game] = t.version
    /\ fired' = fired \ {t}
    /\ timers' = [timers EXCEPT ![t.game] = NoTimer]
    /\ versions' = [versions EXCEPT ![t.game] = 0]
    /\ dirty' = [dirty EXCEPT ![t.game] = FALSE]
    /\ UNCHANGED <<closed, armed>>

\* Mutant: an outdated flush deletes the entry before it looks at the version.
FlushOutdated_DeletesEntry(t) ==
    /\ t \in fired
    /\ closed \/ versions[t.game] # t.version
    /\ fired' = fired \ {t}
    /\ timers' = [timers EXCEPT ![t.game] = NoTimer]
    /\ versions' = [versions EXCEPT ![t.game] = 0]
    /\ UNCHANGED <<closed, armed, dirty>>

\* flush of a closed dispatcher, or with an outdated version: return.
FlushOutdated(t) ==
    /\ t \in fired
    /\ closed \/ versions[t.game] # t.version
    /\ fired' = fired \ {t}
    /\ UNCHANGED <<timers, versions, closed, armed, dirty>>

\* Stop the timers the map still names and drop the maps.
Close ==
    /\ ~closed
    /\ closed' = TRUE
    /\ armed' = {t \in armed : \A g \in Games : t.id # timers[g]}
    /\ timers' = [g \in Games |-> NoTimer]
    /\ versions' = [g \in Games |-> 0]
    /\ UNCHANGED <<fired, dirty>>

Flush(t) == FlushCurrent(t) \/ FlushOutdated(t)

DispatcherNext ==
    \/ \E g \in Games, id \in TimerIds : Schedule(g, id)
    \/ \E t \in armed : Fire(t)
    \/ \E t \in fired : Flush(t)
    \/ Close

\* The Go runtime fires every timer that is not stopped and runs every
\* goroutine, and a mutex held for a few map operations is released.  Nothing
\* is assumed of the events, which may come for ever or never.
DispatcherFairness ==
    \A id \in TimerIds :
        /\ WF_dispatcherVars(\E t \in armed : t.id = id /\ Fire(t))
        /\ WF_dispatcherVars(\E t \in fired : t.id = id /\ Flush(t))

DispatcherSpec == DispatcherInit /\ [][DispatcherNext]_dispatcherVars /\ DispatcherFairness

-----------------------------------------------------------------------------

\* No event is lost while the dispatcher is open: a game with an event that no
\* worker function has started after has a timer, counting down or fired,
\* whose flush will still find its version current (Schedule and flush,
\* svc_snapshot.go:44-81).
PendingIsCovered ==
    \A g \in Games :
        dirty[g] /\ ~closed =>
            \E t \in Live : t.game = g /\ t.version = versions[g]

\* An event is followed by a recomputation of its game that starts after it,
\* unless another event of the game replaces its timer first or the dispatcher
\* is closed: the timer an event armed is never dropped for a goroutine that
\* comes late, nor for the events of other games (svc_snapshot.go:42-81).
EventIsProcessed ==
    \A g \in Games, id \in TimerIds :
        dirty[g] /\ timers[g] = id ~> \/ ~dirty[g]
                                      \/ closed
                                      \/ timers[g] \notin {id, NoTimer}

\* What a reader of "many attempts in a short time become one recomputation"
\* (svc_snapshot.go:10-12) would expect, and what the code does not do: every
\* Schedule starts the delay anew (:53-60) and no delay has a maximum, so a game
\* whose events come closer together than the delay is never recomputed.
EveryEventIsProcessed ==
    \A g \in Games : dirty[g] ~> (~dirty[g] \/ closed)

\* What the comment at svc_snapshot.go:22-26 promises: a flush removes the map
\* entry of its own timer only, never the entry of a newer one.
FlushRemovesOwnTimer ==
    [][\A t \in fired :
          t \notin fired' /\ timers[t.game] # NoTimer /\ timers'[t.game] = NoTimer
              => timers[t.game] = t.id]_dispatcherVars

=============================================================================
