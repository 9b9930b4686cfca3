------------------------- MODULE MCMonitorSnapshot -------------------------
(***************************************************************************)
(* Three goroutines that poll and invalidate, one of which asks for the    *)
(* bytes, and a game that changes twice: two invalidations may overlap.    *)
(***************************************************************************)
EXTENDS MonitorSnapshot

CONSTANTS p1, p2, p3

=============================================================================
