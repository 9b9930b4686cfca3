------------------------ MODULE MCSnapshotDispatcher ------------------------
(* Two games, four timers alive at a time and three versions: enough for a  *)
(* fired timer to be overtaken by two newer ones of its game while the      *)
(* other game is scheduled.  Events go on for ever.                         *)
EXTENDS SnapshotDispatcher
CONSTANTS g1, g2
MCGames == {g1, g2}
=============================================================================
