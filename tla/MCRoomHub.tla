----------------------------- MODULE MCRoomHub -----------------------------
EXTENDS RoomHub, TLC
CONSTANTS r1
MCRoomOf == [c \in Clients |-> r1]
Symmetry == Permutations(Clients)
=============================================================================
