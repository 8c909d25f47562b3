----------------------------- MODULE MCRoomTick -----------------------------
(* Small instances of RoomTick for TLC.                                     *)
EXTENDS RoomTick

OnePlayer == {1}
TwoPlayers == {1, 2}

\* A client whose tick is a little ahead of the room's, as prediction has it.
Ahead == [p \in Players |-> 1]

\* Two clients, the second less ahead than the first.
Apart == [p \in Players |-> 3 - p]
=============================================================================
