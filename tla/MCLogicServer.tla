---------------------------- MODULE MCLogicServer ----------------------------
(* Small instances of LogicServer for TLC.                                  *)
EXTENDS LogicServer

Decision(action, room) == [action |-> action, room |-> room]

\* The first player opens the room, the second may be sent there or away.
TwoPlayers == {1, 2}
OneRoom == {1}
HostAndGuest ==
    [p \in TwoPlayers |->
        IF p = 1 THEN {Decision("create", 1)}
                 ELSE {Decision("join", 1), Decision("reject", 1)}]
=============================================================================
