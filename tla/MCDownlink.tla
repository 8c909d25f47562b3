----------------------------- MODULE MCDownlink -----------------------------
(* Small instances of Downlink for TLC.                                     *)
EXTENDS Downlink

Frame(ty, to, ch, size, kbps) ==
    [ty |-> ty, to |-> to, ch |-> ch, size |-> size, kbps |-> kbps]

\* A message of channel 2, a budget, a kick, and a frame that the engine does
\* not expect on this link.
Mixed == {Frame("send", <<1>>, 2, 1, 0), Frame("budget", <<1>>, 0, 0, 1),
          Frame("kick", <<1>>, 0, 0, 0), Frame("hello", <<>>, 0, 0, 0)}

\* A message of channel 2 to the members of a room.
OneMessage == {Frame("multicast", <<1>>, 2, 1, 0)}
=============================================================================
