--------------------------- MODULE MCReliableLink ---------------------------
(* Small instances of ReliableLink for TLC: the bounds are in the .cfg      *)
(* files, one for each regime of the link.                                  *)
EXTENDS ReliableLink
=============================================================================
