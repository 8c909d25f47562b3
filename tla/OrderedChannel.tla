--------------------------- MODULE OrderedChannel ---------------------------
(***************************************************************************)
(* What channel 2 promises its two users, "可靠有序": the receiver is handed *)
(* the accepted messages, whole, in the order of acceptance, each once.     *)
(***************************************************************************)
EXTENDS SequencesExt

CONSTANT Messages

VARIABLES
    accepted,   \* the messages whose sending was reported as successful
    handedOn    \* the messages given to the receiver's user

Init == accepted = <<>> /\ handedOn = <<>>

Accept == \E m \in Messages :
    accepted' = Append(accepted, m) /\ UNCHANGED handedOn

\* One datagram may close a gap and release several messages at once.
HandOn ==
    /\ IsPrefix(handedOn, handedOn') /\ handedOn' # handedOn
    /\ IsPrefix(handedOn', accepted)
    /\ UNCHANGED accepted

Next == Accept \/ HandOn

Spec == Init /\ [][Next]_<<accepted, handedOn>>
=============================================================================
