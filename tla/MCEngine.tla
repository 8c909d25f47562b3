------------------------------ MODULE MCEngine ------------------------------
(* Small instances of Engine for TLC.                                       *)
EXTENDS Engine, TLC

\* Every address reaches the same receive task.
OneWorker == [p \in Peers |-> CHOOSE w \in Workers : TRUE]

\* With as many receive tasks as addresses: each address has its own.
OwnWorker == CHOOSE f \in [Peers -> Workers] : IsInjective(f)
=============================================================================
