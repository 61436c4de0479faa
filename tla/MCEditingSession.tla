-------------------------- MODULE MCEditingSession --------------------------
(* Instances of EditingSession for TLC: where the clients' sockets live.    *)
EXTENDS EditingSession

OneWorker == [c \in Clients |-> 1]
OwnWorker == [c \in Clients |-> c]      \* client c on worker c
=============================================================================
