----------------------------- MODULE MCPresence -----------------------------
(* Instances of Presence for TLC: where the clients' connections live, and   *)
(* who is logged in there.                                                   *)
EXTENDS Presence

CONSTANTS ann, bob

OwnWorker == [c \in Clients |-> c]              \* client c on worker c
TwoAndOne == [c \in Clients |-> IF c = 3 THEN 1 ELSE c]

TwoOfBob == [c \in Clients |-> IF c = 1 THEN ann ELSE bob]
OnlyAnn == <<ann>>
OneByFirst == [c \in Clients |-> IF c = 1 THEN 1 ELSE 0]     \* client 1 moves
NoMoves == [c \in Clients |-> 0]
OneBySecond == [c \in Clients |-> IF c = 2 THEN 1 ELSE 0]
=============================================================================
