--------------------------- MODULE MCClientSession ---------------------------
(* Instances of ClientSession for TLC: the document there is, and how many  *)
(* times each user clicks.                                                   *)
EXTENDS ClientSession

CONSTANTS u1, u2, c1, n1

OneDocument == {Document(u1, n1)}
Four == [c \in Clients |-> 4]
Five == [c \in Clients |-> 5]
Six == [c \in Clients |-> 6]
FiveAndFour == [c \in Clients |-> IF c = c1 THEN 5 ELSE 4]
=============================================================================
