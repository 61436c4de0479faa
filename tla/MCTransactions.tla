---------------------------- MODULE MCTransactions ----------------------------
(* Instances of Transactions for TLC: who owns the documents, and sessions   *)
(* that are interchangeable.                                                 *)
EXTENDS Transactions, TLC

CONSTANTS u1, u2

OneOwner == [d \in Docs |-> u1]

Symmetry == Permutations(Sessions)
=============================================================================
