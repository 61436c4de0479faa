------------------------- MODULE MCDocumentManager -------------------------
(* DocumentManager on small sets: sessions and documents are interchangeable. *)
EXTENDS DocumentManager, TLC

Symmetry == Permutations(Sessions) \cup Permutations(Docs)
=============================================================================
