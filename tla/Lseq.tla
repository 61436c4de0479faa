-------------------------------- MODULE Lseq --------------------------------
(***************************************************************************)
(* The position allocator of the shared editor (src/src/crdt/lseq.cpp).    *)
(*                                                                         *)
(* A position is a path in a tree whose nodes have the children            *)
(* Begin .. End.  Between(prev, next, ...) allocates a path strictly       *)
(* between two others; it is what makes insertion possible everywhere and  *)
(* what orders the text of every replica.                                  *)
(*                                                                         *)
(* Levels are numbered from 1 here and from 0 in the code.  Only operators *)
(* live in this module, none of them RECURSIVE: PositionAllocation runs    *)
(* them, PositionAllocation_proofs reasons about them for every Begin, End *)
(* and Boundary.                                                           *)
(***************************************************************************)
EXTENDS Integers, Sequences

CONSTANTS Begin,        \* Lseq::begin, the first child of a node
          End,          \* Lseq::end, the last child of a node
          Boundary      \* boundary_, the largest step away from a neighbour

(* The code's values are -(2^29 - 1), 2^29 - 1 and 100.  One child strictly *)
(* between Begin and End is all that the algorithm needs of them.           *)
ASSUME LseqAssumption ==
    /\ Begin \in Int
    /\ End \in Int
    /\ Begin + 1 < End
    /\ Boundary \in Nat \ {0}

-----------------------------------------------------------------------------
(* Order of positions: QVector::operator<, a proper prefix comes first. *)
PosLess(p, q) ==
    \E d \in 1 .. Len(q) :
        /\ \A e \in 1 .. (d - 1) : e <= Len(p) /\ p[e] = q[e]
        /\ Len(p) < d \/ p[d] < q[d]

(* Component d of p, with p filled with Begin beyond its last component. *)
At(p, d) == IF d \in 1 .. Len(p) THEN p[d] ELSE Begin

(* Mutant: the vectors are not filled one level further. *)
MaxDepthOfPaths(prev, next) == IF Len(prev) < Len(next) THEN Len(next) ELSE Len(prev)

(* The number of levels the allocation looks at. *)
MaxDepth(prev, next) ==
    1 + IF Len(prev) < Len(next) THEN Len(next) ELSE Len(prev)

(* A level above d holds consecutive nodes. *)
Consecutive(prev, next, d) ==
    \E e \in 1 .. (d - 1) : At(next, e) - At(prev, e) - 1 = 0

(* How many positions of length d are free between prev and next: after    *)
(* consecutive nodes, those below prev and those below next.               *)
Interval(prev, next, d) ==
    IF ~Consecutive(prev, next, d)
    THEN At(next, d) - At(prev, d) - 1
    ELSE   (IF At(next, d) # Begin THEN At(next, d) - Begin - 1 ELSE 0)
         + (IF At(prev, d) # End THEN End - At(prev, d) - 1 ELSE 0)

(* The search loop ends inside the filled positions. *)
HasRoom(prev, next) ==
    \E d \in 1 .. MaxDepth(prev, next) : Interval(prev, next, d) >= 1

(* The level the search loop stops at. *)
Depth(prev, next) ==
    CHOOSE d \in 1 .. MaxDepth(prev, next) :
        /\ Interval(prev, next, d) >= 1
        /\ \A e \in 1 .. (d - 1) : Interval(prev, next, e) < 1

(* The steps rand() % interval + 1 can return. *)
Steps(prev, next) ==
    LET interval == Interval(prev, next, Depth(prev, next))
    IN  1 .. IF Boundary < interval THEN Boundary ELSE interval

(* The path of p down to level d, then the node leaf. *)
Child(p, d, leaf) == Append([e \in 1 .. (d - 1) |-> At(p, e)], leaf)

(* Mutant: a step up to the last child itself is not carried over. *)
BetweenLeafAtEnd(prev, next, plus, step) ==
    LET d == Depth(prev, next) IN
    IF plus THEN Child(prev, d, At(prev, d) + step) ELSE Child(next, d, At(next, d) - step)

(* Mutant: the step carried over beyond End stays below prev. *)
BetweenBelowPrev(prev, next, plus, step) ==
    LET d == Depth(prev, next) IN
    IF plus
    THEN IF At(prev, d) + step >= End
         THEN Child(prev, d, Begin + step
                  - IF At(prev, d) = End THEN 0 ELSE End - At(prev, d) - 1)
         ELSE Child(prev, d, At(prev, d) + step)
    ELSE Child(next, d, At(next, d) - step)

(* The allocated position: plus is the strategy boundary_plus. *)
Between(prev, next, plus, step) ==
    LET d == Depth(prev, next) IN
    IF plus
    THEN IF At(prev, d) + step >= End
         THEN Child(next, d, Begin + step
                  - IF At(prev, d) = End THEN 0 ELSE End - At(prev, d) - 1)
         ELSE Child(prev, d, At(prev, d) + step)
    ELSE IF At(next, d) - step <= Begin
         THEN Child(prev, d, End - step
                  + IF At(next, d) = Begin THEN 0 ELSE At(next, d) - Begin - 1)
         ELSE Child(next, d, At(next, d) - step)

-----------------------------------------------------------------------------
(* What every position of a symbol looks like; BOF is <<Begin>>, EOF <<End>>. *)
Path(p) == p \in Seq(Begin .. End) /\ p # << >>
LeafInside(p) == Begin < p[Len(p)] /\ p[Len(p)] < End
IsPosition(p) == Path(p) /\ LeafInside(p)
=============================================================================
