---------------------- MODULE PositionAllocation_proofs ----------------------
(***************************************************************************)
(* First, Lseq::between is right for every Begin, End and Boundary:        *)
(* between two ordered paths its search finds a level, and whatever        *)
(* strategy and step the random generator chooses, the allocated path lies *)
(* strictly between them and ends in an inner child.                       *)
(*                                                                         *)
(* Then texts stay strictly sorted, for any number of sites and symbols    *)
(* and whatever the allocators draw: what is shown of one allocation is    *)
(* carried through the inserts and erases of all replicas.                 *)
(***************************************************************************)
EXTENDS PositionAllocation, SequenceTheorems, FiniteSetTheorems,
        WellFoundedInduction, TLAPS

(* The first neighbour may be BOF, the second EOF: of the second it matters *)
(* that filling it with Begin does not hide its last component.             *)
Lower(p) == Path(p)
Upper(q) == Path(q) /\ Begin < q[Len(q)]

(* Order of two filled positions: their first difference is at level e. *)
FirstLess(p, q, e) ==
    /\ At(p, e) < At(q, e)
    /\ \A f \in 1 .. (e - 1) : At(p, f) = At(q, f)

(* A non-empty set of naturals has a least element (the loop that looks for *)
(* a level stops at the first that fits).                                   *)
LEMMA LeastExists ==
    ASSUME NEW S \in SUBSET Nat, S # {}
    PROVE  \E m \in S : \A n \in S : m <= n
<1>. DEFINE R == {ss \in Nat \X Nat : ss[1] < ss[2]}
<1>1. IsWellFoundedOn(R, Nat)
  <2>1. OpToRel(<, Nat) = R
    BY Zenon DEF OpToRel
  <2>. QED
    BY <2>1, NatLessThanWellFounded, Zenon
<1>2. PICK m \in S : \A n \in S : <<n, m>> \notin R
  <2>. HIDE DEF R
  <2>. QED
    BY <1>1, WFMin, Zenon
<1>3. ASSUME NEW n \in S PROVE m <= n
  <2>1. m \in Nat /\ n \in Nat
    OBVIOUS
  <2>2. <<n, m>> \notin R
    BY <1>2
  <2>. QED
    BY <2>1, <2>2
<1>. QED
  BY <1>3

(* A filled component is a child of a node, Begin beyond the last level. *)
LEMMA AtRange ==
    ASSUME NEW p, Path(p), NEW d \in Int
    PROVE  /\ At(p, d) \in Int
           /\ Begin <= At(p, d) /\ At(p, d) <= End
           /\ d > Len(p) => At(p, d) = Begin
<1>1. p \in Seq(Begin .. End)
  BY DEF Path
<1>2. CASE d \in 1 .. Len(p)
  <2>1. p[d] \in Begin .. End
    BY <1>1, <1>2, ElementOfSeq
  <2>. QED
    BY <2>1, <1>2, <1>1, LseqAssumption DEF At
<1>3. CASE d \notin 1 .. Len(p)
  BY <1>1, <1>3, LseqAssumption DEF At
<1>. QED
  BY <1>2, <1>3

(* Two ordered paths stay ordered when they are filled with Begin. *)
LEMMA FilledOrder ==
    ASSUME NEW p, NEW q, Lower(p), Upper(q), PosLess(p, q)
    PROVE  \E e \in 1 .. Len(q) : FirstLess(p, q, e)
<1>1. p \in Seq(Begin .. End) /\ q \in Seq(Begin .. End) /\ Len(q) \in Nat /\ Len(p) \in Nat
  BY DEF Lower, Upper, Path
<1>2. PICK d \in 1 .. Len(q) :
           /\ \A f \in 1 .. (d - 1) : f <= Len(p) /\ p[f] = q[f]
           /\ Len(p) < d \/ p[d] < q[d]
  BY DEF PosLess
<1>3. \A f \in 1 .. (d - 1) : At(p, f) = At(q, f)
  BY <1>1, <1>2 DEF At
<1>4. CASE d <= Len(p)
  <2>1. At(p, d) = p[d] /\ At(q, d) = q[d]
    BY <1>1, <1>2, <1>4 DEF At
  <2>2. At(p, d) < At(q, d)
    BY <2>1, <1>2, <1>4, <1>1
  <2>. QED
    BY <2>2, <1>3 DEF FirstLess
<1>5. CASE Len(p) < d
  <2>. DEFINE S == {e \in d .. Len(q) : At(q, e) # Begin}
  <2>1. Len(q) \in S
    <3>1. q[Len(q)] # Begin
      <4>1. Begin < q[Len(q)]
        BY DEF Upper
      <4>. QED
        BY <4>1, LseqAssumption
    <3>2. At(q, Len(q)) = q[Len(q)]
      BY <1>1, <1>2 DEF At
    <3>. QED
      BY <3>1, <3>2, <1>1, <1>2
  <2>2. S \in SUBSET Nat
    BY <1>1, <1>2
  <2>3. PICK e \in S : \A f \in S : e <= f
    BY <2>1, <2>2, LeastExists
  <2>4. e \in 1 .. Len(q) /\ d <= e /\ At(q, e) # Begin
    BY <2>3, <1>2, <1>1
  <2>5. At(p, e) = Begin
    BY <2>4, <1>5, <1>1, AtRange DEF Lower
  <2>6. At(p, e) < At(q, e)
    BY <2>4, <2>5, AtRange, LseqAssumption DEF Upper
  <2>7. \A f \in 1 .. (e - 1) : At(p, f) = At(q, f)
    <3>. SUFFICES ASSUME NEW f \in 1 .. (e - 1) PROVE At(p, f) = At(q, f)
      OBVIOUS
    <3>1. CASE f < d
      BY <3>1, <1>3, <2>4
    <3>2. CASE d <= f
      <4>1. f \notin S
        BY <2>3, <2>4, <1>1, <1>2
      <4>2. At(q, f) = Begin
        BY <4>1, <3>2, <2>4, <1>1, <1>2
      <4>3. At(p, f) = Begin
        BY <3>2, <1>5, <1>1, <1>2, <2>4, AtRange DEF Lower
      <4>. QED
        BY <4>2, <4>3
    <3>. QED
      BY <3>1, <3>2, <1>2, <2>4, <1>1
  <2>. QED
    BY <2>4, <2>6, <2>7 DEF FirstLess
<1>. QED
  BY <1>4, <1>5, <1>1, <1>2

(* The first difference of the two paths leaves a level with a free         *)
(* position: the node itself, or, when the nodes are consecutive, the level *)
(* beyond both paths at the latest.                                         *)
LEMMA RoomBetween ==
    ASSUME NEW p, NEW q, Lower(p), Upper(q), PosLess(p, q)
    PROVE  HasRoom(p, q)
<1>1. PICK e \in 1 .. Len(q) : FirstLess(p, q, e)
  BY FilledOrder
<1>2. Len(p) \in Nat /\ Len(q) \in Nat
  BY DEF Lower, Upper, Path
<1>3. MaxDepth(p, q) \in Nat /\ Len(p) < MaxDepth(p, q) /\ Len(q) < MaxDepth(p, q)
  BY <1>2 DEF MaxDepth
<1>4. At(p, e) \in Int /\ At(q, e) \in Int /\ At(p, e) < At(q, e)
  BY <1>1, AtRange DEF Lower, Upper, FirstLess
<1>5. CASE Consecutive(p, q, e)
  <2>1. PICK f \in 1 .. (e - 1) : At(q, f) - At(p, f) - 1 = 0
    BY <1>5 DEF Consecutive
  <2>2. At(p, f) = At(q, f) /\ At(p, f) \in Int
    BY <1>1, AtRange DEF FirstLess, Lower
  <2>. QED
    BY <2>1, <2>2
<1>6. CASE ~Consecutive(p, q, e) /\ At(q, e) - At(p, e) - 1 = 0
  <2>. DEFINE d == MaxDepth(p, q)
  <2>1. Consecutive(p, q, d)
    BY <1>6, <1>3, <1>2 DEF Consecutive
  <2>2. At(p, d) = Begin /\ At(q, d) = Begin
    BY <1>3, AtRange DEF Lower, Upper
  <2>3. Interval(p, q, d) = End - Begin - 1
    BY <2>1, <2>2, LseqAssumption DEF Interval
  <2>. QED
    BY <2>3, <1>3, LseqAssumption DEF HasRoom
<1>7. CASE ~Consecutive(p, q, e) /\ At(q, e) - At(p, e) - 1 # 0
  <2>1. Interval(p, q, e) >= 1
    BY <1>7, <1>4 DEF Interval
  <2>. QED
    BY <2>1, <1>2, <1>3 DEF HasRoom
<1>. QED
  BY <1>5, <1>6, <1>7

(* The level the loop stops at is the first that has room. *)
LEMMA DepthIsFirst ==
    ASSUME NEW p, NEW q, Lower(p), Upper(q), HasRoom(p, q)
    PROVE  /\ Depth(p, q) \in 1 .. MaxDepth(p, q)
           /\ Interval(p, q, Depth(p, q)) >= 1
           /\ \A e \in 1 .. (Depth(p, q) - 1) : Interval(p, q, e) < 1
<1>. DEFINE S == {d \in 1 .. MaxDepth(p, q) : Interval(p, q, d) >= 1}
<1>1. MaxDepth(p, q) \in Nat
  BY DEF Lower, Upper, Path, MaxDepth
<1>2. S \in SUBSET Nat /\ S # {}
  BY <1>1 DEF HasRoom
<1>3. PICK d \in S : \A n \in S : d <= n
  BY <1>2, LeastExists
<1>4. ASSUME NEW e \in Int PROVE Interval(p, q, e) \in Int
  <2>1. At(p, e) \in Int /\ At(q, e) \in Int
    BY AtRange DEF Lower, Upper
  <2>. QED
    BY <2>1, LseqAssumption DEF Interval
<1>5. \A e \in 1 .. (d - 1) : Interval(p, q, e) < 1
  <2>. SUFFICES ASSUME NEW e \in 1 .. (d - 1) PROVE Interval(p, q, e) < 1
    OBVIOUS
  <2>1. e \notin S
    BY <1>3, <1>1
  <2>. QED
    BY <2>1, <1>1, <1>3, <1>4
<1>. QED
  BY <1>3, <1>5 DEF Depth

-----------------------------------------------------------------------------
(* The path down to level d and a leaf there. *)
LEMMA ChildShape ==
    ASSUME NEW p, Path(p), NEW d \in Nat \ {0}, NEW leaf \in Int
    PROVE  /\ Len(Child(p, d, leaf)) = d
           /\ Child(p, d, leaf)[d] = leaf
           /\ \A e \in 1 .. (d - 1) : Child(p, d, leaf)[e] = At(p, e)
           /\ Begin < leaf /\ leaf < End => IsPosition(Child(p, d, leaf))
<1>. DEFINE pre == [e \in 1 .. (d - 1) |-> At(p, e)]
<1>1. \A e \in 1 .. (d - 1) : At(p, e) \in Begin .. End
  BY AtRange, LseqAssumption
<1>2. pre \in Seq(Begin .. End) /\ Len(pre) = d - 1
  BY <1>1
<1>3. pre \in Seq(Int)
  BY <1>1, LseqAssumption
<1>4. /\ Len(Append(pre, leaf)) = d
      /\ Append(pre, leaf)[d] = leaf
      /\ \A e \in 1 .. (d - 1) : Append(pre, leaf)[e] = pre[e]
  BY <1>2, <1>3
<1>5. ASSUME Begin < leaf, leaf < End PROVE IsPosition(Append(pre, leaf))
  <2>1. leaf \in Begin .. End
    BY <1>5, LseqAssumption
  <2>2. Append(pre, leaf) \in Seq(Begin .. End)
    BY <2>1, <1>2
  <2>3. Append(pre, leaf) # << >>
    BY <1>4
  <2>. QED
    BY <2>2, <2>3, <1>4, <1>5 DEF IsPosition, Path, LeafInside
<1>. QED
  BY <1>4, <1>5 DEF Child

(* A child of p's own path beyond p's component follows p ... *)
LEMMA ChildAbove ==
    ASSUME NEW p, Path(p), NEW d \in Nat \ {0}, NEW leaf \in Int, At(p, d) < leaf
    PROVE  PosLess(p, Child(p, d, leaf))
<1>. DEFINE c == Child(p, d, leaf)
<1>1. Len(p) \in Nat
  BY DEF Path
<1>2. Len(c) = d /\ c[d] = leaf /\ \A e \in 1 .. (d - 1) : c[e] = At(p, e)
  BY ChildShape
<1>3. CASE d <= Len(p)
  <2>1. At(p, d) = p[d] /\ \A e \in 1 .. (d - 1) : At(p, e) = p[e]
    BY <1>1, <1>3 DEF At
  <2>. HIDE DEF c
  <2>2. \A e \in 1 .. (d - 1) : e <= Len(p) /\ p[e] = c[e]
    BY <2>1, <1>1, <1>2, <1>3
  <2>3. p[d] < c[d]
    BY <2>1, <1>2
  <2>. QED
    BY <2>2, <2>3, <1>2 DEF PosLess, c
<1>4. CASE Len(p) < d
  <2>1. \A e \in 1 .. Len(p) : At(p, e) = p[e]
    BY <1>1 DEF At
  <2>. HIDE DEF c
  <2>2. \A e \in 1 .. (Len(p) + 1 - 1) : e <= Len(p) /\ p[e] = c[e]
    BY <2>1, <1>1, <1>2, <1>4
  <2>3. Len(p) + 1 \in 1 .. Len(c) /\ Len(p) < Len(p) + 1
    BY <1>1, <1>2, <1>4
  <2>. QED
    BY <2>2, <2>3 DEF PosLess, c
<1>. QED
  BY <1>1, <1>3, <1>4

(* ... and one before q's component precedes q. *)
LEMMA ChildBelow ==
    ASSUME NEW q, Path(q), NEW d \in Nat \ {0}, NEW leaf \in Int,
           Begin <= leaf, leaf < At(q, d)
    PROVE  PosLess(Child(q, d, leaf), q)
<1>. DEFINE c == Child(q, d, leaf)
<1>1. Len(q) \in Nat
  BY DEF Path
<1>2. Len(c) = d /\ c[d] = leaf /\ \A e \in 1 .. (d - 1) : c[e] = At(q, e)
  BY ChildShape
<1>3. d <= Len(q)
  <2>1. At(q, d) \in Int /\ (d > Len(q) => At(q, d) = Begin)
    BY AtRange
  <2>. QED
    BY <1>1, <2>1, LseqAssumption
<1>4. At(q, d) = q[d] /\ \A e \in 1 .. (d - 1) : At(q, e) = q[e]
  BY <1>1, <1>3 DEF At
<1>. HIDE DEF c
<1>5. \A e \in 1 .. (d - 1) : e <= Len(c) /\ c[e] = q[e]
  BY <1>2, <1>4
<1>6. c[d] < q[d] /\ d \in 1 .. Len(q)
  BY <1>1, <1>2, <1>3, <1>4
<1>. QED
  BY <1>5, <1>6 DEF PosLess, c

(* Below the first difference of p and q, any child of p's path precedes q. *)
LEMMA ChildOfLower ==
    ASSUME NEW p, NEW q, Path(p), Path(q), NEW e \in 1 .. Len(q), FirstLess(p, q, e),
           NEW d \in Nat, e < d, NEW leaf \in Int
    PROVE  PosLess(Child(p, d, leaf), q)
<1>. DEFINE c == Child(p, d, leaf)
<1>1. Len(q) \in Nat
  BY DEF Path
<1>2. Len(c) = d /\ \A f \in 1 .. (d - 1) : c[f] = At(p, f)
  BY ChildShape
<1>3. \A f \in 1 .. e : At(q, f) = q[f]
  BY <1>1 DEF At
<1>. HIDE DEF c
<1>4. \A f \in 1 .. (e - 1) : f <= Len(c) /\ c[f] = q[f]
  BY <1>1, <1>2, <1>3 DEF FirstLess
<1>5. c[e] < q[e]
  BY <1>1, <1>2, <1>3 DEF FirstLess
<1>. QED
  BY <1>4, <1>5 DEF PosLess, c

(* Below the first difference of p and q, any child of q's path follows p. *)
LEMMA ChildOfUpper ==
    ASSUME NEW p, NEW q, Path(p), Path(q), NEW e \in 1 .. Len(q), FirstLess(p, q, e),
           NEW d \in Nat, e < d, NEW leaf \in Int
    PROVE  PosLess(p, Child(q, d, leaf))
<1>. DEFINE c == Child(q, d, leaf)
<1>1. Len(p) \in Nat /\ Len(q) \in Nat
  BY DEF Path
<1>2. Len(c) = d /\ \A f \in 1 .. (d - 1) : c[f] = At(q, f)
  BY ChildShape
<1>3. \A f \in 1 .. Len(p) : At(p, f) = p[f]
  BY <1>1 DEF At
<1>. HIDE DEF c
<1>4. CASE e <= Len(p)
  <2>1. \A f \in 1 .. (e - 1) : f <= Len(p) /\ p[f] = c[f]
    BY <1>1, <1>2, <1>3, <1>4 DEF FirstLess
  <2>2. p[e] < c[e] /\ e \in 1 .. Len(c)
    BY <1>1, <1>2, <1>3, <1>4 DEF FirstLess
  <2>. QED
    BY <2>1, <2>2 DEF PosLess, c
<1>5. CASE Len(p) < e
  <2>1. \A f \in 1 .. (Len(p) + 1 - 1) : f <= Len(p) /\ p[f] = c[f]
    BY <1>1, <1>2, <1>3, <1>5 DEF FirstLess
  <2>2. Len(p) + 1 \in 1 .. Len(c) /\ Len(p) < Len(p) + 1
    BY <1>1, <1>2, <1>5
  <2>. QED
    BY <2>1, <2>2 DEF PosLess, c
<1>. QED
  BY <1>1, <1>4, <1>5

-----------------------------------------------------------------------------
(* Lseq::between: for any two ordered neighbours, any strategy and any step *)
(* that rand() can give, the allocated path ends in an inner child and lies *)
(* strictly between them, so the symbol inserted in the middle is also the  *)
(* one every other replica's lower_bound puts there.                        *)
THEOREM BetweenIsBetween ==
    ASSUME NEW prev, NEW next, Lower(prev), Upper(next), PosLess(prev, next),
           NEW plus \in BOOLEAN, NEW step \in Steps(prev, next)
    PROVE  /\ HasRoom(prev, next)
           /\ IsPosition(Between(prev, next, plus, step))
           /\ PosLess(prev, Between(prev, next, plus, step))
           /\ PosLess(Between(prev, next, plus, step), next)
<1>. DEFINE d == Depth(prev, next)
            P == At(prev, d)
            N == At(next, d)
            Right(b) == IsPosition(b) /\ PosLess(prev, b) /\ PosLess(b, next)
<1>1. HasRoom(prev, next)
  BY RoomBetween
<1>2. /\ d \in 1 .. MaxDepth(prev, next)
      /\ Interval(prev, next, d) >= 1
      /\ \A f \in 1 .. (d - 1) : Interval(prev, next, f) < 1
  BY <1>1, DepthIsFirst
<1>3. /\ Path(prev) /\ Path(next) /\ Len(prev) \in Nat /\ Len(next) \in Nat
      /\ d \in Nat \ {0}
  BY <1>2 DEF Lower, Upper, Path, MaxDepth
<1>4. PICK e \in 1 .. Len(next) : FirstLess(prev, next, e)
  BY FilledOrder
<1>5. /\ P \in Int /\ Begin <= P /\ P <= End
      /\ N \in Int /\ Begin <= N /\ N <= End
      /\ Begin \in Int /\ End \in Int
  BY <1>3, AtRange, LseqAssumption
<1>6. \A f \in Int : At(prev, f) \in Int /\ At(next, f) \in Int
  BY <1>3, AtRange
<1>. HIDE DEF d
<1>7. e <= d
  <2>. SUFFICES ASSUME d < e PROVE FALSE
    BY <1>3
  <2>1. \A f \in 1 .. d : At(prev, f) = At(next, f)
    BY <1>3, <1>4 DEF FirstLess
  <2>2. ~Consecutive(prev, next, d)
    BY <2>1, <1>3, <1>6 DEF Consecutive
  <2>3. P = N
    BY <2>1, <1>3
  <2>. QED
    BY <2>2, <2>3, <1>2, <1>5 DEF Interval
<1>8. ~Consecutive(prev, next, e)
  BY <1>4, <1>6 DEF Consecutive, FirstLess
<1>9. step \in Nat \ {0} /\ step <= Interval(prev, next, d) /\ Interval(prev, next, d) \in Int
  <2>1. Interval(prev, next, d) \in Int
    BY <1>5 DEF Interval
  <2>. QED
    BY <2>1, LseqAssumption DEF Steps, d
<1>10. CASE d = e
  <2>1. Interval(prev, next, d) = N - P - 1
    BY <1>8, <1>10 DEF Interval
  <2>2. \A leaf \in Int : Child(next, d, leaf) = Child(prev, d, leaf)
    BY <1>4, <1>10 DEF Child, FirstLess
  <2>3. ASSUME NEW leaf \in Int, P < leaf, leaf < N
        PROVE  Right(Child(prev, d, leaf))
    <3>1. Begin < leaf /\ leaf < End
      BY <1>5, <2>3
    <3>2. IsPosition(Child(prev, d, leaf))
      BY <1>3, <3>1, ChildShape
    <3>3. PosLess(prev, Child(prev, d, leaf))
      BY <1>3, <2>3, ChildAbove
    <3>4. PosLess(Child(next, d, leaf), next)
      BY <1>3, <1>5, <2>3, <3>1, ChildBelow
    <3>. QED
      BY <2>2, <3>2, <3>3, <3>4
  <2>4. CASE plus
    <3>1. ~(P + step >= End) /\ P + step \in Int /\ P < P + step /\ P + step < N
      BY <1>5, <1>9, <2>1
    <3>2. Between(prev, next, plus, step) = Child(prev, d, P + step)
      BY <2>4, <3>1 DEF Between, d
    <3>. QED
      BY <3>1, <3>2, <2>3, <1>1
  <2>5. CASE ~plus
    <3>1. ~(N - step <= Begin) /\ N - step \in Int /\ P < N - step /\ N - step < N
      BY <1>5, <1>9, <2>1
    <3>2. Between(prev, next, plus, step) = Child(next, d, N - step)
      BY <2>5, <3>1 DEF Between, d
    <3>. QED
      BY <3>1, <3>2, <2>2, <2>3, <1>1
  <2>. QED
    BY <2>4, <2>5
<1>11. CASE e < d
  <2>1. Interval(prev, next, e) = At(next, e) - At(prev, e) - 1
    BY <1>8 DEF Interval
  <2>2. At(next, e) - At(prev, e) - 1 = 0
    <3>1. Interval(prev, next, e) < 1
      BY <1>2, <1>3, <1>11
    <3>2. At(prev, e) < At(next, e) /\ At(prev, e) \in Int /\ At(next, e) \in Int
      BY <1>4, <1>6 DEF FirstLess
    <3>. QED
      BY <2>1, <3>1, <3>2
  <2>3. Consecutive(prev, next, d)
    BY <2>2, <1>3, <1>11 DEF Consecutive
  <2>4. Interval(prev, next, d) = (IF N # Begin THEN N - Begin - 1 ELSE 0)
                                + (IF P # End THEN End - P - 1 ELSE 0)
    BY <2>3 DEF Interval
  <2>5. ASSUME NEW leaf \in Int, P < leaf, leaf < End
        PROVE  Right(Child(prev, d, leaf))
    <3>1. Begin < leaf
      BY <1>5, <2>5
    <3>2. IsPosition(Child(prev, d, leaf))
      BY <1>3, <2>5, <3>1, ChildShape
    <3>3. PosLess(prev, Child(prev, d, leaf))
      BY <1>3, <2>5, ChildAbove
    <3>4. PosLess(Child(prev, d, leaf), next)
      BY <1>3, <1>4, <1>11, ChildOfLower
    <3>. QED
      BY <3>2, <3>3, <3>4
  <2>6. ASSUME NEW leaf \in Int, Begin < leaf, leaf < N
        PROVE  Right(Child(next, d, leaf))
    <3>1. leaf < End
      BY <1>5, <2>6
    <3>2. IsPosition(Child(next, d, leaf))
      BY <1>3, <2>6, <3>1, ChildShape
    <3>3. PosLess(Child(next, d, leaf), next)
      BY <1>3, <1>5, <2>6, ChildBelow
    <3>4. PosLess(prev, Child(next, d, leaf))
      BY <1>3, <1>4, <1>11, ChildOfUpper
    <3>. QED
      BY <3>2, <3>3, <3>4
  <2>7. CASE plus /\ P + step >= End
    <3>. DEFINE leaf == Begin + step - IF P = End THEN 0 ELSE End - P - 1
    <3>1. leaf \in Int /\ Begin < leaf /\ leaf < N
      <4>1. CASE P = End
        BY <4>1, <1>5, <1>9, <2>4
      <4>2. CASE P # End
        BY <4>2, <1>5, <1>9, <2>4, <2>7
      <4>. QED
        BY <4>1, <4>2
    <3>2. Between(prev, next, plus, step) = Child(next, d, leaf)
      BY <2>7 DEF Between, d
    <3>. QED
      BY <3>1, <3>2, <2>6, <1>1
  <2>8. CASE plus /\ ~(P + step >= End)
    <3>1. P + step \in Int /\ P < P + step /\ P + step < End
      BY <1>5, <1>9, <2>8
    <3>2. Between(prev, next, plus, step) = Child(prev, d, P + step)
      BY <2>8 DEF Between, d
    <3>. QED
      BY <3>1, <3>2, <2>5, <1>1
  <2>9. CASE ~plus /\ N - step <= Begin
    <3>. DEFINE leaf == End - step + IF N = Begin THEN 0 ELSE N - Begin - 1
    <3>1. leaf \in Int /\ P < leaf /\ leaf < End
      <4>1. CASE N = Begin
        BY <4>1, <1>5, <1>9, <2>4
      <4>2. CASE N # Begin
        BY <4>2, <1>5, <1>9, <2>4, <2>9
      <4>. QED
        BY <4>1, <4>2
    <3>2. Between(prev, next, plus, step) = Child(prev, d, leaf)
      BY <2>9 DEF Between, d
    <3>. QED
      BY <3>1, <3>2, <2>5, <1>1
  <2>10. CASE ~plus /\ ~(N - step <= Begin)
    <3>1. N - step \in Int /\ Begin < N - step /\ N - step < N
      BY <1>5, <1>9, <2>10
    <3>2. Between(prev, next, plus, step) = Child(next, d, N - step)
      BY <2>10 DEF Between, d
    <3>. QED
      BY <3>1, <3>2, <2>6, <1>1
  <2>. QED
    BY <2>7, <2>8, <2>9, <2>10
<1>. QED
  BY <1>3, <1>7, <1>10, <1>11

-----------------------------------------------------------------------------
(* The order of positions is a strict total order (QVector::operator<). *)
LEMMA PosTransitive ==
    ASSUME NEW p \in Seq(Int), NEW q \in Seq(Int), NEW r \in Seq(Int),
           PosLess(p, q), PosLess(q, r)
    PROVE  PosLess(p, r)
<1>1. PICK d \in 1 .. Len(q) :
           /\ \A e \in 1 .. (d - 1) : e <= Len(p) /\ p[e] = q[e]
           /\ Len(p) < d \/ p[d] < q[d]
  BY DEF PosLess
<1>2. PICK f \in 1 .. Len(r) :
           /\ \A e \in 1 .. (f - 1) : e <= Len(q) /\ q[e] = r[e]
           /\ Len(q) < f \/ q[f] < r[f]
  BY DEF PosLess
<1>3. Len(p) \in Nat /\ Len(q) \in Nat /\ Len(r) \in Nat
  OBVIOUS
<1>4. CASE d < f
  <2>1. d \in 1 .. Len(r) /\ q[d] = r[d]
    BY <1>1, <1>2, <1>3, <1>4
  <2>2. \A e \in 1 .. (d - 1) : e <= Len(p) /\ p[e] = r[e]
    BY <1>1, <1>2, <1>3, <1>4
  <2>. QED
    BY <2>1, <2>2, <1>1 DEF PosLess
<1>5. CASE d = f
  <2>1. Len(p) < d \/ p[d] < r[d]
    <3>1. Len(p) \in Nat /\ (d <= Len(p) => p[d] \in Int) /\ q[d] \in Int /\ r[d] \in Int
      BY <1>1, <1>2, <1>5, ElementOfSeq
    <3>. QED
      BY <3>1, <1>1, <1>2, <1>3, <1>5
  <2>2. \A e \in 1 .. (d - 1) : e <= Len(p) /\ p[e] = r[e]
    BY <1>1, <1>2, <1>3, <1>5
  <2>. QED
    BY <2>1, <2>2, <1>2, <1>5 DEF PosLess
<1>6. CASE f < d
  <2>1. Len(p) < f \/ p[f] < r[f]
    BY <1>1, <1>2, <1>3, <1>6
  <2>2. \A e \in 1 .. (f - 1) : e <= Len(p) /\ p[e] = r[e]
    BY <1>1, <1>2, <1>3, <1>6
  <2>. QED
    BY <2>1, <2>2, <1>2 DEF PosLess
<1>. QED
  BY <1>1, <1>2, <1>3, <1>4, <1>5, <1>6

LEMMA PosIrreflexive ==
    ASSUME NEW p \in Seq(Int)
    PROVE  ~PosLess(p, p)
<1>. SUFFICES ASSUME NEW d \in 1 .. Len(p), Len(p) < d \/ p[d] < p[d]
              PROVE  FALSE
  BY DEF PosLess
<1>1. Len(p) \in Nat /\ p[d] \in Int
  BY ElementOfSeq
<1>. QED
  BY <1>1

LEMMA PosTotal ==
    ASSUME NEW p \in Seq(Int), NEW q \in Seq(Int), p # q
    PROVE  PosLess(p, q) \/ PosLess(q, p)
<1>. DEFINE S == {e \in Nat \ {0} : e > Len(p) \/ e > Len(q) \/ p[e] # q[e]}
<1>1. Len(p) \in Nat /\ Len(q) \in Nat
  OBVIOUS
<1>2. S \in SUBSET Nat /\ Len(p) + 1 \in S
  BY <1>1
<1>3. PICK m \in S : \A e \in S : m <= e
  <2>. HIDE DEF S
  <2>. QED
    BY <1>2, LeastExists
<1>4. \A e \in 1 .. (m - 1) : e <= Len(p) /\ e <= Len(q) /\ p[e] = q[e]
  <2>. SUFFICES ASSUME NEW e \in 1 .. (m - 1), ~(e <= Len(p) /\ e <= Len(q) /\ p[e] = q[e])
                PROVE  FALSE
    OBVIOUS
  <2>1. e \in S /\ e < m
    BY <1>1
  <2>. QED
    BY <2>1, <1>3
<1>5. m \in Nat \ {0} /\ (m > Len(p) \/ m > Len(q) \/ p[m] # q[m])
  OBVIOUS
<1>. HIDE DEF S
<1>6. CASE m > Len(p) /\ m > Len(q)
  <2>1. Len(p) = Len(q)
    <3>1. CASE m = 1
      BY <3>1, <1>6, <1>1
    <3>2. CASE m # 1
      <4>1. m - 1 \in 1 .. (m - 1)
        BY <3>2, <1>5
      <4>2. m - 1 <= Len(p) /\ m - 1 <= Len(q)
        BY <4>1, <1>4
      <4>. QED
        BY <4>2, <1>6, <1>1, <1>5
    <3>. QED
      BY <3>1, <3>2
  <2>2. \A e \in 1 .. Len(p) : p[e] = q[e]
    BY <1>4, <1>6, <1>5, <1>1
  <2>. QED
    <3>1. p = q
      BY <2>1, <2>2, SeqEqual, Zenon
    <3>. QED
      BY <3>1
<1>7. m <= Len(q) /\ (m > Len(p) \/ p[m] < q[m]) => PosLess(p, q)
  BY <1>4, <1>5, <1>1 DEF PosLess
<1>8. m <= Len(p) /\ (m > Len(q) \/ q[m] < p[m]) => PosLess(q, p)
  <2>1. \A e \in 1 .. (m - 1) : e <= Len(q) /\ q[e] = p[e]
    BY <1>4
  <2>. QED
    BY <2>1, <1>5, <1>1 DEF PosLess
<1>9. m <= Len(p) /\ m <= Len(q) => p[m] \in Int /\ q[m] \in Int
  BY <1>5, <1>1, ElementOfSeq
<1>. QED
  BY <1>1, <1>5, <1>6, <1>7, <1>8, <1>9

-----------------------------------------------------------------------------
Element == [pos : Seq(Int), site : Int, n : Int]

(* Symbol::operator< is a strict total order too. *)
LEMMA LessTransitive ==
    ASSUME NEW x \in Element, NEW y \in Element, NEW z \in Element,
           SymbolLess(x, y), SymbolLess(y, z)
    PROVE  SymbolLess(x, z)
<1>1. /\ x.pos \in Seq(Int) /\ y.pos \in Seq(Int) /\ z.pos \in Seq(Int)
      /\ x.site \in Int /\ y.site \in Int /\ z.site \in Int
      /\ x.n \in Int /\ y.n \in Int /\ z.n \in Int
  BY DEF Element
<1>2. PosLess(x.pos, y.pos) /\ PosLess(y.pos, z.pos) => PosLess(x.pos, z.pos)
  BY <1>1, PosTransitive
<1>. QED
  BY <1>1, <1>2 DEF SymbolLess

LEMMA LessIrreflexive ==
    ASSUME NEW x \in Element
    PROVE  ~SymbolLess(x, x)
<1>1. x.pos \in Seq(Int) /\ x.site \in Int /\ x.n \in Int
  BY DEF Element
<1>. QED
  BY <1>1, PosIrreflexive DEF SymbolLess

LEMMA LessTotal ==
    ASSUME NEW x \in Element, NEW y \in Element, x # y
    PROVE  SymbolLess(x, y) \/ SymbolLess(y, x)
<1>1. /\ x.pos \in Seq(Int) /\ y.pos \in Seq(Int)
      /\ x.site \in Int /\ y.site \in Int
      /\ x.n \in Int /\ y.n \in Int
  BY DEF Element
<1>2. x.pos # y.pos \/ x.site # y.site \/ x.n # y.n
  BY DEF Element
<1>3. x.pos # y.pos => PosLess(x.pos, y.pos) \/ PosLess(y.pos, x.pos)
  BY <1>1, PosTotal
<1>. QED
  BY <1>1, <1>2, <1>3 DEF SymbolLess

-----------------------------------------------------------------------------
(* QVector::insert and erase. *)
LEMMA InsertShape ==
    ASSUME NEW t \in Seq(Element), NEW k \in 1 .. (Len(t) + 1), NEW x \in Element
    PROVE  /\ InsertAt(t, k, x) \in Seq(Element)
           /\ Len(InsertAt(t, k, x)) = Len(t) + 1
           /\ InsertAt(t, k, x)[k] = x
           /\ \A i \in 1 .. (k - 1) : InsertAt(t, k, x)[i] = t[i]
           /\ \A i \in (k + 1) .. (Len(t) + 1) : InsertAt(t, k, x)[i] = t[i - 1]
<1>. DEFINE a == SubSeq(t, 1, k - 1)
            b == <<x>>
            c == SubSeq(t, k, Len(t))
<1>1. Len(t) \in Nat /\ k \in Nat
  OBVIOUS
<1>2. \A i \in 1 .. Len(t) : t[i] \in Element
  BY ElementOfSeq
<1>3. a \in Seq(Element) /\ Len(a) = k - 1 /\ \A i \in 1 .. (k - 1) : a[i] = t[i]
  <2>1. \A i \in 1 .. (k - 1) : t[i] \in Element
    BY <1>1, <1>2
  <2>. QED
    BY <2>1, <1>1, SubSeqProperties
<1>4. c \in Seq(Element) /\ Len(c) = Len(t) - k + 1 /\ \A i \in 1 .. (Len(t) - k + 1) : c[i] = t[k + i - 1]
  <2>1. \A i \in k .. Len(t) : t[i] \in Element
    BY <1>1, <1>2
  <2>. QED
    BY <2>1, <1>1, SubSeqProperties
<1>5. InsertAt(t, k, x) = (a \o b) \o c
  BY DEF InsertAt
<1>. HIDE DEF a, c
<1>6. /\ a \o b \in Seq(Element) /\ Len(a \o b) = k
      /\ \A i \in 1 .. (k - 1) : (a \o b)[i] = t[i]
      /\ (a \o b)[k] = x
  BY <1>1, <1>3
<1>7. /\ (a \o b) \o c \in Seq(Element) /\ Len((a \o b) \o c) = Len(t) + 1
      /\ \A i \in 1 .. k : ((a \o b) \o c)[i] = (a \o b)[i]
      /\ \A i \in (k + 1) .. (Len(t) + 1) : ((a \o b) \o c)[i] = c[i - k]
  <2>. DEFINE ab == a \o b
  <2>1. ab \in Seq(Element) /\ Len(ab) = k
    BY <1>6
  <2>. HIDE DEF ab
  <2>2. /\ ab \o c \in Seq(Element) /\ Len(ab \o c) = Len(t) + 1
        /\ \A i \in 1 .. k : (ab \o c)[i] = ab[i]
        /\ \A i \in (k + 1) .. (Len(t) + 1) : (ab \o c)[i] = c[i - k]
    BY <2>1, <1>4, <1>1
  <2>. QED
    BY <2>2 DEF ab
<1>8. ASSUME NEW i \in (k + 1) .. (Len(t) + 1)
      PROVE  c[i - k] = t[i - 1]
  <2>1. i - k \in 1 .. (Len(t) - k + 1) /\ k + (i - k) - 1 = i - 1
    BY <1>1
  <2>. QED
    BY <2>1, <1>4
<1>. QED
  BY <1>1, <1>5, <1>6, <1>7, <1>8

LEMMA RemoveShape ==
    ASSUME NEW S, NEW t \in Seq(S), NEW k \in 1 .. Len(t)
    PROVE  /\ RemoveAt(t, k) \in Seq(S)
           /\ Len(RemoveAt(t, k)) = Len(t) - 1
           /\ \A i \in 1 .. (k - 1) : RemoveAt(t, k)[i] = t[i]
           /\ \A i \in k .. (Len(t) - 1) : RemoveAt(t, k)[i] = t[i + 1]
<1>. DEFINE a == SubSeq(t, 1, k - 1)
            c == SubSeq(t, k + 1, Len(t))
<1>1. Len(t) \in Nat /\ k \in Nat
  OBVIOUS
<1>2. \A i \in 1 .. Len(t) : t[i] \in S
  BY ElementOfSeq
<1>3. a \in Seq(S) /\ Len(a) = k - 1 /\ \A i \in 1 .. (k - 1) : a[i] = t[i]
  <2>1. \A i \in 1 .. (k - 1) : t[i] \in S
    BY <1>1, <1>2
  <2>. QED
    BY <2>1, <1>1, SubSeqProperties
<1>4. c \in Seq(S) /\ Len(c) = Len(t) - k /\ \A i \in 1 .. (Len(t) - k) : c[i] = t[k + i]
  <2>1. \A i \in (k + 1) .. Len(t) : t[i] \in S
    BY <1>1, <1>2
  <2>2. /\ c \in Seq(S) /\ Len(c) = IF k + 1 <= Len(t) THEN Len(t) - (k + 1) + 1 ELSE 0
        /\ \A i \in 1 .. (Len(t) - (k + 1) + 1) : c[i] = t[(k + 1) + i - 1]
    BY <2>1, <1>1, SubSeqProperties
  <2>. HIDE DEF c
  <2>. QED
    BY <2>2, <1>1
<1>5. RemoveAt(t, k) = a \o c
  BY DEF RemoveAt
<1>. HIDE DEF a, c
<1>6. /\ a \o c \in Seq(S) /\ Len(a \o c) = Len(t) - 1
      /\ \A i \in 1 .. (k - 1) : (a \o c)[i] = a[i]
      /\ \A i \in k .. (Len(t) - 1) : (a \o c)[i] = c[i - (k - 1)]
  <2>1. a \o c \in Seq(S) /\ Len(a \o c) = Len(t) - 1
    <3>1. a \o c \in Seq(S) /\ Len(a \o c) = Len(a) + Len(c)
      BY <1>3, <1>4, ConcatProperties, Zenon
    <3>2. Len(a) + Len(c) = Len(t) - 1
      BY <1>1, <1>3, <1>4
    <3>. QED
      BY <3>1, <3>2
  <2>2. \A i \in 1 .. (k - 1) : (a \o c)[i] = a[i]
    BY <1>1, <1>3, <1>4
  <2>3. ASSUME NEW i \in k .. (Len(t) - 1)
        PROVE  (a \o c)[i] = c[i - (k - 1)]
    <3>1. i \in 1 .. (Len(a) + Len(c)) /\ i > Len(a) /\ i - Len(a) = i - (k - 1)
      BY <1>1, <1>3, <1>4
    <3>. QED
      BY <3>1, <1>3, <1>4
  <2>. QED
    BY <2>1, <2>2, <2>3
<1>7. ASSUME NEW i \in k .. (Len(t) - 1)
      PROVE  c[i - (k - 1)] = t[i + 1]
  <2>1. i - (k - 1) \in 1 .. (Len(t) - k) /\ k + (i - (k - 1)) = i + 1
    BY <1>1
  <2>. QED
    BY <2>1, <1>4
<1>. QED
  BY <1>3, <1>5, <1>6, <1>7

-----------------------------------------------------------------------------
(* A sorted text.  Every pair is compared, not only neighbours: that is     *)
(* what an erase leaves intact.                                             *)
Ascending(t) ==
    /\ t \in Seq(Element)
    /\ Len(t) >= 2 /\ t[1] = BOF /\ t[Len(t)] = EOF
    /\ \A i, j \in 1 .. Len(t) : i < j => SymbolLess(t[i], t[j])

(* Where std::lower_bound ends: all that is before it is less. *)
LEMMA LowerBoundPlace ==
    ASSUME NEW t, Ascending(t), NEW x \in Element,
           SymbolLess(BOF, x), ~SymbolLess(EOF, x)
    PROVE  /\ LowerBound(t, x) \in 2 .. Len(t)
           /\ \A i \in 1 .. (LowerBound(t, x) - 1) : SymbolLess(t[i], x)
           /\ \A i \in LowerBound(t, x) .. Len(t) : ~SymbolLess(t[i], x)
<1>. DEFINE S == {n \in 1 .. Len(t) : ~SymbolLess(t[n], x)}
            B == {n \in DOMAIN t : SymbolLess(t[n], x)}
<1>1. /\ t \in Seq(Element) /\ Len(t) \in Nat /\ Len(t) >= 2 /\ t[1] = BOF /\ t[Len(t)] = EOF
      /\ DOMAIN t = 1 .. Len(t)
      /\ \A i, j \in 1 .. Len(t) : i < j => SymbolLess(t[i], t[j])
  BY DEF Ascending
<1>2. \A i \in 1 .. Len(t) : t[i] \in Element
  BY <1>1, ElementOfSeq
<1>3. S \in SUBSET Nat /\ Len(t) \in S
  BY <1>1
<1>4. PICK m \in S : \A n \in S : m <= n
  <2>. HIDE DEF S
  <2>. QED
    BY <1>3, LeastExists
<1>5. m \in 1 .. Len(t) /\ ~SymbolLess(t[m], x) /\ m # 1
  BY <1>1
<1>6. ASSUME NEW i \in 1 .. (m - 1)
      PROVE  SymbolLess(t[i], x)
  <2>1. i \in 1 .. Len(t) /\ i < m
    BY <1>1, <1>5
  <2>2. i \notin S
    BY <2>1, <1>4, <1>5
  <2>. QED
    BY <2>1, <2>2
<1>7. ASSUME NEW i \in m .. Len(t)
      PROVE  ~SymbolLess(t[i], x)
  <2>1. CASE i = m
    BY <2>1, <1>5
  <2>2. CASE i # m
    <3>1. SymbolLess(t[m], t[i]) /\ t[m] \in Element /\ t[i] \in Element
      BY <2>2, <1>1, <1>2, <1>5
    <3>. QED
      BY <3>1, <1>5, LessTransitive
  <2>. QED
    BY <2>1, <2>2
<1>8. B = 1 .. (m - 1)
  BY <1>1, <1>5, <1>6, <1>7
<1>9. Cardinality(B) = m - 1
  <2>1. 1 \in Int /\ m - 1 \in Int /\ m - 1 >= 1
    BY <1>5, <1>1
  <2>2. Cardinality(1 .. (m - 1)) = m - 1
    <3>. DEFINE l == m - 1
    <3>1. l \in Int /\ ~(1 > l) /\ l - 1 + 1 = l
      BY <2>1
    <3>. HIDE DEF l
    <3>2. Cardinality(1 .. l) = l
      BY <3>1, FS_Interval
    <3>. QED
      BY <3>2 DEF l
  <2>. HIDE DEF B
  <2>. QED
    BY <2>2, <1>8
<1>10. LowerBound(t, x) = m
  <2>1. LowerBound(t, x) = 1 + Cardinality(B)
    BY DEF LowerBound
  <2>. QED
    BY <2>1, <1>9, <1>5
<1>. QED
  BY <1>1, <1>5, <1>6, <1>7, <1>10

LEMMA InsertKeepsOrder ==
    ASSUME NEW t, Ascending(t), NEW x \in Element, NEW k \in 2 .. Len(t),
           \A i \in 1 .. (k - 1) : SymbolLess(t[i], x),
           \A i \in k .. Len(t) : SymbolLess(x, t[i])
    PROVE  /\ Ascending(InsertAt(t, k, x))
           /\ \A i \in 2 .. (Len(InsertAt(t, k, x)) - 1) :
                InsertAt(t, k, x)[i] \in {x} \cup {t[j] : j \in 2 .. (Len(t) - 1)}
<1>. DEFINE u == InsertAt(t, k, x)
<1>1. /\ t \in Seq(Element) /\ Len(t) \in Nat /\ Len(t) >= 2 /\ t[1] = BOF /\ t[Len(t)] = EOF
      /\ \A i, j \in 1 .. Len(t) : i < j => SymbolLess(t[i], t[j])
  BY DEF Ascending
<1>2. k \in Nat /\ 2 <= k /\ k <= Len(t)
  BY <1>1
<1>3. /\ u \in Seq(Element) /\ Len(u) = Len(t) + 1 /\ u[k] = x
      /\ \A i \in 1 .. (k - 1) : u[i] = t[i]
      /\ \A i \in (k + 1) .. (Len(t) + 1) : u[i] = t[i - 1]
  <2>1. k \in 1 .. (Len(t) + 1)
    BY <1>1, <1>2
  <2>. QED
    <3>. HIDE DEF u
    <3>1. t \in Seq(Element) /\ x \in Element /\ k \in 1 .. (Len(t) + 1) /\ u = InsertAt(t, k, x)
      BY <2>1, <1>1 DEF u
    <3>. QED
      BY <3>1, InsertShape
<1>. HIDE DEF u
<1>4. u[1] = BOF /\ u[Len(u)] = EOF /\ Len(u) >= 2
  <2>1. 1 \in 1 .. (k - 1) /\ Len(t) + 1 \in (k + 1) .. (Len(t) + 1) /\ (Len(t) + 1) - 1 = Len(t)
    BY <1>1, <1>2
  <2>2. u[1] = t[1] /\ u[Len(t) + 1] = t[Len(t)]
    BY <2>1, <1>3
  <2>. QED
    BY <2>2, <1>1, <1>3
<1>5. ASSUME NEW i \in 1 .. Len(u), NEW j \in 1 .. Len(u), i < j
      PROVE  SymbolLess(u[i], u[j])
  <2>1. CASE j < k
    <3>1. i \in 1 .. (k - 1) /\ j \in 1 .. (k - 1) /\ i \in 1 .. Len(t) /\ j \in 1 .. Len(t)
      BY <2>1, <1>1, <1>2, <1>3, <1>5
    <3>. QED
      BY <3>1, <1>1, <1>3, <1>5
  <2>2. CASE j = k
    <3>1. i \in 1 .. (k - 1)
      BY <2>2, <1>1, <1>2, <1>5
    <3>. QED
      BY <3>1, <2>2, <1>3
  <2>3. CASE i < k /\ k < j
    <3>1. u[i] = t[i] /\ u[j] = t[j - 1] /\ i \in 1 .. Len(t) /\ j - 1 \in 1 .. Len(t) /\ i < j - 1
      BY <2>3, <1>1, <1>2, <1>3
    <3>. QED
      BY <3>1, <1>1
  <2>4. CASE i = k
    <3>1. j \in (k + 1) .. (Len(t) + 1) /\ j - 1 \in k .. Len(t)
      BY <2>4, <1>1, <1>2, <1>3, <1>5
    <3>2. u[j] = t[j - 1]
      BY <3>1, <1>3
    <3>. QED
      BY <3>1, <3>2, <2>4, <1>3
  <2>5. CASE k < i
    <3>1. /\ u[i] = t[i - 1] /\ u[j] = t[j - 1]
          /\ i - 1 \in 1 .. Len(t) /\ j - 1 \in 1 .. Len(t) /\ i - 1 < j - 1
      BY <2>5, <1>1, <1>2, <1>3, <1>5
    <3>. QED
      BY <3>1, <1>1
  <2>. QED
    BY <2>1, <2>2, <2>3, <2>4, <2>5, <1>1, <1>2, <1>3, <1>5
<1>6. ASSUME NEW i \in 2 .. (Len(u) - 1)
      PROVE  u[i] \in {x} \cup {t[j] : j \in 2 .. (Len(t) - 1)}
  <2>1. CASE i < k
    <3>1. u[i] = t[i] /\ i \in 2 .. (Len(t) - 1)
      BY <2>1, <1>1, <1>2, <1>3
    <3>. QED
      BY <3>1
  <2>2. CASE i = k
    BY <2>2, <1>3
  <2>3. CASE i > k
    <3>1. u[i] = t[i - 1] /\ i - 1 \in 2 .. (Len(t) - 1)
      BY <2>3, <1>1, <1>2, <1>3
    <3>. QED
      BY <3>1
  <2>. QED
    BY <2>1, <2>2, <2>3, <1>1, <1>2, <1>3
<1>. QED
  BY <1>3, <1>4, <1>5, <1>6 DEF Ascending, u

LEMMA RemoveKeepsOrder ==
    ASSUME NEW t, Ascending(t), NEW k \in 2 .. (Len(t) - 1)
    PROVE  /\ Ascending(RemoveAt(t, k))
           /\ \A i \in 2 .. (Len(RemoveAt(t, k)) - 1) :
                RemoveAt(t, k)[i] \in {t[j] : j \in 2 .. (Len(t) - 1)}
<1>. DEFINE u == RemoveAt(t, k)
            Old(i) == IF i < k THEN i ELSE i + 1
<1>1. /\ t \in Seq(Element) /\ Len(t) \in Nat /\ Len(t) >= 2 /\ t[1] = BOF /\ t[Len(t)] = EOF
      /\ \A i, j \in 1 .. Len(t) : i < j => SymbolLess(t[i], t[j])
  BY DEF Ascending
<1>2. k \in Nat /\ 2 <= k /\ k <= Len(t) - 1
  BY <1>1
<1>3. /\ u \in Seq(Element) /\ Len(u) = Len(t) - 1
      /\ \A i \in 1 .. (k - 1) : u[i] = t[i]
      /\ \A i \in k .. (Len(t) - 1) : u[i] = t[i + 1]
  <2>1. k \in 1 .. Len(t)
    BY <1>1, <1>2
  <2>. QED
    BY <2>1, <1>1, RemoveShape
<1>. HIDE DEF u
<1>4. \A i \in 1 .. Len(u) : u[i] = t[Old(i)] /\ Old(i) \in 1 .. Len(t)
  BY <1>1, <1>2, <1>3
<1>5. u[1] = BOF /\ u[Len(u)] = EOF /\ Len(u) >= 2
  BY <1>1, <1>2, <1>3
<1>6. ASSUME NEW i \in 1 .. Len(u), NEW j \in 1 .. Len(u), i < j
      PROVE  SymbolLess(u[i], u[j])
  <2>1. Old(i) < Old(j)
    BY <1>6, <1>1, <1>2, <1>3
  <2>. HIDE DEF Old
  <2>. QED
    BY <2>1, <1>1, <1>4
<1>7. ASSUME NEW i \in 2 .. (Len(u) - 1)
      PROVE  u[i] \in {t[j] : j \in 2 .. (Len(t) - 1)}
  <2>1. Old(i) \in 2 .. (Len(t) - 1) /\ u[i] = t[Old(i)]
    BY <1>1, <1>2, <1>3, <1>4
  <2>. QED
    BY <2>1
<1>. QED
  BY <1>3, <1>5, <1>6, <1>7 DEF Ascending, u

-----------------------------------------------------------------------------
(* What an allocator makes: a position of its own site that keeps clear of  *)
(* BOF and EOF.                                                             *)
Made(x) ==
    /\ x \in Element
    /\ IsPosition(x.pos) /\ PosLess(BOF.pos, x.pos) /\ PosLess(x.pos, EOF.pos)
    /\ x.site \in Sites /\ x.n \in Nat

LEMMA PathsAreSequences ==
    ASSUME NEW p, Path(p)
    PROVE  p \in Seq(Int)
<1>1. p \in Seq(Begin .. End) /\ Begin .. End \subseteq Int
  BY LseqAssumption DEF Path
<1>2. Len(p) \in Nat /\ p = [i \in 1 .. Len(p) |-> p[i]]
  BY <1>1
<1>3. ASSUME NEW i \in 1 .. Len(p) PROVE p[i] \in Int
  BY <1>1, ElementOfSeq
<1>. QED
  BY <1>2, <1>3

LEMMA Ends ==
    /\ BOF \in Element /\ Path(BOF.pos) /\ BOF.pos = <<Begin>> /\ BOF.site = -2
    /\ EOF \in Element /\ Path(EOF.pos) /\ EOF.pos = <<End>> /\ EOF.site = -2
    /\ PosLess(BOF.pos, EOF.pos)
<1>1. <<Begin>> \in Seq(Begin .. End) /\ <<End>> \in Seq(Begin .. End)
  BY LseqAssumption
<1>2. BOF \in Element /\ EOF \in Element
  BY LseqAssumption DEF BOF, EOF, Element, Reserved
<1>3. PosLess(<<Begin>>, <<End>>)
  BY LseqAssumption DEF PosLess
<1>. QED
  BY <1>1, <1>2, <1>3, LseqAssumption DEF BOF, EOF, Path, Reserved

(* Between a position and itself no level has room. *)
LEMMA NoRoomInPlace ==
    ASSUME NEW p, Path(p)
    PROVE  ~HasRoom(p, p)
<1>1. \A d \in Int : At(p, d) \in Int
  BY AtRange
<1>2. Len(p) \in Nat /\ MaxDepth(p, p) \in Nat
  BY DEF Path, MaxDepth
<1>3. ASSUME NEW d \in 1 .. MaxDepth(p, p)
      PROVE  ~(Interval(p, p, d) >= 1)
  <2>1. ~Consecutive(p, p, d)
    <3>. SUFFICES ASSUME NEW e \in 1 .. (d - 1), At(p, e) - At(p, e) - 1 = 0
                  PROVE  FALSE
      BY DEF Consecutive
    <3>1. At(p, e) \in Int
      BY <1>1, <1>2
    <3>. QED
      BY <3>1
  <2>2. At(p, d) \in Int
    BY <1>1, <1>2
  <2>. QED
    BY <2>1, <2>2 DEF Interval
<1>. QED
  BY <1>3 DEF HasRoom

(* Neighbours in a text of made symbols are a lower and an upper bound in   *)
(* the sense of the allocator, and ordered if their positions differ.       *)
LEMMA Neighbours ==
    ASSUME NEW t, Ascending(t), \A j \in 2 .. (Len(t) - 1) : Made(t[j]),
           NEW i \in 1 .. (Len(t) - 1)
    PROVE  /\ Lower(t[i].pos) /\ Upper(t[i + 1].pos)
           /\ t[i].pos # t[i + 1].pos => PosLess(t[i].pos, t[i + 1].pos)
           /\ BOF.pos = t[i].pos \/ PosLess(BOF.pos, t[i].pos)
           /\ EOF.pos = t[i + 1].pos \/ PosLess(t[i + 1].pos, EOF.pos)
<1>1. /\ t \in Seq(Element) /\ Len(t) \in Nat /\ Len(t) >= 2 /\ t[1] = BOF /\ t[Len(t)] = EOF
      /\ \A j, k \in 1 .. Len(t) : j < k => SymbolLess(t[j], t[k])
  BY DEF Ascending
<1>2. i = 1 \/ i \in 2 .. (Len(t) - 1)
  BY <1>1
<1>3. i + 1 = Len(t) \/ i + 1 \in 2 .. (Len(t) - 1)
  BY <1>1
<1>4. Lower(t[i].pos) /\ (BOF.pos = t[i].pos \/ PosLess(BOF.pos, t[i].pos))
  BY <1>1, <1>2, Ends DEF Made, IsPosition, Lower
<1>5. EOF.pos = t[i + 1].pos \/ PosLess(t[i + 1].pos, EOF.pos)
  BY <1>1, <1>3 DEF Made
<1>6. Upper(t[i + 1].pos)
  <2>1. CASE i + 1 = Len(t)
    <3>1. t[i + 1].pos = <<End>> /\ Path(t[i + 1].pos)
      BY <2>1, <1>1, Ends
    <3>2. Len(<<End>>) = 1 /\ <<End>>[1] = End
      OBVIOUS
    <3>. QED
      BY <3>1, <3>2, LseqAssumption DEF Upper
  <2>2. CASE i + 1 \in 2 .. (Len(t) - 1)
    BY <2>2 DEF Made, IsPosition, LeafInside, Upper
  <2>. QED
    BY <2>1, <2>2, <1>3
<1>7. SymbolLess(t[i], t[i + 1])
  <2>1. i \in 1 .. Len(t) /\ i + 1 \in 1 .. Len(t) /\ i < i + 1
    BY <1>1
  <2>. QED
    BY <2>1, <1>1
<1>8. t[i].pos # t[i + 1].pos => PosLess(t[i].pos, t[i + 1].pos)
  BY <1>7 DEF SymbolLess
<1>. QED
  BY <1>4, <1>5, <1>6, <1>8

(* local_insert between them, when the search for a level ends. *)
LEMMA AllocatedBetween ==
    ASSUME NEW t, Ascending(t), \A j \in 2 .. (Len(t) - 1) : Made(t[j]),
           NEW i \in 1 .. (Len(t) - 1), HasRoom(t[i].pos, t[i + 1].pos),
           NEW plus \in BOOLEAN, NEW step \in Steps(t[i].pos, t[i + 1].pos),
           NEW pos, pos = Between(t[i].pos, t[i + 1].pos, plus, step)
    PROVE  /\ IsPosition(pos)
           /\ PosLess(t[i].pos, pos) /\ PosLess(pos, t[i + 1].pos)
           /\ PosLess(BOF.pos, pos) /\ PosLess(pos, EOF.pos)
<1>. DEFINE prev == t[i].pos
            next == t[i + 1].pos
<1>1. /\ Lower(prev) /\ Upper(next)
      /\ prev # next => PosLess(prev, next)
      /\ BOF.pos = prev \/ PosLess(BOF.pos, prev)
      /\ EOF.pos = next \/ PosLess(next, EOF.pos)
  BY Neighbours
<1>2. PosLess(prev, next)
  <2>1. prev # next
    BY <1>1, NoRoomInPlace DEF Lower
  <2>. QED
    BY <2>1, <1>1
<1>. HIDE DEF prev, next
<1>3. pos = Between(prev, next, plus, step) /\ step \in Steps(prev, next)
  BY DEF prev, next
<1>4. IsPosition(pos) /\ PosLess(prev, pos) /\ PosLess(pos, next)
  BY <1>1, <1>2, <1>3, BetweenIsBetween
<1>5. /\ pos \in Seq(Int) /\ prev \in Seq(Int) /\ next \in Seq(Int)
      /\ BOF.pos \in Seq(Int) /\ EOF.pos \in Seq(Int)
  BY <1>1, <1>4, Ends, PathsAreSequences DEF Lower, Upper, IsPosition
<1>6. PosLess(BOF.pos, pos)
  BY <1>1, <1>4, <1>5, PosTransitive
<1>7. PosLess(pos, EOF.pos)
  BY <1>1, <1>4, <1>5, PosTransitive
<1>. QED
  BY <1>4, <1>6, <1>7 DEF prev, next

-----------------------------------------------------------------------------
(* The inductive invariant.  A text stays sorted when an erase leaves its   *)
(* neighbours beside each other, because all pairs of it are; an insert     *)
(* finds its place because every symbol was made between BOF and EOF.       *)
Text(t, made) ==
    /\ Ascending(t)
    /\ \A i \in 2 .. (Len(t) - 1) : t[i] \in made

BySite(made, s) == {x \in made : x.site = s}

Numbers ==
    /\ IsFiniteSet(inserted) /\ Cardinality(inserted) <= MaxSymbols
    /\ counter \in [Sites -> Nat]
    /\ \A s \in Sites : Cardinality(BySite(inserted, s)) = counter[s]
    /\ \A x \in inserted : x.n < counter[x.site]

PInv ==
    /\ \A x \in inserted : Made(x)
    /\ Numbers
    /\ text \in [Sites -> Seq(Element)]
    /\ \A s \in Sites : Text(text[s], inserted)
    /\ strategies \in [Sites -> Seq(BOOLEAN)]
    /\ gone \in [Sites -> SUBSET inserted]
    /\ erased \subseteq inserted
    /\ outOfBounds \subseteq Sites

(* The elements of a text, BOF and EOF included. *)
LEMMA TextElements ==
    ASSUME NEW made, \A x \in made : Made(x), NEW t, Text(t, made)
    PROVE  /\ t \in Seq(Element) /\ Len(t) \in Nat /\ Len(t) >= 2
           /\ \A i \in 1 .. Len(t) : t[i] \in Element
           /\ \A i \in 2 .. (Len(t) - 1) : Made(t[i])
           /\ \A i \in 1 .. Len(t) : i = 1 \/ i = Len(t) \/ i \in 2 .. (Len(t) - 1)
           /\ t[1] = BOF /\ t[Len(t)] = EOF
           /\ \A i, j \in 1 .. Len(t) : i < j => SymbolLess(t[i], t[j])
<1>1. /\ t \in Seq(Element) /\ Len(t) \in Nat /\ Len(t) >= 2
      /\ t[1] = BOF /\ t[Len(t)] = EOF
      /\ \A i, j \in 1 .. Len(t) : i < j => SymbolLess(t[i], t[j])
  BY DEF Text, Ascending
<1>2. \A i \in 1 .. Len(t) : t[i] \in Element
  BY <1>1, ElementOfSeq
<1>3. \A i \in 2 .. (Len(t) - 1) : Made(t[i])
  BY DEF Text
<1>4. \A i \in 1 .. Len(t) : i = 1 \/ i = Len(t) \/ i \in 2 .. (Len(t) - 1)
  BY <1>1
<1>. QED
  BY <1>1, <1>2, <1>3, <1>4

(* A made symbol is neither BOF nor EOF and lies between them. *)
LEMMA MadeIsInside ==
    ASSUME NEW x, Made(x)
    PROVE  x # BOF /\ x # EOF /\ SymbolLess(BOF, x) /\ ~SymbolLess(EOF, x)
<1>1. x.site \in Nat
  BY AllocationAssumption DEF Made
<1>2. x # BOF /\ x # EOF
  BY <1>1, Ends
<1>3. SymbolLess(BOF, x) /\ SymbolLess(x, EOF)
  BY DEF Made, SymbolLess
<1>4. x \in Element /\ EOF \in Element
  BY Ends DEF Made
<1>5. ~SymbolLess(EOF, x)
  BY <1>3, <1>4, LessTransitive, LessIrreflexive
<1>. QED
  BY <1>2, <1>3, <1>5

(* What is between two neighbours is beyond everything on either side. *)
LEMMA PlaceBetween ==
    ASSUME NEW t, Ascending(t), NEW x \in Element, NEW i \in 1 .. (Len(t) - 1),
           SymbolLess(t[i], x), SymbolLess(x, t[i + 1])
    PROVE  /\ \A j \in 1 .. i : SymbolLess(t[j], x)
           /\ \A j \in (i + 1) .. Len(t) : SymbolLess(x, t[j])
<1>1. /\ t \in Seq(Element) /\ Len(t) \in Nat
      /\ \A j, k \in 1 .. Len(t) : j < k => SymbolLess(t[j], t[k])
  BY DEF Ascending
<1>2. \A j \in 1 .. Len(t) : t[j] \in Element
  BY <1>1, ElementOfSeq
<1>3. i \in 1 .. Len(t) /\ i + 1 \in 1 .. Len(t)
  BY <1>1
<1>4. ASSUME NEW j \in 1 .. i PROVE SymbolLess(t[j], x)
  <2>1. j = i \/ (j \in 1 .. Len(t) /\ j < i)
    BY <1>1, <1>3
  <2>. QED
    BY <2>1, <1>1, <1>2, <1>3, LessTransitive
<1>5. ASSUME NEW j \in (i + 1) .. Len(t) PROVE SymbolLess(x, t[j])
  <2>1. j = i + 1 \/ (j \in 1 .. Len(t) /\ i + 1 < j)
    BY <1>1, <1>3
  <2>. QED
    BY <2>1, <1>1, <1>2, <1>3, LessTransitive
<1>. QED
  BY <1>4, <1>5

(* QVector::insert of a made symbol, wherever all smaller ones are before.  *)
LEMMA InsertedText ==
    ASSUME NEW made, NEW t, Text(t, made), NEW x \in Element, NEW k \in 2 .. Len(t),
           \A i \in 1 .. (k - 1) : SymbolLess(t[i], x),
           \A i \in k .. Len(t) : SymbolLess(x, t[i])
    PROVE  Text(InsertAt(t, k, x), made \cup {x})
<1>1. Ascending(t) /\ \A i \in 2 .. (Len(t) - 1) : t[i] \in made
  BY DEF Text
<1>2. /\ Ascending(InsertAt(t, k, x))
      /\ \A i \in 2 .. (Len(InsertAt(t, k, x)) - 1) :
           InsertAt(t, k, x)[i] \in {x} \cup {t[j] : j \in 2 .. (Len(t) - 1)}
  BY <1>1, InsertKeepsOrder
<1>. QED
  BY <1>1, <1>2 DEF Text

LEMMA RemovedText ==
    ASSUME NEW made, NEW t, Text(t, made), NEW k \in 2 .. (Len(t) - 1)
    PROVE  Text(RemoveAt(t, k), made)
<1>1. Ascending(t) /\ \A i \in 2 .. (Len(t) - 1) : t[i] \in made
  BY DEF Text
<1>2. /\ Ascending(RemoveAt(t, k))
      /\ \A i \in 2 .. (Len(RemoveAt(t, k)) - 1) :
           RemoveAt(t, k)[i] \in {t[j] : j \in 2 .. (Len(t) - 1)}
  BY <1>1, RemoveKeepsOrder
<1>. QED
  BY <1>1, <1>2 DEF Text

(* lower_bound finds where a new symbol belongs, and a present one. *)
LEMMA NewIsPlaced ==
    ASSUME NEW made, \A x \in made : Made(x), NEW t, Text(t, made),
           NEW x \in made, x \notin ToSet(t)
    PROVE  Text(InsertAt(t, LowerBound(t, x), x), made)
<1>. DEFINE k == LowerBound(t, x)
<1>1. /\ t \in Seq(Element) /\ Len(t) \in Nat /\ \A i \in 1 .. Len(t) : t[i] \in Element
  BY TextElements
<1>2. Made(x) /\ x \in Element /\ SymbolLess(BOF, x) /\ ~SymbolLess(EOF, x)
  BY MadeIsInside DEF Made
<1>3. /\ k \in 2 .. Len(t)
      /\ \A i \in 1 .. (k - 1) : SymbolLess(t[i], x)
      /\ \A i \in k .. Len(t) : ~SymbolLess(t[i], x)
  BY <1>2, LowerBoundPlace DEF Text
<1>. HIDE DEF k
<1>4. ASSUME NEW i \in k .. Len(t) PROVE SymbolLess(x, t[i])
  <2>1. i \in 1 .. Len(t) /\ t[i] \in Element
    BY <1>1, <1>3
  <2>2. t[i] # x
    BY <2>1, <1>1 DEF ToSet
  <2>. QED
    BY <2>1, <2>2, <1>2, <1>3, LessTotal
<1>5. Text(InsertAt(t, k, x), made \cup {x})
  BY <1>2, <1>3, <1>4, InsertedText
<1>6. made \cup {x} = made
  OBVIOUS
<1>. QED
  BY <1>5, <1>6 DEF k

LEMMA PresentIsFound ==
    ASSUME NEW made, \A x \in made : Made(x), NEW t, Text(t, made),
           NEW x \in made, x \in ToSet(t)
    PROVE  LowerBound(t, x) \in 2 .. (Len(t) - 1)
<1>. DEFINE k == LowerBound(t, x)
<1>1. /\ t \in Seq(Element) /\ Len(t) \in Nat /\ Len(t) >= 2
      /\ t[1] = BOF /\ t[Len(t)] = EOF
      /\ \A i \in 1 .. Len(t) : t[i] \in Element
      /\ \A i, j \in 1 .. Len(t) : i < j => SymbolLess(t[i], t[j])
  BY TextElements
<1>2. x \in Element /\ x # EOF /\ SymbolLess(BOF, x) /\ ~SymbolLess(EOF, x)
  BY MadeIsInside DEF Made
<1>3. /\ k \in 2 .. Len(t)
      /\ \A i \in 1 .. (k - 1) : SymbolLess(t[i], x)
      /\ \A i \in k .. Len(t) : ~SymbolLess(t[i], x)
  BY <1>2, LowerBoundPlace DEF Text
<1>. HIDE DEF k
<1>4. PICK j \in 1 .. Len(t) : t[j] = x
  BY <1>1 DEF ToSet
<1>5. j >= k
  <2>1. j \notin 1 .. (k - 1)
    BY <1>2, <1>3, <1>4, LessIrreflexive
  <2>. QED
    BY <2>1, <1>1, <1>3
<1>6. j = k
  <2>1. k \in k .. Len(t) /\ k \in 1 .. Len(t)
    BY <1>1, <1>3
  <2>2. ~(k < j)
    BY <2>1, <1>1, <1>3, <1>4
  <2>. QED
    BY <2>2, <1>1, <1>3, <1>5
<1>7. j # Len(t)
  BY <1>1, <1>2, <1>4
<1>. QED
  BY <1>1, <1>3, <1>6, <1>7 DEF k

-----------------------------------------------------------------------------
LEMMA InitInv == Init => PInv
<1>. SUFFICES ASSUME Init PROVE PInv
  OBVIOUS
<1>1. \A s \in Sites : text[s] = <<BOF, EOF>>
  BY DEF Init
<1>2. Text(<<BOF, EOF>>, inserted) /\ <<BOF, EOF>> \in Seq(Element)
  <2>. DEFINE t == <<BOF, EOF>>
  <2>1. t \in Seq(Element) /\ Len(t) = 2 /\ t[1] = BOF /\ t[2] = EOF
    BY Ends
  <2>2. SymbolLess(BOF, EOF)
    BY Ends DEF SymbolLess
  <2>. HIDE DEF t
  <2>3. \A i, j \in 1 .. Len(t) : i < j => SymbolLess(t[i], t[j])
    BY <2>1, <2>2
  <2>4. Ascending(t)
    BY <2>1, <2>3 DEF Ascending
  <2>5. \A i \in 2 .. (Len(t) - 1) : FALSE
    BY <2>1
  <2>. QED
    BY <2>1, <2>4, <2>5 DEF Text, t
<1>3. text \in [Sites -> Seq(Element)]
  BY <1>2 DEF Init
<1>4. Numbers
  <2>1. \A s \in Sites : BySite(inserted, s) = {}
    BY DEF Init, BySite
  <2>2. inserted = {} /\ counter = [s \in Sites |-> 0]
    BY DEF Init
  <2>3. IsFiniteSet({}) /\ Cardinality({}) = 0 /\ 0 <= MaxSymbols
    BY FS_EmptySet, AllocationAssumption
  <2>4. IsFiniteSet(inserted) /\ Cardinality(inserted) <= MaxSymbols
    BY <2>2, <2>3
  <2>5. counter \in [Sites -> Nat] /\ \A s \in Sites : Cardinality(BySite(inserted, s)) = counter[s]
    BY <2>1, <2>2, <2>3
  <2>6. \A x \in inserted : x.n < counter[x.site]
    BY <2>2
  <2>. QED
    BY <2>4, <2>5, <2>6 DEF Numbers
<1>5. strategies \in [Sites -> Seq(BOOLEAN)]
  BY DEF Init
<1>6. gone \in [Sites -> SUBSET inserted] /\ erased \subseteq inserted /\ outOfBounds \subseteq Sites
  BY DEF Init
<1>7. (\A x \in inserted : Made(x)) /\ \A s \in Sites : Text(text[s], inserted)
  BY <1>1, <1>2 DEF Init
<1>. QED
  BY <1>3, <1>4, <1>5, <1>6, <1>7 DEF PInv

(* A text stays a text when more symbols are inserted elsewhere. *)
LEMMA MoreSymbols ==
    ASSUME NEW made, NEW more, made \subseteq more, NEW t, Text(t, made)
    PROVE  Text(t, more)
BY DEF Text

LEMMA LocalInsertKeeps ==
    ASSUME PInv, NEW s \in Sites, NEW i \in 1 .. (Len(text[s]) - 1),
           Cardinality(inserted) < MaxSymbols, LocalInsert(s, i)
    PROVE  PInv'
<1>. DEFINE t == text[s]
            prev == t[i].pos
            next == t[i + 1].pos
            d == Depth(prev, next)
<1>1. /\ \A x \in inserted : Made(x)
      /\ Numbers /\ text \in [Sites -> Seq(Element)]
      /\ \A r \in Sites : Text(text[r], inserted)
      /\ strategies \in [Sites -> Seq(BOOLEAN)]
      /\ gone \in [Sites -> SUBSET inserted]
      /\ erased \subseteq inserted /\ outOfBounds \subseteq Sites
  BY DEF PInv
<1>2. /\ Ascending(t) /\ Len(t) \in Nat
      /\ \A j \in 2 .. (Len(t) - 1) : Made(t[j])
      /\ \A j \in 1 .. Len(t) : t[j] \in Element
  BY <1>1, TextElements DEF Text
<1>3. i \in 1 .. Len(t) /\ i + 1 \in 2 .. Len(t) /\ i + 1 \in 1 .. Len(t)
  BY <1>2
<1>4. HasRoom(prev, next)
  BY DEF LocalInsert
<1>5. Lower(prev) /\ Upper(next)
  BY <1>2, Neighbours
<1>6. d \in Nat \ {0}
  <2>1. MaxDepth(prev, next) \in Nat
    BY <1>5 DEF Lower, Upper, Path, MaxDepth
  <2>. QED
    BY <2>1, <1>4, <1>5, DepthIsFirst
<1>7. PICK plus \in StrategyChoices(s, d), step \in Steps(prev, next) :
        LET symbol == [pos |-> Between(prev, next, plus, step), site |-> s, n |-> counter[s]]
        IN  /\ text' = [text EXCEPT ![s] = InsertAt(@, i + 1, symbol)]
            /\ inserted' = inserted \cup {symbol}
            /\ drawn' = [drawn EXCEPT ![s] = @ \cup {<<d, plus>>}]
            /\ RememberStrategy(s, d, plus)
  BY DEF LocalInsert
<1>. DEFINE pos == Between(prev, next, plus, step)
            symbol == [pos |-> pos, site |-> s, n |-> counter[s]]
<1>8. plus \in BOOLEAN
  <2>1. strategies[s] \in Seq(BOOLEAN)
    BY <1>1
  <2>2. CASE d <= Len(strategies[s])
    <3>1. d \in 1 .. Len(strategies[s])
      BY <2>1, <2>2, <1>6
    <3>2. strategies[s][d] \in BOOLEAN
      BY <3>1, <2>1, ElementOfSeq
    <3>3. plus = strategies[s][d]
      BY <2>2 DEF StrategyChoices
    <3>. QED
      BY <3>2, <3>3
  <2>3. CASE ~(d <= Len(strategies[s]))
    BY <2>3 DEF StrategyChoices
  <2>. QED
    BY <2>2, <2>3
<1>9. /\ IsPosition(pos) /\ PosLess(prev, pos) /\ PosLess(pos, next)
      /\ PosLess(BOF.pos, pos) /\ PosLess(pos, EOF.pos)
  BY <1>2, <1>4, <1>8, AllocatedBetween
<1>10. /\ text' = [text EXCEPT ![s] = InsertAt(t, i + 1, symbol)]
       /\ inserted' = inserted \cup {symbol}
       /\ RememberStrategy(s, d, plus)
  BY <1>7
<1>11. counter' = [counter EXCEPT ![s] = @ + 1] /\ UNCHANGED <<erased, gone, outOfBounds>>
  BY DEF LocalInsert
<1>12. symbol.pos = pos /\ symbol.site = s /\ symbol.n = counter[s] /\ counter[s] \in Nat
  BY <1>1 DEF Numbers
<1>13. Made(symbol) /\ symbol \in Element
  <2>1. pos \in Seq(Int) /\ s \in Int
    BY <1>9, PathsAreSequences, AllocationAssumption DEF IsPosition
  <2>2. symbol \in Element
    BY <2>1, <1>12 DEF Element
  <2>. QED
    BY <2>2, <1>9, <1>12 DEF Made
<1>14. SymbolLess(t[i], symbol) /\ SymbolLess(symbol, t[i + 1])
  BY <1>9, <1>12 DEF SymbolLess
<1>. HIDE DEF symbol, pos
<1>15. Text(InsertAt(t, i + 1, symbol), inserted') /\ InsertAt(t, i + 1, symbol) \in Seq(Element)
  <2>. DEFINE k == i + 1
  <2>1. /\ \A j \in 1 .. i : SymbolLess(t[j], symbol)
        /\ \A j \in (i + 1) .. Len(t) : SymbolLess(symbol, t[j])
    BY <1>2, <1>13, <1>14, PlaceBetween
  <2>2. k \in 2 .. Len(t) /\ k - 1 = i
    BY <1>2, <1>3
  <2>3. /\ \A j \in 1 .. (k - 1) : SymbolLess(t[j], symbol)
        /\ \A j \in k .. Len(t) : SymbolLess(symbol, t[j])
    BY <2>1, <2>2
  <2>4. Text(t, inserted)
    BY <1>1
  <2>. HIDE DEF k, t
  <2>5. Text(InsertAt(t, k, symbol), inserted \cup {symbol})
    BY <2>2, <2>3, <2>4, <1>13, InsertedText
  <2>. QED
    BY <2>5, <1>10 DEF k, Text, Ascending
<1>16. text' \in [Sites -> Seq(Element)]
  BY <1>1, <1>10, <1>15
<1>17. ASSUME NEW r \in Sites PROVE Text(text'[r], inserted')
  <2>1. CASE r = s
    BY <2>1, <1>1, <1>10, <1>15
  <2>2. CASE r # s
    BY <2>2, <1>1, <1>10, MoreSymbols
  <2>. QED
    BY <2>1, <2>2
<1>18. Numbers'
  <2>1. symbol \notin inserted
    <3>1. symbol \in inserted => symbol.n < counter[symbol.site]
      BY <1>1 DEF Numbers
    <3>. QED
      BY <3>1, <1>12
  <2>2. IsFiniteSet(inserted') /\ Cardinality(inserted') = Cardinality(inserted) + 1
    BY <2>1, <1>1, <1>10, FS_AddElement DEF Numbers
  <2>3. Cardinality(inserted') <= MaxSymbols
    <3>1. Cardinality(inserted) \in Nat
      BY <1>1, FS_CardinalityType DEF Numbers
    <3>. QED
      BY <3>1, <2>2, AllocationAssumption
  <2>4. counter' \in [Sites -> Nat]
    BY <1>1, <1>11, <1>12 DEF Numbers
  <2>5. ASSUME NEW r \in Sites PROVE Cardinality(BySite(inserted', r)) = counter'[r]
    <3>1. CASE r = s
      <4>1. BySite(inserted', r) = BySite(inserted, r) \cup {symbol}
        BY <3>1, <1>10, <1>12 DEF BySite
      <4>2. symbol \notin BySite(inserted, r)
        BY <2>1 DEF BySite
      <4>3. IsFiniteSet(BySite(inserted, r))
        BY <1>1, FS_Subset DEF Numbers, BySite
      <4>4. Cardinality(BySite(inserted', r)) = Cardinality(BySite(inserted, r)) + 1
        BY <4>1, <4>2, <4>3, FS_AddElement
      <4>. QED
        BY <4>4, <3>1, <1>1, <1>11 DEF Numbers
    <3>2. CASE r # s
      <4>1. BySite(inserted', r) = BySite(inserted, r)
        BY <3>2, <1>10, <1>12 DEF BySite
      <4>. QED
        BY <4>1, <3>2, <1>1, <1>11 DEF Numbers
    <3>. QED
      BY <3>1, <3>2
  <2>6. ASSUME NEW x \in inserted' PROVE x.n < counter'[x.site]
    <3>1. CASE x = symbol
      BY <3>1, <1>1, <1>11, <1>12 DEF Numbers
    <3>2. CASE x \in inserted
      <4>1. x.site \in Sites /\ x.n \in Nat /\ x.n < counter[x.site]
        BY <3>2, <1>1 DEF Numbers, Made
      <4>. QED
        BY <4>1, <1>1, <1>11, <1>12 DEF Numbers
    <3>. QED
      BY <3>1, <3>2, <1>10
  <2>. QED
    BY <2>2, <2>3, <2>4, <2>5, <2>6 DEF Numbers
<1>19. strategies' \in [Sites -> Seq(BOOLEAN)]
  <2>1. strategies' = strategies \/ strategies' = [strategies EXCEPT ![s] = Append(@, plus)]
    BY <1>10 DEF RememberStrategy
  <2>2. Append(strategies[s], plus) \in Seq(BOOLEAN)
    BY <1>1, <1>8
  <2>. QED
    BY <2>1, <2>2, <1>1
<1>20. gone' \in [Sites -> SUBSET inserted'] /\ erased' \subseteq inserted' /\ outOfBounds' \subseteq Sites
  BY <1>1, <1>10, <1>11
<1>21. \A x \in inserted' : Made(x)
  BY <1>1, <1>10, <1>13
<1>. QED
  BY <1>16, <1>17, <1>18, <1>19, <1>20, <1>21 DEF PInv, Made, Text

(* Erasing, or taking over an insert, changes one text and keeps the rest.  *)
LEMMA TextChanged ==
    ASSUME PInv, NEW s \in Sites, NEW u, Text(u, inserted),
           text' = [text EXCEPT ![s] = u],
           gone' \in [Sites -> SUBSET inserted], erased' \subseteq inserted,
           UNCHANGED <<inserted, counter, strategies, outOfBounds>>
    PROVE  PInv'
<1>1. text \in [Sites -> Seq(Element)] /\ u \in Seq(Element) /\ \A r \in Sites : Text(text[r], inserted)
  BY DEF PInv, Text, Ascending
<1>2. text' \in [Sites -> Seq(Element)]
  BY <1>1
<1>3. \A r \in Sites : Text(text'[r], inserted)
  BY <1>1
<1>4. Numbers'
  BY DEF PInv, Numbers, BySite
<1>5. /\ \A x \in inserted' : Made(x)
      /\ strategies' \in [Sites -> Seq(BOOLEAN)]
      /\ gone' \in [Sites -> SUBSET inserted']
      /\ erased' \subseteq inserted' /\ outOfBounds' \subseteq Sites
  BY DEF PInv
<1>. QED
  BY <1>2, <1>3, <1>4, <1>5 DEF PInv, Made, Text

LEMMA LocalEraseKeeps ==
    ASSUME PInv, NEW s \in Sites, NEW i \in 2 .. (Len(text[s]) - 1), LocalErase(s, i)
    PROVE  PInv'
<1>1. /\ Text(text[s], inserted) /\ gone \in [Sites -> SUBSET inserted] /\ erased \subseteq inserted
  BY DEF PInv
<1>2. text[s][i] \in inserted
  BY <1>1 DEF Text
<1>3. Text(RemoveAt(text[s], i), inserted)
  BY <1>1, RemovedText
<1>4. /\ text' = [text EXCEPT ![s] = RemoveAt(text[s], i)]
      /\ gone' = [gone EXCEPT ![s] = @ \cup {text[s][i]}]
      /\ erased' = erased \cup {text[s][i]}
      /\ UNCHANGED <<inserted, counter, strategies, outOfBounds>>
  BY DEF LocalErase
<1>5. gone' \in [Sites -> SUBSET inserted] /\ erased' \subseteq inserted
  BY <1>1, <1>2, <1>4
<1>. QED
  BY <1>3, <1>4, <1>5, TextChanged

LEMMA RemoteInsertKeeps ==
    ASSUME PInv, NEW s \in Sites, NEW x \in inserted, RemoteInsert(s, x)
    PROVE  PInv'
<1>1. /\ Text(text[s], inserted) /\ \A y \in inserted : Made(y)
      /\ gone \in [Sites -> SUBSET inserted] /\ erased \subseteq inserted
  BY DEF PInv
<1>2. /\ x \notin ToSet(text[s])
      /\ text' = [text EXCEPT ![s] = InsertAt(text[s], LowerBound(text[s], x), x)]
      /\ UNCHANGED <<strategies, counter, inserted, erased, gone, drawn, outOfBounds>>
  BY DEF RemoteInsert
<1>3. Text(InsertAt(text[s], LowerBound(text[s], x), x), inserted)
  BY <1>1, <1>2, NewIsPlaced
<1>. QED
  BY <1>1, <1>2, <1>3, TextChanged

LEMMA RemoteEraseKeeps ==
    ASSUME PInv, NEW s \in Sites, NEW x \in erased, RemoteErase(s, x)
    PROVE  PInv'
<1>1. /\ Text(text[s], inserted) /\ \A y \in inserted : Made(y)
      /\ gone \in [Sites -> SUBSET inserted] /\ erased \subseteq inserted /\ x \in inserted
  BY DEF PInv
<1>2. /\ x \in ToSet(text[s])
      /\ gone' = [gone EXCEPT ![s] = @ \cup {x}]
      /\ text' = [text EXCEPT ![s] = RemoveAt(text[s], LowerBound(text[s], x))]
      /\ UNCHANGED <<strategies, counter, inserted, erased, drawn, outOfBounds>>
  BY DEF RemoteErase
<1>3. LowerBound(text[s], x) \in 2 .. (Len(text[s]) - 1)
  BY <1>1, <1>2, PresentIsFound
<1>4. Text(RemoveAt(text[s], LowerBound(text[s], x)), inserted)
  BY <1>1, <1>3, RemovedText
<1>5. gone' \in [Sites -> SUBSET inserted]
  BY <1>1, <1>2
<1>. QED
  BY <1>1, <1>2, <1>4, <1>5, TextChanged

LEMMA NextInv == PInv /\ [Next]_vars => PInv'
<1>. SUFFICES ASSUME PInv, [Next]_vars PROVE PInv'
  OBVIOUS
<1>1. CASE UNCHANGED vars
  BY <1>1 DEF vars, PInv, Numbers, BySite, Made, Text
<1>2. ASSUME NEW s \in Sites, NEW i \in 1 .. (Len(text[s]) - 1),
             Cardinality(inserted) < MaxSymbols, LocalInsert(s, i)
      PROVE  PInv'
  BY <1>2, LocalInsertKeeps
<1>3. ASSUME NEW s \in Sites, NEW i \in 1 .. (Len(text[s]) - 1), LocalInsertOutOfBounds(s, i)
      PROVE  PInv'
  <2>1. UNCHANGED <<text, strategies, counter, inserted, erased, gone>> /\ outOfBounds' = outOfBounds \cup {s}
    BY <1>3 DEF LocalInsertOutOfBounds
  <2>. QED
    BY <2>1 DEF PInv, Numbers, BySite, Made, Text
<1>4. ASSUME NEW s \in Sites, NEW i \in 2 .. (Len(text[s]) - 1), LocalErase(s, i)
      PROVE  PInv'
  BY <1>4, LocalEraseKeeps
<1>5. ASSUME NEW s \in Sites, NEW x \in inserted, RemoteInsert(s, x)
      PROVE  PInv'
  BY <1>5, RemoteInsertKeeps
<1>6. ASSUME NEW s \in Sites, NEW x \in erased, RemoteErase(s, x)
      PROVE  PInv'
  BY <1>6, RemoteEraseKeeps
<1>. QED
  BY <1>1, <1>2, <1>3, <1>4, <1>5, <1>6 DEF Next

THEOREM Invariance == Spec => []PInv
<1>. QED
  BY InitInv, NextInv, PTL DEF Spec

(* The types of the replicas, and that nothing is in a text or erased that  *)
(* was not inserted, for any number of sites (SharedEditor).                *)
THEOREM TypeCorrect == Spec => []TypeOK
<1>1. PInv => TypeOK
  <2>. SUFFICES ASSUME PInv PROVE TypeOK
    OBVIOUS
  <2>1. \A x \in inserted : IsPosition(x.pos) /\ x.site \in Sites /\ x.n \in Nat
    BY DEF PInv, Made
  <2>2. ASSUME NEW s \in Sites
        PROVE  /\ Symbols(s) \cup gone[s] \subseteq inserted
               /\ strategies[s] \in Seq(BOOLEAN)
               /\ counter[s] \in 0 .. MaxSymbols
    <3>1. Symbols(s) \subseteq inserted
      <4>. DEFINE t == text[s]
      <4>1. /\ t \in Seq(Element) /\ t[1] = BOF /\ t[Len(t)] = EOF
            /\ \A i \in 1 .. Len(t) : i = 1 \/ i = Len(t) \/ i \in 2 .. (Len(t) - 1)
            /\ \A i \in 2 .. (Len(t) - 1) : t[i] \in inserted
        BY TextElements DEF PInv, Text
      <4>. SUFFICES ASSUME NEW i \in 1 .. Len(t), t[i] \notin {BOF, EOF}
                    PROVE  t[i] \in inserted
        BY <4>1 DEF Symbols, ToSet
      <4>. QED
        BY <4>1
    <3>2. counter[s] \in 0 .. MaxSymbols
      <4>1. BySite(inserted, s) \in SUBSET inserted /\ IsFiniteSet(inserted)
        BY DEF BySite, PInv, Numbers
      <4>2. Cardinality(BySite(inserted, s)) <= Cardinality(inserted)
        BY <4>1, FS_Subset
      <4>3. counter[s] \in Nat /\ counter[s] <= Cardinality(inserted) /\ Cardinality(inserted) <= MaxSymbols
        BY <4>2 DEF PInv, Numbers
      <4>4. Cardinality(inserted) \in Nat
        BY <4>1, FS_CardinalityType
      <4>. QED
        BY <4>3, <4>4, AllocationAssumption
    <3>. QED
      BY <3>1, <3>2 DEF PInv
  <2>. QED
    BY <2>1, <2>2 DEF TypeOK, PInv
<1>. QED
  BY <1>1, Invariance, PTL

(* Every replica's text is strictly sorted, whatever the allocators draw    *)
(* and in whatever order operations arrive: local_insert puts a symbol      *)
(* where lower_bound finds it elsewhere.                                    *)
THEOREM TextsAreSorted == Spec => []Sorted
<1>1. PInv => Sorted
  <2>. SUFFICES ASSUME PInv, NEW s \in Sites
                PROVE  /\ text[s][1] = BOF /\ text[s][Len(text[s])] = EOF
                       /\ \A i \in 1 .. (Len(text[s]) - 1) : SymbolLess(text[s][i], text[s][i + 1])
    BY DEF Sorted
  <2>1. /\ text[s][1] = BOF /\ text[s][Len(text[s])] = EOF /\ Len(text[s]) \in Nat
        /\ \A i, j \in 1 .. Len(text[s]) : i < j => SymbolLess(text[s][i], text[s][j])
    BY TextElements DEF PInv
  <2>2. \A i \in 1 .. (Len(text[s]) - 1) :
          i \in 1 .. Len(text[s]) /\ i + 1 \in 1 .. Len(text[s]) /\ i < i + 1
    BY <2>1
  <2>. QED
    BY <2>1, <2>2
<1>. QED
  BY <1>1, Invariance, PTL

(* Between neighbours whose positions differ the search of Lseq::between    *)
(* ends inside its vectors, in every reachable text.                        *)
THEOREM RoomIsFound == Spec => []RoomBetweenDifferent
<1>1. PInv => RoomBetweenDifferent
  <2>. SUFFICES ASSUME PInv, NEW s \in Sites, NEW i \in 1 .. (Len(text[s]) - 1),
                       text[s][i].pos # text[s][i + 1].pos
                PROVE  HasRoom(text[s][i].pos, text[s][i + 1].pos)
    BY DEF RoomBetweenDifferent
  <2>1. Ascending(text[s]) /\ \A j \in 2 .. (Len(text[s]) - 1) : Made(text[s][j])
    BY TextElements DEF PInv, Text
  <2>2. /\ Lower(text[s][i].pos) /\ Upper(text[s][i + 1].pos)
        /\ PosLess(text[s][i].pos, text[s][i + 1].pos)
    BY <2>1, Neighbours
  <2>. QED
    BY <2>2, RoomBetween
<1>. QED
  BY <1>1, Invariance, PTL

-----------------------------------------------------------------------------
(* Two texts with the same symbols: neither can end before the other, nor   *)
(* have the smaller symbol at the first place where they differ.            *)
LEMMA NotShorter ==
    ASSUME NEW made, \A x \in made : Made(x), NEW t, NEW u, Text(t, made), Text(u, made),
           \A e \in 1 .. Len(t) : t[e] = u[e]
    PROVE  Len(u) <= Len(t)
<1>1. Len(t) \in Nat /\ Len(t) >= 2 /\ t[Len(t)] = EOF
  BY TextElements
<1>2. /\ Len(u) \in Nat /\ u[Len(u)] = EOF
      /\ \A i, j \in 1 .. Len(u) : i < j => SymbolLess(u[i], u[j])
  BY TextElements
<1>. SUFFICES ASSUME Len(t) < Len(u) PROVE FALSE
  BY <1>1, <1>2
<1>3. u[Len(t)] = EOF
  BY <1>1
<1>4. SymbolLess(EOF, EOF)
  BY <1>1, <1>2, <1>3
<1>. QED
  BY <1>4, Ends, LessIrreflexive

LEMMA NotAhead ==
    ASSUME NEW made, \A x \in made : Made(x), NEW t, NEW u, Text(t, made), Text(u, made),
           ToSet(t) \subseteq ToSet(u), NEW m \in 1 .. Len(t), m \in 1 .. Len(u),
           \A e \in 1 .. (m - 1) : t[e] = u[e]
    PROVE  ~SymbolLess(t[m], u[m])
<1>. SUFFICES ASSUME SymbolLess(t[m], u[m]) PROVE FALSE
  OBVIOUS
<1>1. /\ t \in Seq(Element) /\ Len(t) \in Nat /\ \A i \in 1 .. Len(t) : t[i] \in Element
      /\ \A i, j \in 1 .. Len(t) : i < j => SymbolLess(t[i], t[j])
  BY TextElements
<1>2. /\ u \in Seq(Element) /\ Len(u) \in Nat /\ \A i \in 1 .. Len(u) : u[i] \in Element
      /\ \A i, j \in 1 .. Len(u) : i < j => SymbolLess(u[i], u[j])
  BY TextElements
<1>3. PICK j \in 1 .. Len(u) : u[j] = t[m]
  <2>1. t[m] \in ToSet(t)
    BY <1>1 DEF ToSet
  <2>2. t[m] \in ToSet(u)
    BY <2>1
  <2>. QED
    BY <2>2, <1>2 DEF ToSet
<1>4. t[m] \in Element /\ u[m] \in Element
  BY <1>1, <1>2
<1>5. CASE j < m
  <2>1. j \in 1 .. (m - 1) /\ j \in 1 .. Len(t)
    BY <1>1, <1>2, <1>5
  <2>2. SymbolLess(t[j], t[m]) /\ t[j] = t[m]
    BY <2>1, <1>1, <1>3, <1>5
  <2>. QED
    BY <2>2, <1>4, LessIrreflexive
<1>6. CASE j = m
  BY <1>3, <1>4, <1>6, LessIrreflexive
<1>7. CASE m < j
  <2>1. SymbolLess(u[m], t[m])
    BY <1>2, <1>3, <1>7
  <2>. QED
    BY <2>1, <1>4, LessTransitive, LessIrreflexive
<1>. QED
  BY <1>1, <1>2, <1>5, <1>6, <1>7

LEMMA TextsOfASet ==
    ASSUME NEW made, \A x \in made : Made(x), NEW t, NEW u, Text(t, made), Text(u, made),
           ToSet(t) = ToSet(u)
    PROVE  t = u
<1>1. t \in Seq(Element) /\ Len(t) \in Nat /\ \A i \in 1 .. Len(t) : t[i] \in Element
  BY TextElements
<1>2. u \in Seq(Element) /\ Len(u) \in Nat /\ \A i \in 1 .. Len(u) : u[i] \in Element
  BY TextElements
<1>. DEFINE D == {e \in Nat \ {0} : e > Len(t) \/ e > Len(u) \/ t[e] # u[e]}
<1>3. D \in SUBSET Nat /\ Len(t) + 1 \in D
  BY <1>1
<1>4. PICK m \in D : \A e \in D : m <= e
  <2>. HIDE DEF D
  <2>. QED
    BY <1>3, LeastExists
<1>5. m \in Nat \ {0} /\ (m > Len(t) \/ m > Len(u) \/ t[m] # u[m])
  OBVIOUS
<1>6. ASSUME NEW e \in 1 .. (m - 1)
      PROVE  e <= Len(t) /\ e <= Len(u) /\ t[e] = u[e]
  <2>1. e \in Nat \ {0} /\ e < m
    BY <1>5
  <2>2. e \notin D
    BY <2>1, <1>4, <1>5
  <2>. QED
    BY <2>1, <2>2, <1>1, <1>2
<1>. HIDE DEF D
<1>7. CASE m > Len(t)
  <2>1. \A e \in 1 .. Len(t) : e \in 1 .. (m - 1)
    BY <1>1, <1>5, <1>7
  <2>2. (\A e \in 1 .. Len(t) : t[e] = u[e]) /\ \A e \in 1 .. Len(t) : e <= Len(u)
    BY <2>1, <1>6
  <2>3. Len(u) <= Len(t)
    BY <2>2, NotShorter
  <2>4. Len(t) <= Len(u)
    <3>1. CASE Len(t) = 0
      BY <3>1, <1>2
    <3>2. CASE Len(t) # 0
      BY <3>2, <2>2, <1>1
    <3>. QED
      BY <3>1, <3>2
  <2>5. Len(t) = Len(u)
    BY <2>3, <2>4, <1>1, <1>2
  <2>. QED
    BY <2>2, <2>5, <1>1, <1>2, SeqEqual
<1>8. CASE m <= Len(t) /\ m > Len(u)
  <2>1. \A e \in 1 .. Len(u) : e \in 1 .. (m - 1)
    BY <1>2, <1>5, <1>8
  <2>2. \A e \in 1 .. Len(u) : u[e] = t[e]
    BY <2>1, <1>6
  <2>3. Len(t) <= Len(u)
    BY <2>2, NotShorter
  <2>. QED
    BY <2>3, <1>1, <1>2, <1>5, <1>8
<1>9. CASE m <= Len(t) /\ m <= Len(u)
  <2>1. m \in 1 .. Len(t) /\ m \in 1 .. Len(u)
    BY <1>1, <1>2, <1>5, <1>9
  <2>2. t[m] # u[m] /\ t[m] \in Element /\ u[m] \in Element
    BY <2>1, <1>1, <1>2, <1>5, <1>9
  <2>3. \A e \in 1 .. (m - 1) : t[e] = u[e] /\ u[e] = t[e]
    BY <1>6
  <2>4. ~SymbolLess(t[m], u[m])
    BY <2>1, <2>3, NotAhead
  <2>5. ~SymbolLess(u[m], t[m])
    BY <2>1, <2>3, NotAhead
  <2>. QED
    BY <2>2, <2>4, <2>5, LessTotal
<1>. QED
  BY <1>1, <1>2, <1>5, <1>7, <1>8, <1>9

(* Replicas that have the same symbols have the same text, for any number   *)
(* of them: the order of operations and the random steps leave no trace.    *)
THEOREM SymbolsDetermineTexts == Spec => []SameSymbolsSameText
<1>1. PInv => SameSymbolsSameText
  <2>. SUFFICES ASSUME PInv, NEW s \in Sites, NEW r \in Sites, Symbols(s) = Symbols(r)
                PROVE  text[s] = text[r]
    BY DEF SameSymbolsSameText
  <2>1. Text(text[s], inserted) /\ Text(text[r], inserted) /\ \A x \in inserted : Made(x)
    BY DEF PInv
  <2>2. ASSUME NEW q \in Sites PROVE BOF \in ToSet(text[q]) /\ EOF \in ToSet(text[q])
    <3>1. /\ text[q] \in Seq(Element) /\ Len(text[q]) \in Nat /\ Len(text[q]) >= 2
          /\ text[q][1] = BOF /\ text[q][Len(text[q])] = EOF
      BY TextElements DEF PInv
    <3>2. 1 \in DOMAIN text[q] /\ Len(text[q]) \in DOMAIN text[q]
      BY <3>1
    <3>. QED
      BY <3>1, <3>2 DEF ToSet
  <2>3. ToSet(text[s]) = ToSet(text[r])
    BY <2>2 DEF Symbols
  <2>. QED
    BY <2>1, <2>3, TextsOfASet
<1>. QED
  BY <1>1, Invariance, PTL

=============================================================================
