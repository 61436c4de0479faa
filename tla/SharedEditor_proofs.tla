------------------------- MODULE SharedEditor_proofs -------------------------
(***************************************************************************)
(* What the operations of SharedEditor do to the text, the version vector  *)
(* and the deletion buffer of an editor, for any sites and bounds.         *)
(*                                                                         *)
(* The loop over the deletion buffer is a recursive function: that it is   *)
(* defined, and what it computes, is shown by induction over its rounds.   *)
(* Induction is stated for sets of numbers, which need no operator as      *)
(* parameter (NumbersByInduction).                                         *)
(***************************************************************************)
EXTENDS SharedEditor, SequenceTheorems, WellFoundedInduction, TLAPS

(* Every set of numbers has a least one. *)
LEMMA LeastNumber ==
    ASSUME NEW T, T \subseteq Nat, T # {}
    PROVE  \E m \in T : \A k \in T : m <= k
<1>1. IsWellFoundedOn(OpToRel(<, Nat), Nat)
  BY NatLessThanWellFounded, Zenon
<1>2. PICK x \in T : \A y \in T : ~ (<<y, x>> \in OpToRel(<, Nat))
  BY <1>1, WFMin, Zenon
<1>3. \A y \in T : ~(y < x)
  BY <1>2 DEF OpToRel
<1>. QED
  BY <1>3

LEMMA NumbersByInduction ==
    ASSUME NEW T, 0 \in T, \A n \in Nat : n \in T => n + 1 \in T
    PROVE  Nat \subseteq T
<1>. SUFFICES ASSUME Nat \ T # {} PROVE FALSE
  OBVIOUS
<1>1. PICK m \in Nat \ T : \A k \in Nat \ T : m <= k
  BY LeastNumber
<1>2. m # 0 /\ m - 1 \in Nat /\ ~(m <= m - 1) /\ (m - 1) + 1 = m
  BY <1>1
<1>3. m - 1 \in T
  BY <1>1, <1>2
<1>. QED
  BY <1>1, <1>2, <1>3

LEMMA LeastInteger ==
    ASSUME NEW T, T \subseteq Int, NEW low \in Int, \A k \in T : low <= k, T # {}
    PROVE  \E m \in T : \A k \in T : m <= k
<1>. DEFINE U == {n \in Nat : n + low \in T}
<1>1. PICK k \in T : TRUE
  OBVIOUS
<1>2. k - low \in Nat /\ (k - low) + low = k
  BY <1>1
<1>3. U # {} /\ U \subseteq Nat
  BY <1>1, <1>2
<1>4. PICK m \in U : \A n \in U : m <= n
  BY <1>3, LeastNumber
<1>5. ASSUME NEW j \in T PROVE m + low <= j
  <2>1. j - low \in Nat /\ (j - low) + low = j
    OBVIOUS
  <2>2. j - low \in U
    BY <2>1
  <2>. QED
    BY <1>4, <2>1, <2>2
<1>. QED
  BY <1>4, <1>5

(* Min and Max are what they should be. *)
LEMMA MinIsLeast ==
    ASSUME NEW T, T \subseteq Int, NEW low \in Int, \A k \in T : low <= k, T # {}
    PROVE  Min(T) \in T /\ \A k \in T : Min(T) <= k
<1>1. \E m \in T : \A k \in T : m <= k
  BY LeastInteger
<1>. QED
  BY <1>1 DEF Min

LEMMA MaxIsGreatest ==
    ASSUME NEW T, T \subseteq Int, NEW high \in Int, \A k \in T : k <= high, T # {}
    PROVE  Max(T) \in T /\ \A k \in T : k <= Max(T)
<1>. DEFINE U == {0 - k : k \in T}
<1>1. 0 - high \in Int /\ U \subseteq Int /\ (\A k \in U : 0 - high <= k) /\ U # {}
  <2>1. ASSUME NEW k \in U PROVE k \in Int /\ 0 - high <= k
    <3>1. PICK j \in T : k = 0 - j
      OBVIOUS
    <3>2. j \in Int /\ j <= high
      OBVIOUS
    <3>. QED
      BY <3>1, <3>2
  <2>2. PICK j \in T : TRUE
    OBVIOUS
  <2>3. 0 - j \in U
    OBVIOUS
  <2>. QED
    BY <2>1, <2>3
<1>2. PICK m \in U : \A k \in U : m <= k
  BY <1>1, LeastInteger
<1>3. 0 - m \in T /\ \A k \in T : 0 - m >= k
  BY <1>2
<1>4. Max(T) \in T /\ \A k \in T : Max(T) >= k
  BY <1>3 DEF Max
<1>. QED
  BY <1>4

-----------------------------------------------------------------------------
(* Sequences with an element more, an element less, and another element.    *)
LEMMA InsertShape ==
    ASSUME NEW S, NEW t \in Seq(S), NEW k \in 1 .. (Len(t) + 1), NEW x \in S
    PROVE  /\ InsertAt(t, k, x) \in Seq(S)
           /\ Len(InsertAt(t, k, x)) = Len(t) + 1
           /\ InsertAt(t, k, x)[k] = x
           /\ \A i \in 1 .. (k - 1) : InsertAt(t, k, x)[i] = t[i]
           /\ \A i \in (k + 1) .. (Len(t) + 1) : InsertAt(t, k, x)[i] = t[i - 1]
<1>. DEFINE a == SubSeq(t, 1, k - 1)
            b == <<x>>
            c == SubSeq(t, k, Len(t))
<1>1. Len(t) \in Nat /\ k \in Nat
  OBVIOUS
<1>2. \A i \in 1 .. Len(t) : t[i] \in S
  BY ElementOfSeq
<1>3. a \in Seq(S) /\ Len(a) = k - 1 /\ \A i \in 1 .. (k - 1) : a[i] = t[i]
  <2>1. \A i \in 1 .. (k - 1) : t[i] \in S
    BY <1>1, <1>2
  <2>. QED
    BY <2>1, <1>1, SubSeqProperties
<1>4. c \in Seq(S) /\ Len(c) = Len(t) - k + 1 /\ \A i \in 1 .. (Len(t) - k + 1) : c[i] = t[k + i - 1]
  <2>1. \A i \in k .. Len(t) : t[i] \in S
    BY <1>1, <1>2
  <2>. QED
    BY <2>1, <1>1, SubSeqProperties
<1>5. InsertAt(t, k, x) = (a \o b) \o c
  BY DEF InsertAt
<1>. HIDE DEF a, c
<1>6. /\ a \o b \in Seq(S) /\ Len(a \o b) = k
      /\ \A i \in 1 .. (k - 1) : (a \o b)[i] = t[i]
      /\ (a \o b)[k] = x
  BY <1>1, <1>3
<1>7. /\ (a \o b) \o c \in Seq(S) /\ Len((a \o b) \o c) = Len(t) + 1
      /\ \A i \in 1 .. k : ((a \o b) \o c)[i] = (a \o b)[i]
      /\ \A i \in (k + 1) .. (Len(t) + 1) : ((a \o b) \o c)[i] = c[i - k]
  <2>. DEFINE ab == a \o b
  <2>1. ab \in Seq(S) /\ Len(ab) = k
    BY <1>6
  <2>. HIDE DEF ab
  <2>2. /\ ab \o c \in Seq(S) /\ Len(ab \o c) = Len(t) + 1
        /\ \A i \in 1 .. k : (ab \o c)[i] = ab[i]
        /\ \A i \in (k + 1) .. (Len(t) + 1) : (ab \o c)[i] = c[i - k]
    BY <2>1, <1>4, <1>1
  <2>. QED
    BY <2>2 DEF ab
<1>8. ASSUME NEW i \in (k + 1) .. (Len(t) + 1)
      PROVE  c[i - k] = t[i - 1]
  <2>1. i - k \in 1 .. (Len(t) - k + 1) /\ k + (i - k) - 1 = i - 1
    BY <1>1
  <2>. QED
    BY <2>1, <1>4
<1>. QED
  BY <1>1, <1>5, <1>6, <1>7, <1>8

LEMMA RemoveShape ==
    ASSUME NEW S, NEW t \in Seq(S), NEW k \in 1 .. Len(t)
    PROVE  /\ RemoveAt(t, k) \in Seq(S)
           /\ Len(RemoveAt(t, k)) = Len(t) - 1
           /\ \A i \in 1 .. (k - 1) : RemoveAt(t, k)[i] = t[i]
           /\ \A i \in k .. (Len(t) - 1) : RemoveAt(t, k)[i] = t[i + 1]
<1>. DEFINE a == SubSeq(t, 1, k - 1)
            c == SubSeq(t, k + 1, Len(t))
<1>1. Len(t) \in Nat /\ k \in Nat
  OBVIOUS
<1>2. \A i \in 1 .. Len(t) : t[i] \in S
  BY ElementOfSeq
<1>3. a \in Seq(S) /\ Len(a) = k - 1 /\ \A i \in 1 .. (k - 1) : a[i] = t[i]
  <2>1. \A i \in 1 .. (k - 1) : t[i] \in S
    BY <1>1, <1>2
  <2>. QED
    BY <2>1, <1>1, SubSeqProperties
<1>4. c \in Seq(S) /\ Len(c) = Len(t) - k /\ \A i \in 1 .. (Len(t) - k) : c[i] = t[k + i]
  <2>1. \A i \in (k + 1) .. Len(t) : t[i] \in S
    BY <1>1, <1>2
  <2>2. /\ c \in Seq(S) /\ Len(c) = IF k + 1 <= Len(t) THEN Len(t) - (k + 1) + 1 ELSE 0
        /\ \A i \in 1 .. (Len(t) - (k + 1) + 1) : c[i] = t[(k + 1) + i - 1]
    BY <2>1, <1>1, SubSeqProperties
  <2>. HIDE DEF c
  <2>. QED
    BY <2>2, <1>1
<1>5. RemoveAt(t, k) = a \o c
  BY DEF RemoveAt
<1>. HIDE DEF a, c
<1>6. /\ a \o c \in Seq(S) /\ Len(a \o c) = Len(t) - 1
      /\ \A i \in 1 .. (k - 1) : (a \o c)[i] = a[i]
      /\ \A i \in k .. (Len(t) - 1) : (a \o c)[i] = c[i - (k - 1)]
  <2>1. a \o c \in Seq(S) /\ Len(a \o c) = Len(t) - 1
    <3>1. a \o c \in Seq(S) /\ Len(a \o c) = Len(a) + Len(c)
      BY <1>3, <1>4, ConcatProperties, Zenon
    <3>2. Len(a) + Len(c) = Len(t) - 1
      BY <1>1, <1>3, <1>4
    <3>. QED
      BY <3>1, <3>2
  <2>2. \A i \in 1 .. (k - 1) : (a \o c)[i] = a[i]
    BY <1>1, <1>3, <1>4
  <2>3. ASSUME NEW i \in k .. (Len(t) - 1)
        PROVE  (a \o c)[i] = c[i - (k - 1)]
    <3>1. i \in 1 .. (Len(a) + Len(c)) /\ i > Len(a) /\ i - Len(a) = i - (k - 1)
      BY <1>1, <1>3, <1>4
    <3>. QED
      BY <3>1, <1>3, <1>4
  <2>. QED
    BY <2>1, <2>2, <2>3
<1>7. ASSUME NEW i \in k .. (Len(t) - 1)
      PROVE  c[i - (k - 1)] = t[i + 1]
  <2>1. i - (k - 1) \in 1 .. (Len(t) - k) /\ k + (i - (k - 1)) = i + 1
    BY <1>1
  <2>. QED
    BY <2>1, <1>4
<1>. QED
  BY <1>3, <1>5, <1>6, <1>7

LEMMA ElementsInserted ==
    ASSUME NEW S, NEW t \in Seq(S), NEW k \in 1 .. (Len(t) + 1), NEW x \in S
    PROVE  ToSet(InsertAt(t, k, x)) = ToSet(t) \cup {x}
<1>. DEFINE u == InsertAt(t, k, x)
<1>1. /\ u \in Seq(S) /\ Len(u) = Len(t) + 1 /\ Len(t) \in Nat /\ k \in Nat /\ u[k] = x
      /\ \A i \in 1 .. (k - 1) : u[i] = t[i]
      /\ \A i \in (k + 1) .. (Len(t) + 1) : u[i] = t[i - 1]
  BY InsertShape
<1>. HIDE DEF u
<1>2. DOMAIN t = 1 .. Len(t) /\ DOMAIN u = 1 .. (Len(t) + 1)
  BY <1>1
<1>3. ASSUME NEW i \in DOMAIN u PROVE u[i] \in ToSet(t) \cup {x}
  <2>1. CASE i < k
    BY <2>1, <1>1, <1>2 DEF ToSet
  <2>2. CASE i = k
    BY <2>2, <1>1
  <2>3. CASE i > k
    <3>1. i - 1 \in DOMAIN t /\ u[i] = t[i - 1]
      BY <2>3, <1>1, <1>2
    <3>. QED
      BY <3>1 DEF ToSet
  <2>. QED
    BY <2>1, <2>2, <2>3, <1>1, <1>2
<1>4. ASSUME NEW i \in DOMAIN t PROVE t[i] \in ToSet(u)
  <2>1. CASE i < k
    <3>1. i \in DOMAIN u /\ u[i] = t[i]
      BY <2>1, <1>1, <1>2
    <3>. QED
      BY <3>1 DEF ToSet
  <2>2. CASE i >= k
    <3>1. i + 1 \in DOMAIN u /\ u[i + 1] = t[(i + 1) - 1] /\ (i + 1) - 1 = i
      BY <2>2, <1>1, <1>2
    <3>. QED
      BY <3>1 DEF ToSet
  <2>. QED
    BY <2>1, <2>2, <1>1, <1>2
<1>5. x \in ToSet(u)
  BY <1>1, <1>2 DEF ToSet
<1>. QED
  BY <1>3, <1>4, <1>5 DEF ToSet, u

LEMMA ElementsRemoved ==
    ASSUME NEW S, NEW t \in Seq(S), NEW k \in 1 .. Len(t)
    PROVE  /\ ToSet(RemoveAt(t, k)) \subseteq ToSet(t)
           /\ ToSet(t) \ {t[k]} \subseteq ToSet(RemoveAt(t, k))
           /\ t[k] \in ToSet(RemoveAt(t, k)) => \E i \in 1 .. Len(t) : i # k /\ t[i] = t[k]
<1>. DEFINE u == RemoveAt(t, k)
<1>1. /\ u \in Seq(S) /\ Len(u) = Len(t) - 1 /\ Len(t) \in Nat /\ k \in Nat
      /\ \A i \in 1 .. (k - 1) : u[i] = t[i]
      /\ \A i \in k .. (Len(t) - 1) : u[i] = t[i + 1]
  <2>1. Len(t) \in Nat /\ k \in Nat
    OBVIOUS
  <2>. HIDE DEF u
  <2>2. /\ u \in Seq(S) /\ Len(u) = Len(t) - 1
        /\ \A i \in 1 .. (k - 1) : u[i] = t[i]
        /\ \A i \in k .. (Len(t) - 1) : u[i] = t[i + 1]
    BY RemoveShape DEF u
  <2>. QED
    BY <2>1, <2>2
<1>. HIDE DEF u
<1>2. DOMAIN t = 1 .. Len(t) /\ DOMAIN u = 1 .. (Len(t) - 1)
  BY <1>1
<1>3. ASSUME NEW i \in DOMAIN u PROVE \E j \in 1 .. Len(t) : j # k /\ u[i] = t[j]
  <2>1. CASE i < k
    BY <2>1, <1>1, <1>2
  <2>2. CASE i >= k
    <3>1. i + 1 \in 1 .. Len(t) /\ i + 1 # k /\ u[i] = t[i + 1]
      BY <2>2, <1>1, <1>2
    <3>. QED
      BY <3>1
  <2>. QED
    BY <2>1, <2>2, <1>1, <1>2
<1>4. ASSUME NEW i \in DOMAIN t, i # k PROVE t[i] \in ToSet(u)
  <2>1. CASE i < k
    <3>1. i \in DOMAIN u /\ u[i] = t[i]
      BY <2>1, <1>1, <1>2
    <3>. QED
      BY <3>1 DEF ToSet
  <2>2. CASE i > k
    <3>1. i - 1 \in DOMAIN u /\ u[i - 1] = t[(i - 1) + 1] /\ (i - 1) + 1 = i
      BY <2>2, <1>1, <1>2
    <3>. QED
      BY <3>1 DEF ToSet
  <2>. QED
    BY <2>1, <2>2, <1>1, <1>2, <1>4
<1>5. ToSet(u) \subseteq ToSet(t)
  BY <1>2, <1>3 DEF ToSet
<1>6. ToSet(t) \ {t[k]} \subseteq ToSet(u)
  BY <1>4 DEF ToSet
<1>7. t[k] \in ToSet(u) => \E i \in 1 .. Len(t) : i # k /\ t[i] = t[k]
  BY <1>3 DEF ToSet
<1>. QED
  BY <1>5, <1>6, <1>7 DEF u

LEMMA RemovedAgain ==
    ASSUME NEW S, NEW t \in Seq(S), NEW k \in 1 .. (Len(t) + 1), NEW x \in S
    PROVE  RemoveAt(InsertAt(t, k, x), k) = t
<1>. DEFINE u == InsertAt(t, k, x)
            v == RemoveAt(u, k)
<1>1. /\ u \in Seq(S) /\ Len(u) = Len(t) + 1 /\ Len(t) \in Nat /\ k \in Nat
      /\ \A i \in 1 .. (k - 1) : u[i] = t[i]
      /\ \A i \in (k + 1) .. (Len(t) + 1) : u[i] = t[i - 1]
  BY InsertShape
<1>. HIDE DEF u
<1>2. k \in 1 .. Len(u)
  BY <1>1
<1>3. /\ v \in Seq(S) /\ Len(v) = Len(u) - 1
      /\ \A i \in 1 .. (k - 1) : v[i] = u[i]
      /\ \A i \in k .. (Len(u) - 1) : v[i] = u[i + 1]
  BY <1>1, <1>2, RemoveShape
<1>. HIDE DEF v
<1>4. Len(v) = Len(t)
  BY <1>1, <1>3
<1>5. ASSUME NEW i \in 1 .. Len(v) PROVE v[i] = t[i]
  <2>1. CASE i < k
    BY <2>1, <1>1, <1>3, <1>4
  <2>2. CASE i >= k
    <3>1. v[i] = u[i + 1] /\ i + 1 \in (k + 1) .. (Len(t) + 1) /\ (i + 1) - 1 = i
      BY <2>2, <1>1, <1>3, <1>4
    <3>. QED
      BY <3>1, <1>1
  <2>. QED
    BY <2>1, <2>2, <1>1, <1>4
<1>6. v = t
  BY <1>3, <1>4, <1>5, SeqEqual
<1>. QED
  BY <1>6 DEF u, v

-----------------------------------------------------------------------------
(* The order of symbols is total.                                           *)
LEMMA SymbolFields ==
    ASSUME NEW s \in Symbol
    PROVE  /\ s.pos \in Int /\ s.site \in Int /\ s.n \in Nat /\ s.site \in Sites
           /\ s.n \in 0 .. (MaxCount - 1) /\ s.pos \in 1 .. MaxPos
           /\ s = [pos |-> s.pos, site |-> s.site, n |-> s.n]
<1>1. /\ s.pos \in 1 .. MaxPos /\ s.site \in Sites /\ s.n \in 0 .. (MaxCount - 1)
      /\ s = [pos |-> s.pos, site |-> s.site, n |-> s.n]
  BY DEF Symbol
<1>2. Sites \subseteq Nat /\ MaxPos \in Int /\ MaxCount \in Int
  BY SharedEditorAssumption
<1>3. s.pos \in Int /\ s.n \in Nat
  BY <1>1, <1>2
<1>4. s.site \in Int
  BY <1>1, <1>2
<1>. QED
  BY <1>1, <1>3, <1>4

LEMMA OrderIsTotal ==
    ASSUME NEW s \in Symbol, NEW t \in Symbol
    PROVE  /\ ~SymbolLess(s, s)
           /\ SymbolLess(s, t) => ~SymbolLess(t, s)
           /\ s # t => SymbolLess(s, t) \/ SymbolLess(t, s)
<1>1. /\ s.pos \in Int /\ s.site \in Int /\ s.n \in Int
      /\ t.pos \in Int /\ t.site \in Int /\ t.n \in Int
  BY SymbolFields
<1>2. s.pos = t.pos /\ s.site = t.site /\ s.n = t.n => s = t
  BY SymbolFields
<1>. QED
  BY <1>1, <1>2 DEF SymbolLess

LEMMA OrderIsTransitive ==
    ASSUME NEW s \in Symbol, NEW t \in Symbol, NEW u \in Symbol
    PROVE  /\ SymbolLess(s, t) /\ SymbolLess(t, u) => SymbolLess(s, u)
           /\ ~SymbolLess(t, s) /\ ~SymbolLess(u, t) => ~SymbolLess(u, s)
<1>1. /\ s.pos \in Int /\ s.site \in Int /\ s.n \in Int
      /\ t.pos \in Int /\ t.site \in Int /\ t.n \in Int
      /\ u.pos \in Int /\ u.site \in Int /\ u.n \in Int
  BY SymbolFields
<1>. QED
  BY <1>1 DEF SymbolLess

(* Texts that are sorted; equal symbols beside each other are not excluded. *)
Ordered(t) ==
    /\ t \in Seq(Symbol)
    /\ \A i, j \in 1 .. Len(t) : i < j => ~SymbolLess(t[j], t[i])

Ascending(t) ==
    /\ t \in Seq(Symbol)
    /\ \A i, j \in 1 .. Len(t) : i < j => SymbolLess(t[i], t[j])

LEMMA TextFacts ==
    ASSUME NEW t \in Seq(Symbol)
    PROVE  /\ Len(t) \in Nat /\ DOMAIN t = 1 .. Len(t)
           /\ \A i \in 1 .. Len(t) : t[i] \in Symbol
           /\ \A x : x \in ToSet(t) <=> \E i \in 1 .. Len(t) : t[i] = x
<1>1. Len(t) \in Nat /\ DOMAIN t = 1 .. Len(t)
  OBVIOUS
<1>2. \A i \in 1 .. Len(t) : t[i] \in Symbol
  BY ElementOfSeq
<1>. QED
  BY <1>1, <1>2 DEF ToSet

LEMMA AscendingIsOrdered ==
    ASSUME NEW t, Ascending(t)
    PROVE  Ordered(t) /\ IsInjective(t)
<1>1. /\ t \in Seq(Symbol) /\ Len(t) \in Nat /\ DOMAIN t = 1 .. Len(t)
      /\ \A i \in 1 .. Len(t) : t[i] \in Symbol
      /\ \A i, j \in 1 .. Len(t) : i < j => SymbolLess(t[i], t[j])
  BY TextFacts DEF Ascending
<1>2. ASSUME NEW i \in 1 .. Len(t), NEW j \in 1 .. Len(t), i < j
      PROVE  ~SymbolLess(t[j], t[i]) /\ t[i] # t[j]
  BY <1>1, <1>2, OrderIsTotal
<1>3. ASSUME NEW i \in 1 .. Len(t), NEW j \in 1 .. Len(t), t[i] = t[j]
      PROVE  i = j
  <2>1. ~(i < j) /\ ~(j < i)
    BY <1>2, <1>3
  <2>. QED
    BY <2>1, <1>1
<1>. QED
  BY <1>1, <1>2, <1>3 DEF Ordered, IsInjective

(* std::lower_bound in a sorted text. *)
LEMMA LowerBoundPlace ==
    ASSUME NEW t, Ordered(t), NEW x \in Symbol
    PROVE  /\ LowerBound(t, x) \in 1 .. (Len(t) + 1)
           /\ \A i \in 1 .. Len(t) : i < LowerBound(t, x) <=> SymbolLess(t[i], x)
<1>. DEFINE T == {i \in DOMAIN t : ~SymbolLess(t[i], x)} \cup {Len(t) + 1}
            k == Min(T)
<1>1. /\ t \in Seq(Symbol) /\ Len(t) \in Nat /\ DOMAIN t = 1 .. Len(t)
      /\ \A i \in 1 .. Len(t) : t[i] \in Symbol
      /\ \A i, j \in 1 .. Len(t) : i < j => ~SymbolLess(t[j], t[i])
  BY TextFacts DEF Ordered
<1>2. T \subseteq Int /\ (\A i \in T : 1 <= i) /\ T # {}
  BY <1>1
<1>3. k \in T /\ \A i \in T : k <= i
  BY <1>2, MinIsLeast
<1>. HIDE DEF k
<1>4. k \in 1 .. (Len(t) + 1)
  BY <1>1, <1>3
<1>5. ASSUME NEW i \in 1 .. Len(t), i < k PROVE SymbolLess(t[i], x)
  BY <1>1, <1>3, <1>4, <1>5
<1>6. ASSUME NEW i \in 1 .. Len(t), ~(i < k) PROVE ~SymbolLess(t[i], x)
  <2>1. k \in 1 .. Len(t) /\ ~SymbolLess(t[k], x)
    BY <1>1, <1>3, <1>4, <1>6
  <2>2. CASE i = k
    BY <2>1, <2>2
  <2>3. CASE i # k
    <3>1. k < i /\ ~SymbolLess(t[i], t[k])
      BY <2>1, <2>3, <1>1, <1>4, <1>6
    <3>. QED
      BY <3>1, <2>1, <1>1, OrderIsTransitive
  <2>. QED
    BY <2>2, <2>3
<1>. QED
  BY <1>4, <1>5, <1>6 DEF LowerBound, k

(* find_symbol finds the first copy of what is in the text, and nothing else. *)
LEMMA FindSymbolFinds ==
    ASSUME NEW ed, Ordered(ed.text), NEW x \in Symbol
    PROVE  /\ x \in ToSet(ed.text) => /\ FindSymbol(ed, x) = LowerBound(ed.text, x)
                                      /\ FindSymbol(ed, x) \in 1 .. Len(ed.text)
                                      /\ ed.text[FindSymbol(ed, x)] = x
           /\ x \notin ToSet(ed.text) => FindSymbol(ed, x) = NoIndex
<1>. DEFINE t == ed.text
            k == LowerBound(t, x)
<1>1. /\ t \in Seq(Symbol) /\ Len(t) \in Nat
      /\ \A i \in 1 .. Len(t) : t[i] \in Symbol
      /\ \A i, j \in 1 .. Len(t) : i < j => ~SymbolLess(t[j], t[i])
      /\ \A y : y \in ToSet(t) <=> \E i \in 1 .. Len(t) : t[i] = y
  BY TextFacts DEF Ordered
<1>2. /\ k \in 1 .. (Len(t) + 1)
      /\ \A i \in 1 .. Len(t) : i < k <=> SymbolLess(t[i], x)
  BY LowerBoundPlace
<1>. HIDE DEF k
<1>3. ASSUME x \in ToSet(t) PROVE k <= Len(t) /\ t[k] = x
  <2>1. PICK i \in 1 .. Len(t) : t[i] = x
    BY <1>1, <1>3
  <2>2. ~(i < k)
    BY <2>1, <1>2, OrderIsTotal
  <2>3. k \in 1 .. Len(t) /\ ~SymbolLess(t[k], x)
    BY <2>2, <1>1, <1>2
  <2>4. ~SymbolLess(x, t[k])
    BY <2>1, <2>2, <2>3, <1>1, <1>2, OrderIsTotal
  <2>. QED
    BY <2>3, <2>4, <1>1, OrderIsTotal
<1>4. k <= Len(t) /\ t[k] = x => x \in ToSet(t)
  BY <1>1, <1>2
<1>. QED
  BY <1>1, <1>2, <1>3, <1>4 DEF FindSymbol, k

(* A symbol put at its lower bound, and a symbol taken out, leave the text  *)
(* sorted.                                                                  *)
LEMMA InsertKeepsOrder ==
    ASSUME NEW t, Ordered(t), NEW x \in Symbol
    PROVE  /\ Ordered(InsertAt(t, LowerBound(t, x), x))
           /\ Ascending(t) /\ x \notin ToSet(t) => Ascending(InsertAt(t, LowerBound(t, x), x))
           /\ LowerBound(InsertAt(t, LowerBound(t, x), x), x) = LowerBound(t, x)
<1>. DEFINE k == LowerBound(t, x)
            u == InsertAt(t, k, x)
            Old(i) == IF i < k THEN i ELSE i - 1
<1>1. /\ t \in Seq(Symbol) /\ Len(t) \in Nat
      /\ \A i \in 1 .. Len(t) : t[i] \in Symbol
      /\ \A i, j \in 1 .. Len(t) : i < j => ~SymbolLess(t[j], t[i])
      /\ \A y : y \in ToSet(t) <=> \E i \in 1 .. Len(t) : t[i] = y
  BY TextFacts DEF Ordered
<1>2. /\ k \in 1 .. (Len(t) + 1)
      /\ \A i \in 1 .. Len(t) : i < k <=> SymbolLess(t[i], x)
  BY LowerBoundPlace
<1>. HIDE DEF k
<1>3. /\ u \in Seq(Symbol) /\ Len(u) = Len(t) + 1 /\ u[k] = x
      /\ \A i \in 1 .. (k - 1) : u[i] = t[i]
      /\ \A i \in (k + 1) .. (Len(t) + 1) : u[i] = t[i - 1]
  BY <1>1, <1>2, InsertShape
<1>. HIDE DEF u
<1>4. ASSUME NEW i \in 1 .. Len(u), i # k
      PROVE  Old(i) \in 1 .. Len(t) /\ u[i] = t[Old(i)]
  <2>1. CASE i < k
    BY <2>1, <1>1, <1>2, <1>3
  <2>2. CASE i > k
    <3>1. i - 1 \in 1 .. Len(t) /\ i \in (k + 1) .. (Len(t) + 1)
      BY <2>2, <1>1, <1>2, <1>3
    <3>2. Old(i) = i - 1
      BY <2>2, <1>1, <1>2, <1>3
    <3>. QED
      BY <3>1, <3>2, <1>3
  <2>. QED
    BY <2>1, <2>2, <1>1, <1>2, <1>3, <1>4
<1>5. \A i \in 1 .. Len(t) : i < k => ~SymbolLess(x, t[i])
  BY <1>1, <1>2, OrderIsTotal
<1>6. ASSUME NEW i \in 1 .. Len(u), NEW j \in 1 .. Len(u), i < j
      PROVE  /\ ~SymbolLess(u[j], u[i])
             /\ Ascending(t) /\ x \notin ToSet(t) => SymbolLess(u[i], u[j])
  <2>1. CASE i = k
    <3>1. Old(j) \in 1 .. Len(t) /\ u[j] = t[Old(j)] /\ ~(Old(j) < k)
      BY <2>1, <1>6, <1>4, <1>1, <1>2, <1>3
    <3>2. ~SymbolLess(u[j], u[i])
      BY <3>1, <2>1, <1>2, <1>3
    <3>3. x \notin ToSet(t) => t[Old(j)] # x
      BY <3>1, <1>1
    <3>4. x \notin ToSet(t) => SymbolLess(x, t[Old(j)])
      BY <3>1, <3>3, <1>1, <1>2, OrderIsTotal
    <3>. QED
      BY <3>1, <3>2, <3>4, <2>1, <1>3
  <2>2. CASE j = k
    <3>1. Old(i) \in 1 .. Len(t) /\ u[i] = t[Old(i)] /\ Old(i) < k
      BY <2>2, <1>6, <1>4, <1>1, <1>2, <1>3
    <3>. QED
      BY <3>1, <2>2, <1>2, <1>3, <1>5
  <2>3. CASE i # k /\ j # k
    <3>1. /\ Old(i) \in 1 .. Len(t) /\ u[i] = t[Old(i)]
          /\ Old(j) \in 1 .. Len(t) /\ u[j] = t[Old(j)]
      BY <2>3, <1>4
    <3>2. Old(i) < Old(j)
      BY <2>3, <1>6, <1>2, <1>1, <1>3
    <3>. QED
      BY <3>1, <3>2, <1>1 DEF Ascending
  <2>. QED
    BY <2>1, <2>2, <2>3
<1>7. Ordered(u)
  BY <1>3, <1>6 DEF Ordered
<1>8. Ascending(t) /\ x \notin ToSet(t) => Ascending(u)
  BY <1>3, <1>6 DEF Ascending
<1>9. LowerBound(u, x) = k
  <2>1. /\ LowerBound(u, x) \in 1 .. (Len(u) + 1)
        /\ \A i \in 1 .. Len(u) : i < LowerBound(u, x) <=> SymbolLess(u[i], x)
    BY <1>7, LowerBoundPlace
  <2>2. k \in 1 .. Len(u) /\ ~SymbolLess(u[k], x)
    BY <1>1, <1>2, <1>3, OrderIsTotal
  <2>3. ~(k < LowerBound(u, x))
    BY <2>1, <2>2
  <2>4. ASSUME LowerBound(u, x) < k PROVE FALSE
    <3>1. LowerBound(u, x) \in 1 .. (k - 1) /\ LowerBound(u, x) \in 1 .. Len(t)
      BY <2>1, <2>4, <1>1, <1>2
    <3>2. SymbolLess(u[LowerBound(u, x)], x)
      BY <3>1, <1>2, <1>3, <1>1
    <3>. QED
      BY <3>1, <3>2, <2>1, <1>3, <1>1
  <2>. QED
    BY <2>1, <2>3, <2>4, <1>2
<1>. QED
  BY <1>7, <1>8, <1>9 DEF u, k

LEMMA RemoveKeepsOrder ==
    ASSUME NEW t, Ordered(t), NEW k \in 1 .. Len(t)
    PROVE  /\ Ordered(RemoveAt(t, k))
           /\ Ascending(t) => Ascending(RemoveAt(t, k)) /\ t[k] \notin ToSet(RemoveAt(t, k))
<1>. DEFINE u == RemoveAt(t, k)
            Old(i) == IF i < k THEN i ELSE i + 1
<1>1. /\ t \in Seq(Symbol) /\ Len(t) \in Nat /\ k \in Nat
      /\ \A i \in 1 .. Len(t) : t[i] \in Symbol
      /\ \A i, j \in 1 .. Len(t) : i < j => ~SymbolLess(t[j], t[i])
  BY TextFacts DEF Ordered
<1>2. /\ u \in Seq(Symbol) /\ Len(u) = Len(t) - 1
      /\ \A i \in 1 .. (k - 1) : u[i] = t[i]
      /\ \A i \in k .. (Len(t) - 1) : u[i] = t[i + 1]
  BY <1>1, RemoveShape
<1>3. Ascending(t) => t[k] \notin ToSet(u)
  <2>1. t[k] \in ToSet(u) => \E i \in 1 .. Len(t) : i # k /\ t[i] = t[k]
    BY <1>1, ElementsRemoved
  <2>. QED
    BY <2>1, <1>1, AscendingIsOrdered DEF IsInjective
<1>. HIDE DEF u
<1>4. ASSUME NEW i \in 1 .. Len(u), NEW j \in 1 .. Len(u), i < j
      PROVE  ~SymbolLess(u[j], u[i]) /\ (Ascending(t) => SymbolLess(u[i], u[j]))
  <2>1. /\ Old(i) \in 1 .. Len(t) /\ u[i] = t[Old(i)]
        /\ Old(j) \in 1 .. Len(t) /\ u[j] = t[Old(j)]
        /\ Old(i) < Old(j)
    BY <1>1, <1>2, <1>4
  <2>. QED
    BY <2>1, <1>1 DEF Ascending
<1>5. Ordered(u) /\ (Ascending(t) => Ascending(u))
  BY <1>2, <1>4 DEF Ordered, Ascending
<1>. QED
  BY <1>3, <1>5 DEF u

(* A symbol between its neighbours, wherever it is put.                     *)
LEMMA InsertBetween ==
    ASSUME NEW t, Ordered(t), NEW x \in Symbol, NEW k \in 1 .. (Len(t) + 1),
           k > 1 => SymbolLess(t[k - 1], x), k <= Len(t) => SymbolLess(x, t[k])
    PROVE  LowerBound(t, x) = k /\ x \notin ToSet(t)
<1>1. /\ t \in Seq(Symbol) /\ Len(t) \in Nat /\ k \in Nat
      /\ \A i \in 1 .. Len(t) : t[i] \in Symbol
      /\ \A i, j \in 1 .. Len(t) : i < j => ~SymbolLess(t[j], t[i])
      /\ \A y : y \in ToSet(t) <=> \E i \in 1 .. Len(t) : t[i] = y
  BY TextFacts DEF Ordered
<1>2. /\ LowerBound(t, x) \in 1 .. (Len(t) + 1)
      /\ \A i \in 1 .. Len(t) : i < LowerBound(t, x) <=> SymbolLess(t[i], x)
  BY LowerBoundPlace
<1>3. ASSUME NEW i \in 1 .. Len(t), i >= k PROVE SymbolLess(x, t[i]) /\ ~SymbolLess(t[i], x)
  <2>1. k \in 1 .. Len(t) /\ SymbolLess(x, t[k])
    BY <1>1, <1>3
  <2>2. ~SymbolLess(t[i], t[k])
    BY <2>1, <1>1, <1>3, OrderIsTotal
  <2>3. ~SymbolLess(t[i], x)
    BY <2>1, <2>2, <1>1, OrderIsTotal, OrderIsTransitive
  <2>4. t[i] # x
    BY <2>1, <2>2
  <2>. QED
    BY <2>3, <2>4, <1>1, OrderIsTotal
<1>4. ASSUME NEW i \in 1 .. Len(t), i < k PROVE SymbolLess(t[i], x)
  <2>1. k - 1 \in 1 .. Len(t) /\ SymbolLess(t[k - 1], x) /\ (i = k - 1 \/ i < k - 1)
    BY <1>1, <1>4
  <2>2. ~SymbolLess(t[k - 1], t[i])
    BY <2>1, <1>1, OrderIsTotal
  <2>3. ~SymbolLess(x, t[i])
    BY <2>1, <2>2, <1>1, OrderIsTotal, OrderIsTransitive
  <2>4. t[i] # x
    BY <2>1, <2>2
  <2>. QED
    BY <2>3, <2>4, <1>1, OrderIsTotal
<1>5. x \notin ToSet(t)
  BY <1>1, <1>3, <1>4, OrderIsTotal
<1>6. ~(LowerBound(t, x) < k)
  BY <1>1, <1>2, <1>4
<1>7. ~(k < LowerBound(t, x))
  BY <1>1, <1>2, <1>3
<1>. QED
  BY <1>1, <1>2, <1>5, <1>6, <1>7

(* Sorted texts without repetition are determined by their symbols.         *)
THEOREM AscendingTextsEqual ==
    ASSUME NEW t, Ascending(t), NEW u, Ascending(u), ToSet(t) = ToSet(u)
    PROVE  t = u
<1>1. /\ t \in Seq(Symbol) /\ Len(t) \in Nat
      /\ \A i \in 1 .. Len(t) : t[i] \in Symbol
      /\ \A i, j \in 1 .. Len(t) : i < j => SymbolLess(t[i], t[j])
      /\ \A y : y \in ToSet(t) <=> \E i \in 1 .. Len(t) : t[i] = y
  BY TextFacts DEF Ascending
<1>2. /\ u \in Seq(Symbol) /\ Len(u) \in Nat
      /\ \A i \in 1 .. Len(u) : u[i] \in Symbol
      /\ \A i, j \in 1 .. Len(u) : i < j => SymbolLess(u[i], u[j])
      /\ \A y : y \in ToSet(u) <=> \E i \in 1 .. Len(u) : u[i] = y
  BY TextFacts DEF Ascending
<1>. DEFINE Differ == {i \in Nat \ {0} : /\ i <= Len(t) \/ i <= Len(u)
                                         /\ ~(i <= Len(t) /\ i <= Len(u) /\ t[i] = u[i])}
<1>3. CASE Differ # {}
  <2>1. PICK m \in Differ : \A i \in Differ : m <= i
    BY <1>3, LeastNumber
  <2>. DEFINE Rest(v) == {v[i] : i \in {j \in 1 .. Len(v) : j >= m}}
  <2>2. \A i \in 1 .. (m - 1) : i <= Len(t) /\ i <= Len(u) /\ t[i] = u[i]
    BY <2>1, <1>1, <1>2
  <2>3. ASSUME m <= Len(t) PROVE \E j \in 1 .. Len(u) : j >= m /\ u[j] = t[m]
    <3>1. m \in 1 .. Len(t)
      BY <2>1, <2>3
    <3>2. PICK j \in 1 .. Len(u) : u[j] = t[m]
      BY <3>1, <1>1, <1>2
    <3>3. ASSUME j < m PROVE FALSE
      <4>1. j \in 1 .. Len(t) /\ t[j] = t[m] /\ SymbolLess(t[j], t[m])
        BY <3>1, <3>2, <3>3, <2>2, <1>1
      <4>. QED
        BY <4>1, <3>1, <1>1, OrderIsTotal
    <3>. QED
      BY <3>2, <3>3, <2>1, <1>2
  <2>4. ASSUME m <= Len(u) PROVE \E j \in 1 .. Len(t) : j >= m /\ t[j] = u[m]
    <3>1. m \in 1 .. Len(u)
      BY <2>1, <2>4
    <3>2. PICK j \in 1 .. Len(t) : t[j] = u[m]
      BY <3>1, <1>1, <1>2
    <3>3. ASSUME j < m PROVE FALSE
      <4>1. j \in 1 .. Len(u) /\ u[j] = u[m] /\ SymbolLess(u[j], u[m])
        BY <3>1, <3>2, <3>3, <2>2, <1>2
      <4>. QED
        BY <4>1, <3>1, <1>2, OrderIsTotal
    <3>. QED
      BY <3>2, <3>3, <2>1, <1>1
  <2>5. m <= Len(t) /\ m <= Len(u)
    BY <2>1, <2>3, <2>4, <1>1, <1>2
  <2>6. PICK j \in 1 .. Len(u) : j >= m /\ u[j] = t[m]
    BY <2>3, <2>5
  <2>7. PICK i \in 1 .. Len(t) : i >= m /\ t[i] = u[m]
    BY <2>4, <2>5
  <2>8. m \in 1 .. Len(t) /\ m \in 1 .. Len(u) /\ t[m] # u[m]
    BY <2>1, <2>5, <1>1, <1>2
  <2>9. SymbolLess(u[m], u[j]) /\ SymbolLess(t[m], t[i])
    BY <2>6, <2>7, <2>8, <1>1, <1>2
  <2>. QED
    BY <2>6, <2>7, <2>8, <2>9, <1>1, <1>2, OrderIsTotal
<1>4. CASE Differ = {}
  <2>1. \A i \in 1 .. Len(t) : i <= Len(u) /\ t[i] = u[i]
    BY <1>4, <1>1, <1>2
  <2>2. \A i \in 1 .. Len(u) : i <= Len(t)
    BY <1>4, <1>1, <1>2
  <2>3. Len(t) <= Len(u) /\ Len(u) <= Len(t)
    BY <2>1, <2>2, <1>1, <1>2
  <2>4. Len(t) = Len(u)
    BY <2>3, <1>1, <1>2
  <2>. QED
    BY <2>1, <2>4, <1>1, <1>2, SeqEqual
<1>. QED
  BY <1>3, <1>4

-----------------------------------------------------------------------------
(* The rounds of the loop over the deletion buffer.                         *)
Start(ed) == [ed |-> [ed EXCEPT !.buf = << >>], index |-> NoIndex]

AreRounds(f, ed, n) ==
    f = [k \in 0 .. n |-> IF k = 0 THEN Start(ed) ELSE ProcessDeletion(f[k - 1], ed.buf[k])]

LEMMA RoundsExist ==
    ASSUME NEW ed, Len(ed.buf) \in Nat
    PROVE  \E f : AreRounds(f, ed, Len(ed.buf)) /\ ProcessDeletionBuffer(ed) = f[Len(ed.buf)]
<1>. DEFINE T == {n \in Nat : \E f : AreRounds(f, ed, n)}
<1>1. 0 \in T
  <2>. DEFINE f == [k \in 0 .. 0 |-> Start(ed)]
  <2>1. f = [k \in 0 .. 0 |-> IF k = 0 THEN Start(ed) ELSE ProcessDeletion(f[k - 1], ed.buf[k])]
    OBVIOUS
  <2>. HIDE DEF f
  <2>2. AreRounds(f, ed, 0)
    BY <2>1 DEF AreRounds
  <2>. QED
    BY <2>2
<1>2. ASSUME NEW n \in Nat, n \in T PROVE n + 1 \in T
  <2>1. PICK f : AreRounds(f, ed, n)
    BY <1>2
  <2>2. f = [k \in 0 .. n |-> IF k = 0 THEN Start(ed) ELSE ProcessDeletion(f[k - 1], ed.buf[k])]
    BY <2>1 DEF AreRounds
  <2>. DEFINE last == ProcessDeletion(f[n], ed.buf[n + 1])
              g == [k \in 0 .. (n + 1) |-> IF k = n + 1 THEN last ELSE f[k]]
  <2>3. DOMAIN g = 0 .. (n + 1) /\ g[n + 1] = last /\ \A k \in 0 .. n : g[k] = f[k]
    OBVIOUS
  <2>. HIDE DEF last
  <2>4. ASSUME NEW k \in 0 .. (n + 1)
        PROVE  g[k] = IF k = 0 THEN Start(ed) ELSE ProcessDeletion(g[k - 1], ed.buf[k])
    <3>1. CASE k = n + 1
      <4>1. k # 0 /\ k - 1 = n /\ n \in 0 .. n
        BY <3>1
      <4>2. g[k - 1] = f[n] /\ g[k] = last
        BY <4>1, <3>1, <2>3
      <4>. QED
        BY <4>1, <4>2, <3>1 DEF last
    <3>2. CASE k # n + 1 /\ k # 0
      <4>1. k \in 0 .. n /\ k - 1 \in 0 .. n
        BY <3>2
      <4>2. g[k] = f[k] /\ g[k - 1] = f[k - 1]
        BY <4>1, <2>3
      <4>. QED
        BY <4>1, <4>2, <3>2, <2>2
    <3>3. CASE k = 0
      <4>1. k \in 0 .. n /\ g[k] = f[k]
        BY <3>3, <2>3
      <4>. QED
        BY <4>1, <3>3, <2>2
    <3>. QED
      BY <3>1, <3>2, <3>3
  <2>. HIDE DEF g
  <2>5. g = [k \in 0 .. (n + 1) |-> g[k]]
    BY DEF g
  <2>6. g = [k \in 0 .. (n + 1) |->
                IF k = 0 THEN Start(ed) ELSE ProcessDeletion(g[k - 1], ed.buf[k])]
    BY <2>4, <2>5
  <2>7. AreRounds(g, ed, n + 1)
    BY <2>6 DEF AreRounds
  <2>. QED
    BY <2>7
<1>3. Nat \subseteq T
  <2>. HIDE DEF T
  <2>. QED
    BY <1>1, <1>2, NumbersByInduction
<1>4. Len(ed.buf) \in T
  BY <1>3
<1>5. PICK f : AreRounds(f, ed, Len(ed.buf))
  BY <1>4
<1>. DEFINE h == CHOOSE g : g = [k \in 0 .. Len(ed.buf) |->
                     IF k = 0 THEN [ed |-> [ed EXCEPT !.buf = << >>], index |-> NoIndex]
                     ELSE ProcessDeletion(g[k - 1], ed.buf[k])]
<1>6. h = [k \in 0 .. Len(ed.buf) |->
                     IF k = 0 THEN [ed |-> [ed EXCEPT !.buf = << >>], index |-> NoIndex]
                     ELSE ProcessDeletion(h[k - 1], ed.buf[k])]
  BY <1>5 DEF AreRounds, Start
<1>7. ProcessDeletionBuffer(ed) = h[Len(ed.buf)]
  BY Zenon DEF ProcessDeletionBuffer
<1>. HIDE DEF h
<1>8. AreRounds(h, ed, Len(ed.buf))
  BY <1>6 DEF AreRounds, Start
<1>. QED
  BY <1>7, <1>8

Editor == [text : Seq(Symbol), vv : [Sites -> NotReceived .. (MaxCount - 1)], buf : Seq(Symbol)]

LEMMA EditorFields ==
    ASSUME NEW ed \in Editor
    PROVE  /\ ed.text \in Seq(Symbol) /\ ed.buf \in Seq(Symbol)
           /\ ed.vv \in [Sites -> NotReceived .. (MaxCount - 1)]
           /\ Len(ed.text) \in Nat /\ Len(ed.buf) \in Nat
           /\ DOMAIN ed.text = 1 .. Len(ed.text) /\ DOMAIN ed.buf = 1 .. Len(ed.buf)
           /\ \A i \in 1 .. Len(ed.text) : ed.text[i] \in Symbol
           /\ \A i \in 1 .. Len(ed.buf) : ed.buf[i] \in Symbol
           /\ \A x : x \in ToSet(ed.text) <=> \E i \in 1 .. Len(ed.text) : ed.text[i] = x
           /\ \A x : x \in ToSet(ed.buf) <=> \E i \in 1 .. Len(ed.buf) : ed.buf[i] = x
           /\ \A c \in Sites : ed.vv[c] \in Int
<1>1. /\ ed.text \in Seq(Symbol) /\ ed.buf \in Seq(Symbol)
      /\ ed.vv \in [Sites -> NotReceived .. (MaxCount - 1)]
  BY DEF Editor
<1>2. MaxCount \in Int /\ NotReceived \in Int
  BY SharedEditorAssumption DEF NotReceived
<1>3. \A c \in Sites : ed.vv[c] \in Int
  BY <1>1, <1>2
<1>. QED
  BY <1>1, <1>3, TextFacts

(* The loop takes at most one symbol out of the text, x: every other symbol *)
(* of the buffer has not been received or is not in the text.               *)
LEMMA LoopResult ==
    ASSUME NEW ed \in Editor, Ordered(ed.text), NEW x \in Symbol,
           \A s \in ToSet(ed.buf) : Received(ed, s) /\ s \in ToSet(ed.text) => s = x,
           \/ \A i, j \in 1 .. Len(ed.buf) : ed.buf[i] = x /\ ed.buf[j] = x => i = j
           \/ x \notin ToSet(RemoveAt(ed.text, LowerBound(ed.text, x)))
           \/ x \notin ToSet(ed.text),
           NEW done, done = ProcessDeletionBuffer(ed)
    PROVE  /\ done.ed \in Editor /\ done.ed.vv = ed.vv
           /\ \A s : s \in ToSet(done.ed.buf) <=> s \in ToSet(ed.buf) /\ ~Received(ed, s)
           /\ IF x \in ToSet(ed.buf) /\ x \in ToSet(ed.text) /\ Received(ed, x)
              THEN /\ done.index = LowerBound(ed.text, x)
                   /\ done.ed.text = RemoveAt(ed.text, LowerBound(ed.text, x))
              ELSE done.index = NoIndex /\ done.ed.text = ed.text
<1>. DEFINE t == ed.text
            b == ed.buf
            low == LowerBound(t, x)
            Hit(n) == x \in ToSet(t) /\ Received(ed, x) /\ \E j \in 1 .. n : b[j] = x
            State(acc, n) ==
                /\ acc \in [ed : Editor, index : Nat]
                /\ acc.ed.vv = ed.vv
                /\ \A s : s \in ToSet(acc.ed.buf) <=> \E j \in 1 .. n : b[j] = s /\ ~Received(ed, s)
                /\ Hit(n) => acc.index = low /\ acc.ed.text = RemoveAt(t, low)
                /\ ~Hit(n) => acc.index = NoIndex /\ acc.ed.text = t
<1>1. /\ t \in Seq(Symbol) /\ b \in Seq(Symbol) /\ Len(b) \in Nat
      /\ \A i \in 1 .. Len(b) : b[i] \in Symbol
      /\ \A s : s \in ToSet(b) <=> \E i \in 1 .. Len(b) : b[i] = s
  BY EditorFields
<1>2. /\ low \in 1 .. (Len(t) + 1)
      /\ x \in ToSet(t) => low \in 1 .. Len(t) /\ t[low] = x
  BY LowerBoundPlace, FindSymbolFinds
<1>3. x \in ToSet(t) => /\ RemoveAt(t, low) \in Seq(Symbol) /\ Ordered(RemoveAt(t, low))
                        /\ ToSet(RemoveAt(t, low)) \subseteq ToSet(t)
  BY <1>1, <1>2, RemoveShape, RemoveKeepsOrder, ElementsRemoved
<1>4. PICK f : AreRounds(f, ed, Len(b)) /\ done = f[Len(b)]
  BY <1>1, RoundsExist
<1>. HIDE DEF low
<1>5. State(f[0], 0)
  <2>1. f[0] = [ed |-> [ed EXCEPT !.buf = << >>], index |-> NoIndex]
    BY <1>1, <1>4 DEF AreRounds, Start
  <2>2. [ed EXCEPT !.buf = << >>] \in Editor
    <3>1. << >> \in Seq(Symbol)
      BY EmptySeq
    <3>. QED
      BY <3>1 DEF Editor
  <2>3. /\ [ed EXCEPT !.buf = << >>].buf = << >> /\ [ed EXCEPT !.buf = << >>].vv = ed.vv
        /\ [ed EXCEPT !.buf = << >>].text = t
    BY DEF Editor
  <2>4. ToSet(<< >>) = {} /\ NoIndex \in Nat
    BY DEF ToSet, NoIndex
  <2>5. f[0] \in [ed : Editor, index : Nat] /\ f[0].index = NoIndex
    BY <2>1, <2>2, <2>4
  <2>. DEFINE e == [ed EXCEPT !.buf = << >>]
  <2>6. f[0].ed.vv = ed.vv /\ f[0].ed.text = t /\ ToSet(f[0].ed.buf) = {}
    <3>1. f[0].ed = e
      BY <2>1
    <3>2. e.buf = << >> /\ e.vv = ed.vv /\ e.text = t
      BY <2>3
    <3>. HIDE DEF e
    <3>. QED
      BY <3>1, <3>2, <2>4
  <2>7. \A j : j \notin 1 .. 0
    OBVIOUS
  <2>. QED
    BY <2>5, <2>6, <2>7
<1>6. ASSUME NEW n \in Nat, n + 1 <= Len(b), State(f[n], n)
      PROVE  State(f[n + 1], n + 1)
  <2>. DEFINE acc == f[n]
              s == b[n + 1]
  <2>1. /\ f[n + 1] = ProcessDeletion(acc, s)
        /\ s \in Symbol /\ s \in ToSet(b)
    <3>1. n + 1 \in 0 .. Len(b) /\ n + 1 # 0 /\ (n + 1) - 1 = n /\ n + 1 \in 1 .. Len(b)
      BY <1>1, <1>6
    <3>. QED
      BY <3>1, <1>1, <1>4 DEF AreRounds
  <2>. HIDE DEF acc
  <2>2. State(acc, n)
    BY <1>6 DEF acc
  <2>3. acc.ed \in Editor /\ acc.index \in Nat /\ Received(acc.ed, s) = Received(ed, s)
    BY <2>2 DEF Received
  <2>4. acc = [ed |-> acc.ed, index |-> acc.index]
    BY <2>2
  <2>5. Ordered(acc.ed.text)
    BY <2>2, <1>3
  <2>. HIDE DEF s
  <2>6. \A j : j \in 1 .. (n + 1) <=> j \in 1 .. n \/ j = n + 1
    OBVIOUS
  <2>7. CASE ~Received(ed, s)
    <3>1. f[n + 1] = [acc EXCEPT !.ed.buf = Append(@, s)]
      BY <2>1, <2>3, <2>7 DEF ProcessDeletion
    <3>. DEFINE e == [acc.ed EXCEPT !.buf = Append(acc.ed.buf, s)]
    <3>2. f[n + 1] = [ed |-> e, index |-> acc.index]
      BY <3>1, <2>4
    <3>3. /\ acc.ed.buf \in Seq(Symbol) /\ Append(acc.ed.buf, s) \in Seq(Symbol)
          /\ \A y : y \in ToSet(Append(acc.ed.buf, s)) <=> y \in ToSet(acc.ed.buf) \/ y = s
      <4>1. acc.ed.buf \in Seq(Symbol) /\ Len(acc.ed.buf) \in Nat
        BY <2>3, EditorFields
      <4>. DEFINE q == acc.ed.buf
                  r == Append(q, s)
      <4>2. /\ r \in Seq(Symbol) /\ DOMAIN r = 1 .. (Len(q) + 1) /\ DOMAIN q = 1 .. Len(q)
            /\ \A i \in 1 .. Len(q) : r[i] = q[i]
            /\ r[Len(q) + 1] = s
        BY <4>1, <2>1
      <4>. HIDE DEF r
      <4>3. \A i : i \in 1 .. (Len(q) + 1) <=> i \in 1 .. Len(q) \/ i = Len(q) + 1
        BY <4>1
      <4>4. \A y : y \in ToSet(r) <=> y \in ToSet(q) \/ y = s
        BY <4>2, <4>3, <4>1 DEF ToSet
      <4>. QED
        BY <4>1, <4>2, <4>4 DEF r
    <3>4. /\ e \in Editor /\ e.buf = Append(acc.ed.buf, s)
          /\ e.vv = acc.ed.vv /\ e.text = acc.ed.text
      BY <2>3, <3>3 DEF Editor
    <3>. HIDE DEF e
    <3>5. f[n + 1] \in [ed : Editor, index : Nat] /\ f[n + 1].ed = e /\ f[n + 1].index = acc.index
      BY <3>2, <3>4, <2>3
    <3>6. \A y : y \in ToSet(f[n + 1].ed.buf) <=> \E j \in 1 .. (n + 1) : b[j] = y /\ ~Received(ed, y)
      <4>1. \A y : y \in ToSet(f[n + 1].ed.buf) <=> y \in ToSet(acc.ed.buf) \/ y = s
        BY <3>3, <3>4, <3>5
      <4>2. s = b[n + 1]
        BY DEF s
      <4>. QED
        BY <4>1, <4>2, <2>2, <2>6, <2>7
    <3>7. Hit(n + 1) <=> Hit(n)
      <4>1. s = b[n + 1]
        BY DEF s
      <4>. QED
        BY <4>1, <2>6, <2>7
    <3>. QED
      BY <3>4, <3>5, <3>6, <3>7, <2>2
  <2>8. CASE Received(ed, s)
    <3>. DEFINE i == FindSymbol(acc.ed, s)
    <3>1. /\ s \in ToSet(acc.ed.text) => i = LowerBound(acc.ed.text, s) /\ i \in 1 .. Len(acc.ed.text)
          /\ s \notin ToSet(acc.ed.text) => i = NoIndex
      BY <2>1, <2>5, FindSymbolFinds
    <3>2. f[n + 1] = IF i = NoIndex THEN acc
                     ELSE [ed |-> [acc.ed EXCEPT !.text = RemoveAt(acc.ed.text, i)], index |-> i]
      BY <2>1, <2>3, <2>8 DEF ProcessDeletion
    <3>. HIDE DEF i
    <3>3. s = b[n + 1]
      BY DEF s
    <3>4. \A y : (\E j \in 1 .. (n + 1) : b[j] = y /\ ~Received(ed, y))
                   <=> \E j \in 1 .. n : b[j] = y /\ ~Received(ed, y)
      BY <2>6, <2>8, <3>3
    <3>5. CASE s \notin ToSet(acc.ed.text)
      <4>1. f[n + 1] = acc
        BY <3>1, <3>2, <3>5
      <4>2. Hit(n + 1) => Hit(n)
        <5>. SUFFICES ASSUME Hit(n + 1), ~Hit(n) PROVE FALSE
          OBVIOUS
        <5>1. s = x /\ acc.ed.text = t
          BY <2>2, <2>6, <3>3
        <5>. QED
          BY <5>1, <3>5
      <4>3. Hit(n) => Hit(n + 1)
        BY <2>6
      <4>. QED
        BY <4>1, <4>2, <4>3, <2>2, <3>4
    <3>6. CASE s \in ToSet(acc.ed.text)
      <4>1. s \in ToSet(t)
        BY <3>6, <2>2, <1>3
      <4>2. s = x
        BY <4>1, <2>1, <2>8
      <4>3. ~Hit(n)
        <5>. SUFFICES ASSUME Hit(n) PROVE FALSE
          OBVIOUS
        <5>1. x \in ToSet(RemoveAt(t, low))
          BY <3>6, <4>2, <2>2
        <5>2. PICK j \in 1 .. n : b[j] = x
          OBVIOUS
        <5>3. j \in 1 .. Len(b) /\ n + 1 \in 1 .. Len(b) /\ j # n + 1
          BY <5>2, <1>1, <1>6
        <5>. QED
          BY <5>1, <5>2, <5>3, <3>3, <4>1, <4>2 DEF low
      <4>4. acc.ed.text = t /\ i = low /\ i \in 1 .. Len(t) /\ i # NoIndex
        BY <4>2, <4>3, <3>1, <3>6, <2>2 DEF low, NoIndex
      <4>. DEFINE e == [acc.ed EXCEPT !.text = RemoveAt(t, low)]
      <4>5. f[n + 1] = [ed |-> e, index |-> low]
        BY <4>4, <3>2
      <4>6. /\ e \in Editor /\ e.buf = acc.ed.buf /\ e.vv = acc.ed.vv
            /\ e.text = RemoveAt(t, low)
        BY <2>3, <1>3, <4>1, <4>2 DEF Editor
      <4>. HIDE DEF e
      <4>7. f[n + 1] \in [ed : Editor, index : Nat] /\ f[n + 1].ed = e /\ f[n + 1].index = low
        BY <4>4, <4>5, <4>6
      <4>8. Hit(n + 1)
        BY <4>1, <4>2, <2>6, <2>8, <3>3
      <4>9. \A y : y \in ToSet(f[n + 1].ed.buf) <=> \E j \in 1 .. (n + 1) : b[j] = y /\ ~Received(ed, y)
        BY <4>6, <4>7, <2>2, <3>4
      <4>10. f[n + 1].ed.vv = ed.vv /\ f[n + 1].ed.text = RemoveAt(t, low)
        BY <4>6, <4>7, <2>2
      <4>. QED
        BY <4>7, <4>8, <4>9, <4>10
    <3>. QED
      BY <3>5, <3>6
  <2>. QED
    BY <2>7, <2>8
<1>7. State(f[Len(b)], Len(b))
  <2>. DEFINE T == {n \in Nat : n <= Len(b) => State(f[n], n)}
  <2>. HIDE DEF State
  <2>1. 0 \in T
    BY <1>5
  <2>2. ASSUME NEW n \in Nat, n \in T PROVE n + 1 \in T
    <3>1. CASE n + 1 <= Len(b)
      <4>1. n <= Len(b)
        BY <3>1, <1>1
      <4>2. State(f[n], n)
        BY <2>2, <4>1
      <4>3. State(f[n + 1], n + 1)
        BY <3>1, <4>2, <1>6
      <4>. QED
        BY <4>3
    <3>2. CASE ~(n + 1 <= Len(b))
      BY <3>2
    <3>. QED
      BY <3>1, <3>2
  <2>3. Nat \subseteq T
    <3>. HIDE DEF T
    <3>. QED
      BY <2>1, <2>2, NumbersByInduction
  <2>4. Len(b) \in T /\ Len(b) <= Len(b)
    BY <2>3, <1>1
  <2>. QED
    BY <2>4
<1>8. Hit(Len(b)) <=> x \in ToSet(b) /\ x \in ToSet(t) /\ Received(ed, x)
  BY <1>1
<1>9. \A s : s \in ToSet(done.ed.buf) <=> s \in ToSet(b) /\ ~Received(ed, s)
  BY <1>1, <1>4, <1>7
<1>10. done.ed \in Editor /\ done.ed.vv = ed.vv
  BY <1>4, <1>7
<1>11. /\ Hit(Len(b)) => done.index = low /\ done.ed.text = RemoveAt(t, low)
       /\ ~Hit(Len(b)) => done.index = NoIndex /\ done.ed.text = t
  BY <1>4, <1>7
<1>. HIDE DEF Hit, State
<1>. QED
  BY <1>8, <1>9, <1>10, <1>11 DEF low

-----------------------------------------------------------------------------
(* An editor as the operations keep it: its text is sorted, what is in the  *)
(* text has been received and what is in the buffer has not.                *)
Sound(ed) ==
    /\ ed \in Editor /\ Ordered(ed.text)
    /\ \A s \in ToSet(ed.text) : Received(ed, s)
    /\ \A s \in ToSet(ed.buf) : ~Received(ed, s)

LEMMA VectorUpdated ==
    ASSUME NEW ed \in Editor, NEW s \in Symbol, NEW vv, vv = UpdateVersionVector(ed.vv, s)
    PROVE  /\ vv \in [Sites -> NotReceived .. (MaxCount - 1)]
           /\ \A c \in Sites : vv[c] = IF c = s.site /\ s.n > ed.vv[c] THEN s.n ELSE ed.vv[c]
           /\ \A c \in Sites : vv[c] >= ed.vv[c]
           /\ vv[s.site] >= s.n
<1>1. s.site \in Sites /\ s.n \in 0 .. (MaxCount - 1) /\ MaxCount \in Int
  BY SymbolFields, SharedEditorAssumption
<1>2. ed.vv \in [Sites -> NotReceived .. (MaxCount - 1)] /\ \A c \in Sites : ed.vv[c] \in Int
  BY EditorFields
<1>3. \A c \in Sites : vv[c] = IF c = s.site /\ s.n > ed.vv[c] THEN s.n ELSE ed.vv[c]
  BY <1>1, <1>2 DEF UpdateVersionVector
<1>4. ASSUME NEW c \in Sites PROVE vv[c] \in NotReceived .. (MaxCount - 1)
  BY <1>1, <1>2, <1>3 DEF NotReceived
<1>5. vv \in [Sites -> NotReceived .. (MaxCount - 1)]
  BY <1>2, <1>4 DEF UpdateVersionVector
<1>. QED
  BY <1>1, <1>2, <1>3, <1>5

(* A remote insert shows the symbol at the index it reports, or, if an      *)
(* erase of it is in the buffer, nothing; and it records the symbol.        *)
THEOREM RemoteInsertResult ==
    ASSUME NEW ed, Sound(ed), NEW s \in Symbol,
           NEW done, done = RemoteInsert(ed, s)
    PROVE  /\ Sound(done.ed)
           /\ done.ed.vv = UpdateVersionVector(ed.vv, s)
           /\ \A x : x \in ToSet(done.ed.buf) <=> x \in ToSet(ed.buf) /\ ~Received(done.ed, x)
           /\ IF s \in ToSet(ed.buf)
              THEN done.index = NoIndex /\ done.ed.text = ed.text
              ELSE /\ done.index = LowerBound(ed.text, s)
                   /\ done.ed.text = InsertAt(ed.text, LowerBound(ed.text, s), s)
<1>. DEFINE t == ed.text
            i == LowerBound(t, s)
            u == InsertAt(t, i, s)
            vv == UpdateVersionVector(ed.vv, s)
            e == [ed EXCEPT !.text = u, !.vv = vv]
            loop == ProcessDeletionBuffer(e)
<1>1. ed \in Editor /\ Ordered(t) /\ t \in Seq(Symbol)
  BY DEF Sound, Ordered
<1>2. i \in 1 .. (Len(t) + 1)
  BY <1>1, LowerBoundPlace
<1>3. u \in Seq(Symbol) /\ ToSet(u) = ToSet(t) \cup {s}
  <2>. HIDE DEF t, i
  <2>1. u \in Seq(Symbol)
    BY <1>1, <1>2, InsertShape
  <2>2. ToSet(u) = ToSet(t) \cup {s}
    BY <1>1, <1>2, ElementsInserted
  <2>. QED
    BY <2>1, <2>2
<1>4. Ordered(u) /\ LowerBound(u, s) = i /\ RemoveAt(u, i) = t
  BY <1>1, <1>2, InsertKeepsOrder, RemovedAgain
<1>5. /\ vv \in [Sites -> NotReceived .. (MaxCount - 1)]
      /\ \A c \in Sites : vv[c] >= ed.vv[c] /\ vv[c] \in Int /\ ed.vv[c] \in Int
      /\ vv[s.site] >= s.n
  <2>1. MaxCount \in Int /\ NotReceived \in Int
    BY SharedEditorAssumption DEF NotReceived
  <2>2. /\ vv \in [Sites -> NotReceived .. (MaxCount - 1)]
        /\ \A c \in Sites : vv[c] >= ed.vv[c]
        /\ vv[s.site] >= s.n
    BY <1>1, VectorUpdated
  <2>3. \A c \in Sites : ed.vv[c] \in Int
    BY <1>1, EditorFields
  <2>. HIDE DEF vv
  <2>4. \A c \in Sites : vv[c] \in Int
    BY <2>1, <2>2
  <2>. QED
    BY <2>2, <2>3, <2>4
<1>. HIDE DEF u, vv, i
<1>6. e \in Editor /\ e.text = u /\ e.vv = vv /\ e.buf = ed.buf
  BY <1>1, <1>3, <1>5 DEF Editor
<1>. HIDE DEF e
<1>7. /\ \A x \in ToSet(u) : Received(e, x)
      /\ \A x \in Symbol : Received(ed, x) => Received(e, x)
  <2>1. \A x \in ToSet(t) : x \in Symbol /\ Received(ed, x)
    BY <1>1, TextFacts DEF Sound
  <2>2. \A x \in Symbol : Received(ed, x) => Received(e, x)
    <3>1. ASSUME NEW x \in Symbol, Received(ed, x) PROVE Received(e, x)
      <4>1. x.site \in Sites /\ x.n \in Int
        BY SymbolFields
      <4>. QED
        BY <4>1, <3>1, <1>5, <1>6 DEF Received
    <3>. QED
      BY <3>1
  <2>3. Received(e, s)
    BY <1>5, <1>6 DEF Received
  <2>. QED
    BY <2>1, <2>2, <2>3, <1>3
<1>8. \A x \in ToSet(e.buf) : x \in ToSet(e.text) => x = s
  BY <1>3, <1>6 DEF Sound
<1>9. s \in ToSet(e.buf) => s \notin ToSet(t)
  BY <1>6 DEF Sound
<1>10. \/ s \notin ToSet(e.buf)
       \/ s \notin ToSet(RemoveAt(e.text, LowerBound(e.text, s)))
  BY <1>4, <1>6, <1>9
<1>11. \/ \A j, k \in 1 .. Len(e.buf) : e.buf[j] = s /\ e.buf[k] = s => j = k
       \/ s \notin ToSet(RemoveAt(e.text, LowerBound(e.text, s)))
  BY <1>6, <1>10, EditorFields
<1>12. /\ loop.ed \in Editor /\ loop.ed.vv = e.vv
       /\ \A x : x \in ToSet(loop.ed.buf) <=> x \in ToSet(e.buf) /\ ~Received(e, x)
       /\ IF s \in ToSet(e.buf) /\ s \in ToSet(e.text) /\ Received(e, s)
          THEN /\ loop.index = LowerBound(e.text, s)
               /\ loop.ed.text = RemoveAt(e.text, LowerBound(e.text, s))
          ELSE loop.index = NoIndex /\ loop.ed.text = e.text
  <2>1. Ordered(e.text)
    BY <1>4, <1>6
  <2>2. \A x \in ToSet(e.buf) : Received(e, x) /\ x \in ToSet(e.text) => x = s
    BY <1>8
  <2>. QED
    BY <1>6, <1>11, <2>1, <2>2, LoopResult
<1>. HIDE DEF loop
<1>13. IF s \in ToSet(ed.buf)
       THEN loop.index = i /\ loop.ed.text = t
       ELSE loop.index = NoIndex /\ loop.ed.text = u
  BY <1>3, <1>4, <1>6, <1>7, <1>12
<1>14. i # NoIndex
  BY <1>1, <1>2 DEF NoIndex
<1>15. done = [ed |-> loop.ed, index |-> IF loop.index # NoIndex THEN NoIndex ELSE i]
  BY Zenon DEF RemoteInsert, loop, e, u, vv, i
<1>16. done.ed = loop.ed /\ done.index = IF loop.index # NoIndex THEN NoIndex ELSE i
  BY <1>15
<1>17. \A x : Received(loop.ed, x) = Received(e, x)
  BY <1>12 DEF Received
<1>18. Sound(loop.ed)
  <2>1. loop.ed.text = t \/ loop.ed.text = u
    BY <1>13
  <2>2. ToSet(t) \subseteq ToSet(u)
    BY <1>3
  <2>. QED
    BY <2>1, <2>2, <1>1, <1>4, <1>7, <1>12, <1>17 DEF Sound
<1>19. \A x : x \in ToSet(loop.ed.buf) <=> x \in ToSet(ed.buf) /\ ~Received(loop.ed, x)
  BY <1>6, <1>12, <1>17
<1>20. loop.ed.vv = vv
  BY <1>6, <1>12
<1>. QED
  BY <1>13, <1>14, <1>16, <1>18, <1>19, <1>20 DEF u, vv, i

(* A remote erase takes out the first copy of the symbol, or does nothing   *)
(* if it is gone already, or keeps the symbol in the buffer.                *)
THEOREM RemoteEraseResult ==
    ASSUME NEW ed, Sound(ed), NEW s \in Symbol,
           NEW done, done = RemoteErase(ed, s)
    PROVE  /\ Sound(done.ed)
           /\ done.ed.vv = ed.vv
           /\ \A x : x \in ToSet(done.ed.buf) <=>
                        x \in ToSet(ed.buf) \/ (x = s /\ ~Received(ed, s))
           /\ IF s \in ToSet(ed.text)
              THEN /\ done.index = FindSymbol(ed, s)
                   /\ done.ed.text = RemoveAt(ed.text, FindSymbol(ed, s))
              ELSE done.index = NoIndex /\ done.ed.text = ed.text
<1>. DEFINE t == ed.text
            q == ed.buf
            r == Append(q, s)
            e == [ed EXCEPT !.buf = r]
            i == LowerBound(t, s)
<1>1. ed \in Editor /\ Ordered(t) /\ t \in Seq(Symbol)
  BY DEF Sound, Ordered
<1>2. /\ q \in Seq(Symbol) /\ Len(q) \in Nat /\ DOMAIN q = 1 .. Len(q)
      /\ \A x : x \in ToSet(q) <=> \E j \in 1 .. Len(q) : q[j] = x
  BY <1>1, EditorFields
<1>3. /\ r \in Seq(Symbol) /\ Len(r) = Len(q) + 1 /\ r[Len(q) + 1] = s
      /\ \A j \in 1 .. Len(q) : r[j] = q[j]
  BY <1>2
<1>. HIDE DEF r
<1>4. \A x : x \in ToSet(r) <=> x \in ToSet(q) \/ x = s
  <2>1. \A j : j \in 1 .. Len(r) <=> j \in 1 .. Len(q) \/ j = Len(q) + 1
    BY <1>2, <1>3
  <2>2. \A x : x \in ToSet(r) <=> \E j \in 1 .. Len(r) : r[j] = x
    BY <1>3, TextFacts
  <2>. QED
    BY <2>1, <2>2, <1>2, <1>3
<1>5. e \in Editor /\ e.text = t /\ e.vv = ed.vv /\ e.buf = r
  BY <1>1, <1>3 DEF Editor
<1>6. done = ProcessDeletionBuffer(e)
  BY Zenon DEF RemoteErase, e, r, q
<1>. HIDE DEF e
<1>7. \A x : Received(e, x) = Received(ed, x)
  BY <1>5 DEF Received
<1>8. \A x \in ToSet(e.buf) : Received(e, x) /\ x \in ToSet(e.text) => x = s
  BY <1>4, <1>5, <1>7 DEF Sound
<1>9. ASSUME Received(ed, s), NEW j \in 1 .. Len(r), NEW k \in 1 .. Len(r), r[j] = s, r[k] = s
      PROVE  j = k
  <2>1. \A l \in 1 .. Len(q) : q[l] # s
    BY <1>2, <1>9 DEF Sound
  <2>2. j = Len(q) + 1 /\ k = Len(q) + 1
    BY <2>1, <1>2, <1>3, <1>9
  <2>. QED
    BY <2>2
<1>10. s \in ToSet(t) => Received(ed, s)
  BY DEF Sound
<1>11. \/ \A j, k \in 1 .. Len(e.buf) : e.buf[j] = s /\ e.buf[k] = s => j = k
       \/ s \notin ToSet(RemoveAt(e.text, LowerBound(e.text, s)))
       \/ s \notin ToSet(t)
  BY <1>5, <1>9, <1>10
<1>12. /\ s \in ToSet(t) => FindSymbol(ed, s) = i /\ i \in 1 .. Len(t)
       /\ s \in ToSet(t) => Ordered(RemoveAt(t, i)) /\ ToSet(RemoveAt(t, i)) \subseteq ToSet(t)
  <2>1. s \in ToSet(t) => FindSymbol(ed, s) = i /\ i \in 1 .. Len(t)
    BY <1>1, FindSymbolFinds
  <2>. QED
    BY <2>1, <1>1, RemoveKeepsOrder, ElementsRemoved
<1>. HIDE DEF i
<1>13. /\ done.ed \in Editor /\ done.ed.vv = ed.vv
       /\ \A x : x \in ToSet(done.ed.buf) <=> x \in ToSet(r) /\ ~Received(ed, x)
       /\ IF s \in ToSet(t)
          THEN done.index = i /\ done.ed.text = RemoveAt(t, i)
          ELSE done.index = NoIndex /\ done.ed.text = t
  <2>1. /\ done.ed \in Editor /\ done.ed.vv = e.vv
        /\ \A x : x \in ToSet(done.ed.buf) <=> x \in ToSet(e.buf) /\ ~Received(e, x)
        /\ IF s \in ToSet(e.buf) /\ s \in ToSet(e.text) /\ Received(e, s)
           THEN /\ done.index = LowerBound(e.text, s)
                /\ done.ed.text = RemoveAt(e.text, LowerBound(e.text, s))
           ELSE done.index = NoIndex /\ done.ed.text = e.text
    <3>1. \/ \A j, k \in 1 .. Len(e.buf) : e.buf[j] = s /\ e.buf[k] = s => j = k
          \/ s \notin ToSet(RemoveAt(e.text, LowerBound(e.text, s)))
          \/ s \notin ToSet(e.text)
      BY <1>5, <1>11
    <3>. QED
      BY <1>1, <1>5, <1>6, <1>8, <3>1, LoopResult
  <2>. QED
    BY <2>1, <1>4, <1>5, <1>7, <1>10 DEF i
<1>14. \A x : Received(done.ed, x) = Received(ed, x)
  BY <1>13 DEF Received
<1>15. \A x : x \in ToSet(done.ed.buf) <=> x \in ToSet(q) \/ (x = s /\ ~Received(ed, s))
  BY <1>4, <1>13 DEF Sound
<1>16. ToSet(done.ed.text) \subseteq ToSet(t) /\ Ordered(done.ed.text)
  BY <1>1, <1>12, <1>13
<1>17. Sound(done.ed)
  BY <1>13, <1>14, <1>15, <1>16 DEF Sound
<1>. QED
  BY <1>12, <1>13, <1>15, <1>17

-----------------------------------------------------------------------------
(* What an update of the version vector adds to what has been received.     *)
LEMMA ReceivedMore ==
    ASSUME NEW ed \in Editor, NEW s \in Symbol, NEW e, e.vv = UpdateVersionVector(ed.vv, s)
    PROVE  /\ Received(e, s)
           /\ \A x \in Symbol : Received(ed, x) => Received(e, x)
           /\ \A x \in Symbol : Received(e, x) /\ ~Received(ed, x) => x.site = s.site /\ x.n <= s.n
<1>1. \A c \in Sites : /\ e.vv[c] = IF c = s.site /\ s.n > ed.vv[c] THEN s.n ELSE ed.vv[c]
                       /\ ed.vv[c] \in Int
  BY VectorUpdated, EditorFields
<1>2. \A x \in Symbol : x.site \in Sites /\ x.n \in Int
  BY SymbolFields
<1>. QED
  BY <1>1, <1>2 DEF Received

(* The same operations, in terms of the symbols shown.                      *)
InsertOutcome(ed, s, done) ==
    /\ Sound(done.ed)
    /\ done.ed.vv = UpdateVersionVector(ed.vv, s)
    /\ \A x : x \in ToSet(done.ed.buf) <=> x \in ToSet(ed.buf) /\ ~Received(done.ed, x)
    /\ s \in ToSet(ed.buf) =>
          /\ done.index = NoIndex /\ done.ed.text = ed.text
          /\ s \notin ToSet(ed.text)
    /\ s \notin ToSet(ed.buf) =>
          /\ done.index \in 1 .. (Len(ed.text) + 1)
          /\ done.ed.text = InsertAt(ed.text, done.index, s)
          /\ ToSet(done.ed.text) = ToSet(ed.text) \cup {s}
    /\ Ascending(ed.text) /\ ~Received(ed, s) => Ascending(done.ed.text)

LEMMA AfterInsert ==
    ASSUME NEW ed, Sound(ed), NEW s \in Symbol, NEW done, done = RemoteInsert(ed, s)
    PROVE  InsertOutcome(ed, s, done)
<1>. DEFINE t == ed.text
            i == LowerBound(t, s)
<1>1. ed \in Editor /\ Ordered(t) /\ t \in Seq(Symbol)
  BY DEF Sound, Ordered
<1>2. /\ i \in 1 .. (Len(t) + 1)
      /\ ToSet(InsertAt(t, i, s)) = ToSet(t) \cup {s}
  <2>1. i \in 1 .. (Len(t) + 1)
    BY <1>1, LowerBoundPlace
  <2>. HIDE DEF i, t
  <2>. QED
    BY <2>1, <1>1, ElementsInserted
<1>3. /\ Sound(done.ed)
      /\ done.ed.vv = UpdateVersionVector(ed.vv, s)
      /\ \A x : x \in ToSet(done.ed.buf) <=> x \in ToSet(ed.buf) /\ ~Received(done.ed, x)
      /\ IF s \in ToSet(ed.buf)
         THEN done.index = NoIndex /\ done.ed.text = t
         ELSE done.index = i /\ done.ed.text = InsertAt(t, i, s)
  BY RemoteInsertResult
<1>4. /\ s \in ToSet(ed.buf) => s \notin ToSet(t)
      /\ ~Received(ed, s) => s \notin ToSet(t)
  BY DEF Sound
<1>5. Ascending(t) /\ s \notin ToSet(t) => Ascending(InsertAt(t, i, s))
  BY <1>1, InsertKeepsOrder
<1>. HIDE DEF i
<1>. QED
  BY <1>2, <1>3, <1>4, <1>5 DEF InsertOutcome

EraseOutcome(ed, s, done) ==
    /\ Sound(done.ed)
    /\ done.ed.vv = ed.vv
    /\ \A x : x \in ToSet(done.ed.buf) <=> x \in ToSet(ed.buf) \/ (x = s /\ ~Received(ed, s))
    /\ s \notin ToSet(ed.text) => done.index = NoIndex /\ done.ed.text = ed.text
    /\ s \in ToSet(ed.text) => /\ done.index \in 1 .. Len(ed.text)
                               /\ done.ed.text = RemoveAt(ed.text, done.index)
    /\ ToSet(done.ed.text) \subseteq ToSet(ed.text)
    /\ ToSet(ed.text) \ {s} \subseteq ToSet(done.ed.text)
    /\ Ascending(ed.text) => Ascending(done.ed.text) /\ s \notin ToSet(done.ed.text)

LEMMA AfterErase ==
    ASSUME NEW ed, Sound(ed), NEW s \in Symbol, NEW done, done = RemoteErase(ed, s)
    PROVE  EraseOutcome(ed, s, done)
<1>. DEFINE t == ed.text
            i == FindSymbol(ed, s)
<1>1. ed \in Editor /\ Ordered(t) /\ t \in Seq(Symbol)
  BY DEF Sound, Ordered
<1>2. /\ Sound(done.ed)
      /\ done.ed.vv = ed.vv
      /\ \A x : x \in ToSet(done.ed.buf) <=>
                   x \in ToSet(ed.buf) \/ (x = s /\ ~Received(ed, s))
      /\ IF s \in ToSet(t)
         THEN done.index = i /\ done.ed.text = RemoveAt(t, i)
         ELSE done.index = NoIndex /\ done.ed.text = t
  BY RemoteEraseResult
<1>3. s \in ToSet(t) => i \in 1 .. Len(t) /\ t[i] = s
  BY <1>1, FindSymbolFinds
<1>. HIDE DEF i
<1>4. CASE s \in ToSet(t)
  <2>1. /\ ToSet(RemoveAt(t, i)) \subseteq ToSet(t)
        /\ ToSet(t) \ {s} \subseteq ToSet(RemoveAt(t, i))
        /\ Ascending(t) => Ascending(RemoveAt(t, i)) /\ s \notin ToSet(RemoveAt(t, i))
    BY <1>1, <1>3, <1>4, ElementsRemoved, RemoveKeepsOrder
  <2>. QED
    BY <2>1, <1>2, <1>3, <1>4 DEF EraseOutcome
<1>5. CASE s \notin ToSet(t)
  BY <1>2, <1>5 DEF EraseOutcome
<1>. QED
  BY <1>4, <1>5

(* A symbol typed at the i-th place, at a position between its neighbours'. *)
LEMMA AfterLocalInsert ==
    ASSUME NEW ed, Sound(ed), NEW s \in Symbol, NEW k \in 1 .. (Len(ed.text) + 1),
           s.pos \in FreePositions(ed, k),
           \A x \in ToSet(ed.buf) : x.site # s.site,
           NEW e, e = LocalInsert(ed, k, s)
    PROVE  /\ Sound(e)
           /\ e.vv = UpdateVersionVector(ed.vv, s) /\ e.buf = ed.buf
           /\ e.text = InsertAt(ed.text, k, s)
           /\ ToSet(e.text) = ToSet(ed.text) \cup {s}
           /\ Ascending(ed.text) => Ascending(e.text)
<1>. DEFINE t == ed.text
<1>1. /\ ed \in Editor /\ Ordered(t) /\ t \in Seq(Symbol) /\ Len(t) \in Nat /\ k \in Nat
      /\ \A i \in 1 .. Len(t) : t[i] \in Symbol
  BY TextFacts DEF Sound, Ordered
<1>2. /\ k > 1 => SymbolLess(t[k - 1], s)
      /\ k <= Len(t) => SymbolLess(s, t[k])
  <2>1. s.pos \in Int /\ MaxPos \in Int
    BY SymbolFields, SharedEditorAssumption
  <2>2. ASSUME k > 1 PROVE t[k - 1].pos < s.pos
    <3>1. k - 1 \in 1 .. Len(t)
      BY <1>1, <2>2
    <3>2. t[k - 1].pos \in Int
      BY <3>1, <1>1, SymbolFields
    <3>3. k <= Len(t) => t[k].pos \in Int
      BY <1>1, SymbolFields
    <3>. QED
      BY <3>2, <3>3, <2>1, <2>2, <1>1 DEF FreePositions
  <2>3. ASSUME k <= Len(t) PROVE s.pos < t[k].pos
    <3>1. t[k].pos \in Int
      BY <1>1, <2>3, SymbolFields
    <3>2. k # 1 => t[k - 1].pos \in Int
      <4>1. k # 1 => k - 1 \in 1 .. Len(t)
        BY <1>1, <2>3
      <4>. QED
        BY <4>1, <1>1, SymbolFields
    <3>. QED
      BY <3>1, <3>2, <2>1, <2>3, <1>1 DEF FreePositions
  <2>. QED
    BY <2>2, <2>3 DEF SymbolLess
<1>3. LowerBound(t, s) = k /\ s \notin ToSet(t)
  BY <1>1, <1>2, InsertBetween
<1>4. /\ Ordered(InsertAt(t, k, s))
      /\ Ascending(t) => Ascending(InsertAt(t, k, s))
  BY <1>1, <1>3, InsertKeepsOrder
<1>. DEFINE u == InsertAt(t, k, s)
            vv == UpdateVersionVector(ed.vv, s)
<1>5. u \in Seq(Symbol) /\ ToSet(u) = ToSet(t) \cup {s}
  <2>. HIDE DEF t
  <2>0. k \in 1 .. (Len(t) + 1) /\ t \in Seq(Symbol) /\ s \in Symbol
    BY <1>1 DEF t
  <2>1. u \in Seq(Symbol)
    BY <2>0, <1>1, InsertShape
  <2>2. ToSet(u) = ToSet(t) \cup {s}
    BY <2>0, ElementsInserted
  <2>. QED
    BY <2>1, <2>2
<1>6. vv \in [Sites -> NotReceived .. (MaxCount - 1)]
  BY <1>1, VectorUpdated
<1>7. e = [ed EXCEPT !.text = u, !.vv = vv]
  BY DEF LocalInsert
<1>. HIDE DEF u, vv
<1>8. e \in Editor /\ e.text = u /\ e.vv = vv /\ e.buf = ed.buf
  BY <1>1, <1>5, <1>6, <1>7 DEF Editor
<1>9. /\ Received(e, s)
      /\ \A x \in Symbol : Received(ed, x) => Received(e, x)
      /\ \A x \in Symbol : Received(e, x) /\ ~Received(ed, x) => x.site = s.site /\ x.n <= s.n
  <2>1. e.vv = UpdateVersionVector(ed.vv, s)
    BY <1>8 DEF vv
  <2>. QED
    BY <2>1, <1>1, ReceivedMore
<1>10. (\A x \in ToSet(t) : x \in Symbol) /\ (\A x \in ToSet(ed.buf) : x \in Symbol)
  <2>1. ed.buf \in Seq(Symbol)
    BY <1>1, EditorFields
  <2>. QED
    BY <2>1, <1>1, TextFacts
<1>11. Sound(e)
  BY <1>4, <1>5, <1>8, <1>9, <1>10 DEF Sound, u
<1>. QED
  BY <1>4, <1>5, <1>8, <1>11 DEF u, vv

LEMMA AfterLocalErase ==
    ASSUME NEW ed, Sound(ed), NEW k \in 1 .. Len(ed.text), NEW e, e = LocalErase(ed, k)
    PROVE  /\ Sound(e) /\ e.vv = ed.vv /\ e.buf = ed.buf
           /\ e.text = RemoveAt(ed.text, k)
           /\ ToSet(e.text) \subseteq ToSet(ed.text)
           /\ ToSet(ed.text) \ {ed.text[k]} \subseteq ToSet(e.text)
           /\ Ascending(ed.text) => Ascending(e.text) /\ ed.text[k] \notin ToSet(e.text)
<1>. DEFINE t == ed.text
            u == RemoveAt(t, k)
<1>1. ed \in Editor /\ Ordered(t) /\ t \in Seq(Symbol)
  BY DEF Sound, Ordered
<1>2. /\ u \in Seq(Symbol) /\ Ordered(u)
      /\ ToSet(u) \subseteq ToSet(t) /\ ToSet(t) \ {t[k]} \subseteq ToSet(u)
      /\ Ascending(t) => Ascending(u) /\ t[k] \notin ToSet(u)
  <2>1. Ordered(u) /\ (Ascending(t) => Ascending(u) /\ t[k] \notin ToSet(u))
    BY <1>1, RemoveKeepsOrder
  <2>2. ToSet(u) \subseteq ToSet(t) /\ ToSet(t) \ {t[k]} \subseteq ToSet(u)
    BY <1>1, ElementsRemoved
  <2>. QED
    BY <2>1, <2>2 DEF Ordered
<1>3. e = [ed EXCEPT !.text = u]
  BY DEF LocalErase
<1>. HIDE DEF u
<1>4. e \in Editor /\ e.text = u /\ e.vv = ed.vv /\ e.buf = ed.buf
  BY <1>1, <1>2, <1>3 DEF Editor
<1>5. \A x : Received(e, x) = Received(ed, x)
  BY <1>4 DEF Received
<1>. QED
  BY <1>2, <1>4, <1>5 DEF Sound, u

(* The editor over a snapshot has received what the text shows, no more.    *)
LEMMA EditorOfText ==
    ASSUME NEW t, Ordered(t), NEW e, e = EditorOf(t)
    PROVE  /\ Sound(e) /\ e.text = t /\ e.buf = << >>
           /\ \A c \in Sites : e.vv[c] = NotReceived
                               \/ \E s \in ToSet(t) : s.site = c /\ s.n = e.vv[c]
<1>. DEFINE Counters(c) == {s.n : s \in {x \in ToSet(t) : x.site = c}}
            All(c) == {NotReceived} \cup Counters(c)
<1>1. t \in Seq(Symbol) /\ ToSet(t) \subseteq Symbol
  BY TextFacts DEF Ordered
<1>2. e = [text |-> t, vv |-> [c \in Sites |-> Max(All(c))], buf |-> << >>]
  BY DEF EditorOf
<1>3. MaxCount \in Nat /\ NotReceived = -1
  BY SharedEditorAssumption DEF NotReceived
<1>4. ASSUME NEW c \in Sites
      PROVE  /\ Max(All(c)) \in All(c) /\ \A k \in All(c) : k <= Max(All(c))
             /\ Max(All(c)) \in NotReceived .. (MaxCount - 1)
  <2>1. \A k \in Counters(c) : k \in 0 .. (MaxCount - 1)
    BY <1>1, SymbolFields
  <2>. HIDE DEF Counters
  <2>2. \A k \in All(c) : k \in Int /\ k <= MaxCount
    BY <2>1, <1>3
  <2>3. All(c) \subseteq Int /\ All(c) # {} /\ MaxCount \in Int
    <3>1. NotReceived \in All(c) /\ MaxCount \in Int
      BY <1>3
    <3>. HIDE DEF All
    <3>. QED
      BY <3>1, <2>2
  <2>. HIDE DEF All
  <2>4. Max(All(c)) \in All(c) /\ \A k \in All(c) : k <= Max(All(c))
    BY <2>2, <2>3, MaxIsGreatest
  <2>5. \A k \in All(c) : k \in NotReceived .. (MaxCount - 1)
    BY <2>1, <1>3 DEF All
  <2>. QED
    BY <2>4, <2>5
<1>5. /\ e.text = t /\ e.buf = << >>
      /\ e.vv = [c \in Sites |-> Max(All(c))]
  BY <1>2
<1>6. \A c \in Sites : e.vv[c] = Max(All(c))
  BY <1>5
<1>7. << >> \in Seq(Symbol)
  BY EmptySeq
<1>. HIDE DEF All
<1>8. e.vv \in [Sites -> NotReceived .. (MaxCount - 1)]
  BY <1>4, <1>5
<1>9. e \in Editor
  BY <1>1, <1>2, <1>5, <1>7, <1>8 DEF Editor
<1>10. \A s \in ToSet(t) : Received(e, s)
  <2>1. ASSUME NEW s \in ToSet(t) PROVE Received(e, s)
    <3>1. s \in Symbol /\ s.site \in Sites /\ s.n \in Int
      BY <1>1, SymbolFields
    <3>2. s.n \in All(s.site)
      BY DEF All
    <3>3. s.n <= Max(All(s.site)) /\ Max(All(s.site)) \in Int
      BY <3>1, <3>2, <1>3, <1>4
    <3>. QED
      BY <3>1, <3>3, <1>6 DEF Received
  <2>. QED
    BY <2>1
<1>11. ToSet(e.buf) = {}
  BY <1>5 DEF ToSet
<1>12. ASSUME NEW c \in Sites
       PROVE  e.vv[c] = NotReceived \/ \E s \in ToSet(t) : s.site = c /\ s.n = e.vv[c]
  BY <1>4, <1>6 DEF All
<1>. QED
  BY <1>5, <1>9, <1>10, <1>11, <1>12 DEF Sound
=============================================================================
