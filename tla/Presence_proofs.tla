--------------------------- MODULE Presence_proofs ---------------------------
(***************************************************************************)
(* For any number of clients, users and workers:                           *)
(*                                                                         *)
(* Nobody is seen in a document forever: the cursors of a document are     *)
(* those of the sessions that have it open, however they close it or lose  *)
(* their connection.  The server removes the cursor of the session's       *)
(* present site.  That is enough because a session never opens a document  *)
(* it has open, and never moves in one it has not: what a client sends     *)
(* next depends on its window, and the messages on their way relate the    *)
(* window to the session (GInv).                                           *)
(*                                                                         *)
(* Editors agree with the server about who is there.  All words about a    *)
(* site come from one client, and reach an editor in the order in which    *)
(* the server took them: through the posts of that client's worker, the    *)
(* queue of the editor's worker and the connection.  So the first word     *)
(* about a site is that it was opened (Talk), and whatever an editor does  *)
(* not know, or shows wrongly, is on its way to it (Informed).             *)
(*                                                                         *)
(* An open takes five steps, and what its document leaves out is made up   *)
(* for: a site is Announced in the last step of its own open, after it is  *)
(* in the tables, so one that another open has not read will be heard of   *)
(* through that open's worker (OpenerOK).  A User without a name, of a     *)
(* site whose profile was not read, gets the real one beside it.           *)
(***************************************************************************)
EXTENDS Presence, SequenceTheorems, FiniteSetTheorems, TLAPS

Message == {Plain("open"), Plain("move"), Plain("close"), Plain("hangup")}

LEMMA MessagesDiffer ==
    /\ Plain("open") # Plain("move") /\ Plain("open") # Plain("close")
    /\ Plain("open") # Plain("hangup") /\ Plain("move") # Plain("close")
    /\ Plain("move") # Plain("hangup") /\ Plain("close") # Plain("hangup")
    /\ \A t \in {"open", "move", "close", "hangup"} : Plain(t) \in Message
BY DEF Plain, Message

-----------------------------------------------------------------------------
(* A message n may follow m on a connection; a message is legal in a        *)
(* session that has the document open (e) or not.                           *)
Follows(m, n) ==
    \/ n = Plain("hangup") /\ m # Plain("hangup")
    \/ n = Plain("open") /\ m = Plain("close")
    \/ n \in {Plain("move"), Plain("close")} /\ m = Plain("move")

Legal(e, m) ==
    \/ m = Plain("hangup")
    \/ m = Plain("open") /\ ~e
    \/ m \in {Plain("move"), Plain("close")} /\ e

Orderly(q, e) ==
    /\ q \in Seq(Message)
    /\ Len(q) > 0 => Legal(e, q[1])
    /\ \A i \in 2 .. Len(q) : Follows(q[i - 1], q[i])

(* The window w of a client that is still connected is what the session     *)
(* will be when the messages q have been served.                            *)
DocumentsIn(d) == {i \in DOMAIN d : d[i].type = "document"}

Ends(q, e, w) ==
    \/ w = "closed" /\ IF Len(q) = 0 THEN ~e ELSE q[Len(q)] = Plain("close")
    \/ w = "asked" /\ IF Len(q) = 0 THEN e ELSE q[Len(q)] = Plain("open")
    \/ w = "shown" /\ IF Len(q) = 0 THEN e ELSE q[Len(q)] = Plain("move")

Fits(q, e, w, d) ==
    /\ \A i \in 1 .. Len(q) : q[i] # Plain("hangup")
    /\ \A i, j \in DocumentsIn(d) : i = j
    /\ DocumentsIn(d) # {} => w = "asked" /\ Len(q) = 0
    /\ Ends(q, e, w)

Sessions ==
    /\ Len(usernames) \in Nat
    /\ sites \in [Clients -> 0 .. Len(usernames)]
    /\ editing = {c \in Clients : sites[c] # NoSite /\ opening[c].at = "no"}
    /\ \A c, d \in Clients : c # d /\ sites[c] = sites[d] => sites[c] = NoSite

(* A worker opens for one client at a time and does nothing else; the       *)
(* session has a site once it is registered.                                *)
Opens ==
    /\ opening \in [Clients -> [at : Stages, profiles : SUBSET Users, users : Seq(Users)]]
    /\ \A c \in Clients : opening[c].at = "no" => opening[c] = NotOpening
    /\ \A c \in Clients : opening[c].at \in {"joined", "profiles"} => sites[c] = NoSite
    /\ \A c \in Clients : opening[c].at \in {"registered", "usernames"} => sites[c] # NoSite
    /\ \A c \in Clients : opening[c].at # "no" => posting[WorkerOf[c]] = << >>
    /\ \A c, d \in Clients : /\ opening[c].at # "no" /\ opening[d].at # "no"
                             /\ WorkerOf[c] = WorkerOf[d]
                             => c = d
    /\ \A c \in Clients : opening[c].at # "no" => UserOf[c] \in members

(* The open its worker is at counts as a message that is still to be        *)
(* served.                                                                  *)
Before(m, q) == <<m>> \o q
Still(o, q) == IF o.at = "no" THEN q ELSE Before(Plain("open"), q)
Pending(c) == Still(opening[c], up[c])

Connected(c) == lost[c] # "connection"

(* What workers tell each other is not a document. *)
Post(p) == p.message.type # "document"

GInv ==
    /\ usernames \in Seq(Users)
    /\ members \subseteq Users /\ \A i \in 1 .. Len(usernames) : usernames[i] \in members
    /\ Sessions
    /\ Opens
    /\ NoGhosts
    /\ up \in [Clients -> Seq(Message)]
    /\ \E S : down \in [Clients -> Seq(S)]
    /\ \E S : /\ \A p \in S : Post(p)
             /\ queue \in [Workers -> Seq(S)] /\ posting \in [Workers -> Seq(S)]
    /\ window \in [Clients -> {"closed", "asked", "shown"}]
    /\ \E S : lost \in [Clients -> S]
    /\ \A c \in Clients : Orderly(Pending(c), c \in editing)
    /\ \A c \in Clients : Connected(c) => Fits(Pending(c), c \in editing, window[c], down[c])
    /\ \A c \in Clients : ~Connected(c) => window[c] = "closed"

-----------------------------------------------------------------------------
(* Sending, serving and cutting off keep the messages in order.             *)
LEMMA SentInOrder ==
    ASSUME NEW q, NEW e \in BOOLEAN, Orderly(q, e), NEW m \in Message,
           IF Len(q) = 0 THEN Legal(e, m) ELSE Follows(q[Len(q)], m)
    PROVE  /\ Orderly(Append(q, m), e)
           /\ Len(Append(q, m)) = Len(q) + 1 /\ Len(q) \in Nat
           /\ Append(q, m)[Len(q) + 1] = m
           /\ \A i \in 1 .. Len(q) : Append(q, m)[i] = q[i]
<1>. DEFINE r == Append(q, m)
<1>1. q \in Seq(Message) /\ Len(q) \in Nat
  BY DEF Orderly
<1>2. /\ r \in Seq(Message) /\ Len(r) = Len(q) + 1 /\ r[Len(q) + 1] = m
      /\ \A i \in 1 .. Len(q) : r[i] = q[i]
  BY <1>1
<1>. HIDE DEF r
<1>3. Legal(e, r[1])
  <2>1. CASE Len(q) = 0
    BY <2>1, <1>2
  <2>2. CASE Len(q) # 0
    BY <2>2, <1>1, <1>2 DEF Orderly
  <2>. QED
    BY <2>1, <2>2
<1>4. ASSUME NEW i \in 2 .. Len(r) PROVE Follows(r[i - 1], r[i])
  <2>1. CASE i = Len(q) + 1
    BY <2>1, <1>1, <1>2
  <2>2. CASE i # Len(q) + 1
    <3>1. i \in 2 .. Len(q) /\ i \in 1 .. Len(q) /\ i - 1 \in 1 .. Len(q)
      BY <2>2, <1>1, <1>2
    <3>. QED
      BY <3>1, <1>2 DEF Orderly
  <2>. QED
    BY <2>1, <2>2
<1>. QED
  BY <1>1, <1>2, <1>3, <1>4 DEF Orderly, r

LEMMA ServedInOrder ==
    ASSUME NEW q, NEW e \in BOOLEAN, NEW f \in BOOLEAN, Orderly(q, e), q # << >>,
           Head(q) = Plain("open") => f,
           Head(q) = Plain("close") => ~f,
           Head(q) = Plain("move") => f = e
    PROVE  /\ Orderly(Tail(q), f)
           /\ Len(Tail(q)) = Len(q) - 1 /\ Len(q) \in Nat \ {0} /\ Head(q) = q[1]
           /\ \A i \in 1 .. Len(Tail(q)) : Tail(q)[i] = q[i + 1]
<1>. DEFINE r == Tail(q)
<1>1. q \in Seq(Message) /\ Len(q) \in Nat \ {0} /\ Head(q) = q[1] /\ q[1] \in Message
  BY DEF Orderly
<1>2. r \in Seq(Message) /\ Len(r) = Len(q) - 1 /\ \A i \in 1 .. Len(r) : r[i] = q[i + 1]
  BY <1>1, HeadTailProperties
<1>. HIDE DEF r
<1>3. ASSUME Len(r) > 0 PROVE Legal(f, r[1])
  <2>1. Follows(q[1], r[1])
    <3>1. 2 \in 2 .. Len(q) /\ 1 \in 1 .. Len(r) /\ 2 - 1 = 1 /\ 1 + 1 = 2
      BY <1>1, <1>2, <1>3
    <3>2. Follows(q[1], q[2])
      BY <3>1 DEF Orderly
    <3>. QED
      BY <3>1, <3>2, <1>2
  <2>2. Legal(e, q[1])
    BY <1>1 DEF Orderly
  <2>. QED
    BY <2>1, <2>2, <1>1, MessagesDiffer DEF Follows, Legal
<1>4. ASSUME NEW i \in 2 .. Len(r) PROVE Follows(r[i - 1], r[i])
  <2>1. i - 1 \in 1 .. Len(r) /\ i \in 1 .. Len(r) /\ i + 1 \in 2 .. Len(q) /\ (i - 1) + 1 = (i + 1) - 1
    BY <1>1, <1>2
  <2>2. Follows(q[(i + 1) - 1], q[i + 1])
    BY <2>1 DEF Orderly
  <2>. QED
    BY <2>1, <2>2, <1>2
<1>. QED
  BY <1>1, <1>2, <1>3, <1>4 DEF Orderly, r

LEMMA CutInOrder ==
    ASSUME NEW q, NEW e \in BOOLEAN, Orderly(q, e), NEW n \in 0 .. Len(q),
           \A i \in 1 .. Len(q) : q[i] # Plain("hangup")
    PROVE  Orderly(Append(SubSeq(q, 1, n), Plain("hangup")), e)
<1>. DEFINE r == SubSeq(q, 1, n)
<1>1. q \in Seq(Message) /\ Len(q) \in Nat /\ n \in Nat /\ n <= Len(q)
  BY DEF Orderly
<1>2. r \in Seq(Message) /\ Len(r) = n /\ \A i \in 1 .. n : r[i] = q[i]
  <2>1. \A i \in 1 .. n : q[i] \in Message
    BY <1>1, ElementOfSeq
  <2>2. /\ r \in Seq(Message) /\ Len(r) = IF 1 <= n THEN n - 1 + 1 ELSE 0
        /\ \A i \in 1 .. (n - 1 + 1) : r[i] = q[1 + i - 1]
    BY <1>1, <2>1, SubSeqProperties
  <2>. HIDE DEF r
  <2>. QED
    BY <2>2, <1>1
<1>. HIDE DEF r
<1>3. Orderly(r, e)
  <2>1. Len(r) > 0 => Legal(e, r[1])
    BY <1>1, <1>2 DEF Orderly
  <2>2. ASSUME NEW i \in 2 .. Len(r) PROVE Follows(r[i - 1], r[i])
    <3>1. i \in 2 .. Len(q) /\ i \in 1 .. n /\ i - 1 \in 1 .. n
      BY <1>1, <1>2
    <3>. QED
      BY <3>1, <1>2 DEF Orderly
  <2>. QED
    BY <2>1, <2>2, <1>2 DEF Orderly
<1>4. IF Len(r) = 0 THEN Legal(e, Plain("hangup")) ELSE Follows(r[Len(r)], Plain("hangup"))
  BY <1>1, <1>2 DEF Legal, Follows
<1>. QED
  BY <1>3, <1>4, SentInOrder, MessagesDiffer DEF r

-----------------------------------------------------------------------------
(* Documents among the answers on their way.                                *)
LEMMA SeqOfMore ==
    ASSUME NEW S, NEW T, S \subseteq T, NEW s \in Seq(S)
    PROVE  s \in Seq(T)
<1>1. Len(s) \in Nat /\ s = [i \in 1 .. Len(s) |-> s[i]]
  OBVIOUS
<1>2. ASSUME NEW i \in 1 .. Len(s) PROVE s[i] \in T
  BY ElementOfSeq
<1>. QED
  BY <1>1, <1>2

LEMMA OtherAnswer ==
    ASSUME NEW S, NEW d \in Seq(S), NEW m \in S, m.type # "document"
    PROVE  DocumentsIn(Append(d, m)) = DocumentsIn(d)
<1>1. /\ DOMAIN d = 1 .. Len(d) /\ Len(d) \in Nat
      /\ DOMAIN Append(d, m) = 1 .. (Len(d) + 1)
      /\ Append(d, m)[Len(d) + 1] = m
      /\ \A i \in 1 .. Len(d) : Append(d, m)[i] = d[i]
  OBVIOUS
<1>. QED
  BY <1>1 DEF DocumentsIn

LEMMA DocumentAnswered ==
    ASSUME NEW S, NEW d \in Seq(S), NEW m \in S
    PROVE  DocumentsIn(Append(d, m)) \subseteq DocumentsIn(d) \cup {Len(d) + 1}
<1>1. /\ DOMAIN d = 1 .. Len(d) /\ Len(d) \in Nat
      /\ DOMAIN Append(d, m) = 1 .. (Len(d) + 1)
      /\ \A i \in 1 .. Len(d) : Append(d, m)[i] = d[i]
  OBVIOUS
<1>. QED
  BY <1>1 DEF DocumentsIn

(* A client takes the next answer: at most one document stays one at most,  *)
(* and none is left if it was the one taken.                                *)
LEMMA AnswerTaken ==
    ASSUME NEW S, NEW d \in Seq(S), d # << >>, \A i, j \in DocumentsIn(d) : i = j
    PROVE  /\ \A i, j \in DocumentsIn(Tail(d)) : i = j
           /\ DocumentsIn(Tail(d)) # {} => DocumentsIn(d) # {}
           /\ Head(d).type = "document" => DocumentsIn(Tail(d)) = {} /\ DocumentsIn(d) # {}
<1>. DEFINE r == Tail(d)
<1>1. /\ Len(d) \in Nat /\ DOMAIN d = 1 .. Len(d) /\ Head(d) = d[1] /\ 1 \in DOMAIN d
      /\ DOMAIN r = 1 .. Len(r) /\ Len(r) = Len(d) - 1
      /\ \A i \in 1 .. Len(r) : r[i] = d[i + 1]
  BY HeadTailProperties
<1>. HIDE DEF r
<1>2. ASSUME NEW i \in DocumentsIn(r)
      PROVE  i \in Nat \ {0} /\ i + 1 \in DocumentsIn(d)
  <2>1. i \in 1 .. Len(r) /\ r[i].type = "document"
    BY <1>1 DEF DocumentsIn
  <2>2. i + 1 \in 1 .. Len(d) /\ d[i + 1] = r[i]
    BY <2>1, <1>1
  <2>. QED
    BY <2>1, <2>2, <1>1 DEF DocumentsIn
<1>3. ASSUME NEW i \in DocumentsIn(r), NEW j \in DocumentsIn(r) PROVE i = j
  <2>1. i + 1 = j + 1
    BY <1>2
  <2>. QED
    BY <2>1, <1>2
<1>4. ASSUME d[1].type = "document" PROVE DocumentsIn(r) = {} /\ 1 \in DocumentsIn(d)
  <2>1. 1 \in DocumentsIn(d)
    BY <1>1, <1>4 DEF DocumentsIn
  <2>2. ASSUME NEW i \in DocumentsIn(r) PROVE FALSE
    <3>1. i \in Nat \ {0} /\ i + 1 = 1
      BY <1>2, <2>1
    <3>. QED
      BY <3>1
  <2>. QED
    BY <2>1, <2>2
<1>. QED
  BY <1>1, <1>2, <1>3, <1>4 DEF r

-----------------------------------------------------------------------------
(* How the window keeps up: a message is sent together with a change of the *)
(* window, and served together with a change of the session.                *)
LEMMA SentFits ==
    ASSUME NEW q, NEW e \in BOOLEAN, NEW w, NEW d, Orderly(q, e), Fits(q, e, w, d),
           DocumentsIn(d) = {}, NEW m, NEW v,
           \/ m = Plain("open") /\ v = "asked" /\ w = "closed"
           \/ m = Plain("move") /\ v = "shown" /\ w = "shown"
           \/ m = Plain("close") /\ v = "closed" /\ w = "shown"
    PROVE  Orderly(Append(q, m), e) /\ Fits(Append(q, m), e, v, d)
<1>. DEFINE r == Append(q, m)
<1>1. m \in Message /\ m # Plain("hangup")
  BY MessagesDiffer
<1>2. IF Len(q) = 0 THEN Legal(e, m) ELSE Follows(q[Len(q)], m)
  BY MessagesDiffer DEF Fits, Ends, Legal, Follows
<1>3. /\ Orderly(r, e) /\ Len(r) = Len(q) + 1 /\ Len(q) \in Nat /\ r[Len(q) + 1] = m
      /\ \A i \in 1 .. Len(q) : r[i] = q[i]
  BY <1>1, <1>2, SentInOrder
<1>. HIDE DEF r
<1>4. \A i \in 1 .. Len(r) : r[i] # Plain("hangup")
  BY <1>1, <1>3 DEF Fits
<1>5. Ends(r, e, v)
  BY <1>3 DEF Ends
<1>. QED
  BY <1>3, <1>4, <1>5 DEF Fits, r

LEMMA ServedFits ==
    ASSUME NEW q, NEW e \in BOOLEAN, NEW f \in BOOLEAN, NEW w, NEW d, Orderly(q, e), q # << >>,
           Head(q) = Plain("open") => f,
           Head(q) = Plain("close") => ~f,
           Head(q) = Plain("move") => f = e,
           \A i \in 1 .. Len(q) : q[i] # Plain("hangup"), Ends(q, e, w),
           \A i, j \in DocumentsIn(d) : i = j,
           DocumentsIn(d) # {} => Head(q) = Plain("open")
    PROVE  Fits(Tail(q), f, w, d)
<1>. DEFINE r == Tail(q)
<1>1. /\ Orderly(r, f) /\ Len(r) = Len(q) - 1 /\ Len(q) \in Nat \ {0} /\ Head(q) = q[1]
      /\ \A i \in 1 .. Len(r) : r[i] = q[i + 1]
  BY ServedInOrder
<1>. HIDE DEF r
<1>2. \A i \in 1 .. Len(r) : r[i] # Plain("hangup")
  BY <1>1
<1>3. ASSUME Head(q) = Plain("open") PROVE Len(r) = 0
  <2>. SUFFICES ASSUME Len(q) > 1 PROVE FALSE
    BY <1>1
  <2>1. 2 \in 2 .. Len(q) /\ 2 - 1 = 1 /\ 2 \in 1 .. Len(q)
    BY <1>1
  <2>2. Follows(q[1], q[2]) /\ q[2] # Plain("hangup")
    BY <2>1 DEF Orderly
  <2>. QED
    BY <2>2, <1>1, <1>3, MessagesDiffer DEF Follows
<1>4. Ends(r, f, w)
  <2>1. CASE Len(r) = 0
    <3>0. Len(q) = 1
      BY <2>1, <1>1
    <3>1. q[Len(q)] = Head(q) /\ Len(q) # 0
      BY <3>0, <1>1
    <3>2. Head(q) = Plain("open") => f /\ w = "asked"
      BY <3>1, <1>1, MessagesDiffer DEF Ends
    <3>3. Head(q) = Plain("close") => ~f /\ w = "closed"
      BY <3>1, <1>1, MessagesDiffer DEF Ends
    <3>4. Head(q) = Plain("move") => f /\ w = "shown"
      <4>1. Len(q) > 0 => Legal(e, q[1])
        BY DEF Orderly
      <4>2. Head(q) = Plain("move") => e
        BY <4>1, <1>1, MessagesDiffer DEF Legal
      <4>. QED
        BY <4>2, <3>1, <1>1, MessagesDiffer DEF Ends
    <3>5. Head(q) \in {Plain("open"), Plain("close"), Plain("move")}
      BY <3>1, <1>1 DEF Ends
    <3>. QED
      BY <2>1, <3>2, <3>3, <3>4, <3>5 DEF Ends
  <2>2. CASE Len(r) # 0
    <3>1. r[Len(r)] = q[Len(q)] /\ Len(q) # 0
      BY <2>2, <1>1
    <3>. QED
      BY <3>1, <2>2 DEF Ends
  <2>. QED
    BY <2>1, <2>2
<1>5. ASSUME DocumentsIn(d) # {} PROVE w = "asked" /\ Len(r) = 0
  <2>0. Len(r) = 0
    BY <1>3, <1>5
  <2>1. Len(r) = 0 /\ Len(q) = 1
    BY <1>1, <2>0
  <2>2. q[Len(q)] = Plain("open") /\ Len(q) # 0
    BY <2>1, <1>1, <1>5
  <2>. QED
    BY <2>1, <2>2, MessagesDiffer DEF Ends
<1>. QED
  BY <1>2, <1>4, <1>5 DEF Fits, r

-----------------------------------------------------------------------------
LEMMA InitG == Init => GInv
<1>. SUFFICES ASSUME Init PROVE GInv
  OBVIOUS
<1>0. /\ opening = [c \in Clients |-> NotOpening] /\ NotOpening.at = "no"
      /\ NotOpening \in [at : Stages, profiles : SUBSET Users, users : Seq(Users)]
  BY DEF Init, NotOpening, Opening, Stages
<1>1. usernames \in Seq(Users) /\ Sessions /\ NoGhosts /\ Opens
  <2>1. usernames \in Seq(Users) /\ Sessions /\ NoGhosts
    BY <1>0, PresenceAssumption DEF Init, Sessions, NoGhosts, NoSite
  <2>. QED
    BY <2>1, <1>0 DEF Opens
<1>1a. members \subseteq Users /\ \A i \in 1 .. Len(usernames) : usernames[i] \in members
  BY PresenceAssumption DEF Init, ToSet
<1>2. /\ up \in [Clients -> Seq(Message)] /\ \E S : down \in [Clients -> Seq(S)]
      /\ window \in [Clients -> {"closed", "asked", "shown"}]
  BY DEF Init
<1>3. lost \in [Clients -> {Nothing}]
  BY DEF Init
<1>4. queue \in [Workers -> Seq({})] /\ posting \in [Workers -> Seq({})] /\ \A p \in {} : Post(p)
  BY DEF Init
<1>5. ASSUME NEW c \in Clients
      PROVE  Orderly(Pending(c), c \in editing) /\ Fits(Pending(c), c \in editing, window[c], down[c])
  <2>0. Pending(c) = up[c]
    BY <1>0 DEF Pending, Still
  <2>1. Pending(c) = << >> /\ down[c] = << >> /\ c \notin editing /\ window[c] = "closed"
    BY <2>0 DEF Init
  <2>2. Len(<< >>) = 0 /\ DocumentsIn(<< >>) = {} /\ << >> \in Seq(Message)
    BY DEF DocumentsIn
  <2>3. Orderly(<< >>, c \in editing)
    BY <2>2 DEF Orderly
  <2>4. Ends(<< >>, c \in editing, "closed")
    BY <2>1, <2>2 DEF Ends
  <2>. QED
    BY <2>1, <2>2, <2>3, <2>4 DEF Fits
<1>6. \A c \in Clients : ~Connected(c) => window[c] = "closed"
  BY DEF Init
<1>. QED
  BY <1>1, <1>1a, <1>2, <1>3, <1>4, <1>5, <1>6 DEF GInv

(* What is sent or cut off is so after the open being served.               *)
LEMMA BeforeProperties ==
    ASSUME NEW m \in Message, NEW q \in Seq(Message)
    PROVE  /\ Before(m, q) \in Seq(Message) /\ Len(Before(m, q)) = Len(q) + 1 /\ Len(q) \in Nat
           /\ Before(m, q)[1] = m /\ Before(m, q) # << >>
           /\ Head(Before(m, q)) = m /\ Tail(Before(m, q)) = q
           /\ \A i \in 1 .. Len(q) : Before(m, q)[i + 1] = q[i]
           /\ \A n \in Message : Before(m, Append(q, n)) = Append(Before(m, q), n)
<1>1. /\ Before(m, q) \in Seq(Message) /\ Len(Before(m, q)) = Len(q) + 1 /\ Len(q) \in Nat
      /\ Before(m, q)[1] = m /\ Before(m, q) # << >>
      /\ Head(Before(m, q)) = m
      /\ \A i \in 1 .. Len(q) : Before(m, q)[i + 1] = q[i]
  BY DEF Before
<1>2. Tail(Before(m, q)) = q
  <2>. DEFINE b == Before(m, q)
  <2>1. b \in Seq(Message) /\ b # << >> /\ Len(b) = Len(q) + 1 /\ \A i \in 1 .. Len(q) : b[i + 1] = q[i]
    BY <1>1
  <2>. HIDE DEF b
  <2>2. Tail(b) \in Seq(Message) /\ Len(Tail(b)) = Len(q) /\ \A i \in 1 .. Len(q) : Tail(b)[i] = q[i]
    BY <1>1, <2>1, HeadTailProperties
  <2>3. Tail(b) = q
    BY <2>2, SeqEqual
  <2>. QED
    BY <2>3 DEF b
<1>3. ASSUME NEW n \in Message PROVE Before(m, Append(q, n)) = Append(Before(m, q), n)
  <2>. DEFINE a == Before(m, Append(q, n))
              b == Append(Before(m, q), n)
  <2>1. a \in Seq(Message) /\ Len(a) = Len(q) + 2 /\ a[1] = m /\ \A i \in 1 .. (Len(q) + 1) : a[i + 1] = Append(q, n)[i]
    BY DEF Before
  <2>2. b \in Seq(Message) /\ Len(b) = Len(q) + 2 /\ b[1] = m /\ b[Len(q) + 2] = n
        /\ \A i \in 1 .. Len(q) : b[i + 1] = q[i]
    BY <1>1
  <2>3. ASSUME NEW i \in 1 .. Len(a) PROVE a[i] = b[i]
    <3>1. CASE i = 1
      BY <3>1, <2>1, <2>2
    <3>2. CASE i = Len(q) + 2
      <4>1. Len(q) + 1 \in 1 .. (Len(q) + 1) /\ i = (Len(q) + 1) + 1
        BY <3>2, <1>1
      <4>2. a[i] = Append(q, n)[Len(q) + 1]
        BY <4>1, <2>1
      <4>. QED
        BY <4>2, <3>2, <2>2
    <3>3. CASE i # 1 /\ i # Len(q) + 2
      <4>1. i - 1 \in 1 .. Len(q) /\ i - 1 \in 1 .. (Len(q) + 1) /\ i = (i - 1) + 1
        BY <3>3, <2>1, <1>1
      <4>2. a[i] = Append(q, n)[i - 1] /\ b[i] = q[i - 1]
        BY <4>1, <2>1, <2>2
      <4>. QED
        BY <4>1, <4>2
    <3>. QED
      BY <3>1, <3>2, <3>3
  <2>. HIDE DEF a, b
  <2>4. a = b
    BY <2>1, <2>2, <2>3, SeqEqual
  <2>. QED
    BY <2>4 DEF a, b
<1>. QED
  BY <1>1, <1>2, <1>3

LEMMA StillProperties ==
    ASSUME NEW o, NEW q \in Seq(Message)
    PROVE  /\ Still(o, q) \in Seq(Message) /\ Len(q) \in Nat
           /\ Len(Still(o, q)) = IF o.at = "no" THEN Len(q) ELSE Len(q) + 1
           /\ o.at # "no" => Still(o, q) # << >> /\ Head(Still(o, q)) = Plain("open") /\ Tail(Still(o, q)) = q
           /\ \A n \in Message : Still(o, Append(q, n)) = Append(Still(o, q), n)
           /\ \A i \in 1 .. Len(q) : Still(o, q)[IF o.at = "no" THEN i ELSE i + 1] = q[i]
<1>1. Plain("open") \in Message
  BY MessagesDiffer
<1>2. CASE o.at = "no"
  BY <1>2 DEF Still
<1>3. CASE o.at # "no"
  <2>. DEFINE b == Before(Plain("open"), q)
  <2>1. /\ b \in Seq(Message) /\ Len(b) = Len(q) + 1 /\ Len(q) \in Nat
        /\ b # << >> /\ Head(b) = Plain("open") /\ Tail(b) = q
        /\ \A i \in 1 .. Len(q) : b[i + 1] = q[i]
        /\ \A n \in Message : Before(Plain("open"), Append(q, n)) = Append(b, n)
    BY <1>1, BeforeProperties
  <2>2. Still(o, q) = b /\ \A n \in Message : Still(o, Append(q, n)) = Before(Plain("open"), Append(q, n))
    BY <1>3 DEF Still
  <2>. HIDE DEF b
  <2>. QED
    BY <1>3, <2>1, <2>2
<1>. QED
  BY <1>2, <1>3

(* A step of client c: its messages become q, its answers d, its window w.  *)
LEMMA ClientStep ==
    ASSUME GInv, NEW c \in Clients, NEW u \in Seq(Message), NEW q, NEW d, NEW w, NEW l,
           UNCHANGED <<docVars, editing, queue, posting>>,
           up' = [up EXCEPT ![c] = u], q = Still(opening[c], u),
           down' = [down EXCEPT ![c] = d],
           window' = [window EXCEPT ![c] = w], lost' = [lost EXCEPT ![c] = l],
           Orderly(q, c \in editing),
           \A S : down[c] \in Seq(S) => d \in Seq(S),
           w \in {"closed", "asked", "shown"},
           l # "connection" => Fits(q, c \in editing, w, d),
           l = "connection" => w = "closed"
    PROVE  GInv'
<1>1. /\ usernames' \in Seq(Users) /\ Sessions' /\ NoGhosts' /\ Opens'
      /\ members' \subseteq Users /\ \A i \in 1 .. Len(usernames') : usernames'[i] \in members'
  BY DEF GInv, Sessions, NoGhosts, Opens, docVars
<1>2. up' \in [Clients -> Seq(Message)]
  BY DEF GInv
<1>3. \E S : down' \in [Clients -> Seq(S)]
  <2>1. PICK S : down \in [Clients -> Seq(S)]
    BY DEF GInv
  <2>2. d \in Seq(S)
    BY <2>1
  <2>3. down' \in [Clients -> Seq(S)]
    BY <2>1, <2>2
  <2>. QED
    BY <2>3
<1>4. window' \in [Clients -> {"closed", "asked", "shown"}]
  BY DEF GInv
<1>5. PICK L : lost \in [Clients -> L]
  BY DEF GInv
<1>6. lost' \in [Clients -> L \cup {l}]
  BY <1>5
<1>7. \E S : /\ \A p \in S : Post(p)
             /\ queue' \in [Workers -> Seq(S)] /\ posting' \in [Workers -> Seq(S)]
  BY DEF GInv
<1>8. ASSUME NEW b \in Clients
      PROVE  /\ Orderly(Pending(b)', b \in editing')
             /\ lost'[b] # "connection" => Fits(Pending(b)', b \in editing', window'[b], down'[b])
             /\ lost'[b] = "connection" => window'[b] = "closed"
  <2>1. DOMAIN down = Clients /\ editing' = editing /\ opening' = opening
    BY DEF GInv, docVars
  <2>1a. Pending(b)' = Still(opening[b], up'[b])
    BY <2>1 DEF Pending
  <2>2. CASE b = c
    <3>0. up'[b] = u
      BY <2>2 DEF GInv
    <3>1. Pending(b)' = q /\ window'[b] = w /\ down'[b] = d /\ lost'[b] = l
      BY <2>1, <2>1a, <2>2, <3>0, <1>5 DEF GInv
    <3>. QED
      BY <3>1, <2>1, <2>2
  <2>3. CASE b # c
    <3>0. up'[b] = up[b]
      BY <2>3 DEF GInv
    <3>1. Pending(b)' = Pending(b) /\ window'[b] = window[b] /\ down'[b] = down[b] /\ lost'[b] = lost[b]
      BY <2>1, <2>1a, <2>3, <3>0, <1>5 DEF GInv, Pending
    <3>. QED
      BY <3>1, <2>1 DEF GInv, Connected
  <2>. QED
    BY <2>2, <2>3
<1>. QED
  BY <1>1, <1>2, <1>3, <1>4, <1>6, <1>7, <1>8 DEF GInv, Connected

LEMMA ClientState ==
    ASSUME GInv, NEW c \in Clients
    PROVE  /\ up = [up EXCEPT ![c] = up[c]] /\ down = [down EXCEPT ![c] = down[c]]
           /\ window = [window EXCEPT ![c] = window[c]] /\ lost = [lost EXCEPT ![c] = lost[c]]
           /\ up[c] \in Seq(Message) /\ Pending(c) = Still(opening[c], up[c])
           /\ Orderly(Pending(c), c \in editing)
           /\ window[c] \in {"closed", "asked", "shown"}
           /\ \E S : down[c] \in Seq(S)
           /\ Running(c) => lost[c] # "connection"
           /\ lost[c] # "connection" =>
                Fits(Pending(c), c \in editing, window[c], down[c])
<1>1. PICK L : lost \in [Clients -> L]
  BY DEF GInv
<1>2. PICK S : down \in [Clients -> Seq(S)]
  BY DEF GInv
<1>. QED
  BY <1>1, <1>2 DEF GInv, Running, Nothing, Connected, Pending

(* The three clicks that send a message. *)
LEMMA ClickStep ==
    ASSUME GInv, NEW c \in Clients, Running(c), NEW m, NEW w,
           UNCHANGED <<docVars, editing, queue, posting, down, lost>>,
           Send(c, m), window' = [window EXCEPT ![c] = w],
           \/ m = Plain("open") /\ w = "asked" /\ window[c] = "closed"
           \/ m = Plain("move") /\ w = "shown" /\ window[c] = "shown"
           \/ m = Plain("close") /\ w = "closed" /\ window[c] = "shown"
    PROVE  GInv'
<1>1. /\ down' = [down EXCEPT ![c] = down[c]] /\ lost' = [lost EXCEPT ![c] = lost[c]]
      /\ up[c] \in Seq(Message) /\ Pending(c) = Still(opening[c], up[c])
      /\ Orderly(Pending(c), c \in editing) /\ lost[c] # "connection"
      /\ Fits(Pending(c), c \in editing, window[c], down[c])
  BY ClientState
<1>2. DocumentsIn(down[c]) = {}
  BY <1>1 DEF Fits
<1>2a. m \in Message
  BY MessagesDiffer
<1>. DEFINE u == Append(up[c], m)
            q == Still(opening[c], u)
            d == down[c]
            l == lost[c]
            p == Pending(c)
<1>3. Orderly(q, c \in editing) /\ Fits(q, c \in editing, w, down[c]) /\ u \in Seq(Message)
  <2>. DEFINE e == c \in editing
  <2>0. q = Append(p, m) /\ u \in Seq(Message)
    BY <1>1, <1>2a, StillProperties
  <2>1. e \in BOOLEAN
    OBVIOUS
  <2>. HIDE DEF e, q, p
  <2>2. Orderly(p, e) /\ Fits(p, e, window[c], down[c])
    BY <1>1 DEF e, p
  <2>3. Orderly(Append(p, m), e) /\ Fits(Append(p, m), e, w, down[c])
    BY <1>2, <2>1, <2>2, SentFits
  <2>. QED
    BY <2>0, <2>3 DEF e
<1>4. up' = [up EXCEPT ![c] = u]
  BY DEF Send
<1>5. w \in {"closed", "asked", "shown"} /\ \A S : down[c] \in Seq(S) => down[c] \in Seq(S)
  OBVIOUS
<1>6. UNCHANGED <<docVars, editing, queue, posting>>
  OBVIOUS
<1>7. /\ up' = [up EXCEPT ![c] = u] /\ q = Still(opening[c], u) /\ u \in Seq(Message)
      /\ down' = [down EXCEPT ![c] = d]
      /\ lost' = [lost EXCEPT ![c] = l] /\ l # "connection"
      /\ Orderly(q, c \in editing) /\ Fits(q, c \in editing, w, d)
      /\ \A S : down[c] \in Seq(S) => d \in Seq(S)
  BY <1>1, <1>3, <1>4, <1>5
<1>. HIDE DEF q, d, l, u
<1>. QED
  BY <1>5, <1>6, <1>7, ClientStep

(* The handlers of answers. *)
LEMMA TakeStep ==
    ASSUME GInv, NEW c \in Clients, NEW type, Receive(c, type), NEW w, NEW l,
           UNCHANGED <<docVars, editing, queue, posting, up>>,
           window' = [window EXCEPT ![c] = w], lost' = [lost EXCEPT ![c] = l],
           l # "connection",
           w # window[c] => type = "document" /\ w = "shown"
    PROVE  GInv'
<1>1. /\ up' = [up EXCEPT ![c] = up[c]]
      /\ up[c] \in Seq(Message) /\ Pending(c) = Still(opening[c], up[c])
      /\ Orderly(Pending(c), c \in editing) /\ lost[c] # "connection"
      /\ Fits(Pending(c), c \in editing, window[c], down[c])
      /\ window[c] \in {"closed", "asked", "shown"}
  BY ClientState DEF Receive
<1>2. PICK S : down[c] \in Seq(S)
  BY ClientState
<1>3. down[c] # << >> /\ Head(down[c]).type = type /\ down' = [down EXCEPT ![c] = Tail(down[c])]
  BY DEF Receive
<1>4. \A T : down[c] \in Seq(T) => Tail(down[c]) \in Seq(T)
  BY <1>3, HeadTailProperties
<1>5. /\ \A i, j \in DocumentsIn(Tail(down[c])) : i = j
      /\ DocumentsIn(Tail(down[c])) # {} => DocumentsIn(down[c]) # {}
      /\ type = "document" => DocumentsIn(Tail(down[c])) = {} /\ DocumentsIn(down[c]) # {}
  <2>1. \A i, j \in DocumentsIn(down[c]) : i = j
    BY <1>1 DEF Fits
  <2>. QED
    BY <2>1, <1>2, <1>3, AnswerTaken
<1>6. Fits(Pending(c), c \in editing, w, Tail(down[c]))
  <2>1. CASE w = window[c]
    BY <2>1, <1>1, <1>5 DEF Fits
  <2>2. CASE type = "document" /\ w = "shown"
    BY <2>2, <1>1, <1>5 DEF Fits, Ends
  <2>. QED
    BY <2>1, <2>2
<1>. QED
  BY <1>1, <1>3, <1>4, <1>6, ClientStep

(* Those that leave the window as it is. *)
LEMMA HandledStep ==
    ASSUME GInv, NEW c \in Clients, NEW type, Receive(c, type), NEW l,
           UNCHANGED <<docVars, editing, queue, posting, up, window>>,
           lost' = [lost EXCEPT ![c] = l], l # "connection"
    PROVE  GInv'
<1>. DEFINE w == window[c]
<1>1. window' = [window EXCEPT ![c] = w]
  BY ClientState
<1>2. (w # window[c] => type = "document" /\ w = "shown") /\ UNCHANGED <<docVars, editing, queue, posting, up>>
  OBVIOUS
<1>. HIDE DEF w
<1>. QED
  BY <1>1, <1>2, TakeStep

LEMMA VanishStep ==
    ASSUME GInv, NEW c \in Clients, Vanish(c)
    PROVE  GInv'
<1>1. PICK n \in 0 .. Len(up[c]) :
        up' = [up EXCEPT ![c] = Append(SubSeq(up[c], 1, n), Plain("hangup"))]
  BY DEF Vanish
<1>2. /\ down' = [down EXCEPT ![c] = << >>] /\ window' = [window EXCEPT ![c] = "closed"]
      /\ lost' = [lost EXCEPT ![c] = "connection"]
      /\ UNCHANGED <<docVars, editing, queue, posting>>
  BY DEF Vanish, NoWindow
<1>3. lost[c] # "connection"
  BY DEF Vanish, GInv, Connected
<1>. DEFINE p == Pending(c)
            u == Append(SubSeq(up[c], 1, n), Plain("hangup"))
            q == Still(opening[c], u)
            k == IF opening[c].at = "no" THEN n ELSE n + 1
<1>4. /\ Orderly(p, c \in editing) /\ \A i \in 1 .. Len(p) : p[i] # Plain("hangup")
      /\ up[c] \in Seq(Message) /\ p = Still(opening[c], up[c])
  BY <1>3, ClientState DEF Fits
<1>4a. /\ Len(up[c]) \in Nat /\ k \in 0 .. Len(p)
       /\ SubSeq(up[c], 1, n) \in Seq(Message) /\ u \in Seq(Message)
       /\ q = Append(SubSeq(p, 1, k), Plain("hangup"))
  <2>1. Len(up[c]) \in Nat /\ n \in Nat /\ n <= Len(up[c])
    BY <1>4
  <2>2. /\ Len(p) = IF opening[c].at = "no" THEN Len(up[c]) ELSE Len(up[c]) + 1
        /\ p \in Seq(Message) /\ \A i \in 1 .. Len(up[c]) : p[IF opening[c].at = "no" THEN i ELSE i + 1] = up[c][i]
        /\ opening[c].at # "no" => p[1] = Plain("open")
    <3>1. /\ Len(p) = IF opening[c].at = "no" THEN Len(up[c]) ELSE Len(up[c]) + 1
          /\ p \in Seq(Message) /\ \A i \in 1 .. Len(up[c]) : p[IF opening[c].at = "no" THEN i ELSE i + 1] = up[c][i]
      BY <1>4, StillProperties
    <3>2. opening[c].at # "no" => p[1] = Plain("open")
      <4>1. Before(Plain("open"), up[c])[1] = Plain("open")
        BY <1>4, BeforeProperties, MessagesDiffer
      <4>. QED
        BY <4>1, <1>4 DEF Still
    <3>. QED
      BY <3>1, <3>2
  <2>3. k \in Nat /\ k <= Len(p)
    BY <2>1, <2>2
  <2>. DEFINE r == SubSeq(up[c], 1, n)
              s == SubSeq(p, 1, k)
  <2>. HIDE DEF p, k
  <2>4. r \in Seq(Message) /\ Len(r) = n /\ \A i \in 1 .. n : r[i] = up[c][i]
    <3>1. \A i \in 1 .. n : up[c][i] \in Message
      BY <1>4, <2>1, ElementOfSeq
    <3>2. /\ r \in Seq(Message) /\ Len(r) = IF 1 <= n THEN n - 1 + 1 ELSE 0
          /\ \A i \in 1 .. (n - 1 + 1) : r[i] = up[c][1 + i - 1]
      BY <2>1, <3>1, SubSeqProperties
    <3>. HIDE DEF r
    <3>. QED
      BY <3>2, <2>1
  <2>5. s \in Seq(Message) /\ Len(s) = k /\ \A i \in 1 .. k : s[i] = p[i]
    <3>1. \A i \in 1 .. k : p[i] \in Message
      BY <2>2, <2>3, ElementOfSeq
    <3>2. /\ s \in Seq(Message) /\ Len(s) = IF 1 <= k THEN k - 1 + 1 ELSE 0
          /\ \A i \in 1 .. (k - 1 + 1) : s[i] = p[1 + i - 1]
      BY <2>3, <3>1, SubSeqProperties
    <3>. HIDE DEF s
    <3>. QED
      BY <3>2, <2>3
  <2>. HIDE DEF r, s
  <2>6. Still(opening[c], r) = s
    <3>1. CASE opening[c].at = "no"
      <4>1. k = n /\ \A i \in 1 .. n : s[i] = r[i]
        BY <3>1, <2>1, <2>2, <2>4, <2>5 DEF k
      <4>2. s = r
        BY <4>1, <2>4, <2>5, SeqEqual
      <4>. QED
        BY <3>1, <4>2 DEF Still
    <3>2. CASE opening[c].at # "no"
      <4>. DEFINE b == Before(Plain("open"), r)
      <4>1. b \in Seq(Message) /\ Len(b) = n + 1 /\ b[1] = Plain("open") /\ \A i \in 1 .. n : b[i + 1] = r[i]
        BY <2>4, BeforeProperties, MessagesDiffer
      <4>. HIDE DEF b
      <4>2. k = n + 1
        BY <3>2 DEF k
      <4>3. ASSUME NEW i \in 1 .. Len(b) PROVE b[i] = s[i]
        <5>1. CASE i = 1
          <6>1. 1 \in 1 .. k
            BY <4>2, <2>1
          <6>. QED
            BY <5>1, <6>1, <3>2, <4>1, <2>2, <2>5
        <5>2. CASE i # 1
          <6>1. i - 1 \in 1 .. n /\ i - 1 \in 1 .. Len(up[c]) /\ i \in 1 .. k /\ i = (i - 1) + 1
            BY <5>2, <4>1, <4>2, <2>1
          <6>2. b[i] = r[i - 1] /\ r[i - 1] = up[c][i - 1] /\ s[i] = p[i]
            BY <6>1, <4>1, <2>4, <2>5
          <6>3. p[(i - 1) + 1] = up[c][i - 1]
            BY <6>1, <3>2, <2>2
          <6>. QED
            BY <6>1, <6>2, <6>3
        <5>. QED
          BY <5>1, <5>2
      <4>4. b = s
        BY <4>1, <4>2, <4>3, <2>5, SeqEqual
      <4>. QED
        BY <3>2, <4>4 DEF Still, b
    <3>. QED
      BY <3>1, <3>2
  <2>7. Still(opening[c], Append(r, Plain("hangup"))) = Append(Still(opening[c], r), Plain("hangup"))
    BY <2>4, StillProperties, MessagesDiffer
  <2>8. Append(r, Plain("hangup")) \in Seq(Message)
    BY <2>4, MessagesDiffer
  <2>. QED
    BY <2>1, <2>3, <2>4, <2>6, <2>7, <2>8 DEF r, s
<1>5. Orderly(q, c \in editing)
  <2>. DEFINE e == c \in editing
  <2>1. e \in BOOLEAN
    OBVIOUS
  <2>. HIDE DEF e, p, q, k
  <2>2. Orderly(p, e)
    BY <1>4 DEF e
  <2>3. Orderly(Append(SubSeq(p, 1, k), Plain("hangup")), e)
    BY <1>4, <1>4a, <2>1, <2>2, CutInOrder
  <2>. QED
    BY <2>3, <1>4a DEF e
<1>6. \A S : << >> \in Seq(S)
  OBVIOUS
<1>7. up' = [up EXCEPT ![c] = u] /\ u \in Seq(Message) /\ q = Still(opening[c], u)
  BY <1>1, <1>4a
<1>. HIDE DEF u, q
<1>. QED
  BY <1>2, <1>5, <1>6, <1>7, ClientStep

LEMMA ClientNext ==
    ASSUME GInv, NEW c \in Clients,
           AskToOpen(c) \/ MoveCursor(c) \/ CloseWindow(c) \/ Vanish(c) \/ ClientHandles(c)
    PROVE  GInv'
<1>1. /\ window = [window EXCEPT ![c] = window[c]]
      /\ lost = [lost EXCEPT ![c] = lost[c]]
      /\ Running(c) => lost[c] # "connection"
  BY ClientState
<1>2. CASE AskToOpen(c)
  <2>1. /\ Running(c) /\ Send(c, Plain("open")) /\ window[c] = "closed"
        /\ window' = [window EXCEPT ![c] = "asked"]
        /\ UNCHANGED <<docVars, editing, queue, posting, down, lost>>
    BY <1>2 DEF AskToOpen
  <2>. QED
    BY <2>1, ClickStep
<1>3. CASE MoveCursor(c)
  <2>1. /\ Running(c) /\ Send(c, Plain("move")) /\ window[c] = "shown"
        /\ window' = [window EXCEPT ![c] = "shown"]
        /\ UNCHANGED <<docVars, editing, queue, posting, down, lost>>
    BY <1>1, <1>3 DEF MoveCursor, clientVars
  <2>. QED
    BY <2>1, ClickStep
<1>4. CASE CloseWindow(c)
  <2>1. /\ Running(c) /\ Send(c, Plain("close")) /\ window[c] = "shown"
        /\ window' = [window EXCEPT ![c] = "closed"]
        /\ UNCHANGED <<docVars, editing, queue, posting, down, lost>>
    BY <1>4 DEF CloseWindow, NoWindow
  <2>. QED
    BY <2>1, ClickStep
<1>5. CASE Vanish(c)
  BY <1>5, VanishStep
<1>6. CASE NewEditor(c)
  <2>1. /\ Receive(c, "document") /\ lost[c] # "connection"
        /\ window' = [window EXCEPT ![c] = "shown"]
        /\ UNCHANGED <<docVars, editing, queue, posting, up, lost>>
    BY <1>1, <1>6 DEF NewEditor, Receive
  <2>2. lost' = [lost EXCEPT ![c] = lost[c]]
    BY <1>1, <2>1
  <2>. QED
    BY <2>1, <2>2, TakeStep
<1>6a. CASE BadDocument(c)
  <2>1. /\ Receive(c, "document")
        /\ lost' = [lost EXCEPT ![c] = "document"]
        /\ UNCHANGED <<docVars, editing, queue, posting, up, window>>
    BY <1>6a DEF BadDocument
  <2>. QED
    BY <2>1, HandledStep
<1>7. CASE NoEditor(c)
  <2>1. PICK type \in {"opened", "moved", "closed"} : Receive(c, type)
    BY <1>7 DEF NoEditor
  <2>2. /\ lost' = [lost EXCEPT ![c] = "editor"]
        /\ UNCHANGED <<docVars, editing, queue, posting, up, window>>
    BY <1>7 DEF NoEditor
  <2>. QED
    BY <2>1, <2>2, HandledStep
<1>8. CASE RemoteOpen(c)
  <2>. DEFINE l == lost[c]
  <2>1. /\ Receive(c, "opened") /\ l # "connection"
        /\ lost' = [lost EXCEPT ![c] = l]
        /\ UNCHANGED <<docVars, editing, queue, posting, up, window>>
    BY <1>1, <1>8 DEF RemoteOpen, Receive
  <2>. HIDE DEF l
  <2>. QED
    BY <2>1, HandledStep
<1>9. CASE RemoteClose(c)
  <2>. DEFINE l == IF lost' = lost THEN lost[c] ELSE "user"
  <2>1. /\ Receive(c, "closed") /\ l # "connection"
        /\ lost' = [lost EXCEPT ![c] = l]
        /\ UNCHANGED <<docVars, editing, queue, posting, up, window>>
    <3>1. lost' = lost \/ lost' = [lost EXCEPT ![c] = "user"]
      BY <1>9 DEF RemoteClose
    <3>. QED
      BY <3>1, <1>1, <1>9 DEF RemoteClose, Receive
  <2>. HIDE DEF l
  <2>. QED
    BY <2>1, HandledStep
<1>10. CASE RemoteMove(c)
  <2>1. /\ Receive(c, "moved") /\ lost[c] # "connection"
        /\ UNCHANGED <<docVars, editing, queue, posting, up, window>>
    BY <1>1, <1>10 DEF RemoteMove, Receive
  <2>2. PICK l \in {"user", "cursor", lost[c]} : lost' = [lost EXCEPT ![c] = l]
    BY <1>1, <1>10 DEF RemoteMove
  <2>. QED
    BY <2>1, <2>2, HandledStep
<1>. QED
  BY <1>2, <1>3, <1>4, <1>5, <1>6, <1>6a, <1>7, <1>8, <1>9, <1>10 DEF ClientHandles

-----------------------------------------------------------------------------
(* What a worker writes for a request: answers to its client, and the relay *)
(* to others of its own.                                                    *)
LEMMA WrittenToOthers ==
    ASSUME NEW S, NEW D \in [Clients -> Seq(S)], NEW m \in S, m.type # "document",
           NEW ed, NEW w, NEW source
    PROVE  /\ Written(D, ed, w, source, m) \in [Clients -> Seq(S)]
           /\ Written(D, ed, w, source, m)[source] = D[source] \/ source \notin Clients
           /\ \A b \in Clients : DocumentsIn(Written(D, ed, w, source, m)[b]) = DocumentsIn(D[b])
<1>1. \A b \in Clients : D[b] \in Seq(S) /\ Append(D[b], m) \in Seq(S)
                         /\ DocumentsIn(Append(D[b], m)) = DocumentsIn(D[b])
  BY OtherAnswer
<1>. QED
  BY <1>1 DEF Written

LEMMA PostsAreNoDocuments ==
    ASSUME NEW w, NEW source, NEW m, m.type # "document"
    PROVE  \E S : Posts(w, source, m) \in Seq(S) /\ \A p \in S : Post(p)
<1>. DEFINE At(i) == [to |-> IF i < w THEN i ELSE i + 1, source |-> source, message |-> m]
            n == NWorkers - 1
            S == {At(i) : i \in 1 .. n}
<1>1. Posts(w, source, m) = [i \in 1 .. n |-> At(i)]
  BY DEF Posts
<1>2. n \in Nat /\ \A i \in 1 .. n : At(i) \in S
  BY PresenceAssumption
<1>3. \A i \in 1 .. n : Post(At(i))
  BY DEF Post
<1>. HIDE DEF At, n
<1>4. [i \in 1 .. n |-> At(i)] \in Seq(S)
  <2>. HIDE DEF S
  <2>. QED
    BY <1>2
<1>5. Posts(w, source, m) \in Seq(S) /\ \A p \in S : Post(p)
  BY <1>1, <1>3, <1>4
<1>. HIDE DEF S
<1>. QED
  BY <1>5

(* The server side that all the steps of a worker preserve. *)
Kept ==
    /\ usernames \in Seq(Users)
    /\ members \subseteq Users /\ \A i \in 1 .. Len(usernames) : usernames[i] \in members
    /\ Sessions
    /\ Opens
    /\ NoGhosts

(* A step that serves the next message of client c, and nobody else's. *)
Served(c, type) ==
    /\ Pending(c) # << >>
    /\ Head(Pending(c)) = Plain(type)
    /\ Pending(c)' = Tail(Pending(c))
    /\ \A b \in Clients \ {c} : Pending(b)' = Pending(b)
    /\ up' \in [Clients -> Seq(Message)]

LEMMA ServingServes ==
    ASSUME GInv, NEW c \in Clients, NEW type, Serving(c, type), UNCHANGED opening
    PROVE  Served(c, type) /\ opening[c] = NotOpening
<1>1. /\ up[c] # << >> /\ Head(up[c]) = Plain(type) /\ up' = [up EXCEPT ![c] = Tail(@)]
      /\ opening[c] = NotOpening
  BY DEF Serving, Free
<1>2. up \in [Clients -> Seq(Message)] /\ Tail(up[c]) \in Seq(Message)
  BY <1>1, HeadTailProperties DEF GInv
<1>3. opening[c].at = "no"
  BY <1>1 DEF NotOpening, Opening
<1>4. Pending(c) = up[c] /\ Pending(c)' = Tail(up[c])
  BY <1>1, <1>2, <1>3 DEF Pending, Still
<1>5. \A b \in Clients \ {c} : Pending(b)' = Pending(b)
  BY <1>1, <1>2 DEF Pending
<1>. QED
  BY <1>1, <1>2, <1>4, <1>5 DEF Served

LEMMA ServerStep ==
    ASSUME GInv, NEW c \in Clients, NEW type \in {"open", "move", "close", "hangup"},
           Served(c, type), UNCHANGED <<window, lost>>, Kept',
           \A b \in Clients \ {c} : b \in editing' <=> b \in editing,
           type = "open" => c \in editing',
           type = "close" => c \notin editing',
           type = "move" => (c \in editing' <=> c \in editing),
           \E S : down' \in [Clients -> Seq(S)],
           \E S : /\ \A p \in S : Post(p)
                  /\ queue' \in [Workers -> Seq(S)] /\ posting' \in [Workers -> Seq(S)],
           \A b \in Clients \ {c} : DocumentsIn(down'[b]) = DocumentsIn(down[b]),
           type # "open" => DocumentsIn(down'[c]) = DocumentsIn(down[c]),
           \E k : DocumentsIn(down'[c]) \subseteq DocumentsIn(down[c]) \cup {k}
    PROVE  GInv'
<1>. DEFINE e == c \in editing
            f == c \in editing'
            q == Pending(c)
<1>1. q # << >> /\ Head(q) = Plain(type) /\ Pending(c)' = Tail(q)
  BY DEF Served
<1>2. e \in BOOLEAN /\ f \in BOOLEAN /\ Orderly(q, e)
  BY DEF GInv
<1>3. /\ Head(q) = Plain("open") => f
      /\ Head(q) = Plain("close") => ~f
      /\ Head(q) = Plain("move") => f = e
  BY <1>1, MessagesDiffer
<1>. HIDE DEF e, f, q
<1>4. Orderly(Tail(q), f) /\ Len(q) \in Nat \ {0}
  BY <1>1, <1>2, <1>3, ServedInOrder
<1>5. ASSUME Connected(c)
      PROVE  Fits(Tail(q), f, window[c], down'[c])
  <2>1. Fits(q, e, window[c], down[c])
    BY <1>5 DEF GInv, e, q
  <2>2. DocumentsIn(down[c]) = {}
    BY <2>1, <1>4 DEF Fits
  <2>3. \A i, j \in DocumentsIn(down'[c]) : i = j
    BY <2>2
  <2>4. DocumentsIn(down'[c]) # {} => Head(q) = Plain("open")
    BY <2>2, <1>1
  <2>5. (\A i \in 1 .. Len(q) : q[i] # Plain("hangup")) /\ Ends(q, e, window[c])
    BY <2>1 DEF Fits
  <2>6. q # << >>
    BY <1>1
  <2>. QED
    BY <1>2, <1>3, <2>3, <2>4, <2>5, <2>6, ServedFits
<1>7. ASSUME NEW b \in Clients
      PROVE  /\ Orderly(Pending(b)', b \in editing')
             /\ Connected(b)' => Fits(Pending(b)', b \in editing', window'[b], down'[b])
             /\ ~Connected(b)' => window'[b] = "closed"
  <2>1. Connected(b)' = Connected(b) /\ window' = window
    BY DEF Connected
  <2>2. CASE b = c
    BY <1>1, <2>1, <2>2, <1>4, <1>5 DEF f, GInv
  <2>3. CASE b # c
    <3>1. Pending(b)' = Pending(b) /\ (b \in editing') = (b \in editing) /\ DocumentsIn(down'[b]) = DocumentsIn(down[b])
      BY <2>3 DEF Served
    <3>. QED
      BY <3>1, <2>1 DEF GInv, Fits
  <2>. QED
    BY <2>2, <2>3
<1>8. window' \in [Clients -> {"closed", "asked", "shown"}] /\ \E S : lost' \in [Clients -> S]
  BY DEF GInv
<1>. QED
  BY <1>7, <1>8 DEF GInv, Kept, Served

(* A step of an open before it is answered: the message is still pending.   *)
LEMMA OpeningStep ==
    ASSUME GInv, Kept', up' \in [Clients -> Seq(Message)],
           \A b \in Clients : Pending(b)' = Pending(b),
           UNCHANGED <<editing, down, queue, posting, window, lost>>
    PROVE  GInv'
<1>1. \A b \in Clients : Connected(b)' = Connected(b)
  BY DEF Connected
<1>. QED
  BY <1>1 DEF GInv, Kept

(* The answer to a request is at most one document. *)
LEMMA RelayStep ==
    ASSUME GInv, NEW c \in Clients, NEW ed, NEW answers, NEW m, m.type # "document",
           answers = << >> \/ \E a : answers = <<a>>,
           Relay(c, ed, answers, m), UNCHANGED queue
    PROVE  /\ \E S : down' \in [Clients -> Seq(S)]
           /\ \E S : /\ \A p \in S : Post(p)
                     /\ queue' \in [Workers -> Seq(S)] /\ posting' \in [Workers -> Seq(S)]
           /\ \A b \in Clients \ {c} : DocumentsIn(down'[b]) = DocumentsIn(down[b])
           /\ answers = << >> => DocumentsIn(down'[c]) = DocumentsIn(down[c])
           /\ \E k : DocumentsIn(down'[c]) \subseteq DocumentsIn(down[c]) \cup {k}
<1>. DEFINE w == WorkerOf[c]
            D == [down EXCEPT ![c] = IF lost[c] = "connection" THEN @ ELSE @ \o answers]
<1>1. down' = Written(D, ed, w, c, m) /\ posting' = [posting EXCEPT ![w] = Posts(w, c, m)]
  BY DEF Relay
<1>2. PICK S : down \in [Clients -> Seq(S)]
  BY DEF GInv
<1>3. \E T : /\ S \cup {m} \subseteq T /\ D \in [Clients -> Seq(T)]
             /\ answers = << >> => D[c] = down[c]
             /\ \E k : DocumentsIn(D[c]) \subseteq DocumentsIn(down[c]) \cup {k}
  <2>1. CASE answers = << >> \/ lost[c] = "connection"
    <3>1. (IF lost[c] = "connection" THEN down[c] ELSE down[c] \o answers) = down[c]
      BY <2>1, <1>2
    <3>2. D[c] = down[c]
      BY <3>1, <1>2
    <3>3. D \in [Clients -> Seq(S \cup {m})]
      <4>1. \A b \in Clients : down[b] \in Seq(S \cup {m})
        BY <1>2, SeqOfMore
      <4>. QED
        BY <3>1, <4>1, <1>2
    <3>. QED
      BY <2>1, <3>2, <3>3
  <2>2. ASSUME NEW a, answers = <<a>>, lost[c] # "connection"
        PROVE  \E T : /\ S \cup {m} \subseteq T /\ D \in [Clients -> Seq(T)]
                      /\ answers = << >> => D[c] = down[c]
                      /\ \E k : DocumentsIn(D[c]) \subseteq DocumentsIn(down[c]) \cup {k}
    <3>. DEFINE T == S \cup {m, a}
    <3>1. \A b \in Clients : down[b] \in Seq(T)
      BY <1>2, SeqOfMore
    <3>2. a \in T /\ m \in T /\ S \subseteq T
      OBVIOUS
    <3>. HIDE DEF T
    <3>3. down[c] \o answers = Append(down[c], a) /\ Append(down[c], a) \in Seq(T)
      BY <2>2, <3>1, <3>2, AppendIsConcat
    <3>4. D \in [Clients -> Seq(T)] /\ D[c] = Append(down[c], a)
      BY <3>1, <3>3, <1>2, <2>2
    <3>5. DocumentsIn(D[c]) \subseteq DocumentsIn(down[c]) \cup {Len(down[c]) + 1}
      BY <3>1, <3>2, <3>4, DocumentAnswered
    <3>6. answers # << >>
      BY <2>2
    <3>. QED
      BY <3>2, <3>4, <3>5, <3>6
  <2>. QED
    BY <2>1, <2>2
<1>4. PICK T : /\ m \in T /\ D \in [Clients -> Seq(T)]
               /\ answers = << >> => D[c] = down[c]
               /\ \E k : DocumentsIn(D[c]) \subseteq DocumentsIn(down[c]) \cup {k}
  BY <1>3
<1>5. \A b \in Clients \ {c} : D[b] = down[b]
  BY <1>2
<1>. HIDE DEF D
<1>6. /\ down' \in [Clients -> Seq(T)]
      /\ \A b \in Clients : DocumentsIn(down'[b]) = DocumentsIn(D[b])
  BY <1>1, <1>4, WrittenToOthers
<1>7. \E P : /\ \A p \in P : Post(p)
             /\ queue' \in [Workers -> Seq(P)] /\ posting' \in [Workers -> Seq(P)]
  <2>1. PICK P : /\ \A p \in P : Post(p)
                 /\ queue \in [Workers -> Seq(P)] /\ posting \in [Workers -> Seq(P)]
    BY DEF GInv
  <2>2. PICK Q : Posts(w, c, m) \in Seq(Q) /\ \A p \in Q : Post(p)
    BY PostsAreNoDocuments
  <2>3. \A v \in Workers : queue[v] \in Seq(P \cup Q) /\ posting[v] \in Seq(P \cup Q)
    BY <2>1, SeqOfMore
  <2>4. Posts(w, c, m) \in Seq(P \cup Q)
    BY <2>2, SeqOfMore
  <2>5. queue' \in [Workers -> Seq(P \cup Q)] /\ posting' \in [Workers -> Seq(P \cup Q)]
    BY <1>1, <2>1, <2>3, <2>4
  <2>6. \A p \in P \cup Q : Post(p)
    BY <2>1, <2>2
  <2>. QED
    BY <2>5, <2>6
<1>. QED
  BY <1>4, <1>5, <1>6, <1>7

(* A relay leaves the posts of the workers that are opening alone. *)
LEMMA RelayApart ==
    ASSUME GInv, NEW c \in Clients, NEW ed, NEW answers, NEW m, Relay(c, ed, answers, m),
           \A d \in Clients : WorkerOf[d] = WorkerOf[c] => opening'[d].at = "no",
           \A d \in Clients \ {c} : opening'[d] = opening[d]
    PROVE  \A d \in Clients : opening'[d].at # "no" => posting'[WorkerOf[d]] = << >>
<1>. SUFFICES ASSUME NEW d \in Clients, opening'[d].at # "no" PROVE posting'[WorkerOf[d]] = << >>
  OBVIOUS
<1>1. d # c /\ opening[d].at # "no" /\ WorkerOf[d] # WorkerOf[c]
  OBVIOUS
<1>2. posting[WorkerOf[d]] = << >>
  BY <1>1 DEF GInv, Opens
<1>3. posting' = [posting EXCEPT ![WorkerOf[c]] = Posts(WorkerOf[c], c, m)] /\ WorkerOf[d] \in Workers
  BY PresenceAssumption DEF Relay, Workers
<1>4. DOMAIN posting = Workers
  BY DEF GInv
<1>. QED
  BY <1>1, <1>2, <1>3, <1>4

LEMMA AllFree ==
    ASSUME GInv, NEW c \in Clients, Free(WorkerOf[c])
    PROVE  /\ \A d \in Clients : WorkerOf[d] = WorkerOf[c] => opening[d].at = "no"
           /\ opening[c].at = "no" /\ posting[WorkerOf[c]] = << >>
BY DEF Free, NotOpening, Opening

(* Giving up a site: no other session has it. *)
LEMMA LeaveStep ==
    ASSUME GInv, NEW c \in Clients, Leave(c), Free(WorkerOf[c]), c \in editing
    PROVE  /\ Kept'
           /\ \A b \in Clients \ {c} : b \in editing' <=> b \in editing
           /\ c \notin editing'
           /\ Relay(c, editing', << >>, About("closed", sites[c]))
<1>1. /\ cursors' = cursors \ {sites[c]} /\ sites' = [sites EXCEPT ![c] = NoSite]
      /\ editing' = editing \ {c} /\ UNCHANGED <<members, usernames, opening>>
      /\ Relay(c, editing', << >>, About("closed", sites[c]))
  BY DEF Leave
<1>2. /\ Len(usernames) \in Nat /\ sites \in [Clients -> 0 .. Len(usernames)]
      /\ editing = {d \in Clients : sites[d] # NoSite /\ opening[d].at = "no"}
      /\ \A d, b \in Clients : d # b /\ sites[d] = sites[b] => sites[d] = NoSite
  BY DEF GInv, Sessions
<1>3. Sessions'
  <2>1. sites' \in [Clients -> 0 .. Len(usernames')]
    BY <1>1, <1>2 DEF NoSite
  <2>2. editing' = {d \in Clients : sites'[d] # NoSite /\ opening'[d].at = "no"}
    BY <1>1, <1>2
  <2>3. \A d, b \in Clients : d # b /\ sites'[d] = sites'[b] => sites'[d] = NoSite
    BY <1>1, <1>2
  <2>. QED
    BY <1>1, <1>2, <2>1, <2>2, <2>3 DEF Sessions
<1>4. NoGhosts'
  <2>1. cursors = {sites[d] : d \in Clients} \ {NoSite} /\ sites[c] # NoSite
    BY <1>2 DEF GInv, NoGhosts
  <2>2. \A d \in Clients \ {c} : sites[d] = sites[c] => sites[d] = NoSite
    BY <1>2
  <2>3. \A d \in Clients \ {c} : sites'[d] = sites[d]
    BY <1>1, <1>2
  <2>4. sites'[c] = NoSite
    BY <1>1, <1>2
  <2>5. cursors' = {sites'[d] : d \in Clients} \ {NoSite}
    BY <1>1, <2>1, <2>2, <2>3, <2>4
  <2>. QED
    BY <2>5 DEF NoGhosts
<1>5. Opens'
  <2>1. Opens /\ opening[c].at = "no"
    BY AllFree DEF GInv
  <2>2. \A d \in Clients : opening[d].at # "no" => d # c /\ sites'[d] = sites[d]
    BY <1>1, <1>2, <2>1
  <2>2a. \A d \in Clients : opening[d].at \in {"joined", "profiles"} => sites'[d] = NoSite
    BY <2>1, <2>2 DEF Opens
  <2>2b. \A d \in Clients : opening[d].at \in {"registered", "usernames"} => sites'[d] # NoSite
    BY <2>1, <2>2 DEF Opens
  <2>3. \A d \in Clients : opening'[d].at # "no" => posting'[WorkerOf[d]] = << >>
    BY <1>1, AllFree, RelayApart
  <2>. QED
    BY <1>1, <2>1, <2>2a, <2>2b, <2>3 DEF Opens
<1>. QED
  BY <1>1, <1>3, <1>4, <1>5 DEF GInv, Kept

LEMMA ServeNext ==
    ASSUME GInv, NEW c \in Clients, Serve(c)
    PROVE  GInv'
<1>1. /\ usernames \in Seq(Users) /\ Sessions /\ NoGhosts /\ Opens
      /\ members \subseteq Users /\ \A i \in 1 .. Len(usernames) : usernames[i] \in members
      /\ Orderly(Pending(c), c \in editing) /\ UserOf[c] \in Users
      /\ up \in [Clients -> Seq(Message)]
      /\ \E S : down \in [Clients -> Seq(S)]
      /\ \E S : /\ \A p \in S : Post(p)
                /\ queue \in [Workers -> Seq(S)] /\ posting \in [Workers -> Seq(S)]
  BY PresenceAssumption DEF GInv
<1>2. /\ Len(usernames) \in Nat /\ sites \in [Clients -> 0 .. Len(usernames)]
      /\ editing = {d \in Clients : sites[d] # NoSite /\ opening[d].at = "no"}
      /\ \A d, b \in Clients : d # b /\ sites[d] = sites[b] => sites[d] = NoSite
      /\ cursors = {sites[d] : d \in Clients} \ {NoSite}
      /\ opening \in [Clients -> [at : Stages, profiles : SUBSET Users, users : Seq(Users)]]
  BY <1>1 DEF Sessions, NoGhosts, Opens
<1>3. ASSUME NEW type, Serving(c, type)
      PROVE  /\ Legal(c \in editing, Plain(type)) /\ Free(WorkerOf[c]) /\ opening[c].at = "no"
             /\ Pending(c) = up[c] /\ posting[WorkerOf[c]] = << >>
             /\ \A d \in Clients : WorkerOf[d] = WorkerOf[c] => opening[d].at = "no"
  <2>0. /\ Free(WorkerOf[c]) /\ opening[c].at = "no" /\ posting[WorkerOf[c]] = << >>
        /\ \A d \in Clients : WorkerOf[d] = WorkerOf[c] => opening[d].at = "no"
    BY <1>3, AllFree DEF Serving
  <2>1. Pending(c) = up[c] /\ up[c] \in Seq(Message) /\ up[c] # << >> /\ Head(up[c]) = Plain(type)
    BY <1>1, <1>3, <2>0 DEF Serving, Pending, Still
  <2>2. Len(up[c]) > 0 /\ Head(up[c]) = up[c][1]
    BY <2>1
  <2>. QED
    BY <1>1, <2>0, <2>1, <2>2 DEF Orderly
<1>4. CASE ServeOpen(c)
  <2>1. /\ Serving(c, "open") /\ up' = [up EXCEPT ![c] = Tail(@)]
        /\ up[c] # << >> /\ Head(up[c]) = Plain("open")
        /\ members' = members \cup {UserOf[c]}
        /\ opening' = [opening EXCEPT ![c] = Opening("joined", {}, << >>)]
        /\ UNCHANGED <<usernames, cursors, sites, editing, down, queue, posting, window, lost>>
    BY <1>4 DEF ServeOpen, clientVars, Serving
  <2>2. c \notin editing /\ opening[c].at = "no" /\ sites[c] = NoSite
    BY <1>2, <1>3, <2>1, MessagesDiffer DEF Legal
  <2>3. Opening("joined", {}, << >>) \in [at : Stages, profiles : SUBSET Users, users : Seq(Users)]
        /\ Opening("joined", {}, << >>).at = "joined"
    BY DEF Opening, Stages
  <2>3a. opening'[c].at = "joined" /\ \A d \in Clients \ {c} : opening'[d] = opening[d]
    BY <1>2, <2>1, <2>3
  <2>4. Opens'
    <3>1. opening' \in [Clients -> [at : Stages, profiles : SUBSET Users, users : Seq(Users)]]
      BY <1>2, <2>1, <2>3
    <3>2. \A d \in Clients : opening'[d].at # "no" => posting'[WorkerOf[d]] = << >>
      BY <1>1, <1>3, <2>1, <2>3a DEF Opens
    <3>3. \A d \in Clients : WorkerOf[d] = WorkerOf[c] => opening[d].at = "no"
      BY <1>3, <2>1
    <3>4. \A b, d \in Clients : /\ opening'[b].at # "no" /\ opening'[d].at # "no"
                              /\ WorkerOf[b] = WorkerOf[d]
                              => b = d
      BY <1>1, <2>3a, <3>3 DEF Opens
    <3>. QED
      BY <1>1, <2>1, <2>2, <2>3a, <3>1, <3>2, <3>4 DEF Opens, NotOpening, Opening
  <2>5. Sessions'
    <3>1. \A d \in Clients : (sites'[d] # NoSite /\ opening'[d].at = "no")
                           <=> (sites[d] # NoSite /\ opening[d].at = "no")
      BY <2>1, <2>2, <2>3a
    <3>. QED
      BY <1>1, <2>1, <3>1 DEF Sessions
  <2>6. Kept'
    BY <1>1, <2>1, <2>4, <2>5 DEF Kept, NoGhosts
  <2>7. Pending(c)' = Pending(c)
    <3>1. up'[c] = Tail(up[c]) /\ up[c] \in Seq(Message)
      BY <1>1, <2>1
    <3>2. Before(Plain("open"), Tail(up[c])) = up[c]
      <4>. DEFINE r == Tail(up[c])
                  b == Before(Plain("open"), r)
      <4>1. /\ r \in Seq(Message) /\ Len(r) = Len(up[c]) - 1 /\ Len(up[c]) \in Nat \ {0}
            /\ \A i \in 1 .. Len(r) : r[i] = up[c][i + 1]
            /\ up[c][1] = Plain("open")
        BY <2>1, <3>1, HeadTailProperties
      <4>. HIDE DEF r
      <4>2. b \in Seq(Message) /\ Len(b) = Len(r) + 1 /\ b[1] = Plain("open")
            /\ \A i \in 1 .. Len(r) : b[i + 1] = r[i]
        BY <4>1, BeforeProperties, MessagesDiffer
      <4>. HIDE DEF b
      <4>3. ASSUME NEW i \in 1 .. Len(b) PROVE b[i] = up[c][i]
        <5>1. CASE i = 1
          BY <5>1, <4>1, <4>2
        <5>2. CASE i # 1
          <6>1. i - 1 \in 1 .. Len(r) /\ i = (i - 1) + 1
            BY <5>2, <4>1, <4>2
          <6>2. b[i] = r[i - 1] /\ r[i - 1] = up[c][i]
            BY <6>1, <4>1, <4>2
          <6>. QED
            BY <6>2
        <5>. QED
          BY <5>1, <5>2
      <4>4. b = up[c]
        BY <3>1, <4>1, <4>2, <4>3, SeqEqual
      <4>. QED
        BY <4>4 DEF b, r
    <3>. QED
      BY <1>3, <2>1, <2>3a, <3>1, <3>2 DEF Pending, Still
  <2>8. \A b \in Clients : Pending(b)' = Pending(b)
    <3>1. \A b \in Clients \ {c} : up'[b] = up[b]
      BY <1>1, <2>1
    <3>. QED
      BY <2>3a, <2>7, <3>1 DEF Pending
  <2>9. up' \in [Clients -> Seq(Message)]
    BY <1>1, <2>1, HeadTailProperties
  <2>. QED
    BY <2>1, <2>6, <2>8, <2>9, OpeningStep
<1>5. ASSUME NEW at \in Stages \ {"no"}, NEW ps \in SUBSET Users, NEW us \in Seq(Users),
             opening[c].at # "no", opening' = [opening EXCEPT ![c] = Opening(at, ps, us)],
             UNCHANGED <<members, usernames, cursors, sites, editing, up, down, queue, posting, window, lost>>,
             at \in {"joined", "profiles"} => sites[c] = NoSite,
             at \in {"registered", "usernames"} => sites[c] # NoSite
      PROVE  GInv'
  <2>1. /\ Opening(at, ps, us) \in [at : Stages, profiles : SUBSET Users, users : Seq(Users)]
        /\ Opening(at, ps, us).at = at
    BY DEF Opening
  <2>2. opening'[c].at = at /\ \A d \in Clients \ {c} : opening'[d] = opening[d]
    BY <1>2, <1>5, <2>1
  <2>3. opening' \in [Clients -> [at : Stages, profiles : SUBSET Users, users : Seq(Users)]]
    BY <1>2, <1>5, <2>1
  <2>4. \A d \in Clients : opening'[d].at # "no" <=> opening[d].at # "no"
    BY <1>5, <2>2
  <2>5. Opens'
    <3>1. /\ \A d \in Clients : opening'[d].at = "no" => opening'[d] = NotOpening
          /\ \A d \in Clients : opening'[d].at \in {"joined", "profiles"} => sites'[d] = NoSite
          /\ \A d \in Clients : opening'[d].at \in {"registered", "usernames"} => sites'[d] # NoSite
      BY <1>1, <1>5, <2>2 DEF Opens
    <3>. QED
      BY <1>1, <1>5, <2>3, <2>4, <3>1 DEF Opens
  <2>6. Sessions'
    BY <1>1, <1>5, <2>4 DEF Sessions
  <2>7. Kept'
    BY <1>1, <1>5, <2>5, <2>6 DEF Kept, NoGhosts
  <2>8. \A b \in Clients : Pending(b)' = Pending(b)
    BY <1>5, <2>4 DEF Pending, Still
  <2>. QED
    BY <1>1, <1>5, <2>7, <2>8, OpeningStep
<1>6. CASE ReadProfiles(c)
  <2>1. /\ opening[c].at = "joined" /\ opening' = [opening EXCEPT ![c] = Opening("profiles", members, << >>)]
        /\ UNCHANGED <<members, usernames, cursors, sites, editing, up, down, queue, posting, window, lost>>
    BY <1>6 DEF ReadProfiles, clientVars
  <2>2. sites[c] = NoSite /\ << >> \in Seq(Users) /\ members \in SUBSET Users /\ "profiles" \in Stages \ {"no"}
    BY <1>1, <2>1 DEF Opens, Stages
  <2>. QED
    BY <2>1, <2>2, <1>5
<1>7. CASE Register(c)
  <2>1. /\ opening[c].at = "profiles"
        /\ usernames' = Append(usernames, UserOf[c])
        /\ cursors' = cursors \cup {NextSite}
        /\ sites' = [sites EXCEPT ![c] = NextSite]
        /\ opening' = [opening EXCEPT ![c] = Opening("registered", opening[c].profiles, << >>)]
        /\ UNCHANGED <<members, editing, up, down, queue, posting, window, lost>>
    BY <1>7 DEF Register, clientVars
  <2>2. sites[c] = NoSite
    BY <1>1, <2>1 DEF Opens
  <2>3. /\ usernames' \in Seq(Users) /\ Len(usernames') = Len(usernames) + 1
        /\ NextSite = Len(usernames) + 1 /\ NextSite # NoSite
        /\ \A i \in 1 .. Len(usernames) : usernames'[i] = usernames[i]
        /\ usernames'[NextSite] = UserOf[c]
    <3>2. /\ usernames' \in Seq(Users) /\ Len(usernames') = Len(usernames) + 1
          /\ \A i \in 1 .. Len(usernames) : usernames'[i] = usernames[i]
          /\ usernames'[Len(usernames) + 1] = UserOf[c]
      BY <1>1, <2>1, AppendProperties
    <3>. QED
      BY <1>2, <3>2 DEF NextSite, NoSite
  <2>3a. /\ Opening("registered", opening[c].profiles, << >>)
               \in [at : Stages, profiles : SUBSET Users, users : Seq(Users)]
         /\ Opening("registered", opening[c].profiles, << >>).at = "registered"
    BY <1>2 DEF Opening, Stages
  <2>3b. opening'[c].at = "registered" /\ \A d \in Clients \ {c} : opening'[d] = opening[d]
    BY <1>2, <2>1, <2>3a
  <2>3c. sites'[c] = NextSite /\ \A d \in Clients \ {c} : sites'[d] = sites[d]
    BY <1>2, <2>1
  <2>4. Sessions'
    <3>1. sites' \in [Clients -> 0 .. Len(usernames')]
      BY <1>2, <2>1, <2>3
    <3>2. editing' = {d \in Clients : sites'[d] # NoSite /\ opening'[d].at = "no"}
      BY <1>2, <2>1, <2>2, <2>3b, <2>3c
    <3>3. \A d \in Clients : sites[d] # NextSite
      BY <1>2, <2>3
    <3>4. \A d, b \in Clients : d # b /\ sites'[d] = sites'[b] => sites'[d] = NoSite
      BY <1>2, <2>3c, <3>3
    <3>. QED
      BY <1>2, <2>3, <3>1, <3>2, <3>4 DEF Sessions
  <2>5. NoGhosts'
    <3>1. cursors' = {sites'[d] : d \in Clients} \ {NoSite}
      BY <1>2, <2>1, <2>2, <2>3, <2>3c
    <3>. QED
      BY <3>1 DEF NoGhosts
  <2>6. Opens'
    <3>1. opening' \in [Clients -> [at : Stages, profiles : SUBSET Users, users : Seq(Users)]]
      BY <1>2, <2>1, <2>3a
    <3>2. \A d \in Clients : opening'[d].at # "no" <=> opening[d].at # "no"
      BY <2>1, <2>3b
    <3>3. /\ \A d \in Clients : opening'[d].at = "no" => opening'[d] = NotOpening
          /\ \A d \in Clients : opening'[d].at \in {"joined", "profiles"} => sites'[d] = NoSite
          /\ \A d \in Clients : opening'[d].at \in {"registered", "usernames"} => sites'[d] # NoSite
      BY <1>1, <2>3, <2>3b, <2>3c DEF Opens
    <3>. QED
      BY <1>1, <2>1, <3>1, <3>2, <3>3 DEF Opens
  <2>7. UserOf[c] \in members
    BY <1>1, <2>1 DEF Opens
  <2>8. \A i \in 1 .. Len(usernames') : usernames'[i] \in members'
    <3>1. \A i \in 1 .. Len(usernames') : i = NextSite \/ i \in 1 .. Len(usernames)
      BY <1>2, <2>3
    <3>. QED
      BY <1>1, <2>1, <2>3, <2>7, <3>1
  <2>9. Kept'
    BY <1>1, <2>1, <2>3, <2>4, <2>5, <2>6, <2>8 DEF Kept
  <2>10. \A b \in Clients : Pending(b)' = Pending(b)
    BY <2>1, <2>3b DEF Pending, Still
  <2>. QED
    BY <1>1, <2>1, <2>9, <2>10, OpeningStep
<1>8. CASE ReadUsernames(c)
  <2>1. /\ opening[c].at = "registered"
        /\ opening' = [opening EXCEPT ![c] = Opening("usernames", opening[c].profiles, usernames)]
        /\ UNCHANGED <<members, usernames, cursors, sites, editing, up, down, queue, posting, window, lost>>
    BY <1>8 DEF ReadUsernames, clientVars
  <2>2. sites[c] # NoSite /\ opening[c].profiles \in SUBSET Users /\ "usernames" \in Stages \ {"no"}
    BY <1>1, <1>2, <2>1 DEF Opens, Stages
  <2>. QED
    BY <1>1, <2>1, <2>2, <1>5
<1>9. CASE Answer(c)
  <2>1. /\ opening[c].at = "usernames"
        /\ opening' = [opening EXCEPT ![c] = NotOpening]
        /\ editing' = editing \cup {c}
        /\ Relay(c, editing',
                 <<DocumentInfo(sites[c], opening[c].profiles, opening[c].users, cursors)>>,
                 Opened(sites[c], UserOf[c]))
        /\ UNCHANGED <<members, usernames, cursors, sites, up, queue, window, lost>>
    BY <1>9 DEF Answer, clientVars
  <2>2. sites[c] # NoSite
    BY <1>1, <2>1 DEF Opens
  <2>3. NotOpening \in [at : Stages, profiles : SUBSET Users, users : Seq(Users)] /\ NotOpening.at = "no"
    BY DEF NotOpening, Opening, Stages
  <2>4. /\ opening'[c] = NotOpening /\ opening'[c].at = "no"
        /\ \A d \in Clients \ {c} : opening'[d] = opening[d]
    BY <1>2, <2>1, <2>3
  <2>5. Sessions'
    <3>1. editing' = {d \in Clients : sites'[d] # NoSite /\ opening'[d].at = "no"}
      BY <1>2, <2>1, <2>2, <2>4
    <3>. QED
      BY <1>1, <2>1, <3>1 DEF Sessions
  <2>6. Opens'
    <3>1. opening' \in [Clients -> [at : Stages, profiles : SUBSET Users, users : Seq(Users)]]
      BY <1>2, <2>1, <2>3
    <3>2. \A d \in Clients : opening'[d].at # "no" => opening[d].at # "no"
      BY <2>4
    <3>3. \A d \in Clients : WorkerOf[d] = WorkerOf[c] => opening'[d].at = "no"
      BY <1>1, <2>1, <2>4 DEF Opens
    <3>4. \A d \in Clients : opening'[d].at # "no" => posting'[WorkerOf[d]] = << >>
      BY <2>1, <2>4, <3>3, RelayApart
    <3>5. /\ \A d \in Clients : opening'[d].at = "no" => opening'[d] = NotOpening
          /\ \A d \in Clients : opening'[d].at \in {"joined", "profiles"} => sites'[d] = NoSite
          /\ \A d \in Clients : opening'[d].at \in {"registered", "usernames"} => sites'[d] # NoSite
      BY <1>1, <2>1, <2>4 DEF Opens
    <3>. QED
      BY <1>1, <2>1, <3>1, <3>2, <3>4, <3>5 DEF Opens
  <2>7. Kept'
    BY <1>1, <2>1, <2>5, <2>6 DEF Kept, NoGhosts
  <2>8. Served(c, "open")
    <3>1. /\ Pending(c) = Still(opening[c], up[c]) /\ up[c] \in Seq(Message)
          /\ Pending(c)' = up[c]
      BY <1>1, <2>1, <2>4 DEF Pending, Still
    <3>2. Pending(c) # << >> /\ Head(Pending(c)) = Plain("open") /\ Tail(Pending(c)) = up[c]
      BY <2>1, <3>1, StillProperties
    <3>3. \A b \in Clients \ {c} : Pending(b)' = Pending(b)
      BY <2>1, <2>4 DEF Pending
    <3>. QED
      BY <1>1, <2>1, <3>1, <3>2, <3>3 DEF Served
  <2>. DEFINE answers == <<DocumentInfo(sites[c], opening[c].profiles, opening[c].users, cursors)>>
              m == Opened(sites[c], UserOf[c])
  <2>9. /\ \E a : answers = <<a>>
        /\ Relay(c, editing', answers, m) /\ m.type # "document" /\ UNCHANGED queue
    BY <2>1 DEF Opened
  <2>. HIDE DEF answers, m
  <2>10. /\ \E S : down' \in [Clients -> Seq(S)]
         /\ \E S : /\ \A p \in S : Post(p)
                   /\ queue' \in [Workers -> Seq(S)] /\ posting' \in [Workers -> Seq(S)]
         /\ \A b \in Clients \ {c} : DocumentsIn(down'[b]) = DocumentsIn(down[b])
         /\ \E k : DocumentsIn(down'[c]) \subseteq DocumentsIn(down[c]) \cup {k}
    BY <2>9, RelayStep
  <2>11. (\A b \in Clients \ {c} : b \in editing' <=> b \in editing) /\ c \in editing'
    BY <2>1
  <2>. QED
    BY <2>1, <2>7, <2>8, <2>10, <2>11, ServerStep
<1>10. CASE ServeMove(c)
  <2>1. /\ Serving(c, "move") /\ UNCHANGED <<queue, window, lost, members, usernames, sites, editing, opening>>
        /\ cursors' = cursors \cup {sites[c]}
        /\ Relay(c, editing, << >>, About("moved", sites[c]))
    BY <1>10 DEF ServeMove, clientVars
  <2>2. c \in editing /\ sites[c] # NoSite
    BY <1>2, <1>3, <2>1, MessagesDiffer DEF Legal
  <2>3. cursors' = cursors
    BY <1>2, <2>1, <2>2
  <2>3a. \A d \in Clients : opening'[d].at # "no" => posting'[WorkerOf[d]] = << >>
    BY <1>3, <2>1, RelayApart
  <2>3b. Kept'
    <3>1. Opens'
      BY <1>1, <2>1, <2>3a DEF Opens
    <3>2. usernames' = usernames /\ sites' = sites /\ editing' = editing /\ opening' = opening
      BY <2>1
    <3>3. Sessions'
      BY <1>2, <3>2 DEF Sessions
    <3>4. NoGhosts'
      BY <1>2, <2>3, <3>2 DEF NoGhosts
    <3>. QED
      BY <1>1, <2>1, <3>1, <3>3, <3>4 DEF Kept
  <2>4. About("moved", sites[c]).type # "document"
    BY DEF About
  <2>5. /\ \E S : down' \in [Clients -> Seq(S)]
        /\ \E S : /\ \A p \in S : Post(p)
                  /\ queue' \in [Workers -> Seq(S)] /\ posting' \in [Workers -> Seq(S)]
        /\ \A b \in Clients \ {c} : DocumentsIn(down'[b]) = DocumentsIn(down[b])
        /\ DocumentsIn(down'[c]) = DocumentsIn(down[c])
    BY <2>1, <2>4, RelayStep
  <2>6. \E k : DocumentsIn(down'[c]) \subseteq DocumentsIn(down[c]) \cup {k}
    BY <2>5
  <2>7. Served(c, "move")
    BY <2>1, ServingServes
  <2>. QED
    BY <2>1, <2>3b, <2>5, <2>6, <2>7, ServerStep
<1>11. ASSUME NEW type \in {"close", "hangup"}, Serving(c, type), Leave(c), c \in editing,
             UNCHANGED <<queue, window, lost>>
      PROVE  GInv'
  <2>1. /\ Kept'
        /\ \A b \in Clients \ {c} : b \in editing' <=> b \in editing
        /\ c \notin editing'
        /\ Relay(c, editing', << >>, About("closed", sites[c]))
    BY <1>3, <1>11, LeaveStep
  <2>2. About("closed", sites[c]).type # "document"
    BY DEF About
  <2>3. /\ \E S : down' \in [Clients -> Seq(S)]
        /\ \E S : /\ \A p \in S : Post(p)
                  /\ queue' \in [Workers -> Seq(S)] /\ posting' \in [Workers -> Seq(S)]
        /\ \A b \in Clients \ {c} : DocumentsIn(down'[b]) = DocumentsIn(down[b])
        /\ DocumentsIn(down'[c]) = DocumentsIn(down[c])
    BY <1>11, <2>1, <2>2, RelayStep
  <2>4. \E k : DocumentsIn(down'[c]) \subseteq DocumentsIn(down[c]) \cup {k}
    BY <2>3
  <2>5. type # "open" /\ type # "move"
    BY <1>11
  <2>6. Served(c, type)
    BY <1>11, ServingServes DEF Leave
  <2>. QED
    BY <1>11, <2>1, <2>3, <2>4, <2>5, <2>6, ServerStep
<1>12. CASE ServeClose(c)
  <2>1. Serving(c, "close") /\ Leave(c) /\ UNCHANGED <<queue, window, lost>>
    BY <1>12 DEF ServeClose, clientVars
  <2>2. c \in editing
    BY <1>3, <2>1, MessagesDiffer DEF Legal
  <2>. QED
    BY <1>11, <2>1, <2>2
<1>13. CASE ServeHangup(c)
  <2>1. Serving(c, "hangup") /\ UNCHANGED <<queue, window, lost>>
    BY <1>13 DEF ServeHangup, clientVars
  <2>2. CASE sites[c] # NoSite /\ Leave(c)
    <3>1. c \in editing
      BY <1>2, <1>3, <2>1, <2>2
    <3>. QED
      BY <1>11, <2>1, <2>2, <3>1
  <2>3. CASE sites[c] = NoSite /\ UNCHANGED <<docVars, editing, down, posting>>
    <3>1. UNCHANGED <<members, usernames, cursors, sites, opening, editing, down, posting>>
      BY <2>3 DEF docVars
    <3>2. Kept'
      BY <1>1, <3>1 DEF Kept, Sessions, NoGhosts, Opens
    <3>3. /\ \E S : down' \in [Clients -> Seq(S)]
          /\ \E S : /\ \A p \in S : Post(p)
                    /\ queue' \in [Workers -> Seq(S)] /\ posting' \in [Workers -> Seq(S)]
          /\ \A b \in Clients : DocumentsIn(down'[b]) = DocumentsIn(down[b])
          /\ \E k : DocumentsIn(down'[c]) \subseteq DocumentsIn(down[c]) \cup {k}
          /\ \A b \in Clients \ {c} : b \in editing' <=> b \in editing
      BY <1>1, <2>1, <3>1
    <3>4. Served(c, "hangup")
      BY <2>1, <3>1, ServingServes
    <3>. QED
      BY <2>1, <3>2, <3>3, <3>4, ServerStep
  <2>. QED
    BY <1>13, <2>2, <2>3 DEF ServeHangup
<1>. QED
  BY <1>4, <1>6, <1>7, <1>8, <1>9, <1>10, <1>12, <1>13 DEF Serve, OpenStep

(* The queued calls between workers. *)
LEMMA WorkerNext ==
    ASSUME GInv, NEW w \in Workers, PostNext(w) \/ Dispatch(w)
    PROVE  GInv'
<1>1. PICK P : /\ \A p \in P : Post(p)
               /\ queue \in [Workers -> Seq(P)] /\ posting \in [Workers -> Seq(P)]
  BY DEF GInv
<1>2. CASE PostNext(w)
  <2>. DEFINE p == Head(posting[w])
              n == [source |-> p.source, message |-> p.message]
              Q == P \cup {n}
  <2>1. /\ posting[w] # << >> /\ queue' = [queue EXCEPT ![p.to] = Append(@, n)]
        /\ posting' = [posting EXCEPT ![w] = Tail(@)]
        /\ UNCHANGED <<docVars, editing, up, down, clientVars>>
    BY <1>2 DEF PostNext
  <2>2. p \in P /\ Tail(posting[w]) \in Seq(P)
    BY <1>1, <2>1, HeadTailProperties
  <2>3. n.message.type # "document"
    BY <1>1, <2>2 DEF Post
  <2>4. \A x \in Q : Post(x)
    BY <1>1, <2>3 DEF Post
  <2>5. P \subseteq Q /\ n \in Q
    OBVIOUS
  <2>. HIDE DEF p, n, Q
  <2>6. \A v \in Workers : queue[v] \in Seq(Q) /\ posting[v] \in Seq(Q) /\ Append(queue[v], n) \in Seq(Q)
    BY <1>1, <2>5, SeqOfMore
  <2>7. Tail(posting[w]) \in Seq(Q)
    BY <2>2, <2>5, SeqOfMore
  <2>8. queue' \in [Workers -> Seq(Q)] /\ posting' \in [Workers -> Seq(Q)]
    BY <1>1, <2>1, <2>6, <2>7
  <2>9. \E S : /\ \A x \in S : Post(x)
               /\ queue' \in [Workers -> Seq(S)] /\ posting' \in [Workers -> Seq(S)]
    BY <2>4, <2>8
  <2>10. UNCHANGED <<members, usernames, cursors, sites, opening, editing, up, down, window, lost>>
    BY <2>1 DEF docVars, clientVars
  <2>11. \A d \in Clients : opening[d].at # "no" => posting'[WorkerOf[d]] = << >>
    <3>. SUFFICES ASSUME NEW d \in Clients, opening[d].at # "no" PROVE posting'[WorkerOf[d]] = << >>
      OBVIOUS
    <3>1. posting[WorkerOf[d]] = << >>
      BY DEF GInv, Opens
    <3>. QED
      BY <3>1, <2>1
  <2>12. Opens'
    BY <2>10, <2>11 DEF GInv, Opens
  <2>13. Sessions' /\ NoGhosts' /\ \A d \in Clients : Pending(d)' = Pending(d) /\ Connected(d)' = Connected(d)
    BY <2>10 DEF GInv, Sessions, NoGhosts, Pending, Connected
  <2>. QED
    BY <2>9, <2>10, <2>12, <2>13 DEF GInv
<1>3. CASE Dispatch(w)
  <2>. DEFINE p == Head(queue[w])
              m == p.message
  <2>1. /\ queue[w] # << >> /\ queue' = [queue EXCEPT ![w] = Tail(@)]
        /\ down' = Written(down, editing, w, p.source, m)
        /\ UNCHANGED <<docVars, editing, up, posting, clientVars>>
    BY <1>3 DEF Dispatch
  <2>2. p \in P /\ Tail(queue[w]) \in Seq(P)
    BY <1>1, <2>1, HeadTailProperties
  <2>3. m.type # "document"
    BY <1>1, <2>2 DEF Post
  <2>4. PICK S : down \in [Clients -> Seq(S)]
    BY DEF GInv
  <2>. DEFINE T == S \cup {m}
  <2>5. S \subseteq T /\ m \in T
    OBVIOUS
  <2>. HIDE DEF T, m, p
  <2>6. down \in [Clients -> Seq(T)]
    <3>1. \A b \in Clients : down[b] \in Seq(T)
      BY <2>4, <2>5, SeqOfMore
    <3>. QED
      BY <3>1, <2>4
  <2>7. /\ down' \in [Clients -> Seq(T)]
        /\ \A b \in Clients : DocumentsIn(down'[b]) = DocumentsIn(down[b])
    BY <2>1, <2>3, <2>5, <2>6, WrittenToOthers
  <2>8. queue' \in [Workers -> Seq(P)] /\ posting' \in [Workers -> Seq(P)]
    BY <1>1, <2>1, <2>2
  <2>9. /\ \E X : down' \in [Clients -> Seq(X)]
        /\ \E X : /\ \A x \in X : Post(x)
                  /\ queue' \in [Workers -> Seq(X)] /\ posting' \in [Workers -> Seq(X)]
    BY <1>1, <2>7, <2>8
  <2>10. UNCHANGED <<members, usernames, cursors, sites, opening, editing, up, posting, window, lost>>
    BY <2>1 DEF docVars, clientVars
  <2>10a. \A c \in Clients : Pending(c)' = Pending(c) /\ Connected(c)' = Connected(c)
    BY <2>10 DEF Pending, Connected
  <2>11. \A c \in Clients : Connected(c)' => Fits(Pending(c)', c \in editing', window'[c], down'[c])
    BY <2>7, <2>10, <2>10a DEF GInv, Fits
  <2>12. Opens' /\ Sessions' /\ NoGhosts'
    BY <2>10 DEF GInv, Opens, Sessions, NoGhosts
  <2>. QED
    BY <2>9, <2>10, <2>10a, <2>11, <2>12 DEF GInv
<1>. QED
  BY <1>2, <1>3

LEMMA GNext ==
    ASSUME GInv, [Next]_vars
    PROVE  GInv'
<1>1. CASE UNCHANGED vars
  <2>1. UNCHANGED <<members, usernames, cursors, sites, opening, editing, up, down, queue, posting, window, lost>>
    BY <1>1 DEF vars, docVars, clientVars
  <2>2. Kept'
    BY <2>1 DEF GInv, Kept, Sessions, Opens, NoGhosts
  <2>3. up' \in [Clients -> Seq(Message)] /\ \A b \in Clients : Pending(b)' = Pending(b)
    BY <2>1 DEF GInv, Pending
  <2>. QED
    BY <2>1, <2>2, <2>3, OpeningStep
<1>2. ASSUME NEW c \in Clients,
             AskToOpen(c) \/ MoveCursor(c) \/ CloseWindow(c) \/ Vanish(c) \/ ClientHandles(c)
      PROVE  GInv'
  BY <1>2, ClientNext
<1>3. ASSUME NEW c \in Clients, Serve(c) PROVE GInv'
  BY <1>3, ServeNext
<1>4. ASSUME NEW w \in Workers, PostNext(w) \/ Dispatch(w) PROVE GInv'
  BY <1>4, WorkerNext
<1>. QED
  BY <1>1, <1>2, <1>3, <1>4 DEF Next

(* Messages, windows and sessions stay in step, and cursors are the sites   *)
(* sessions have open.                                                      *)
THEOREM Invariance == Spec => []GInv
<1>1. GInv /\ [Next]_vars => GInv'
  BY GNext
<1>. QED
  BY <1>1, InitG, PTL DEF Spec

(* The cursors of a document are those of the sessions that have it open,   *)
(* whatever is on its way, for any number of clients, users and workers.    *)
THEOREM NobodyStaysBehind == Spec => []NoGhosts
<1>1. GInv => NoGhosts
  BY DEF GInv
<1>. QED
  BY <1>1, Invariance, PTL

-----------------------------------------------------------------------------
(* Who is known where.  Words are the messages about the site of somebody   *)
(* else; d mentions site s if a word of one of the types T is about s.      *)
Words == {"opened", "moved", "closed"}
Has(d, T, s) == \E i \in DOMAIN d : d[i].type \in T /\ d[i].site = s

(* What is on its way to worker w, in its queue or still to be posted, and  *)
(* to client c.                                                             *)
Messages(q) == [i \in DOMAIN q |-> q[i].message]
Told(w) == Messages(queue[w])
Posted(w, T, s) ==
    \E v \in Workers : \E i \in DOMAIN posting[v] :
        /\ posting[v][i].to = w
        /\ posting[v][i].message.type \in T /\ posting[v][i].message.site = s
Coming(w, T, s) == Has(Told(w), T, s) \/ Posted(w, T, s)
OnItsWay(c, T, s) == Has(down[c], T, s) \/ Coming(WorkerOf[c], T, s)

(* Client e is behind a call about site s. *)
From(e, s) ==
    \/ \E w \in Workers : \E i \in DOMAIN queue[w] :
         queue[w][i].source = e /\ queue[w][i].message.site = s
    \/ \E v \in Workers : \E i \in DOMAIN posting[v] :
         posting[v][i].source = e /\ posting[v][i].message.site = s

(* The first word about a site is that it was opened. *)
InOrder(d) ==
    \A i, j \in DOMAIN d :
        i < j /\ d[j].type = "opened" /\ d[i].type \in Words => d[i].site # d[j].site

-----------------------------------------------------------------------------
LEMMA HasAppend ==
    ASSUME NEW S, NEW d \in Seq(S), NEW m \in S
    PROVE  /\ \A T, s : Has(Append(d, m), T, s) <=> Has(d, T, s) \/ (m.type \in T /\ m.site = s)
           /\ InOrder(d) /\ (m.type = "opened" => ~Has(d, Words, m.site)) => InOrder(Append(d, m))
<1>. DEFINE r == Append(d, m)
<1>1. /\ DOMAIN d = 1 .. Len(d) /\ Len(d) \in Nat
      /\ DOMAIN r = 1 .. (Len(d) + 1)
      /\ r[Len(d) + 1] = m
      /\ \A i \in 1 .. Len(d) : r[i] = d[i]
  OBVIOUS
<1>. HIDE DEF r
<1>2. ASSUME NEW T, NEW s PROVE Has(r, T, s) <=> Has(d, T, s) \/ (m.type \in T /\ m.site = s)
  <2>1. ASSUME Has(r, T, s) PROVE Has(d, T, s) \/ (m.type \in T /\ m.site = s)
    <3>1. PICK i \in 1 .. (Len(d) + 1) : r[i].type \in T /\ r[i].site = s
      BY <1>1, <2>1 DEF Has
    <3>2. CASE i = Len(d) + 1
      BY <3>1, <3>2, <1>1
    <3>3. CASE i # Len(d) + 1
      <4>1. i \in 1 .. Len(d)
        BY <3>1, <3>3, <1>1
      <4>. QED
        BY <3>1, <4>1, <1>1 DEF Has
    <3>. QED
      BY <3>2, <3>3
  <2>2. ASSUME Has(d, T, s) PROVE Has(r, T, s)
    <3>1. PICK i \in 1 .. Len(d) : d[i].type \in T /\ d[i].site = s
      BY <1>1, <2>2 DEF Has
    <3>2. i \in 1 .. (Len(d) + 1) /\ r[i] = d[i]
      BY <1>1
    <3>. QED
      BY <3>1, <3>2, <1>1 DEF Has
  <2>3. ASSUME m.type \in T, m.site = s PROVE Has(r, T, s)
    <3>1. Len(d) + 1 \in 1 .. (Len(d) + 1)
      BY <1>1
    <3>. QED
      BY <2>3, <3>1, <1>1 DEF Has
  <2>. QED
    BY <2>1, <2>2, <2>3
<1>3. ASSUME InOrder(d), m.type = "opened" => ~Has(d, Words, m.site) PROVE InOrder(r)
  <2>. SUFFICES ASSUME NEW i \in 1 .. (Len(d) + 1), NEW j \in 1 .. (Len(d) + 1), i < j,
                       r[j].type = "opened", r[i].type \in Words
                PROVE  r[i].site # r[j].site
    BY <1>1 DEF InOrder
  <2>1. i \in 1 .. Len(d) /\ r[i] = d[i]
    BY <1>1
  <2>2. CASE j = Len(d) + 1
    BY <2>1, <2>2, <1>1, <1>3 DEF Has
  <2>3. CASE j # Len(d) + 1
    <3>1. j \in 1 .. Len(d) /\ r[j] = d[j]
      BY <1>1, <2>3
    <3>. QED
      BY <2>1, <3>1, <1>1, <1>3 DEF InOrder
  <2>. QED
    BY <2>2, <2>3
<1>. QED
  BY <1>2, <1>3 DEF r

LEMMA HasTail ==
    ASSUME NEW S, NEW d \in Seq(S), d # << >>
    PROVE  /\ \A T, s : Has(d, T, s) <=> Has(Tail(d), T, s) \/ (Head(d).type \in T /\ Head(d).site = s)
           /\ InOrder(d) => /\ InOrder(Tail(d))
                            /\ Head(d).type \in Words => ~Has(Tail(d), {"opened"}, Head(d).site)
<1>. DEFINE r == Tail(d)
<1>1. /\ Len(d) \in Nat \ {0} /\ DOMAIN d = 1 .. Len(d) /\ Head(d) = d[1] /\ 1 \in DOMAIN d
      /\ DOMAIN r = 1 .. (Len(d) - 1)
      /\ \A i \in 1 .. (Len(d) - 1) : r[i] = d[i + 1]
  BY HeadTailProperties
<1>. HIDE DEF r
<1>2. ASSUME NEW T, NEW s PROVE Has(d, T, s) <=> Has(r, T, s) \/ (d[1].type \in T /\ d[1].site = s)
  <2>1. ASSUME Has(d, T, s) PROVE Has(r, T, s) \/ (d[1].type \in T /\ d[1].site = s)
    <3>1. PICK i \in 1 .. Len(d) : d[i].type \in T /\ d[i].site = s
      BY <1>1, <2>1 DEF Has
    <3>2. CASE i = 1
      BY <3>1, <3>2
    <3>3. CASE i # 1
      <4>1. i - 1 \in 1 .. (Len(d) - 1) /\ (i - 1) + 1 = i
        BY <3>1, <3>3, <1>1
      <4>2. r[i - 1] = d[i]
        BY <4>1, <1>1
      <4>. QED
        BY <3>1, <4>1, <4>2, <1>1 DEF Has
    <3>. QED
      BY <3>2, <3>3
  <2>2. ASSUME Has(r, T, s) PROVE Has(d, T, s)
    <3>1. PICK i \in 1 .. (Len(d) - 1) : r[i].type \in T /\ r[i].site = s
      BY <1>1, <2>2 DEF Has
    <3>2. i + 1 \in 1 .. Len(d) /\ r[i] = d[i + 1]
      BY <1>1
    <3>. QED
      BY <3>1, <3>2, <1>1 DEF Has
  <2>3. ASSUME d[1].type \in T, d[1].site = s PROVE Has(d, T, s)
    BY <2>3, <1>1 DEF Has
  <2>. QED
    BY <2>1, <2>2, <2>3
<1>3. ASSUME InOrder(d) PROVE InOrder(r)
  <2>. SUFFICES ASSUME NEW i \in 1 .. (Len(d) - 1), NEW j \in 1 .. (Len(d) - 1), i < j,
                       r[j].type = "opened", r[i].type \in Words
                PROVE  r[i].site # r[j].site
    BY <1>1 DEF InOrder
  <2>1. i + 1 \in 1 .. Len(d) /\ j + 1 \in 1 .. Len(d) /\ i + 1 < j + 1
    BY <1>1
  <2>2. r[i] = d[i + 1] /\ r[j] = d[j + 1]
    BY <1>1
  <2>. QED
    BY <2>1, <2>2, <1>1, <1>3 DEF InOrder
<1>4. ASSUME InOrder(d), d[1].type \in Words PROVE ~Has(r, {"opened"}, d[1].site)
  <2>. SUFFICES ASSUME NEW i \in 1 .. (Len(d) - 1), r[i].type = "opened", r[i].site = d[1].site
                PROVE  FALSE
    BY <1>1 DEF Has
  <2>1. i + 1 \in 1 .. Len(d) /\ 1 < i + 1 /\ r[i] = d[i + 1]
    BY <1>1
  <2>. QED
    BY <2>1, <1>1, <1>4 DEF InOrder
<1>. QED
  BY <1>1, <1>2, <1>3, <1>4 DEF r

LEMMA MessagesOf ==
    ASSUME NEW S, NEW q \in Seq(S), NEW p \in S
    PROVE  /\ Messages(q) \in Seq({x.message : x \in S})
           /\ DOMAIN Messages(q) = DOMAIN q /\ \A i \in DOMAIN q : Messages(q)[i] = q[i].message
           /\ Messages(Append(q, p)) = Append(Messages(q), p.message)
           /\ q # << >> => /\ Messages(q) # << >> /\ Head(Messages(q)) = Head(q).message
                           /\ Messages(Tail(q)) = Tail(Messages(q))
<1>. DEFINE M == {x.message : x \in S}
            r == Messages(q)
<1>1. Len(q) \in Nat /\ DOMAIN q = 1 .. Len(q) /\ \A i \in 1 .. Len(q) : q[i] \in S
  BY ElementOfSeq
<1>2. \A i \in 1 .. Len(q) : q[i].message \in M
  BY <1>1
<1>3. r = [i \in 1 .. Len(q) |-> q[i].message]
  BY <1>1 DEF Messages
<1>. HIDE DEF M, r
<1>4. r \in Seq(M) /\ Len(r) = Len(q) /\ DOMAIN r = 1 .. Len(q) /\ \A i \in 1 .. Len(q) : r[i] = q[i].message
  BY <1>1, <1>2, <1>3
<1>5. Messages(Append(q, p)) = Append(r, p.message)
  <2>. DEFINE a == Append(q, p)
              b == Append(r, p.message)
  <2>1. /\ DOMAIN a = 1 .. (Len(q) + 1) /\ a[Len(q) + 1] = p /\ \A i \in 1 .. Len(q) : a[i] = q[i]
    BY <1>1
  <2>2. /\ b = [i \in 1 .. (Len(q) + 1) |-> IF i = Len(q) + 1 THEN p.message ELSE r[i]]
    BY <1>4
  <2>. HIDE DEF a, b
  <2>3. ASSUME NEW i \in 1 .. (Len(q) + 1) PROVE a[i].message = IF i = Len(q) + 1 THEN p.message ELSE r[i]
    <3>1. CASE i = Len(q) + 1
      BY <3>1, <2>1
    <3>2. CASE i # Len(q) + 1
      <4>1. i \in 1 .. Len(q)
        BY <3>2, <1>1
      <4>. QED
        BY <3>2, <4>1, <2>1, <1>4
    <3>. QED
      BY <3>1, <3>2
  <2>4. Messages(a) = [i \in 1 .. (Len(q) + 1) |-> a[i].message]
    BY <2>1 DEF Messages
  <2>5. Messages(a) = b
    BY <2>2, <2>3, <2>4
  <2>. QED
    BY <2>5 DEF a, b
<1>6. ASSUME q # << >>
      PROVE  r # << >> /\ Head(r) = Head(q).message /\ Messages(Tail(q)) = Tail(r)
  <2>. DEFINE t == Tail(q)
  <2>1. Len(q) # 0 /\ Head(q) = q[1] /\ 1 \in 1 .. Len(q)
    BY <1>1, <1>6
  <2>2. r # << >> /\ Head(r) = r[1]
    BY <1>4, <2>1
  <2>3. /\ DOMAIN t = 1 .. (Len(q) - 1) /\ \A i \in 1 .. (Len(q) - 1) : t[i] = q[i + 1]
    BY <1>6, <1>1, HeadTailProperties
  <2>4. Tail(r) = [i \in 1 .. (Len(q) - 1) |-> r[i + 1]]
    <3>. DEFINE u == Tail(r)
    <3>1. /\ u \in Seq(M) /\ Len(u) = Len(q) - 1
          /\ \A i \in 1 .. (Len(q) - 1) : u[i] = r[i + 1]
      BY <1>4, <2>2, HeadTailProperties
    <3>. HIDE DEF u
    <3>2. u = [i \in 1 .. Len(u) |-> u[i]]
      BY <3>1
    <3>. QED
      BY <3>1, <3>2 DEF u
  <2>. HIDE DEF t
  <2>5. Messages(t) = [i \in 1 .. (Len(q) - 1) |-> t[i].message]
    BY <2>3 DEF Messages
  <2>6. \A i \in 1 .. (Len(q) - 1) : t[i].message = r[i + 1]
    BY <1>1, <1>4, <2>3
  <2>7. Messages(t) = Tail(r)
    BY <2>4, <2>5, <2>6
  <2>. QED
    BY <2>1, <2>2, <2>7, <1>4 DEF t
<1>. QED
  BY <1>1, <1>4, <1>5, <1>6 DEF M, r

-----------------------------------------------------------------------------
(* A site is announced when the open that registered it is answered: until  *)
(* then it has a user and a cursor, and nobody has been told.               *)
Registered(c) == opening[c].at \in {"registered", "usernames"}
Announced(s) ==
    /\ s \in 1 .. Len(usernames)
    /\ \A c \in Clients : Registered(c) => s # sites[c]

(* A word is about a site that was announced, by the user it names; a site  *)
(* said to be closed has no cursor any more.                                *)
WordOK(m) ==
    /\ m.type \in Words
    /\ Announced(m.site)
    /\ m.type = "opened" => m.user = usernames[m.site]
    /\ m.type = "closed" => m.site \notin cursors

(* A worker has at most one call to make to each other worker, and says     *)
(* that a site was opened before it serves that client again.               *)
PostsOK(v) ==
    /\ \A i \in DOMAIN posting[v] :
         /\ posting[v][i].source \in Clients /\ WorkerOf[posting[v][i].source] = v
         /\ posting[v][i].to \in Workers \ {v}
         /\ WordOK(posting[v][i].message)
         /\ posting[v][i].message.type = "opened" => posting[v][i].message.site \in cursors
    /\ \A i, j \in DOMAIN posting[v] : posting[v][i].to = posting[v][j].to => i = j

QueueOK(w) ==
    /\ \A i \in DOMAIN queue[w] :
         /\ queue[w][i].source \in Clients /\ WorkerOf[queue[w][i].source] # w
         /\ WordOK(queue[w][i].message)
    /\ InOrder(Told(w))
    /\ \A s : Posted(w, {"opened"}, s) => ~Has(Told(w), Words, s)
    /\ \A s : Has(Told(w), {"opened"}, s) /\ s \notin cursors => Coming(w, {"closed"}, s)

(* All calls about a site come from one client, the one that has it open.   *)
OneSource ==
    /\ \A e, f \in Clients : \A s : From(e, s) /\ From(f, s) => e = f
    /\ \A e \in Clients : \A f \in editing : From(e, sites[f]) => e = f

Talk ==
    /\ \A c \in Clients : sites[c] # NoSite => usernames[sites[c]] = UserOf[c]
    /\ OneSource
    /\ \A v \in Workers : PostsOK(v)
    /\ \A w \in Workers : QueueOK(w)

-----------------------------------------------------------------------------
(* What an editor knows is true: the User of a site is that of its user,    *)
(* with or without its name.                                                *)
Rightly(f) ==
    \A s \in DOMAIN f : s \in 1 .. Len(usernames) /\ f[s] \in {User(usernames[s]), Nameless(usernames[s])}

ByName(f) == {s \in DOMAIN f : f[s].named}
Cursor(s) == <<User(usernames[s]), s>>
CursorOK(c, p) ==
    \E s \in DOMAIN known[c] :
        \/ p = Cursor(s) /\ known[c][s] = User(usernames[s])
        \/ p = <<Nameless(usernames[s]), s>>
WithCursor(c) == {s \in DOMAIN known[c] : Cursor(s) \in shown[c]}

AnyUser == {User(u) : u \in Users} \cup {Nameless(u) : u \in Users}

EditorOK(c) ==
    /\ Rightly(known[c]) /\ \A p \in shown[c] : CursorOK(c, p)
    /\ online[c] \subseteq AnyUser
    /\ window[c] = "shown" =>
         /\ \A u : User(u) \in online[c] <=> u = UserOf[c] \/ \E s \in WithCursor(c) : usernames[s] = u
         /\ c \in editing /\ mySite[c] = sites[c]
    /\ window[c] # "shown" => online[c] = {} /\ mySite[c] = NoSite

DocumentFirst(c) == down[c] # << >> /\ Head(down[c]).type = "document"

(* The users of sites that were read are right. *)
UsersOK(us) == \A s \in DOMAIN us : s \in 1 .. Len(usernames) /\ us[s] = usernames[s]
OwnNamed(c, ps, us) == UserOf[c] \in ps /\ sites[c] \in DOMAIN us

DocumentOK(c, m) ==
    /\ UsersOK(m.users) /\ OwnNamed(c, m.profiles, m.users)
    /\ c \in editing /\ m.site = sites[c] /\ m.site \in m.cursors

(* Who can be named when profiles ps and users us have been read. *)
Nameable(ps, us) == {s \in DOMAIN us : us[s] \in ps}

(* Whoever is opening leaves out only those of whom its worker will hear:   *)
(* the worker serves nothing else meanwhile.                                *)
OpenerOK(c) ==
    /\ opening[c].at \in {"profiles", "registered", "usernames"} =>
         /\ UserOf[c] \in opening[c].profiles
         /\ \A s : Announced(s) => \/ usernames[s] \in opening[c].profiles
                                 \/ Coming(WorkerOf[c], {"opened"}, s)
    /\ opening[c].at = "usernames" =>
         /\ UsersOK(opening[c].users) /\ OwnNamed(c, opening[c].profiles, opening[c].users)
         /\ \A s : Announced(s) => \/ s \in DOMAIN opening[c].users
                                 \/ Coming(WorkerOf[c], {"opened"}, s)

(* The sites an editor knows by name and those it shows; if it is still to  *)
(* be made, those it will start with.                                       *)
Base(c) == IF window[c] = "shown" THEN ByName(known[c])
           ELSE Nameable(Head(down[c]).profiles, Head(down[c]).users)
Seen(c) == IF window[c] = "shown" THEN WithCursor(c)
           ELSE Nameable(Head(down[c]).profiles, Head(down[c]).users)
                  \cap (Head(down[c]).cursors \ {Head(down[c]).site})

(* Of a site it does not know by name it will hear that it was opened;      *)
(* likewise of one that is there and that it does not show; and of one that *)
(* it shows or will show, and that is gone, that it was closed.             *)
UpToDate(c) ==
    /\ ~Has(down[c], {"opened"}, sites[c]) /\ sites[c] \notin Seen(c)
    /\ \A s : Announced(s) => s \in Base(c) \/ OnItsWay(c, {"opened"}, s)
    /\ \A s \in cursors \ {sites[c]} : Announced(s) => s \in Seen(c) \/ OnItsWay(c, {"opened"}, s)
    /\ \A s : s \notin cursors /\ (s \in Seen(c) \/ Has(down[c], {"opened"}, s)) =>
                OnItsWay(c, {"closed"}, s)

HearsInOrder(c) ==
    /\ \A i \in DOMAIN down[c] : down[c][i].type = "document" \/ WordOK(down[c][i])
    /\ InOrder(down[c])
    /\ \A s : Coming(WorkerOf[c], {"opened"}, s) => ~Has(down[c], Words, s)

Informed(c) ==
    /\ lost[c] \in {Nothing, "connection", "document", "editor", "cursor"}
    /\ EditorOK(c)
    /\ OpenerOK(c)
    /\ Connected(c) => HearsInOrder(c)
    /\ Running(c) /\ window[c] = "shown" => UpToDate(c)
    /\ Running(c) /\ DocumentFirst(c) => DocumentOK(c, Head(down[c])) /\ UpToDate(c)

-----------------------------------------------------------------------------
(* Sites keep their users. *)
NamesStay ==
    \A s \in 1 .. Len(usernames) : s \in 1 .. Len(usernames)' /\ usernames'[s] = usernames[s]

(* No site is announced or loses its cursor. *)
NamesKept ==
    /\ NamesStay
    /\ cursors \subseteq cursors'
    /\ \A s : Announced(s)' <=> Announced(s)
    /\ \A s \in cursors' : Announced(s) => s \in cursors

LEMMA SameNames ==
    ASSUME UNCHANGED <<usernames, cursors, sites, opening>>
    PROVE  NamesKept
BY DEF NamesKept, NamesStay, Announced, Registered

LEMMA WordKept ==
    ASSUME NamesKept, NEW m, WordOK(m)
    PROVE  WordOK(m)'
<1>1. Announced(m.site) /\ m.site \in 1 .. Len(usernames)
  BY DEF WordOK, Announced
<1>2. Announced(m.site)' /\ usernames'[m.site] = usernames[m.site]
  BY <1>1 DEF NamesKept, NamesStay
<1>3. m.type = "closed" => m.site \notin cursors'
  BY <1>1 DEF WordOK, NamesKept
<1>. QED
  BY <1>2, <1>3 DEF WordOK

LEMMA RightlyKept ==
    ASSUME NamesStay
    PROVE  /\ \A f : Rightly(f) => Rightly(f)'
           /\ \A f : UsersOK(f) => UsersOK(f)'
           /\ \A s \in 1 .. Len(usernames) : Cursor(s)' = Cursor(s)
<1>1. ASSUME NEW f, Rightly(f) PROVE Rightly(f)'
  BY <1>1 DEF Rightly, NamesStay
<1>2. ASSUME NEW f, UsersOK(f) PROVE UsersOK(f)'
  BY <1>2 DEF UsersOK, NamesStay
<1>3. \A s \in 1 .. Len(usernames) : Cursor(s)' = Cursor(s)
  BY DEF Cursor, NamesStay
<1>. QED
  BY <1>1, <1>2, <1>3

LEMMA OpenerKept ==
    ASSUME NEW c \in Clients, NamesStay, sites'[c] = sites[c], opening'[c] = opening[c],
           \A s : Announced(s)' => Announced(s) \/ Coming(WorkerOf[c], {"opened"}, s)',
           \A s : Coming(WorkerOf[c], {"opened"}, s) => Coming(WorkerOf[c], {"opened"}, s)',
           OpenerOK(c)
    PROVE  OpenerOK(c)'
<1>1. PICK o : o = opening[c] /\ o = opening'[c]
  OBVIOUS
<1>3. \A s : Announced(s) => usernames'[s] = usernames[s]
  BY DEF NamesStay, Announced
<1>4. UsersOK(o.users) => UsersOK(o.users)'
  BY RightlyKept
<1>5. /\ o.at \in {"profiles", "registered", "usernames"} =>
           /\ UserOf[c] \in o.profiles
           /\ \A s : Announced(s) => usernames[s] \in o.profiles \/ Coming(WorkerOf[c], {"opened"}, s)
      /\ o.at = "usernames" =>
           /\ UsersOK(o.users) /\ OwnNamed(c, o.profiles, o.users)
           /\ \A s : Announced(s) => s \in DOMAIN o.users \/ Coming(WorkerOf[c], {"opened"}, s)
  BY <1>1 DEF OpenerOK
<1>6. /\ o.at \in {"profiles", "registered", "usernames"} =>
           \A s : Announced(s)' => usernames'[s] \in o.profiles \/ Coming(WorkerOf[c], {"opened"}, s)'
      /\ o.at = "usernames" =>
           \A s : Announced(s)' => s \in DOMAIN o.users \/ Coming(WorkerOf[c], {"opened"}, s)'
  BY <1>3, <1>5
<1>7. o.at = "usernames" => UsersOK(opening[c].users)' /\ OwnNamed(c, opening[c].profiles, opening[c].users)'
  BY <1>1, <1>4, <1>5 DEF OwnNamed, UsersOK
<1>. QED
  BY <1>1, <1>5, <1>6, <1>7 DEF OpenerOK

LEMMA WithCursorKept ==
    ASSUME NEW c \in Clients, NamesStay, Rightly(known[c]), known'[c] = known[c], shown'[c] = shown[c]
    PROVE  WithCursor(c)' = WithCursor(c)
<1>1. \A s \in DOMAIN known[c] : Cursor(s)' = Cursor(s)
  BY RightlyKept DEF Rightly
<1>. QED
  BY <1>1 DEF WithCursor

LEMMA EditorStays ==
    ASSUME NEW c \in Clients, NamesStay, EditorOK(c), known'[c] = known[c], shown'[c] = shown[c],
           online'[c] = online[c], window'[c] = window[c], mySite'[c] = mySite[c],
           window[c] = "shown" => c \in editing' /\ sites'[c] = sites[c]
    PROVE  EditorOK(c)'
<1>1. PICK f : f = known[c] /\ f = known'[c]
  OBVIOUS
<1>2. Rightly(f) /\ Rightly(f)'
  BY <1>1, RightlyKept DEF EditorOK
<1>3. Rightly(known[c])'
  BY <1>1, <1>2 DEF Rightly
<1>4. \A s \in DOMAIN f : Cursor(s)' = Cursor(s) /\ usernames'[s] = usernames[s]
  BY <1>2, RightlyKept DEF NamesStay, Rightly
<1>5. WithCursor(c)' = WithCursor(c) /\ WithCursor(c) \subseteq DOMAIN f
  BY <1>1, <1>2, WithCursorKept DEF WithCursor
<1>6. ASSUME NEW p \in shown'[c] PROVE CursorOK(c, p)'
  <2>1. CursorOK(c, p)
    BY <1>6 DEF EditorOK
  <2>2. PICK s \in DOMAIN f : \/ p = Cursor(s) /\ f[s] = User(usernames[s])
                             \/ p = <<Nameless(usernames[s]), s>>
    BY <2>1, <1>1 DEF CursorOK
  <2>. QED
    BY <2>2, <1>1, <1>4 DEF CursorOK
<1>7. ASSUME window[c] = "shown"
      PROVE  \A u : User(u) \in online'[c] <=>
                       u = UserOf[c] \/ \E s \in WithCursor(c)' : usernames'[s] = u
  BY <1>4, <1>5, <1>7 DEF EditorOK
<1>. QED
  BY <1>3, <1>6, <1>7 DEF EditorOK

LEMMA InformedKept ==
    ASSUME NEW c \in Clients, NamesKept,
           sites'[c] = sites[c], c \in editing' <=> c \in editing, down'[c] = down[c],
           opening'[c] = opening[c],
           window'[c] = window[c], mySite'[c] = mySite[c], known'[c] = known[c],
           shown'[c] = shown[c], online'[c] = online[c], lost'[c] = lost[c],
           \A T, s : Coming(WorkerOf[c], T, s)' <=> Coming(WorkerOf[c], T, s),
           Informed(c)
    PROVE  Informed(c)'
<1>0. NamesStay /\ WithCursor(c)' = WithCursor(c)
  BY WithCursorKept DEF Informed, EditorOK, NamesKept
<1>1. /\ Running(c)' <=> Running(c)
      /\ Connected(c)' <=> Connected(c)
      /\ DocumentFirst(c)' <=> DocumentFirst(c)
      /\ Base(c)' = Base(c) /\ Seen(c)' = Seen(c)
      /\ \A T, s : Has(down[c], T, s)' <=> Has(down[c], T, s)
      /\ \A T, s : OnItsWay(c, T, s)' <=> OnItsWay(c, T, s)
  BY <1>0 DEF Running, Connected, DocumentFirst, Base, Seen, OnItsWay, Has
<1>2. UpToDate(c) => UpToDate(c)'
  BY <1>1 DEF UpToDate, NamesKept
<1>3. HearsInOrder(c) => HearsInOrder(c)'
  <2>. SUFFICES ASSUME HearsInOrder(c) PROVE HearsInOrder(c)'
    OBVIOUS
  <2>1. (\A i \in DOMAIN down[c] : down[c][i].type = "document" \/ WordOK(down[c][i]))'
    <3>. SUFFICES ASSUME NEW i \in DOMAIN down'[c], down'[c][i].type # "document"
                  PROVE  WordOK(down[c][i])'
      OBVIOUS
    <3>1. PICK m : m = down[c][i] /\ m = down'[c][i]
      OBVIOUS
    <3>2. WordOK(m)
      BY <3>1 DEF HearsInOrder
    <3>3. WordOK(m)'
      BY <3>2, WordKept
    <3>. QED
      BY <3>1, <3>3 DEF WordOK
  <2>2. InOrder(down[c])'
    BY DEF HearsInOrder, InOrder
  <2>3. (\A s : Coming(WorkerOf[c], {"opened"}, s) => ~Has(down[c], Words, s))'
    BY <1>1 DEF HearsInOrder
  <2>. QED
    BY <2>1, <2>2, <2>3 DEF HearsInOrder
<1>4. EditorOK(c) => EditorOK(c)'
  BY <1>0, EditorStays, Zenon DEF EditorOK
<1>5. DocumentOK(c, Head(down[c])) => DocumentOK(c, Head(down[c]))'
  <2>. SUFFICES ASSUME DocumentOK(c, Head(down[c])) PROVE DocumentOK(c, Head(down[c]))'
    OBVIOUS
  <2>1. PICK m : m = Head(down[c]) /\ m = Head(down'[c])
    OBVIOUS
  <2>2. PICK us : us = m.users
    OBVIOUS
  <2>3. UsersOK(us)'
    BY <2>1, <2>2, <1>0, RightlyKept DEF DocumentOK
  <2>. QED
    BY <2>1, <2>2, <2>3 DEF DocumentOK, UsersOK, OwnNamed
<1>6. OpenerOK(c) => OpenerOK(c)'
  BY OpenerKept DEF NamesKept
<1>. QED
  BY <1>1, <1>2, <1>3, <1>4, <1>5, <1>6 DEF Informed

-----------------------------------------------------------------------------
(* Worker w makes its next call p. *)
Calling(w, p) ==
    /\ p.source \in Clients /\ WorkerOf[p.source] = w
    /\ p.to \in Workers \ {w}
    /\ WordOK(p.message) /\ (p.message.type = "opened" => p.message.site \in cursors)
    /\ queue'[p.to] = Append(queue[p.to], [source |-> p.source, message |-> p.message])
    /\ \A x \in Workers \ {p.to} : queue'[x] = queue[x]
    /\ posting'[w] = Tail(posting[w]) /\ posting[w] # << >> /\ p = posting[w][1]
    /\ \A x \in Workers \ {w} : posting'[x] = posting[x]
    /\ \A i \in DOMAIN posting'[w] :
         /\ i + 1 \in DOMAIN posting[w] /\ posting'[w][i] = posting[w][i + 1]
         /\ posting'[w][i].to # p.to
    /\ DOMAIN posting'[w] \subseteq Nat
    /\ Told(p.to)' = Append(Told(p.to), p.message)
    /\ \A x \in Workers \ {p.to} : Told(x)' = Told(x)
    /\ \E M : Told(p.to) \in Seq(M) /\ p.message \in M

LEMMA CallMade ==
    ASSUME GInv, NEW w \in Workers, PostNext(w), PostsOK(w)
    PROVE  \E p : Calling(w, p)
<1>0. PICK p : p = posting[w][1]
  OBVIOUS
<1>1. PICK S : queue \in [Workers -> Seq(S)] /\ posting \in [Workers -> Seq(S)]
  BY DEF GInv
<1>. DEFINE n == [source |-> p.source, message |-> p.message]
            r == posting[w]
<1>2. /\ r # << >> /\ queue' = [queue EXCEPT ![p.to] = Append(@, n)]
      /\ posting' = [posting EXCEPT ![w] = Tail(r)]
  <2>1. r # << >> /\ Head(r) = p
    BY <1>0, <1>1 DEF PostNext
  <2>. QED
    BY <2>1 DEF PostNext
<1>3. /\ r \in Seq(S) /\ p = r[1] /\ DOMAIN r = 1 .. Len(r) /\ Len(r) \in Nat \ {0} /\ 1 \in DOMAIN r
      /\ DOMAIN Tail(r) = 1 .. (Len(r) - 1) /\ \A i \in 1 .. (Len(r) - 1) : Tail(r)[i] = r[i + 1]
  BY <1>0, <1>1, <1>2, HeadTailProperties
<1>4. /\ p.source \in Clients /\ WorkerOf[p.source] = w
      /\ p.to \in Workers \ {w}
      /\ WordOK(p.message) /\ (p.message.type = "opened" => p.message.site \in cursors)
  BY <1>3 DEF PostsOK
<1>5. /\ queue'[p.to] = Append(queue[p.to], n) /\ \A x \in Workers \ {p.to} : queue'[x] = queue[x]
      /\ posting'[w] = Tail(r) /\ \A x \in Workers \ {w} : posting'[x] = posting[x]
  BY <1>1, <1>2, <1>4
<1>6. ASSUME NEW i \in DOMAIN Tail(r)
      PROVE  i + 1 \in DOMAIN r /\ Tail(r)[i] = r[i + 1] /\ Tail(r)[i].to # p.to
  <2>1. i \in 1 .. (Len(r) - 1)
    BY <1>3
  <2>2. i + 1 \in DOMAIN r /\ i + 1 # 1 /\ Tail(r)[i] = r[i + 1]
    BY <2>1, <1>3
  <2>3. r[i + 1].to # r[1].to
    BY <2>2, <1>3 DEF PostsOK
  <2>. QED
    BY <2>2, <2>3, <1>3
<1>7. \A x \in Workers \ {p.to} : Told(x)' = Told(x)
  BY <1>5 DEF Told
<1>8. /\ Told(p.to)' = Append(Told(p.to), n.message)
      /\ \E M : Told(p.to) \in Seq(M) /\ n.message \in M
  <2>. DEFINE T == S \cup {n}
              q == queue[p.to]
  <2>1. q \in Seq(S) /\ S \subseteq T /\ n \in T
    BY <1>1, <1>4
  <2>2. queue'[p.to] = Append(q, n)
    BY <1>5
  <2>3. Told(p.to)' = Messages(queue'[p.to]) /\ Told(p.to) = Messages(q)
    BY DEF Told
  <2>. HIDE DEF T, q, n
  <2>4. q \in Seq(T)
    BY <2>1, SeqOfMore
  <2>5. Messages(q) \in Seq({x.message : x \in T}) /\ Messages(Append(q, n)) = Append(Messages(q), n.message)
    BY <2>1, <2>4, MessagesOf
  <2>6. n.message \in {x.message : x \in T}
    BY <2>1
  <2>. QED
    BY <2>2, <2>3, <2>5, <2>6
<1>9. n.message = p.message
  OBVIOUS
<1>10. DOMAIN Tail(r) \subseteq Nat
  BY <1>3
<1>11. Calling(w, p)
  BY <1>2, <1>3, <1>4, <1>5, <1>6, <1>7, <1>8, <1>9, <1>10 DEF Calling
<1>. QED
  BY <1>11

(* What is coming to a worker stays the same. *)
LEMMA CallComing ==
    ASSUME GInv, NEW w \in Workers, NEW p, Calling(w, p)
    PROVE  /\ \A x \in Workers : \A T, s :
                /\ Posted(x, T, s) <=>
                     \/ Posted(x, T, s)'
                     \/ x = p.to /\ p.message.type \in T /\ p.message.site = s
                /\ Has(Told(x), T, s)' <=>
                     \/ Has(Told(x), T, s)
                     \/ x = p.to /\ p.message.type \in T /\ p.message.site = s
                /\ Coming(x, T, s)' <=> Coming(x, T, s)
           /\ \A e, s : From(e, s)' => From(e, s)
<1>1. /\ p.source \in Clients /\ WorkerOf[p.source] = w
      /\ p.to \in Workers \ {w}
      /\ queue'[p.to] = Append(queue[p.to], [source |-> p.source, message |-> p.message])
      /\ \A x \in Workers \ {p.to} : queue'[x] = queue[x]
      /\ posting'[w] = Tail(posting[w]) /\ posting[w] # << >>
      /\ \A x \in Workers \ {w} : posting'[x] = posting[x]
      /\ \A i \in DOMAIN posting'[w] :
           i + 1 \in DOMAIN posting[w] /\ posting'[w][i] = posting[w][i + 1]
      /\ Told(p.to)' = Append(Told(p.to), p.message)
      /\ \A x \in Workers \ {p.to} : Told(x)' = Told(x)
      /\ \E M : Told(p.to) \in Seq(M) /\ p.message \in M
      /\ p = posting[w][1]
  BY DEF Calling
<1>. DEFINE r == posting[w]
            t == Tail(r)
<1>2. PICK S : queue \in [Workers -> Seq(S)] /\ posting \in [Workers -> Seq(S)]
  BY DEF GInv
<1>3. /\ r \in Seq(S) /\ r # << >> /\ p = r[1] /\ DOMAIN r = 1 .. Len(r) /\ Len(r) \in Nat \ {0}
      /\ DOMAIN t = 1 .. (Len(r) - 1) /\ \A i \in 1 .. (Len(r) - 1) : t[i] = r[i + 1]
  BY <1>1, <1>2, HeadTailProperties
<1>4. posting'[w] = t
  BY <1>1
<1>. HIDE DEF r, t
<1>5. ASSUME NEW x, NEW T, NEW s
      PROVE  Posted(x, T, s) <=>
               Posted(x, T, s)' \/ (x = p.to /\ p.message.type \in T /\ p.message.site = s)
  <2>. DEFINE Says(y) == y.to = x /\ y.message.type \in T /\ y.message.site = s
  <2>1. Posted(x, T, s) <=> \E v \in Workers : \E i \in DOMAIN posting[v] : Says(posting[v][i])
    BY DEF Posted
  <2>2. Posted(x, T, s)' <=> \E v \in Workers : \E i \in DOMAIN posting'[v] : Says(posting'[v][i])
    BY DEF Posted
  <2>3. Says(p) <=> (x = p.to /\ p.message.type \in T /\ p.message.site = s)
    OBVIOUS
  <2>. HIDE DEF Says
  <2>4. (\E i \in DOMAIN r : Says(r[i])) <=> Says(p) \/ \E i \in DOMAIN t : Says(t[i])
    <3>1. ASSUME NEW i \in DOMAIN r, Says(r[i]), i # 1 PROVE \E j \in DOMAIN t : Says(t[j])
      <4>1. i - 1 \in 1 .. (Len(r) - 1) /\ (i - 1) + 1 = i
        BY <1>3, <3>1
      <4>2. t[i - 1] = r[i]
        BY <4>1, <1>3
      <4>. QED
        BY <3>1, <4>1, <4>2, <1>3
    <3>2. ASSUME NEW i \in DOMAIN t, Says(t[i]) PROVE \E j \in DOMAIN r : Says(r[j])
      <4>1. i + 1 \in DOMAIN r /\ t[i] = r[i + 1]
        BY <1>3
      <4>. QED
        BY <3>2, <4>1
    <3>3. 1 \in DOMAIN r /\ r[1] = p
      BY <1>3
    <3>. QED
      BY <3>1, <3>2, <3>3
  <2>5. posting[w] = r /\ posting'[w] = t
    BY <1>4 DEF r
  <2>. QED
    BY <2>1, <2>2, <2>3, <2>4, <2>5, <1>1
<1>6. ASSUME NEW x \in Workers, NEW T, NEW s
      PROVE  Has(Told(x), T, s)' <=>
               Has(Told(x), T, s) \/ (x = p.to /\ p.message.type \in T /\ p.message.site = s)
  <2>1. CASE x = p.to
    <3>. DEFINE d == Told(x)
                e == Told(x)'
    <3>1. PICK M : d \in Seq(M) /\ p.message \in M
      BY <1>1, <2>1
    <3>2. e = Append(d, p.message)
      BY <1>1, <2>1
    <3>3. Has(Told(x), T, s)' <=> Has(e, T, s)
      BY DEF Has
    <3>. HIDE DEF d, e
    <3>4. Has(e, T, s) <=> Has(d, T, s) \/ (p.message.type \in T /\ p.message.site = s)
      BY <3>1, <3>2, HasAppend
    <3>. QED
      BY <2>1, <3>3, <3>4 DEF d
  <2>2. CASE x # p.to
    BY <2>2, <1>1 DEF Has
  <2>. QED
    BY <2>1, <2>2
<1>7. ASSUME NEW x \in Workers, NEW T, NEW s PROVE Coming(x, T, s)' <=> Coming(x, T, s)
  BY <1>5, <1>6 DEF Coming
<1>8. ASSUME NEW e, NEW s, From(e, s)' PROVE From(e, s)
  <2>. DEFINE n == [source |-> p.source, message |-> p.message]
              Says(y) == y.source = e /\ y.message.site = s
  <2>1. From(e, s) <=>
          \/ \E x \in Workers : \E i \in DOMAIN queue[x] : Says(queue[x][i])
          \/ \E v \in Workers : \E i \in DOMAIN posting[v] : Says(posting[v][i])
    BY DEF From
  <2>2. \/ \E x \in Workers : \E i \in DOMAIN queue'[x] : Says(queue'[x][i])
        \/ \E v \in Workers : \E i \in DOMAIN posting'[v] : Says(posting'[v][i])
    BY <1>8 DEF From
  <2>3. Says(n) => Says(p)
    OBVIOUS
  <2>4. queue'[p.to] = Append(queue[p.to], n)
    BY <1>1
  <2>. HIDE DEF Says, n
  <2>5. 1 \in DOMAIN r /\ r[1] = p /\ posting[w] = r /\ posting'[w] = t
    BY <1>3, <1>4 DEF r
  <2>6. ASSUME NEW x \in Workers, NEW i \in DOMAIN queue'[x], Says(queue'[x][i]) PROVE From(e, s)
    <3>1. CASE x # p.to
      BY <3>1, <2>6, <2>1, <1>1
    <3>2. CASE x = p.to
      <4>. DEFINE q == queue[x]
      <4>1. q \in Seq(S)
        BY <1>2
      <4>2. queue'[x] = Append(q, n)
        BY <2>4, <3>2
      <4>. HIDE DEF q
      <4>3. DOMAIN Append(q, n) = 1 .. (Len(q) + 1) /\ Append(q, n)[Len(q) + 1] = n
            /\ Len(q) \in Nat /\ DOMAIN q = 1 .. Len(q) /\ \A j \in 1 .. Len(q) : Append(q, n)[j] = q[j]
        BY <4>1
      <4>4. CASE i = Len(q) + 1
        BY <4>2, <4>3, <4>4, <2>6, <2>3, <2>5, <2>1
      <4>5. CASE i # Len(q) + 1
        <5>1. i \in DOMAIN q /\ queue'[x][i] = q[i]
          BY <4>2, <4>3, <4>5
        <5>2. Says(queue[x][i]) /\ i \in DOMAIN queue[x]
          BY <5>1, <2>6 DEF q
        <5>. QED
          BY <5>2, <2>1
      <4>. QED
        BY <4>4, <4>5
    <3>. QED
      BY <3>1, <3>2
  <2>7. ASSUME NEW v \in Workers, NEW i \in DOMAIN posting'[v], Says(posting'[v][i]) PROVE From(e, s)
    <3>1. CASE v = w
      <4>1. i + 1 \in DOMAIN posting[w] /\ Says(posting[w][i + 1])
        BY <3>1, <2>7, <1>1
      <4>. QED
        BY <4>1, <2>1
    <3>2. CASE v # w
      <4>1. posting'[v] = posting[v]
        BY <3>2, <1>1
      <4>. QED
        BY <4>1, <2>7, <2>1
    <3>. QED
      BY <3>1, <3>2
  <2>. QED
    BY <2>2, <2>6, <2>7
<1>. QED
  BY <1>5, <1>6, <1>7, <1>8

LEMMA TalkPost ==
    ASSUME GInv, Talk, NEW w \in Workers, PostNext(w)
    PROVE  Talk'
<1>1. PICK p : Calling(w, p)
  BY CallMade DEF Talk
<1>2. /\ p.source \in Clients /\ WorkerOf[p.source] = w
      /\ p.to \in Workers \ {w}
      /\ WordOK(p.message) /\ (p.message.type = "opened" => p.message.site \in cursors)
      /\ queue'[p.to] = Append(queue[p.to], [source |-> p.source, message |-> p.message])
      /\ \A x \in Workers \ {p.to} : queue'[x] = queue[x]
      /\ posting[w] # << >> /\ p = posting[w][1]
      /\ \A x \in Workers \ {w} : posting'[x] = posting[x]
      /\ \A i \in DOMAIN posting'[w] :
           /\ i + 1 \in DOMAIN posting[w] /\ posting'[w][i] = posting[w][i + 1]
           /\ posting'[w][i].to # p.to
      /\ DOMAIN posting'[w] \subseteq Nat
      /\ Told(p.to)' = Append(Told(p.to), p.message)
      /\ \A x \in Workers \ {p.to} : Told(x)' = Told(x)
      /\ \E M : Told(p.to) \in Seq(M) /\ p.message \in M
  BY <1>1 DEF Calling
<1>3. /\ \A x \in Workers : \A T, s :
           /\ Posted(x, T, s) <=>
                \/ Posted(x, T, s)'
                \/ x = p.to /\ p.message.type \in T /\ p.message.site = s
           /\ Has(Told(x), T, s)' <=>
                \/ Has(Told(x), T, s)
                \/ x = p.to /\ p.message.type \in T /\ p.message.site = s
           /\ Coming(x, T, s)' <=> Coming(x, T, s)
      /\ \A e, s : From(e, s)' => From(e, s)
  BY <1>1, CallComing
<1>4. UNCHANGED <<usernames, cursors, sites, editing>> /\ NamesKept
  BY SameNames DEF PostNext, docVars
<1>5. \A m : WordOK(m) => WordOK(m)'
  BY <1>4, WordKept
<1>6. (\A c \in Clients : sites[c] # NoSite => usernames[sites[c]] = UserOf[c])'
  BY <1>4 DEF Talk
<1>7. OneSource'
  BY <1>3, <1>4 DEF Talk, OneSource
<1>8. ASSUME NEW v \in Workers PROVE PostsOK(v)'
  <2>1. PostsOK(v)
    BY DEF Talk
  <2>2. CASE v # w
    BY <2>1, <2>2, <1>2, <1>4, <1>5 DEF PostsOK
  <2>3. CASE v = w
    <3>1. ASSUME NEW i \in DOMAIN posting'[v]
          PROVE  /\ posting'[v][i].source \in Clients /\ WorkerOf[posting'[v][i].source] = v
                 /\ posting'[v][i].to \in Workers \ {v}
                 /\ posting'[v][i].message.type = "opened" => posting'[v][i].message.site \in cursors
      BY <2>1, <2>3, <1>2 DEF PostsOK
    <3>2. (\A i \in DOMAIN posting[v] : WordOK(posting[v][i].message))'
      BY <2>1, <2>3, <1>2, <1>5 DEF PostsOK
    <3>3. ASSUME NEW i \in DOMAIN posting'[v], NEW j \in DOMAIN posting'[v],
                 posting'[v][i].to = posting'[v][j].to
          PROVE  i = j
      <4>1. i + 1 = j + 1
        BY <2>1, <2>3, <3>3, <1>2 DEF PostsOK
      <4>2. i \in Nat /\ j \in Nat
        BY <2>3, <1>2
      <4>. QED
        BY <4>1, <4>2
    <3>. QED
      BY <3>1, <3>2, <3>3, <1>4 DEF PostsOK
  <2>. QED
    BY <2>2, <2>3
<1>9. ASSUME NEW x \in Workers PROVE QueueOK(x)'
  <2>1. QueueOK(x)
    BY DEF Talk
  <2>2. CASE x # p.to
    <3>1. (\A i \in DOMAIN queue[x] :
             /\ queue[x][i].source \in Clients /\ WorkerOf[queue[x][i].source] # x
             /\ WordOK(queue[x][i].message))'
      BY <2>1, <2>2, <1>2, <1>5 DEF QueueOK
    <3>2. InOrder(Told(x))'
      BY <2>1, <2>2, <1>2 DEF QueueOK, InOrder
    <3>3. (\A s : Posted(x, {"opened"}, s) => ~Has(Told(x), Words, s))'
      BY <2>1, <2>2, <1>3 DEF QueueOK
    <3>4. (\A s : Has(Told(x), {"opened"}, s) /\ s \notin cursors => Coming(x, {"closed"}, s))'
      BY <2>1, <2>2, <1>3, <1>4 DEF QueueOK
    <3>. QED
      BY <3>1, <3>2, <3>3, <3>4 DEF QueueOK
  <2>3. CASE x = p.to
    <3>1. (\A i \in DOMAIN queue[x] :
             /\ queue[x][i].source \in Clients /\ WorkerOf[queue[x][i].source] # x
             /\ WordOK(queue[x][i].message))'
      <4>. DEFINE q == queue[x]
                  n == [source |-> p.source, message |-> p.message]
      <4>1. PICK S : q \in Seq(S)
        BY DEF GInv
      <4>2. queue'[x] = Append(q, n)
        BY <1>2, <2>3
      <4>3. n.source \in Clients /\ WorkerOf[n.source] # x /\ WordOK(n.message)'
        BY <1>2, <1>5, <2>3
      <4>4. \A i \in DOMAIN q :
              q[i].source \in Clients /\ WorkerOf[q[i].source] # x /\ WordOK(q[i].message)
        BY <2>1 DEF QueueOK
      <4>. HIDE DEF q, n
      <4>5. ASSUME NEW i \in DOMAIN Append(q, n)
            PROVE  Append(q, n)[i] = n \/ (i \in DOMAIN q /\ Append(q, n)[i] = q[i])
        BY <4>1
      <4>. DEFINE OK(y) == y.source \in Clients /\ WorkerOf[y.source] # x
      <4>6. \A i \in DOMAIN Append(q, n) : OK(Append(q, n)[i])
        BY <4>3, <4>4, <4>5
      <4>7. \A i \in DOMAIN queue'[x] : OK(queue'[x][i])
        BY <4>2, <4>6
      <4>8. ASSUME NEW i \in DOMAIN queue'[x] 
            PROVE  \E m : m = queue'[x][i].message /\ WordOK(m)'
        <5>1. CASE queue'[x][i] = n
          <6>1. PICK m : m = p.message
            OBVIOUS
          <6>2. m = n.message
            BY <6>1 DEF n
          <6>. QED
            BY <6>1, <6>2, <5>1, <1>2, <1>5
        <5>2. CASE i \in DOMAIN q /\ queue'[x][i] = q[i]
          <6>1. PICK m : m = q[i].message
            OBVIOUS
          <6>2. WordOK(m)
            BY <4>4, <5>2, <6>1
          <6>. QED
            BY <6>1, <6>2, <5>2, <1>5
        <5>. QED
          BY <5>1, <5>2, <4>2, <4>5
      <4>. QED
        BY <4>7, <4>8
    <3>2. InOrder(Told(x))'
      <4>1. p.message.type = "opened" => ~Has(Told(x), Words, p.message.site)
        BY <2>1, <2>3, <1>3 DEF QueueOK
      <4>. DEFINE d == Told(x)
      <4>2. InOrder(d) /\ (p.message.type = "opened" => ~Has(d, Words, p.message.site))
        BY <2>1, <4>1 DEF QueueOK
      <4>3. PICK M : d \in Seq(M) /\ p.message \in M
        BY <1>2, <2>3
      <4>4. Told(x)' = Append(d, p.message)
        BY <1>2, <2>3
      <4>. HIDE DEF d
      <4>5. InOrder(Append(d, p.message))
        BY <4>2, <4>3, HasAppend
      <4>. QED
        BY <4>4, <4>5 DEF InOrder
    <3>3. (\A s : Posted(x, {"opened"}, s) => ~Has(Told(x), Words, s))'
      <4>. SUFFICES ASSUME NEW s, Posted(x, {"opened"}, s)' PROVE ~Has(Told(x), Words, s)'
        OBVIOUS
      <4>1. Posted(x, {"opened"}, s) /\ ~Has(Told(x), Words, s)
        BY <2>1, <1>3 DEF QueueOK
      <4>2. p.message.site # s
        <5>. SUFFICES ASSUME p.message.site = s PROVE FALSE
          OBVIOUS
        <5>0. PICK v \in Workers : \E i \in DOMAIN posting'[v] :
                posting'[v][i].to = x /\ posting'[v][i].message.site = s
          BY DEF Posted
        <5>1. PICK i \in DOMAIN posting'[v] :
                posting'[v][i].to = x /\ posting'[v][i].message.site = s
          BY <5>0
        <5>2. PICK e : e = posting'[v][i].source
          OBVIOUS
        <5>3. e \in Clients /\ WorkerOf[e] = v /\ From(e, s)
          <6>1. From(e, s)'
            BY <5>1, <5>2 DEF From
          <6>2. e \in Clients /\ WorkerOf[e] = v
            BY <5>1, <5>2, <1>8 DEF PostsOK
          <6>. QED
            BY <6>1, <6>2, <1>3
        <5>4. From(p.source, s)
          <6>1. posting[w][1] = p /\ 1 \in DOMAIN posting[w]
            BY <1>2 DEF GInv
          <6>. QED
            BY <6>1 DEF From
        <5>5. v = w
          BY <5>3, <5>4, <1>2 DEF Talk, OneSource
        <5>. QED
          BY <5>1, <5>5, <2>3, <1>2
      <4>. QED
        BY <4>1, <4>2, <1>3
    <3>4. (\A s : Has(Told(x), {"opened"}, s) /\ s \notin cursors => Coming(x, {"closed"}, s))'
      <4>. SUFFICES ASSUME NEW s, Has(Told(x), {"opened"}, s)', s \notin cursors
                    PROVE  Coming(x, {"closed"}, s)'
        BY <1>4
      <4>1. Has(Told(x), {"opened"}, s)
        BY <1>2, <1>3
      <4>. QED
        BY <4>1, <2>1, <1>3 DEF QueueOK
    <3>. QED
      BY <3>1, <3>2, <3>3, <3>4 DEF QueueOK
  <2>. QED
    BY <2>2, <2>3
<1>. QED
  BY <1>6, <1>7, <1>8, <1>9 DEF Talk

-----------------------------------------------------------------------------
(* The word m tells what changes in the document in this step.              *)
Spoken(m) ==
    /\ \A s : Announced(s)' => Announced(s) \/ (m.type = "opened" /\ m.site = s)
    /\ \A s \in cursors' : Announced(s) => s \in cursors
    /\ \A s \in cursors : s \in cursors' \/ (m.type = "closed" /\ m.site = s)

(* A client hears word m now or later.                                      *)
LEMMA StillUpToDate ==
    ASSUME NEW c \in Clients, NEW m, UpToDate(c), sites'[c] = sites[c],
           Base(c)' = Base(c), Seen(c)' = Seen(c),
           \A T, s : OnItsWay(c, T, s)' <=> OnItsWay(c, T, s) \/ (m.type \in T /\ m.site = s),
           Spoken(m),
           \A s : Has(down[c], {"opened"}, s)' =>
                    \/ Has(down[c], {"opened"}, s)
                    \/ /\ m.type = "opened" /\ m.site = s
                       /\ s \in cursors' \/ OnItsWay(c, {"closed"}, s)',
           m.type = "opened" => m.site # sites[c]
    PROVE  UpToDate(c)'
<1>1. /\ ~Has(down[c], {"opened"}, sites[c]) /\ sites[c] \notin Seen(c)
      /\ \A s : Announced(s) => s \in Base(c) \/ OnItsWay(c, {"opened"}, s)
      /\ \A s \in cursors \ {sites[c]} : Announced(s) => s \in Seen(c) \/ OnItsWay(c, {"opened"}, s)
      /\ \A s : s \notin cursors /\ (s \in Seen(c) \/ Has(down[c], {"opened"}, s)) =>
                  OnItsWay(c, {"closed"}, s)
  BY DEF UpToDate
<1>2. (~Has(down[c], {"opened"}, sites[c]) /\ sites[c] \notin Seen(c))'
  <2>1. PICK s : s = sites[c]
    OBVIOUS
  <2>2. ~Has(down[c], {"opened"}, s)'
    BY <1>1, <2>1
  <2>3. (s = sites[c])'
    BY <2>1
  <2>. QED
    BY <1>1, <2>1, <2>2, <2>3
<1>3. (\A s : Announced(s) => s \in Base(c) \/ OnItsWay(c, {"opened"}, s))'
  BY <1>1 DEF Spoken
<1>4. (\A s \in cursors \ {sites[c]} : Announced(s) => s \in Seen(c) \/ OnItsWay(c, {"opened"}, s))'
  BY <1>1 DEF Spoken
<1>5. (\A s : s \notin cursors /\ (s \in Seen(c) \/ Has(down[c], {"opened"}, s)) =>
                OnItsWay(c, {"closed"}, s))'
  BY <1>1 DEF Spoken
<1>. QED
  BY <1>2, <1>3, <1>4, <1>5 DEF UpToDate

(* What a step of the server leaves alone in a client, and in what was      *)
(* known so far.                                                            *)
ClientKept(c) ==
    /\ window'[c] = window[c] /\ mySite'[c] = mySite[c] /\ known'[c] = known[c]
    /\ shown'[c] = shown[c] /\ online'[c] = online[c] /\ lost'[c] = lost[c]

NamesGrow == NamesStay /\ \A x : WordOK(x) => WordOK(x)'

(* The word m tells client c what happens to the document in this step.     *)
Hearing(c, m) ==
    /\ ClientKept(c) /\ NamesGrow
    /\ sites'[c] = sites[c] /\ c \in editing /\ c \in editing' /\ opening'[c].at = "no"
    /\ m.type \in Words /\ WordOK(m)'
    /\ m.type = "opened" => m.site # sites[c]
    /\ \A T, s : OnItsWay(c, T, s)' <=> OnItsWay(c, T, s) \/ (m.type \in T /\ m.site = s)
    /\ Spoken(m)

LEMMA EditorKept ==
    ASSUME NEW c \in Clients, EditorOK(c), ClientKept(c), NamesGrow,
           window[c] = "shown" => c \in editing' /\ sites'[c] = sites[c]
    PROVE  EditorOK(c)'
<1>1. known'[c] = known[c] /\ shown'[c] = shown[c] /\ online'[c] = online[c]
  BY DEF ClientKept
<1>2. window'[c] = window[c] /\ mySite'[c] = mySite[c]
  BY DEF ClientKept
<1>3. NamesStay
  BY DEF NamesGrow
<1>. QED
  BY <1>1, <1>2, <1>3, EditorStays

LEMMA BaseKept ==
    ASSUME NEW c \in Clients, Informed(c), ClientKept(c), NamesGrow,
           window[c] # "shown" => Head(down'[c]) = Head(down[c])
    PROVE  Base(c)' = Base(c) /\ Seen(c)' = Seen(c)
<1>1. window'[c] = window[c] /\ known'[c] = known[c] /\ WithCursor(c)' = WithCursor(c)
  BY WithCursorKept DEF ClientKept, NamesGrow, Informed, EditorOK
<1>. QED
  BY <1>1 DEF Base, Seen

LEMMA DocumentKept ==
    ASSUME NEW c \in Clients, NamesGrow, sites'[c] = sites[c], c \in editing',
           Head(down'[c]) = Head(down[c]), DocumentOK(c, Head(down[c]))
    PROVE  DocumentOK(c, Head(down[c]))'
<1>1. PICK m : m = Head(down[c]) /\ m = Head(down'[c])
  OBVIOUS
<1>2. PICK us : us = m.users
  OBVIOUS
<1>3. UsersOK(us)'
  BY <1>1, <1>2, RightlyKept DEF DocumentOK, NamesGrow
<1>. QED
  BY <1>1, <1>2, <1>3 DEF DocumentOK, UsersOK, OwnNamed

(* Who is not opening has nothing to wait for. *)
LEMMA NoOpener ==
    ASSUME NEW c \in Clients, opening'[c].at = "no"
    PROVE  OpenerOK(c)'
BY DEF OpenerOK

LEMMA HearsNow ==
    ASSUME GInv, NEW c \in Clients, NEW m, Informed(c), Hearing(c, m), Connected(c),
           down'[c] = Append(down[c], m),
           m.type = "opened" => ~Has(down[c], Words, m.site),
           \A s : Coming(WorkerOf[c], {"opened"}, s)' => ~Has(down[c], Words, s) /\ s # m.site,
           m.type = "opened" => m.site \in cursors' \/ OnItsWay(c, {"closed"}, m.site)'
    PROVE  Informed(c)'
<1>. DEFINE d == down[c]
<1>1. /\ ClientKept(c) /\ NamesGrow
      /\ sites'[c] = sites[c] /\ c \in editing /\ c \in editing'
      /\ m.type \in Words /\ WordOK(m)'
      /\ m.type = "opened" => m.site # sites[c]
  BY DEF Hearing
<1>2. PICK S : d \in Seq(S) /\ m \in S
  <2>1. PICK S : d \in Seq(S)
    BY DEF GInv
  <2>2. d \in Seq(S \cup {m}) /\ m \in S \cup {m}
    <3>. HIDE DEF d
    <3>. QED
      BY <2>1, SeqOfMore
  <2>. QED
    BY <2>2
<1>3. \A T, s : Has(down[c], T, s)' <=> Has(d, T, s) \/ (m.type \in T /\ m.site = s)
  <2>1. \A T, s : Has(Append(d, m), T, s) <=> Has(d, T, s) \/ (m.type \in T /\ m.site = s)
    <3>. HIDE DEF d
    <3>. QED
      BY <1>2, HasAppend
  <2>. QED
    BY <2>1 DEF Has
<1>4. EditorOK(c)'
  BY <1>1, EditorKept DEF Informed
<1>5. HearsInOrder(c)'
  <2>0. HearsInOrder(c)
    BY DEF Informed
  <2>1. (\A i \in DOMAIN down[c] : down[c][i].type = "document" \/ WordOK(down[c][i]))'
    <3>1. \A i \in DOMAIN d : d[i].type = "document" \/ WordOK(d[i])
      BY <2>0 DEF HearsInOrder
    <3>2. ASSUME NEW i \in DOMAIN down'[c]
          PROVE  \E x : x = down'[c][i] /\ (x.type = "document" \/ WordOK(x)')
      <4>1. down'[c][i] = m \/ (i \in DOMAIN d /\ down'[c][i] = d[i])
        BY <1>2
      <4>2. CASE down'[c][i] = m
        BY <4>2, <1>1
      <4>3. CASE i \in DOMAIN d /\ down'[c][i] = d[i]
        <5>1. PICK x : x = d[i]
          OBVIOUS
        <5>2. x.type = "document" \/ WordOK(x)
          BY <3>1, <4>3, <5>1
        <5>. QED
          BY <4>3, <5>1, <5>2, <1>1 DEF NamesGrow
      <4>. QED
        BY <4>1, <4>2, <4>3
    <3>. QED
      BY <3>2
  <2>2. InOrder(down[c])'
    <3>1. InOrder(d)
      BY <2>0 DEF HearsInOrder
    <3>2. InOrder(Append(d, m))
      <4>. HIDE DEF d
      <4>1. m.type = "opened" => ~Has(d, Words, m.site)
        BY DEF d
      <4>. QED
        BY <3>1, <4>1, <1>2, HasAppend
    <3>. QED
      BY <3>2 DEF InOrder
  <2>3. (\A s : Coming(WorkerOf[c], {"opened"}, s) => ~Has(down[c], Words, s))'
    BY <1>3
  <2>. QED
    BY <2>1, <2>2, <2>3 DEF HearsInOrder
<1>6. m.type # "document"
  BY <1>1 DEF Words
<1>7. DocumentFirst(c)' => /\ DocumentFirst(c) /\ Head(down'[c]) = Head(d)
  BY <1>2, <1>6 DEF DocumentFirst
<1>8. ASSUME UpToDate(c), window[c] = "shown" \/ DocumentFirst(c)' PROVE UpToDate(c)'
  <2>1. Base(c)' = Base(c) /\ Seen(c)' = Seen(c)
    BY <1>1, <1>7, <1>8, BaseKept
  <2>2. \A s : Has(down[c], {"opened"}, s)' =>
                 \/ Has(down[c], {"opened"}, s)
                 \/ /\ m.type = "opened" /\ m.site = s
                    /\ s \in cursors' \/ OnItsWay(c, {"closed"}, s)'
    BY <1>3
  <2>. QED
    BY <1>8, <2>1, <2>2, StillUpToDate DEF Hearing
<1>9. ASSUME Running(c), DocumentFirst(c)' PROVE DocumentOK(c, Head(down[c]))'
  <2>1. DocumentOK(c, Head(down[c])) /\ Head(down'[c]) = Head(down[c])
    BY <1>7, <1>9 DEF Informed
  <2>. QED
    BY <1>1, <2>1, DocumentKept
<1>10. /\ Running(c)' <=> Running(c)
       /\ window'[c] = window[c] /\ lost'[c] = lost[c]
  BY <1>1 DEF ClientKept, Running
<1>11. OpenerOK(c)'
  BY NoOpener DEF Hearing
<1>. QED
  BY <1>4, <1>5, <1>7, <1>8, <1>9, <1>10, <1>11 DEF Informed

LEMMA HearsLater ==
    ASSUME NEW c \in Clients, NEW m, Informed(c), Hearing(c, m),
           down'[c] = down[c],
           \A s : Coming(WorkerOf[c], {"opened"}, s)' => ~Has(down[c], Words, s)
    PROVE  Informed(c)'
<1>1. /\ ClientKept(c) /\ NamesGrow
      /\ sites'[c] = sites[c] /\ c \in editing /\ c \in editing'
      /\ m.type = "opened" => m.site # sites[c]
  BY DEF Hearing
<1>2. \A T, s : Has(down[c], T, s)' <=> Has(down[c], T, s)
  BY DEF Has
<1>3. EditorOK(c)'
  BY <1>1, EditorKept DEF Informed
<1>4. ASSUME HearsInOrder(c) PROVE HearsInOrder(c)'
  <2>1. (\A i \in DOMAIN down[c] : down[c][i].type = "document" \/ WordOK(down[c][i]))'
    BY <1>1, <1>4 DEF HearsInOrder, NamesGrow
  <2>2. InOrder(down[c])'
    BY <1>4 DEF HearsInOrder, InOrder
  <2>3. (\A s : Coming(WorkerOf[c], {"opened"}, s) => ~Has(down[c], Words, s))'
    BY <1>2
  <2>. QED
    BY <2>1, <2>2, <2>3 DEF HearsInOrder
<1>5. ASSUME UpToDate(c) PROVE UpToDate(c)'
  <2>1. Base(c)' = Base(c) /\ Seen(c)' = Seen(c)
    BY <1>1, BaseKept
  <2>2. \A s : Has(down[c], {"opened"}, s)' =>
                 \/ Has(down[c], {"opened"}, s)
                 \/ /\ m.type = "opened" /\ m.site = s
                    /\ s \in cursors' \/ OnItsWay(c, {"closed"}, s)'
    BY <1>2
  <2>. QED
    BY <1>5, <2>1, <2>2, StillUpToDate DEF Hearing
<1>6. ASSUME DocumentOK(c, Head(down[c])) PROVE DocumentOK(c, Head(down[c]))'
  BY <1>1, <1>6, DocumentKept
<1>7. /\ Running(c)' <=> Running(c)
      /\ Connected(c)' <=> Connected(c)
      /\ DocumentFirst(c)' <=> DocumentFirst(c)
      /\ window'[c] = window[c] /\ lost'[c] = lost[c]
  BY <1>1 DEF ClientKept, Running, Connected, DocumentFirst
<1>8. OpenerOK(c)'
  BY NoOpener DEF Hearing
<1>. QED
  BY <1>3, <1>4, <1>5, <1>6, <1>7, <1>8 DEF Informed

(* A client that is not in the document, or that is gone, hears nothing.    *)
LEMMA HearsNothing ==
    ASSUME GInv, NEW c \in Clients, Informed(c), ClientKept(c), NamesGrow, OpenerOK(c)',
           \/ ~Connected(c)
           \/ /\ c \notin editing /\ down'[c] = down[c]
              /\ \A s : Coming(WorkerOf[c], {"opened"}, s)' => ~Has(down[c], Words, s)
    PROVE  Informed(c)'
<1>1. EditorOK(c) /\ lost[c] \in {Nothing, "connection", "document", "editor", "cursor"}
  BY DEF Informed
<1>2. /\ Running(c)' <=> Running(c)
      /\ Connected(c)' <=> Connected(c)
      /\ window'[c] = window[c] /\ lost'[c] = lost[c]
  BY DEF ClientKept, Running, Connected
<1>3. window[c] # "shown"
  BY <1>1 DEF EditorOK, GInv
<1>4. EditorOK(c)'
  BY <1>1, <1>3, EditorKept
<1>5. CASE ~Connected(c)
  <2>1. ~Running(c)
    BY <1>5 DEF Running, Connected, Nothing
  <2>. QED
    BY <1>1, <1>2, <1>4, <1>5, <2>1 DEF Informed
<1>6. CASE /\ c \notin editing /\ down'[c] = down[c]
           /\ \A s : Coming(WorkerOf[c], {"opened"}, s)' => ~Has(down[c], Words, s)
  <2>1. ASSUME HearsInOrder(c) PROVE HearsInOrder(c)'
    <3>1. (\A i \in DOMAIN down[c] : down[c][i].type = "document" \/ WordOK(down[c][i]))'
      BY <1>6, <2>1 DEF HearsInOrder, NamesGrow
    <3>2. InOrder(down[c])'
      BY <1>6, <2>1 DEF HearsInOrder, InOrder
    <3>3. (\A s : Coming(WorkerOf[c], {"opened"}, s) => ~Has(down[c], Words, s))'
      BY <1>6 DEF Has
    <3>. QED
      BY <3>1, <3>2, <3>3 DEF HearsInOrder
  <2>2. Running(c) => ~DocumentFirst(c)
    BY <1>6 DEF Informed, DocumentOK
  <2>3. Running(c)' => ~DocumentFirst(c)'
    BY <1>2, <1>6, <2>2 DEF DocumentFirst
  <2>. QED
    BY <1>1, <1>2, <1>3, <1>4, <2>1, <2>3 DEF Informed
<1>. QED
  BY <1>5, <1>6

-----------------------------------------------------------------------------
(* Worker w handles the next call p in its queue.                           *)
Delivering(w, p) ==
    /\ p.source \in Clients /\ WorkerOf[p.source] # w /\ WordOK(p.message)
    /\ posting' = posting
    /\ \A x \in Workers \ {w} : queue'[x] = queue[x]
    /\ queue'[w] = Tail(queue[w])
    /\ \A i \in DOMAIN queue'[w] : i + 1 \in DOMAIN queue[w] /\ queue'[w][i] = queue[w][i + 1]
    /\ 1 \in DOMAIN queue[w] /\ queue[w][1] = p
    /\ \A T, s : Has(Told(w), T, s) <=>
                   Has(Told(w), T, s)' \/ (p.message.type \in T /\ p.message.site = s)
    /\ InOrder(Told(w))'
    /\ ~Has(Told(w), {"opened"}, p.message.site)'
    /\ \A c \in Clients :
         down'[c] = IF c \in editing /\ c # p.source /\ WorkerOf[c] = w /\ Connected(c)
                    THEN Append(down[c], p.message) ELSE down[c]
    /\ UNCHANGED <<docVars, editing, clientVars>>
    /\ Free(w)

LEMMA CallHandled ==
    ASSUME GInv, NEW w \in Workers, Dispatch(w), QueueOK(w)
    PROVE  \E p : Delivering(w, p)
<1>1. PICK S : queue \in [Workers -> Seq(S)]
  BY DEF GInv
<1>. DEFINE q == queue[w]
<1>2. /\ q # << >> /\ queue' = [queue EXCEPT ![w] = Tail(q)]
      /\ down' = Written(down, editing, w, Head(q).source, Head(q).message)
      /\ posting' = posting
      /\ UNCHANGED <<docVars, editing, clientVars>> /\ Free(w)
  BY DEF Dispatch
<1>3. PICK p : p = Head(q)
  OBVIOUS
<1>4. /\ q \in Seq(S) /\ p = q[1] /\ DOMAIN q = 1 .. Len(q) /\ Len(q) \in Nat \ {0} /\ 1 \in DOMAIN q
      /\ DOMAIN Tail(q) = 1 .. (Len(q) - 1) /\ \A i \in 1 .. (Len(q) - 1) : Tail(q)[i] = q[i + 1]
      /\ p \in S
  BY <1>1, <1>2, <1>3, HeadTailProperties
<1>5. p.source \in Clients /\ WorkerOf[p.source] # w /\ WordOK(p.message)
  BY <1>4 DEF QueueOK
<1>6. \A x \in Workers \ {w} : queue'[x] = queue[x]
  BY <1>1, <1>2
<1>7. queue'[w] = Tail(q)
  BY <1>1, <1>2
<1>8. \A i \in DOMAIN queue'[w] : i + 1 \in DOMAIN q /\ queue'[w][i] = q[i + 1]
  BY <1>4, <1>7
<1>9. /\ \A T, s : Has(Told(w), T, s) <=>
                     Has(Told(w), T, s)' \/ (p.message.type \in T /\ p.message.site = s)
      /\ InOrder(Told(w))'
      /\ ~Has(Told(w), {"opened"}, p.message.site)'
  <2>. DEFINE d == Messages(q)
              M == {x.message : x \in S}
  <2>1. d \in Seq(M) /\ d # << >> /\ Head(d) = p.message /\ Messages(Tail(q)) = Tail(d)
    <3>. HIDE DEF q
    <3>. QED
      BY <1>2, <1>3, <1>4, MessagesOf
  <2>2. Told(w) = d /\ Told(w)' = Tail(d)
    BY <1>7, <2>1 DEF Told
  <2>3. InOrder(d) /\ p.message.type \in Words
    BY <1>5, <2>2 DEF QueueOK, WordOK
  <2>. HIDE DEF d, M
  <2>4. /\ \A T, s : Has(d, T, s) <=> Has(Tail(d), T, s) \/ (p.message.type \in T /\ p.message.site = s)
        /\ InOrder(Tail(d))
        /\ ~Has(Tail(d), {"opened"}, p.message.site)
    BY <2>1, <2>3, HasTail
  <2>5. \A T, s : (Has(Told(w), T, s) <=> Has(d, T, s)) /\ (Has(Told(w), T, s)' <=> Has(Tail(d), T, s))
    BY <2>2 DEF Has
  <2>6. InOrder(Told(w))'
    BY <2>2, <2>4 DEF InOrder
  <2>. QED
    BY <2>4, <2>5, <2>6
<1>10. \A c \in Clients :
         down'[c] = IF c \in editing /\ c # p.source /\ WorkerOf[c] = w /\ Connected(c)
                    THEN Append(down[c], p.message) ELSE down[c]
  BY <1>2, <1>3 DEF Written, Connected
<1>11. Delivering(w, p)
  BY <1>2, <1>4, <1>5, <1>6, <1>7, <1>8, <1>9, <1>10 DEF Delivering
<1>. QED
  BY <1>11

LEMMA DispatchKeeps ==
    ASSUME GInv, Talk, \A c \in Clients : Informed(c), NEW w \in Workers, Dispatch(w)
    PROVE  Talk' /\ \A c \in Clients : Informed(c)'
<1>1. PICK p : Delivering(w, p)
  BY CallHandled DEF Talk
<1>2. PICK m : m = p.message
  OBVIOUS
<1>3. /\ p.source \in Clients /\ WorkerOf[p.source] # w /\ WordOK(m)
      /\ posting' = posting
      /\ \A x \in Workers \ {w} : queue'[x] = queue[x]
      /\ \A i \in DOMAIN queue'[w] : i + 1 \in DOMAIN queue[w] /\ queue'[w][i] = queue[w][i + 1]
      /\ 1 \in DOMAIN queue[w] /\ queue[w][1] = p
      /\ \A T, s : Has(Told(w), T, s) <=> Has(Told(w), T, s)' \/ (m.type \in T /\ m.site = s)
      /\ InOrder(Told(w))'
      /\ ~Has(Told(w), {"opened"}, m.site)'
      /\ \A c \in Clients :
           down'[c] = IF c \in editing /\ c # p.source /\ WorkerOf[c] = w /\ Connected(c)
                      THEN Append(down[c], m) ELSE down[c]
      /\ UNCHANGED <<docVars, editing, clientVars>> /\ Free(w)
  BY <1>1, <1>2 DEF Delivering
<1>4. UNCHANGED <<usernames, cursors, sites, opening, editing, window, mySite, known, shown, online, lost>>
  BY <1>3 DEF docVars, clientVars
<1>5. NamesKept /\ NamesStay /\ \A x : WordOK(x) => WordOK(x)'
  BY <1>4, SameNames, WordKept DEF NamesKept
<1>6. \A x, T, s : Posted(x, T, s)' <=> Posted(x, T, s)
  BY <1>3 DEF Posted
<1>7. \A x \in Workers \ {w} : Told(x)' = Told(x)
  BY <1>3 DEF Told
<1>8. \A x \in Workers \ {w} : \A T, s : Has(Told(x), T, s)' <=> Has(Told(x), T, s)
  BY <1>7 DEF Has
<1>9. \A T, s : Coming(w, T, s) <=> Coming(w, T, s)' \/ (m.type \in T /\ m.site = s)
  BY <1>3, <1>6 DEF Coming
<1>10. \A x \in Workers \ {w} : \A T, s : Coming(x, T, s)' <=> Coming(x, T, s)
  BY <1>6, <1>8 DEF Coming
<1>11. From(p.source, m.site)
  BY <1>2, <1>3 DEF From
<1>12. QueueOK(w)
  BY DEF Talk
<1>13. Talk'
  <2>1. ASSUME NEW e, NEW s, From(e, s)' PROVE From(e, s)
    <3>1. CASE \E v \in Workers : \E i \in DOMAIN posting'[v] :
                 posting'[v][i].source = e /\ posting'[v][i].message.site = s
      BY <3>1, <1>3 DEF From
    <3>2. ASSUME NEW x \in Workers, NEW i \in DOMAIN queue'[x],
                 queue'[x][i].source = e, queue'[x][i].message.site = s
          PROVE  From(e, s)
      <4>1. CASE x # w
        BY <4>1, <3>2, <1>3 DEF From
      <4>2. CASE x = w
        <5>1. i + 1 \in DOMAIN queue[w] /\ queue[w][i + 1].source = e /\ queue[w][i + 1].message.site = s
          BY <4>2, <3>2, <1>3
        <5>. QED
          BY <5>1 DEF From
      <4>. QED
        BY <4>1, <4>2
    <3>. QED
      BY <2>1, <3>1, <3>2 DEF From
  <2>2. OneSource'
    BY <2>1, <1>4 DEF Talk, OneSource
  <2>3. (\A c \in Clients : sites[c] # NoSite => usernames[sites[c]] = UserOf[c])'
    BY <1>4 DEF Talk
  <2>4. ASSUME NEW v \in Workers PROVE PostsOK(v)'
    BY <1>3, <1>4, <1>5 DEF Talk, PostsOK
  <2>5. ASSUME NEW x \in Workers, x # w PROVE QueueOK(x)'
    <3>0. QueueOK(x)
      BY DEF Talk
    <3>1. (\A i \in DOMAIN queue[x] :
             /\ queue[x][i].source \in Clients /\ WorkerOf[queue[x][i].source] # x
             /\ WordOK(queue[x][i].message))'
      BY <3>0, <2>5, <1>3, <1>5 DEF QueueOK
    <3>2. InOrder(Told(x))'
      BY <3>0, <2>5, <1>7 DEF QueueOK, InOrder
    <3>3. (\A s : Posted(x, {"opened"}, s) => ~Has(Told(x), Words, s))'
      BY <3>0, <2>5, <1>6, <1>8 DEF QueueOK
    <3>4. (\A s : Has(Told(x), {"opened"}, s) /\ s \notin cursors => Coming(x, {"closed"}, s))'
      BY <3>0, <2>5, <1>4, <1>8, <1>10 DEF QueueOK
    <3>. QED
      BY <3>1, <3>2, <3>3, <3>4 DEF QueueOK
  <2>6. QueueOK(w)'
    <3>1. (\A i \in DOMAIN queue[w] :
             /\ queue[w][i].source \in Clients /\ WorkerOf[queue[w][i].source] # w
             /\ WordOK(queue[w][i].message))'
      <4>1. ASSUME NEW i \in DOMAIN queue'[w]
            PROVE  \E y : /\ y = queue'[w][i] /\ y.source \in Clients /\ WorkerOf[y.source] # w
                          /\ WordOK(y.message)'
        <5>1. PICK y : y = queue[w][i + 1] /\ y = queue'[w][i]
          BY <1>3
        <5>2. i + 1 \in DOMAIN queue[w]
          BY <1>3
        <5>3. y.source \in Clients /\ WorkerOf[y.source] # w /\ WordOK(y.message)
          BY <5>1, <5>2, <1>12 DEF QueueOK
        <5>4. PICK z : z = y.message
          OBVIOUS
        <5>5. WordOK(y.message)'
          BY <5>3, <5>4, <1>5
        <5>. QED
          BY <5>1, <5>3, <5>5
      <4>. QED
        BY <4>1
    <3>2. InOrder(Told(w))'
      BY <1>3
    <3>3. (\A s : Posted(w, {"opened"}, s) => ~Has(Told(w), Words, s))'
      BY <1>3, <1>6, <1>12 DEF QueueOK
    <3>4. (\A s : Has(Told(w), {"opened"}, s) /\ s \notin cursors => Coming(w, {"closed"}, s))'
      <4>. SUFFICES ASSUME NEW s, Has(Told(w), {"opened"}, s)', s \notin cursors
                    PROVE  Coming(w, {"closed"}, s)'
        BY <1>4
      <4>1. Coming(w, {"closed"}, s) /\ m.site # s
        BY <1>3, <1>12 DEF QueueOK
      <4>. QED
        BY <4>1, <1>9
    <3>. QED
      BY <3>1, <3>2, <3>3, <3>4 DEF QueueOK
  <2>. QED
    BY <2>2, <2>3, <2>4, <2>5, <2>6 DEF Talk
<1>14. ASSUME NEW c \in Clients PROVE Informed(c)'
  <2>. DEFINE w0 == WorkerOf[c]
  <2>0. w0 \in Workers /\ Informed(c) /\ ClientKept(c) /\ NamesGrow
    BY <1>4, <1>5, PresenceAssumption DEF ClientKept, NamesGrow, Workers
  <2>1. CASE w0 # w
    <3>1. down'[c] = down[c] /\ \A T, s : Coming(w0, T, s)' <=> Coming(w0, T, s)
      BY <2>0, <2>1, <1>3, <1>10
    <3>. QED
      BY <2>0, <3>1, <1>4, <1>5, InformedKept
  <2>9. ASSUME w0 = w PROVE opening[c].at = "no" /\ OpenerOK(c)'
    BY <2>9, <1>3, <1>4, NoOpener DEF Free, NotOpening, Opening
  <2>2. CASE w0 = w /\ ~Connected(c)
    BY <2>0, <2>2, <2>9, HearsNothing
  <2>3. CASE w0 = w /\ c \notin editing /\ Connected(c)
    <3>1. down'[c] = down[c]
      BY <2>3, <1>3
    <3>2. \A s : Coming(w0, {"opened"}, s)' => ~Has(down[c], Words, s)
      BY <2>0, <2>3, <1>9 DEF Informed, HearsInOrder
    <3>. QED
      BY <2>0, <2>3, <2>9, <3>1, <3>2, HearsNothing
  <2>4. CASE w0 = w /\ c \in editing /\ Connected(c)
    <3>1. c # p.source
      BY <2>4, <1>3
    <3>2. down'[c] = Append(down[c], m)
      BY <2>4, <3>1, <1>3
    <3>3. m.type \in Words /\ WordOK(m)' /\ Spoken(m)
      BY <1>3, <1>4, <1>5 DEF WordOK, Spoken, NamesKept
    <3>4. m.site # sites[c]
      BY <2>4, <3>1, <1>3, <1>11 DEF Talk, OneSource
    <3>5. PICK S : down[c] \in Seq(S) /\ m \in S
      <4>1. PICK S : down[c] \in Seq(S)
        BY DEF GInv
      <4>. DEFINE d == down[c]
      <4>. HIDE DEF d
      <4>2. d \in Seq(S \cup {m})
        BY <4>1, SeqOfMore DEF d
      <4>. QED
        BY <4>2 DEF d
    <3>6. \A T, s : Has(down[c], T, s)' <=> Has(down[c], T, s) \/ (m.type \in T /\ m.site = s)
      <4>. DEFINE d == down[c]
      <4>0. d \in Seq(S) /\ m \in S
        BY <3>5
      <4>1. \A T, s : Has(Append(d, m), T, s) <=> Has(d, T, s) \/ (m.type \in T /\ m.site = s)
        <5>. HIDE DEF d
        <5>. QED
          BY <4>0, HasAppend
      <4>. QED
        BY <3>2, <4>1 DEF Has
    <3>7. \A T, s : OnItsWay(c, T, s)' <=> OnItsWay(c, T, s) \/ (m.type \in T /\ m.site = s)
      BY <2>4, <3>6, <1>9 DEF OnItsWay
    <3>8. Hearing(c, m)
      BY <2>0, <2>4, <2>9, <3>3, <3>4, <3>7, <1>4 DEF Hearing
    <3>9. \A s : Coming(w0, {"opened"}, s) => ~Has(down[c], Words, s)
      BY <2>4 DEF Informed, HearsInOrder
    <3>10. m.type = "opened" => ~Has(down[c], Words, m.site)
      BY <2>4, <3>9, <1>9
    <3>11. \A s : Coming(w0, {"opened"}, s)' => ~Has(down[c], Words, s) /\ s # m.site
      <4>. SUFFICES ASSUME NEW s, Coming(w0, {"opened"}, s)', s = m.site PROVE FALSE
        BY <2>4, <3>9, <1>9
      <4>1. Posted(w, {"opened"}, s)
        BY <2>4, <1>3, <1>6 DEF Coming
      <4>2. Has(Told(w), Words, s)
        BY <1>3, <3>3
      <4>. QED
        BY <4>1, <4>2, <1>12 DEF QueueOK
    <3>12. m.type = "opened" => m.site \in cursors' \/ OnItsWay(c, {"closed"}, m.site)'
      <4>. SUFFICES ASSUME m.type = "opened", m.site \notin cursors
                    PROVE  OnItsWay(c, {"closed"}, m.site)'
        BY <1>4
      <4>1. Has(Told(w), {"opened"}, m.site)
        BY <1>3
      <4>2. Coming(w, {"closed"}, m.site)
        BY <4>1, <1>12 DEF QueueOK
      <4>. QED
        BY <2>4, <4>2, <3>7 DEF OnItsWay
    <3>. QED
      BY <2>0, <2>4, <3>2, <3>8, <3>10, <3>11, <3>12, HearsNow
  <2>. QED
    BY <2>1, <2>2, <2>3, <2>4
<1>. QED
  BY <1>13, <1>14

-----------------------------------------------------------------------------
(* The worker of client c tells the others word m: its own clients in ed at *)
(* once, and every other worker by a call.                                  *)
Telling(c, ed, m) ==
    LET w == WorkerOf[c] IN
    /\ posting[w] = << >> /\ queue' = queue
    /\ \A v \in Workers \ {w} : posting'[v] = posting[v]
    /\ \A i \in DOMAIN posting'[w] :
         /\ posting'[w][i].to \in Workers \ {w}
         /\ posting'[w][i].source = c /\ posting'[w][i].message = m
    /\ \A i, j \in DOMAIN posting'[w] : posting'[w][i].to = posting'[w][j].to => i = j
    /\ \A x \in Workers : \A T, s :
         Posted(x, T, s)' <=> Posted(x, T, s) \/ (x # w /\ m.type \in T /\ m.site = s)
    /\ \A e, s : From(e, s)' => From(e, s) \/ (e = c /\ s = m.site)
    /\ \A b \in Clients \ {c} :
         down'[b] = IF b \in ed /\ WorkerOf[b] = w /\ Connected(b)
                    THEN Append(down[b], m) ELSE down[b]

LEMMA OtherWorkers ==
    ASSUME NEW k \in Nat \ {0}, NEW w \in 1 .. k
    PROVE  /\ \A i \in 1 .. (k - 1) : (IF i < w THEN i ELSE i + 1) \in (1 .. k) \ {w}
           /\ \A i, j \in 1 .. (k - 1) :
                (IF i < w THEN i ELSE i + 1) = (IF j < w THEN j ELSE j + 1) => i = j
           /\ \A x \in (1 .. k) \ {w} :
                \E i \in 1 .. (k - 1) : (IF i < w THEN i ELSE i + 1) = x
<1>1. ASSUME NEW x \in 1 .. k, x # w
      PROVE  \E i \in 1 .. (k - 1) : (IF i < w THEN i ELSE i + 1) = x
  <2>1. CASE x < w
    <3>1. x \in 1 .. (k - 1)
      BY <2>1
    <3>. QED
      BY <2>1, <3>1
  <2>2. CASE ~(x < w)
    <3>1. x - 1 \in 1 .. (k - 1) /\ ~(x - 1 < w) /\ (x - 1) + 1 = x
      BY <1>1, <2>2
    <3>. QED
      BY <3>1
  <2>. QED
    BY <2>1, <2>2
<1>2. \A i \in 1 .. (k - 1) : (IF i < w THEN i ELSE i + 1) \in (1 .. k) \ {w}
  OBVIOUS
<1>3. \A i, j \in 1 .. (k - 1) :
        (IF i < w THEN i ELSE i + 1) = (IF j < w THEN j ELSE j + 1) => i = j
  OBVIOUS
<1>. QED
  BY <1>1, <1>2, <1>3

LEMMA RelayTells ==
    ASSUME GInv, NEW c \in Clients, posting[WorkerOf[c]] = << >>, NEW ed, NEW answers, NEW m,
           Relay(c, ed, answers, m), UNCHANGED <<queue, lost>>
    PROVE  /\ Telling(c, ed, m)
           /\ down'[c] = IF Connected(c) THEN down[c] \o answers ELSE down[c]
<1>. DEFINE w == WorkerOf[c]
            a == IF Connected(c) THEN down[c] \o answers ELSE down[c]
            D == [down EXCEPT ![c] = a]
            r == Posts(w, c, m)
            n == NWorkers - 1
            To(i) == IF i < w THEN i ELSE i + 1
<1>1. /\ posting[w] = << >> /\ down' = Written(D, ed, w, c, m)
      /\ posting' = [posting EXCEPT ![w] = r]
  BY DEF Relay, Connected
<1>2. PICK S : posting \in [Workers -> Seq(S)]
  BY DEF GInv
<1>3. w \in 1 .. NWorkers /\ w \in Nat /\ n \in Nat /\ w \in Workers
  BY PresenceAssumption DEF Workers
<1>4. r = [i \in 1 .. n |-> [to |-> To(i), source |-> c, message |-> m]]
  BY DEF Posts
<1>5. posting'[w] = r /\ \A v \in Workers \ {w} : posting'[v] = posting[v]
  BY <1>1, <1>2, <1>3
<1>. DEFINE At(i) == [to |-> To(i), source |-> c, message |-> m]
<1>6. DOMAIN r = 1 .. n /\ \A i \in 1 .. n : r[i] = At(i)
  BY <1>4
<1>7. /\ \A i \in 1 .. n : To(i) \in Workers \ {w}
      /\ \A i, j \in 1 .. n : To(i) = To(j) => i = j
      /\ \A x \in Workers \ {w} : \E i \in 1 .. n : To(i) = x
  <2>1. /\ \A i \in 1 .. (NWorkers - 1) : To(i) \in (1 .. NWorkers) \ {w}
        /\ \A i, j \in 1 .. (NWorkers - 1) : To(i) = To(j) => i = j
        /\ \A x \in (1 .. NWorkers) \ {w} : \E i \in 1 .. (NWorkers - 1) : To(i) = x
    <3>1. NWorkers \in Nat \ {0}
      BY PresenceAssumption
    <3>. HIDE DEF w
    <3>. QED
      BY <1>3, <3>1, OtherWorkers
  <2>. QED
    BY <2>1 DEF Workers
<1>8. \A i \in 1 .. n : At(i).to = To(i) /\ At(i).source = c /\ At(i).message = m
  OBVIOUS
<1>. HIDE DEF At, To, r, n
<1>9. /\ \A i \in DOMAIN r : r[i].to \in Workers \ {w} /\ r[i].source = c /\ r[i].message = m
      /\ \A i, j \in DOMAIN r : r[i].to = r[j].to => i = j
      /\ \A x \in Workers \ {w} : \E i \in DOMAIN r : r[i].to = x
  BY <1>6, <1>7, <1>8
<1>10. ASSUME NEW x \in Workers, NEW T, NEW s
       PROVE  Posted(x, T, s)' <=> Posted(x, T, s) \/ (x # w /\ m.type \in T /\ m.site = s)
  <2>. DEFINE Says(y) == y.to = x /\ y.message.type \in T /\ y.message.site = s
  <2>1. Posted(x, T, s) <=> \E v \in Workers : \E i \in DOMAIN posting[v] : Says(posting[v][i])
    BY DEF Posted
  <2>2. Posted(x, T, s)' <=> \E v \in Workers : \E i \in DOMAIN posting'[v] : Says(posting'[v][i])
    BY DEF Posted
  <2>3. (\E i \in DOMAIN r : Says(r[i])) <=> (x # w /\ m.type \in T /\ m.site = s)
    BY <1>9
  <2>4. DOMAIN posting[w] = {}
    BY <1>1
  <2>. HIDE DEF Says
  <2>5. ASSUME NEW v \in Workers
        PROVE  (\E i \in DOMAIN posting'[v] : Says(posting'[v][i])) <=>
                 \/ \E i \in DOMAIN posting[v] : Says(posting[v][i])
                 \/ v = w /\ \E i \in DOMAIN r : Says(r[i])
    <3>1. CASE v = w
      BY <3>1, <1>5, <2>4
    <3>2. CASE v # w
      BY <3>2, <1>5
    <3>. QED
      BY <3>1, <3>2
  <2>. QED
    BY <2>1, <2>2, <2>3, <2>5, <1>3
<1>11. ASSUME NEW e, NEW s, From(e, s)' PROVE From(e, s) \/ (e = c /\ s = m.site)
  <2>1. CASE \E x \in Workers : \E i \in DOMAIN queue'[x] :
               queue'[x][i].source = e /\ queue'[x][i].message.site = s
    BY <2>1 DEF From
  <2>2. ASSUME NEW v \in Workers, NEW i \in DOMAIN posting'[v],
               posting'[v][i].source = e, posting'[v][i].message.site = s
        PROVE  From(e, s) \/ (e = c /\ s = m.site)
    <3>1. CASE v = w
      BY <3>1, <2>2, <1>5, <1>9
    <3>2. CASE v # w
      BY <3>2, <2>2, <1>5 DEF From
    <3>. QED
      BY <3>1, <3>2
  <2>. QED
    BY <1>11, <2>1, <2>2 DEF From
<1>12. /\ \A b \in Clients \ {c} :
            down'[b] = IF b \in ed /\ WorkerOf[b] = w /\ Connected(b)
                       THEN Append(down[b], m) ELSE down[b]
       /\ down'[c] = a
  <2>1. D[c] = a /\ \A b \in Clients \ {c} : D[b] = down[b]
    BY DEF GInv
  <2>. HIDE DEF D
  <2>2. \A b \in Clients : down'[b] = IF b \in ed \ {c} /\ WorkerOf[b] = w /\ lost[b] # "connection"
                                      THEN Append(D[b], m) ELSE D[b]
    BY <1>1 DEF Written
  <2>. QED
    BY <2>1, <2>2 DEF Connected
<1>13. /\ \A i \in DOMAIN posting'[w] :
            /\ posting'[w][i].to \in Workers \ {w}
            /\ posting'[w][i].source = c /\ posting'[w][i].message = m
       /\ \A i, j \in DOMAIN posting'[w] : posting'[w][i].to = posting'[w][j].to => i = j
  BY <1>5, <1>9
<1>14. queue' = queue /\ posting[w] = << >> /\ \A v \in Workers \ {w} : posting'[v] = posting[v]
  BY <1>1, <1>5
<1>. HIDE DEF D
<1>15. Telling(c, ed, m)
  BY <1>10, <1>11, <1>12, <1>13, <1>14, Zenon DEF Telling
<1>. QED
  BY <1>12, <1>15

-----------------------------------------------------------------------------
(* What word m says of client c's site is what happens.                     *)
News(c, m) ==
    /\ NamesGrow /\ WordOK(m)' /\ editing' \subseteq Clients
    /\ \A f \in Clients : sites'[f] # NoSite => usernames'[sites'[f]] = UserOf[f]
    /\ \A e \in Clients : From(e, m.site) => e = c
    /\ \A b \in Clients \ {c} :
         /\ sites'[b] = sites[b] /\ (b \in editing' <=> b \in editing)
         /\ b \in editing => sites[b] # m.site
         /\ opening'[b] = opening[b]
    /\ c \in editing' => sites'[c] = m.site
    /\ Spoken(m)
    /\ m.type = "opened" => m.site \in cursors' /\ ~Announced(m.site)
    /\ \A d \in Clients : WorkerOf[d] = WorkerOf[c] => opening'[d].at = "no"
    /\ UNCHANGED clientVars

(* What comes to a worker is from a client of another.                      *)
LEMMA ComingFrom ==
    ASSUME Talk, NEW w \in Workers, NEW T, NEW s, Coming(w, T, s), GInv
    PROVE  \E e \in Clients : WorkerOf[e] # w /\ From(e, s)
<1>1. CASE Posted(w, T, s)
  <2>1. PICK v \in Workers : \E i \in DOMAIN posting[v] :
               posting[v][i].to = w /\ posting[v][i].message.site = s
    BY <1>1 DEF Posted
  <2>2. PICK i \in DOMAIN posting[v] : posting[v][i].to = w /\ posting[v][i].message.site = s
    BY <2>1
  <2>3. PICK e : e = posting[v][i].source
    OBVIOUS
  <2>4. e \in Clients /\ WorkerOf[e] = v /\ v # w
    BY <2>2, <2>3 DEF Talk, PostsOK
  <2>5. From(e, s)
    BY <2>2, <2>3 DEF From
  <2>. QED
    BY <2>4, <2>5
<1>2. CASE Has(Told(w), T, s)
  <2>1. PICK i \in DOMAIN queue[w] : queue[w][i].message.site = s
    BY <1>2 DEF Has, Told, Messages
  <2>2. PICK e : e = queue[w][i].source
    OBVIOUS
  <2>3. e \in Clients /\ WorkerOf[e] # w
    BY <2>1, <2>2 DEF Talk, QueueOK
  <2>4. From(e, s)
    BY <2>1, <2>2 DEF From
  <2>. QED
    BY <2>3, <2>4
<1>. QED
  BY <1>1, <1>2 DEF Coming

(* Nobody has heard of a site that is not announced.                        *)
LEMMA Unheard ==
    ASSUME Talk, NEW s, ~Announced(s)
    PROVE  /\ \A w \in Workers : ~Has(Told(w), Words, s)
           /\ \A c \in Clients : HearsInOrder(c) => ~Has(down[c], Words, s)
           /\ \A e : ~From(e, s)
<1>1. ASSUME NEW w \in Workers, NEW i \in DOMAIN queue[w] PROVE queue[w][i].message.site # s
  BY DEF Talk, QueueOK, WordOK
<1>2. ASSUME NEW v \in Workers, NEW i \in DOMAIN posting[v] PROVE posting[v][i].message.site # s
  BY DEF Talk, PostsOK, WordOK
<1>3. ASSUME NEW c \in Clients, HearsInOrder(c), Has(down[c], Words, s) PROVE FALSE
  <2>1. PICK i \in DOMAIN down[c] : down[c][i].type \in Words /\ down[c][i].site = s
    BY <1>3 DEF Has
  <2>2. down[c][i].type # "document"
    BY <2>1 DEF Words
  <2>3. Announced(down[c][i].site)
    BY <1>3, <2>2 DEF HearsInOrder, WordOK
  <2>. QED
    BY <2>1, <2>3
<1>4. \A w \in Workers : ~Has(Told(w), Words, s)
  BY <1>1 DEF Has, Told, Messages
<1>5. \A e : ~From(e, s)
  BY <1>1, <1>2 DEF From
<1>. QED
  BY <1>3, <1>4, <1>5

LEMMA TalkTold ==
    ASSUME GInv, Talk, NEW c \in Clients, NEW ed, NEW m, Telling(c, ed, m), News(c, m)
    PROVE  Talk'
<1>. DEFINE w == WorkerOf[c]
<1>1. /\ queue' = queue /\ \A v \in Workers \ {w} : posting'[v] = posting[v]
      /\ \A i \in DOMAIN posting'[w] :
           /\ posting'[w][i].to \in Workers \ {w}
           /\ posting'[w][i].source = c /\ posting'[w][i].message = m
      /\ \A i, j \in DOMAIN posting'[w] : posting'[w][i].to = posting'[w][j].to => i = j
      /\ \A x \in Workers : \A T, s :
           Posted(x, T, s)' <=> Posted(x, T, s) \/ (x # w /\ m.type \in T /\ m.site = s)
      /\ \A e, s : From(e, s)' => From(e, s) \/ (e = c /\ s = m.site)
  BY DEF Telling
<1>2. /\ WordOK(m)' /\ editing' \subseteq Clients /\ \A x : WordOK(x) => WordOK(x)'
      /\ \A f \in Clients : sites'[f] # NoSite => usernames'[sites'[f]] = UserOf[f]
      /\ \A e \in Clients : From(e, m.site) => e = c
      /\ \A b \in Clients \ {c} :
           /\ sites'[b] = sites[b] /\ (b \in editing' <=> b \in editing)
           /\ b \in editing => sites[b] # m.site
      /\ c \in editing' => sites'[c] = m.site
      /\ \A s \in cursors : s \in cursors' \/ (m.type = "closed" /\ m.site = s)
      /\ m.type = "opened" => m.site \in cursors' /\ ~Announced(m.site)
  BY DEF News, NamesGrow, Spoken
<1>3. w \in Workers
  BY PresenceAssumption DEF Workers
<1>4. OneSource'
  <2>1. ASSUME NEW e \in Clients, NEW f \in Clients, NEW s, From(e, s)', From(f, s)' PROVE e = f
    BY <2>1, <1>1, <1>2 DEF Talk, OneSource
  <2>2. ASSUME NEW e \in Clients, NEW f \in editing', NEW s, s = sites'[f], From(e, s)', f \in Clients
        PROVE  e = f
    <3>1. CASE f = c
      BY <3>1, <2>2, <1>1, <1>2
    <3>2. CASE f # c
      <4>1. f \in editing /\ s = sites[f] /\ s # m.site
        BY <3>2, <2>2, <1>2
      <4>2. From(e, s)
        BY <2>2, <4>1, <1>1
      <4>. QED
        BY <4>1, <4>2 DEF Talk, OneSource
    <3>. QED
      BY <3>1, <3>2
  <2>3. ASSUME NEW e \in Clients, NEW f \in editing', From(e, sites[f])' PROVE e = f
    <3>1. PICK s : s = sites'[f]
      OBVIOUS
    <3>2. From(e, s)'
      BY <2>3, <3>1 DEF From
    <3>. QED
      BY <2>2, <2>3, <3>1, <3>2, <1>2
  <2>. QED
    BY <2>1, <2>3 DEF OneSource
<1>5. ASSUME NEW v \in Workers PROVE PostsOK(v)'
  <2>1. CASE v = w
    <3>1. (\A i \in DOMAIN posting[v] :
             /\ posting[v][i].source \in Clients /\ WorkerOf[posting[v][i].source] = v
             /\ posting[v][i].to \in Workers \ {v}
             /\ posting[v][i].message.type = "opened" => posting[v][i].message.site \in cursors)'
      BY <2>1, <1>1, <1>2
    <3>2. (\A i \in DOMAIN posting[v] : WordOK(posting[v][i].message))'
      BY <2>1, <1>1, <1>2
    <3>. QED
      BY <2>1, <3>1, <3>2, <1>1 DEF PostsOK
  <2>2. CASE v # w
    <3>0. posting'[v] = posting[v] /\ PostsOK(v)
      BY <2>2, <1>1 DEF Talk
    <3>1. (\A i \in DOMAIN posting[v] : WordOK(posting[v][i].message))'
      BY <3>0, <1>2 DEF PostsOK
    <3>2. ASSUME NEW i \in DOMAIN posting[v], posting[v][i].message.type = "opened"
          PROVE  posting[v][i].message.site \in cursors'
      <4>1. PICK p : p = posting[v][i]
        OBVIOUS
      <4>2. p.source \in Clients /\ WorkerOf[p.source] = v /\ p.message.site \in cursors
        BY <3>0, <3>2, <4>1 DEF PostsOK
      <4>3. From(p.source, p.message.site)
        BY <4>1 DEF From
      <4>4. p.message.site # m.site
        BY <4>2, <4>3, <2>2, <1>2
      <4>. QED
        BY <4>1, <4>2, <4>4, <1>2
    <3>. QED
      BY <3>0, <3>1, <3>2 DEF PostsOK
  <2>. QED
    BY <2>1, <2>2
<1>6. ASSUME NEW x \in Workers PROVE QueueOK(x)'
  <2>0. QueueOK(x)
    BY DEF Talk
  <2>1. (\A i \in DOMAIN queue[x] :
           /\ queue[x][i].source \in Clients /\ WorkerOf[queue[x][i].source] # x
           /\ WordOK(queue[x][i].message))'
    BY <2>0, <1>1, <1>2 DEF QueueOK
  <2>2. /\ InOrder(Told(x))'
        /\ \A T, s : Has(Told(x), T, s)' <=> Has(Told(x), T, s)
    BY <2>0, <1>1 DEF QueueOK, InOrder, Told, Has
  <2>3. (\A s : Posted(x, {"opened"}, s) => ~Has(Told(x), Words, s))'
    <3>1. m.type = "opened" => ~Has(Told(x), Words, m.site)
      BY <1>2, Unheard
    <3>. QED
      BY <2>0, <2>2, <3>1, <1>1 DEF QueueOK
  <2>4. (\A s : Has(Told(x), {"opened"}, s) /\ s \notin cursors => Coming(x, {"closed"}, s))'
    <3>. SUFFICES ASSUME NEW s, Has(Told(x), {"opened"}, s)', s \notin cursors'
                  PROVE  Coming(x, {"closed"}, s)'
      OBVIOUS
    <3>1. Has(Told(x), {"opened"}, s)
      BY <2>2
    <3>2. CASE s \notin cursors
      <4>1. Coming(x, {"closed"}, s)
        BY <2>0, <3>1, <3>2 DEF QueueOK
      <4>. QED
        BY <4>1, <2>2, <1>1 DEF Coming
    <3>3. CASE s \in cursors
      <4>1. m.type = "closed" /\ m.site = s
        BY <3>3, <1>2
      <4>2. Coming(x, {"opened"}, s)
        BY <3>1 DEF Coming
      <4>3. \E e \in Clients : WorkerOf[e] # x /\ From(e, s)
        BY <4>2, ComingFrom
      <4>4. x # w
        BY <4>1, <4>3, <1>2
      <4>5. Posted(x, {"closed"}, s)'
        BY <4>1, <4>4, <1>1
      <4>. QED
        BY <4>5 DEF Coming
    <3>. QED
      BY <3>2, <3>3
  <2>. QED
    BY <2>1, <2>2, <2>3, <2>4 DEF QueueOK
<1>7. (\A f \in Clients : sites[f] # NoSite => usernames[sites[f]] = UserOf[f])'
  BY <1>2
<1>. QED
  BY <1>4, <1>5, <1>6, <1>7 DEF Talk

LEMMA OthersTold ==
    ASSUME GInv, Talk, NEW c \in Clients, NEW m, Telling(c, editing', m), News(c, m),
           NEW b \in Clients, b # c, Informed(b)
    PROVE  Informed(b)'
<1>. DEFINE w == WorkerOf[c]
            x == WorkerOf[b]
<1>1. /\ queue' = queue
      /\ \A T, s : Posted(x, T, s)' <=> Posted(x, T, s) \/ (x # w /\ m.type \in T /\ m.site = s)
      /\ down'[b] = IF b \in editing' /\ x = w /\ Connected(b)
                    THEN Append(down[b], m) ELSE down[b]
  <2>1. x \in Workers
    BY PresenceAssumption DEF Workers
  <2>. QED
    BY <2>1 DEF Telling
<1>2. /\ NamesGrow /\ WordOK(m)'
      /\ \A e \in Clients : From(e, m.site) => e = c
      /\ sites'[b] = sites[b] /\ (b \in editing' <=> b \in editing)
      /\ b \in editing => sites[b] # m.site
      /\ opening'[b] = opening[b] /\ (x = w => opening'[b].at = "no")
      /\ Spoken(m)
      /\ m.type = "opened" => m.site \in cursors' /\ ~Announced(m.site)
      /\ UNCHANGED clientVars
  BY DEF News
<1>3. ClientKept(b) /\ m.type \in Words
  BY <1>2 DEF ClientKept, clientVars, WordOK
<1>4. \A T, s : Coming(x, T, s)' <=> Coming(x, T, s) \/ (x # w /\ m.type \in T /\ m.site = s)
  <2>1. \A T, s : Has(Told(x), T, s)' <=> Has(Told(x), T, s)
    BY <1>1 DEF Told, Has
  <2>. QED
    BY <2>1, <1>1 DEF Coming
<1>5. m.type = "opened" /\ Connected(b) => ~Has(down[b], Words, m.site)
  BY <1>2, Unheard DEF Informed
<1>6. \A s : Connected(b) /\ Coming(x, {"opened"}, s)' => ~Has(down[b], Words, s)
  BY <1>4, <1>5 DEF Informed, HearsInOrder
<1>11. OpenerOK(b)'
  <2>1. CASE x = w
    BY <2>1, <1>2, NoOpener
  <2>2. CASE x # w
    BY <2>2, <1>2, <1>4, OpenerKept DEF Spoken, NamesGrow, Informed
  <2>. QED
    BY <2>1, <2>2
<1>12. b \in editing => opening'[b].at = "no"
  BY <1>2 DEF GInv, Sessions
<1>7. CASE ~Connected(b)
  BY <1>2, <1>3, <1>7, <1>11, HearsNothing
<1>8. CASE b \notin editing /\ Connected(b)
  BY <1>1, <1>2, <1>3, <1>6, <1>8, <1>11, HearsNothing
<1>9. CASE b \in editing /\ Connected(b) /\ x = w
  <2>1. down'[b] = Append(down[b], m)
    BY <1>1, <1>2, <1>9
  <2>2. PICK S : down[b] \in Seq(S) /\ m \in S
    <3>1. PICK S : down[b] \in Seq(S)
      BY DEF GInv
    <3>. DEFINE d == down[b]
    <3>. HIDE DEF d
    <3>2. d \in Seq(S \cup {m})
      BY <3>1, SeqOfMore DEF d
    <3>. QED
      BY <3>2 DEF d
  <2>3. \A T, s : Has(down[b], T, s)' <=> Has(down[b], T, s) \/ (m.type \in T /\ m.site = s)
    <3>. DEFINE d == down[b]
    <3>0. d \in Seq(S) /\ m \in S
      BY <2>2
    <3>1. \A T, s : Has(Append(d, m), T, s) <=> Has(d, T, s) \/ (m.type \in T /\ m.site = s)
      <4>. HIDE DEF d
      <4>. QED
        BY <3>0, HasAppend
    <3>. QED
      BY <2>1, <3>1 DEF Has
  <2>4. \A T, s : OnItsWay(b, T, s)' <=> OnItsWay(b, T, s) \/ (m.type \in T /\ m.site = s)
    BY <2>3, <1>4, <1>9 DEF OnItsWay
  <2>5. Hearing(b, m)
    BY <2>4, <1>2, <1>3, <1>9, <1>12 DEF Hearing
  <2>6. \A s : Coming(x, {"opened"}, s)' => ~Has(down[b], Words, s) /\ s # m.site
    <3>. SUFFICES ASSUME NEW s, Coming(x, {"opened"}, s)', s = m.site PROVE FALSE
      BY <1>6, <1>9
    <3>1. Coming(x, {"opened"}, s) /\ x \in Workers
      BY <1>4, <1>9, PresenceAssumption DEF Workers
    <3>2. \E e \in Clients : WorkerOf[e] # x /\ From(e, s)
      <4>. HIDE DEF x
      <4>. QED
        BY <3>1, ComingFrom
    <3>. QED
      BY <3>2, <1>2, <1>9
  <2>. QED
    BY <2>1, <2>5, <2>6, <1>2, <1>5, <1>9, HearsNow
<1>10. CASE b \in editing /\ Connected(b) /\ x # w
  <2>1. down'[b] = down[b]
    BY <1>1, <1>10
  <2>2. \A T, s : OnItsWay(b, T, s)' <=> OnItsWay(b, T, s) \/ (m.type \in T /\ m.site = s)
    BY <2>1, <1>4, <1>10 DEF OnItsWay, Has
  <2>3. Hearing(b, m)
    BY <2>2, <1>2, <1>3, <1>10, <1>12 DEF Hearing
  <2>. QED
    BY <2>1, <2>3, <1>6, <1>10, HearsLater
<1>. QED
  BY <1>7, <1>8, <1>9, <1>10

-----------------------------------------------------------------------------
(* What the request of a client that is being served says of it.            *)
LEMMA Asked ==
    ASSUME GInv, NEW c \in Clients, NEW type, Pending(c) # << >>, Head(Pending(c)) = Plain(type)
    PROVE  /\ Legal(c \in editing, Plain(type))
           /\ Connected(c) => DocumentsIn(down[c]) = {} /\ type # "hangup"
           /\ type \in {"open", "close", "hangup"} => window[c] # "shown"
<1>. DEFINE q == Pending(c)
            e == c \in editing
<1>1. q # << >> /\ Head(q) = Plain(type)
  OBVIOUS
<1>2. Orderly(q, e) /\ (Connected(c) => Fits(q, e, window[c], down[c]))
      /\ (~Connected(c) => window[c] = "closed")
  BY DEF GInv
<1>. HIDE DEF q, e
<1>3. q \in Seq(Message) /\ Len(q) \in Nat \ {0} /\ Head(q) = q[1]
  BY <1>1, <1>2 DEF Orderly
<1>4. Legal(e, Plain(type))
  BY <1>1, <1>2, <1>3 DEF Orderly
<1>5. ASSUME Connected(c) PROVE DocumentsIn(down[c]) = {} /\ type # "hangup"
  <2>1. Len(q) # 0 /\ 1 \in 1 .. Len(q)
    BY <1>3
  <2>. QED
    BY <2>1, <1>1, <1>2, <1>3, <1>5 DEF Fits
<1>6. ASSUME Connected(c), window[c] = "shown", type \in {"open", "close"} PROVE FALSE
  <2>1. q[Len(q)] = Plain("move") /\ \A i \in 1 .. Len(q) : q[i] # Plain("hangup")
    <3>1. Ends(q, e, "shown") /\ \A i \in 1 .. Len(q) : q[i] # Plain("hangup")
      BY <1>2, <1>6 DEF Fits
    <3>. QED
      BY <3>1, <1>3 DEF Ends
  <2>2. \A i \in 2 .. Len(q) : Follows(q[i - 1], q[i]) /\ q[i] # Plain("hangup")
    BY <2>1, <1>2, <1>3 DEF Orderly
  <2>3. q[1] \in {Plain("open"), Plain("close")}
    BY <1>1, <1>3, <1>6
  <2>4. Len(q) > 1
    BY <2>1, <2>3, <1>3, MessagesDiffer
  <2>5. q[1] = Plain("close") /\ q[2] = Plain("open")
    <3>1. 2 \in 2 .. Len(q) /\ 2 - 1 = 1
      BY <2>4, <1>3
    <3>2. Follows(q[1], q[2]) /\ q[2] # Plain("hangup")
      BY <2>2, <3>1
    <3>. QED
      BY <2>3, <3>2, MessagesDiffer DEF Follows
  <2>6. Len(q) > 2
    BY <2>1, <2>4, <2>5, <1>3, MessagesDiffer
  <2>7. FALSE
    <3>1. 3 \in 2 .. Len(q) /\ 3 - 1 = 2
      BY <2>6, <1>3
    <3>2. Follows(q[2], q[3]) /\ q[3] # Plain("hangup")
      BY <2>2, <3>1
    <3>. QED
      BY <2>5, <3>2, MessagesDiffer DEF Follows
  <2>. QED
    BY <2>7
<1>7. type \in {"open", "close", "hangup"} => window[c] # "shown"
  BY <1>2, <1>5, <1>6
<1>. QED
  BY <1>4, <1>5, <1>7 DEF e

LEMMA Requested ==
    ASSUME GInv, NEW c \in Clients, NEW type, Serving(c, type)
    PROVE  /\ posting[WorkerOf[c]] = << >> /\ Legal(c \in editing, Plain(type))
           /\ \A d \in Clients : WorkerOf[d] = WorkerOf[c] => opening[d].at = "no"
           /\ Connected(c) => DocumentsIn(down[c]) = {} /\ type # "hangup"
           /\ type \in {"open", "close", "hangup"} => window[c] # "shown"
<1>1. /\ up[c] # << >> /\ Head(up[c]) = Plain(type) /\ posting[WorkerOf[c]] = << >>
      /\ \A d \in Clients : WorkerOf[d] = WorkerOf[c] => opening[d].at = "no"
  BY DEF Serving, Free, NotOpening, Opening
<1>2. Pending(c) = up[c]
  BY <1>1 DEF Pending, Still
<1>. QED
  BY <1>1, <1>2, Asked

(* The worker of the client that makes the news tells itself nothing.       *)
LEMMA OwnWorker ==
    ASSUME NEW c \in Clients, NEW ed, NEW m, Telling(c, ed, m)
    PROVE  \A T, s : Coming(WorkerOf[c], T, s)' <=> Coming(WorkerOf[c], T, s)
<1>. DEFINE w == WorkerOf[c]
<1>1. w \in Workers
  BY PresenceAssumption DEF Workers
<1>2. \A T, s : Posted(w, T, s)' <=> Posted(w, T, s)
  BY <1>1 DEF Telling
<1>3. \A T, s : Has(Told(w), T, s)' <=> Has(Told(w), T, s)
  BY DEF Telling, Told, Has
<1>. QED
  BY <1>2, <1>3 DEF Coming

LEMMA NamesShrink ==
    ASSUME UNCHANGED usernames, cursors' \subseteq cursors, \A s : Announced(s) => Announced(s)'
    PROVE  NamesGrow
BY DEF NamesGrow, NamesStay, WordOK

LEMMA NothingAdded ==
    ASSUME GInv, NEW c \in Clients
    PROVE  down[c] \o << >> = down[c]
<1>1. PICK S : down[c] \in Seq(S)
  BY DEF GInv
<1>. DEFINE d == down[c]
<1>2. d \in Seq(S)
  BY <1>1
<1>. HIDE DEF d
<1>3. d \o << >> = d
  BY <1>2
<1>. QED
  BY <1>3 DEF d

(* Sites of sessions that are not opening are announced.                    *)
LEMMA EditingAnnounced ==
    ASSUME GInv, NEW c \in Clients, sites[c] # NoSite, opening[c].at = "no"
    PROVE  c \in editing /\ Announced(sites[c]) /\ sites[c] \in cursors
<1>1. sites[c] \in 1 .. Len(usernames) /\ c \in editing
  BY DEF GInv, Sessions, NoSite
<1>2. \A d \in Clients : Registered(d) => sites[c] # sites[d]
  BY DEF GInv, Sessions, Registered
<1>3. sites[c] \in cursors
  BY DEF GInv, NoGhosts
<1>. QED
  BY <1>1, <1>2, <1>3 DEF Announced

LEMMA MoveKeeps ==
    ASSUME GInv, GInv', Talk, \A b \in Clients : Informed(b), NEW c \in Clients, ServeMove(c)
    PROVE  Talk' /\ \A b \in Clients : Informed(b)'
<1>1. /\ Serving(c, "move") /\ cursors' = cursors \cup {sites[c]}
      /\ Relay(c, editing, << >>, About("moved", sites[c]))
      /\ UNCHANGED <<usernames, sites, opening, editing, queue, clientVars>>
  BY DEF ServeMove
<1>2. /\ c \in editing /\ posting[WorkerOf[c]] = << >>
      /\ \A d \in Clients : WorkerOf[d] = WorkerOf[c] => opening[d].at = "no"
  BY <1>1, Requested, MessagesDiffer DEF Legal
<1>3. PICK m : m = About("moved", sites[c])
  OBVIOUS
<1>4. m.type = "moved" /\ m.site = sites[c]
  BY <1>3 DEF About
<1>5. Telling(c, editing, m) /\ down'[c] = IF Connected(c) THEN down[c] \o << >> ELSE down[c]
  BY <1>1, <1>2, <1>3, RelayTells DEF clientVars
<1>6. down'[c] = down[c]
  BY <1>5, NothingAdded
<1>0. sites[c] \in cursors /\ Announced(sites[c])
  BY <1>2, EditingAnnounced DEF GInv, Sessions
<1>7. /\ \A b \in Clients \ {c} : b \in editing => sites[b] # sites[c]
      /\ editing \subseteq Clients
  BY <1>2 DEF GInv, Sessions, NoSite
<1>8. cursors' = cursors
  BY <1>0, <1>1
<1>12. NamesKept
  BY <1>1, <1>8, SameNames
<1>9. News(c, m)
  <2>1. NamesGrow /\ Spoken(m)
    BY <1>12, WordKept DEF NamesGrow, NamesKept, Spoken
  <2>2. WordOK(m)'
    BY <1>0, <1>4, <1>12 DEF WordOK, Words, NamesKept
  <2>3. \A f \in Clients : sites'[f] # NoSite => usernames'[sites'[f]] = UserOf[f]
    BY <1>1 DEF Talk
  <2>4. \A e \in Clients : From(e, m.site) => e = c
    BY <1>2, <1>4 DEF Talk, OneSource
  <2>. QED
    BY <2>1, <2>2, <2>3, <2>4, <1>1, <1>2, <1>4, <1>7, <1>8 DEF News
<1>10. Talk'
  BY <1>5, <1>9, TalkTold
<1>11. ASSUME NEW b \in Clients PROVE Informed(b)'
  <2>1. CASE b # c
    BY <2>1, <1>1, <1>5, <1>9, OthersTold
  <2>2. CASE b = c
    <3>1. \A T, s : Coming(WorkerOf[c], T, s)' <=> Coming(WorkerOf[c], T, s)
      BY <1>5, OwnWorker
    <3>. QED
      BY <2>2, <3>1, <1>1, <1>6, <1>12, InformedKept DEF clientVars
  <2>. QED
    BY <2>1, <2>2
<1>. QED
  BY <1>10, <1>11

LEMMA LeaveKeeps ==
    ASSUME GInv, GInv', Talk, \A b \in Clients : Informed(b), NEW c \in Clients,
           NEW type \in {"close", "hangup"}, Serving(c, type), sites[c] # NoSite, Leave(c),
           UNCHANGED <<queue, clientVars>>
    PROVE  Talk' /\ \A b \in Clients : Informed(b)'
<1>1. /\ cursors' = cursors \ {sites[c]} /\ sites' = [sites EXCEPT ![c] = NoSite]
      /\ editing' = editing \ {c} /\ usernames' = usernames /\ opening' = opening
      /\ Relay(c, editing', << >>, About("closed", sites[c]))
  BY DEF Leave
<1>2. /\ posting[WorkerOf[c]] = << >> /\ window[c] # "shown"
      /\ Connected(c) => DocumentsIn(down[c]) = {}
      /\ \A d \in Clients : WorkerOf[d] = WorkerOf[c] => opening[d].at = "no"
  BY Requested
<1>3. PICK m : m = About("closed", sites[c])
  OBVIOUS
<1>4. m.type = "closed" /\ m.site = sites[c]
  BY <1>3 DEF About
<1>5. Telling(c, editing', m) /\ down'[c] = IF Connected(c) THEN down[c] \o << >> ELSE down[c]
  BY <1>1, <1>2, <1>3, RelayTells DEF clientVars
<1>6. down'[c] = down[c]
  BY <1>5, NothingAdded
<1>0. c \in editing /\ Announced(sites[c]) /\ sites[c] \in cursors
  BY <1>2, EditingAnnounced
<1>7. /\ \A b \in Clients \ {c} : sites'[b] = sites[b] /\ (b \in editing => sites[b] # sites[c])
      /\ editing \subseteq Clients /\ sites'[c] = NoSite
  BY <1>1 DEF GInv, Sessions
<1>13. \A s : Announced(s)' <=> Announced(s)
  BY <1>1, <1>2, <1>7 DEF Announced, Registered
<1>8. NamesGrow
  BY <1>1, <1>13, NamesShrink
<1>9. News(c, m)
  <2>1. Spoken(m)
    BY <1>1, <1>4, <1>13 DEF Spoken
  <2>2. WordOK(m)'
    BY <1>0, <1>1, <1>4, <1>13 DEF WordOK, Words
  <2>3. \A f \in Clients : sites'[f] # NoSite => usernames'[sites'[f]] = UserOf[f]
    BY <1>1, <1>7 DEF Talk
  <2>4. \A e \in Clients : From(e, m.site) => e = c
    BY <1>0, <1>4 DEF Talk, OneSource
  <2>. QED
    BY <2>1, <2>2, <2>3, <2>4, <1>1, <1>2, <1>4, <1>7, <1>8 DEF News
<1>10. Talk'
  BY <1>5, <1>9, TalkTold
<1>11. ASSUME NEW b \in Clients PROVE Informed(b)'
  <2>1. CASE b # c
    BY <2>1, <1>5, <1>9, OthersTold
  <2>2. CASE b = c
    <3>0. Informed(c) /\ ClientKept(c)
      BY DEF clientVars, ClientKept
    <3>1. EditorOK(c)' /\ OpenerOK(c)'
      BY <3>0, <1>1, <1>2, <1>8, EditorKept, NoOpener DEF Informed
    <3>2. ASSUME HearsInOrder(c) PROVE HearsInOrder(c)'
      <4>1. (\A i \in DOMAIN down[c] : down[c][i].type = "document" \/ WordOK(down[c][i]))'
        BY <1>6, <1>8, <3>2 DEF HearsInOrder, NamesGrow
      <4>2. InOrder(down[c])'
        BY <1>6, <3>2 DEF HearsInOrder, InOrder
      <4>3. \A s : Coming(WorkerOf[c], {"opened"}, s)' <=> Coming(WorkerOf[c], {"opened"}, s)
        BY <1>5, OwnWorker
      <4>4. (\A s : Coming(WorkerOf[c], {"opened"}, s) => ~Has(down[c], Words, s))'
        BY <1>6, <3>2, <4>3 DEF HearsInOrder, Has
      <4>. QED
        BY <4>1, <4>2, <4>4 DEF HearsInOrder
    <3>3. /\ Running(c)' <=> Running(c)
          /\ Connected(c)' <=> Connected(c)
          /\ window'[c] = window[c] /\ lost'[c] = lost[c]
      BY <3>0 DEF ClientKept, Running, Connected
    <3>4. Running(c)' => ~DocumentFirst(c)'
      <4>1. PICK S : down[c] \in Seq(S)
        BY DEF GInv
      <4>2. Running(c) => Connected(c)
        BY DEF Running, Connected, Nothing
      <4>3. Running(c) => DocumentsIn(down[c]) = {}
        BY <4>2, <1>2
      <4>. QED
        BY <4>1, <4>3, <3>3, <1>6 DEF DocumentFirst, DocumentsIn
    <3>. QED
      BY <2>2, <3>0, <3>1, <3>2, <3>3, <3>4, <1>2 DEF Informed
  <2>. QED
    BY <2>1, <2>2
<1>. QED
  BY <1>10, <1>11

(* A step in which no worker tells anything.                                *)
LEMMA TalkSame ==
    ASSUME Talk, NamesKept, UNCHANGED <<editing, queue, posting>>,
           \A f \in editing : sites'[f] = sites[f],
           \A f \in Clients : sites'[f] # NoSite => usernames'[sites'[f]] = UserOf[f]
    PROVE  Talk'
<1>1. \A x, T, s : /\ Posted(x, T, s)' <=> Posted(x, T, s)
                   /\ Has(Told(x), T, s)' <=> Has(Told(x), T, s)
                   /\ Coming(x, T, s)' <=> Coming(x, T, s)
  BY DEF Posted, Coming, Told, Has
<1>2. OneSource'
  <2>1. \A e, s : From(e, s)' <=> From(e, s)
    BY DEF From
  <2>. QED
    BY <2>1 DEF Talk, OneSource
<1>3. \A x : WordOK(x) => WordOK(x)'
  BY WordKept
<1>4. ASSUME NEW v \in Workers PROVE PostsOK(v)'
  <2>1. (\A i \in DOMAIN posting[v] : WordOK(posting[v][i].message))'
    BY <1>3 DEF Talk, PostsOK
  <2>. QED
    BY <2>1 DEF Talk, PostsOK, NamesKept
<1>5. ASSUME NEW w \in Workers PROVE QueueOK(w)'
  <2>1. (\A i \in DOMAIN queue[w] :
           /\ queue[w][i].source \in Clients /\ WorkerOf[queue[w][i].source] # w
           /\ WordOK(queue[w][i].message))'
    BY <1>3 DEF Talk, QueueOK
  <2>2. InOrder(Told(w))'
    BY DEF Talk, QueueOK, InOrder, Told
  <2>3. (\A s : Posted(w, {"opened"}, s) => ~Has(Told(w), Words, s))'
    BY <1>1 DEF Talk, QueueOK
  <2>4. (\A s : Has(Told(w), {"opened"}, s) /\ s \notin cursors => Coming(w, {"closed"}, s))'
    BY <1>1 DEF Talk, QueueOK, NamesKept
  <2>. QED
    BY <2>1, <2>2, <2>3, <2>4 DEF QueueOK
<1>6. (\A c \in Clients : sites[c] # NoSite => usernames[sites[c]] = UserOf[c])'
  OBVIOUS
<1>. QED
  BY <1>2, <1>4, <1>5, <1>6 DEF Talk

(* A step of an open before it is answered: nobody is told.                 *)
LEMMA OpeningKeeps ==
    ASSUME GInv, Talk, \A b \in Clients : Informed(b), NEW c \in Clients, c \notin editing,
           NamesKept, UNCHANGED <<editing, down, queue, posting, clientVars>>,
           \A b \in Clients \ {c} : sites'[b] = sites[b] /\ opening'[b] = opening[b],
           sites'[c] # NoSite => usernames'[sites'[c]] = UserOf[c],
           OpenerOK(c)'
    PROVE  Talk' /\ \A b \in Clients : Informed(b)'
<1>1. \A x, T, s : Coming(x, T, s)' <=> Coming(x, T, s)
  BY DEF Posted, Coming, Told, Has
<1>2. ASSUME NEW b \in Clients, b # c PROVE Informed(b)'
  BY <1>1, <1>2, InformedKept DEF clientVars
<1>3. Informed(c)'
  <2>1. ClientKept(c) /\ NamesGrow
    BY WordKept DEF clientVars, ClientKept, NamesGrow, NamesKept
  <2>2. Connected(c) => \A s : Coming(WorkerOf[c], {"opened"}, s)' => ~Has(down[c], Words, s)
    BY <1>1 DEF Informed, HearsInOrder
  <2>. QED
    BY <2>1, <2>2, HearsNothing
<1>4. ASSUME NEW f \in Clients, sites'[f] # NoSite PROVE usernames'[sites'[f]] = UserOf[f]
  <2>1. CASE f = c
    BY <1>4, <2>1
  <2>2. CASE f # c
    <3>1. sites[f] # NoSite /\ sites'[f] = sites[f] /\ sites[f] \in 1 .. Len(usernames)
      BY <1>4, <2>2 DEF GInv, Sessions, NoSite
    <3>. QED
      BY <3>1 DEF Talk, NamesKept, NamesStay
  <2>. QED
    BY <2>1, <2>2
<1>5. \A f \in editing : sites'[f] = sites[f]
  BY DEF GInv, Sessions
<1>6. Talk'
  BY <1>4, <1>5, TalkSame
<1>. QED
  BY <1>2, <1>3, <1>6

(* What is known of a client while it is opening.                           *)
LEMMA WhileOpening ==
    ASSUME GInv, NEW c \in Clients, opening[c].at # "no"
    PROVE  /\ c \notin editing /\ posting[WorkerOf[c]] = << >> /\ window[c] # "shown"
           /\ Connected(c) => DocumentsIn(down[c]) = {}
           /\ \A d \in Clients \ {c} : WorkerOf[d] = WorkerOf[c] => opening[d].at = "no"
           /\ UserOf[c] \in members /\ DOMAIN opening = Clients
<1>1. Pending(c) = Before(Plain("open"), up[c]) /\ up[c] \in Seq(Message)
  BY DEF Pending, Still, GInv
<1>2. Pending(c) # << >> /\ Head(Pending(c)) = Plain("open")
  <2>1. Plain("open") \in Message
    BY MessagesDiffer
  <2>2. PICK m, q : m = Plain("open") /\ q = up[c]
    OBVIOUS
  <2>3. Before(m, q) # << >> /\ Head(Before(m, q)) = m
    BY <1>1, <2>1, <2>2, BeforeProperties
  <2>. QED
    BY <1>1, <2>2, <2>3
<1>3. /\ window[c] # "shown"
      /\ Connected(c) => DocumentsIn(down[c]) = {}
  BY <1>2, Asked
<1>. QED
  BY <1>3 DEF GInv, Opens, Sessions

LEMMA JoinKeeps ==
    ASSUME GInv, Talk, \A b \in Clients : Informed(b), NEW c \in Clients, ServeOpen(c)
    PROVE  Talk' /\ \A b \in Clients : Informed(b)'
<1>1. /\ Serving(c, "open") /\ opening' = [opening EXCEPT ![c] = Opening("joined", {}, << >>)]
      /\ UNCHANGED <<usernames, cursors, sites, editing, down, queue, posting, clientVars>>
  BY DEF ServeOpen
<1>2. opening[c].at = "no" /\ c \notin editing
  BY <1>1, Requested, MessagesDiffer DEF Legal
<1>3. opening'[c].at = "joined" /\ \A b \in Clients \ {c} : opening'[b] = opening[b]
  BY <1>1 DEF GInv, Opens, Opening
<1>4. \A b \in Clients : Registered(b)' <=> Registered(b)
  BY <1>2, <1>3 DEF Registered
<1>5. NamesKept
  BY <1>1, <1>4 DEF NamesKept, NamesStay, Announced
<1>6. OpenerOK(c)'
  BY <1>3 DEF OpenerOK
<1>7. sites'[c] # NoSite => usernames'[sites'[c]] = UserOf[c]
  BY <1>1 DEF Talk
<1>. QED
  BY <1>1, <1>2, <1>3, <1>5, <1>6, <1>7, OpeningKeeps

LEMMA ReadProfilesKeeps ==
    ASSUME GInv, Talk, \A b \in Clients : Informed(b), NEW c \in Clients, ReadProfiles(c)
    PROVE  Talk' /\ \A b \in Clients : Informed(b)'
<1>1. /\ opening[c].at = "joined" /\ opening' = [opening EXCEPT ![c] = Opening("profiles", members, << >>)]
      /\ UNCHANGED <<usernames, cursors, sites, editing, down, queue, posting, clientVars>>
  BY DEF ReadProfiles
<1>2. c \notin editing /\ UserOf[c] \in members
  BY <1>1, WhileOpening
<1>3. /\ opening'[c].at = "profiles" /\ opening'[c].profiles = members
      /\ \A b \in Clients \ {c} : opening'[b] = opening[b]
  BY <1>1 DEF GInv, Opens, Opening
<1>4. \A b \in Clients : Registered(b)' <=> Registered(b)
  BY <1>1, <1>3 DEF Registered
<1>5. NamesKept
  BY <1>1, <1>4 DEF NamesKept, NamesStay, Announced
<1>6. OpenerOK(c)'
  <2>1. \A s : Announced(s)' => usernames'[s] \in members
    BY <1>1 DEF GInv, Announced
  <2>. QED
    BY <1>2, <1>3, <2>1 DEF OpenerOK
<1>7. sites'[c] # NoSite => usernames'[sites'[c]] = UserOf[c]
  BY <1>1 DEF Talk
<1>. QED
  BY <1>1, <1>2, <1>3, <1>5, <1>6, <1>7, OpeningKeeps

LEMMA RegisterKeeps ==
    ASSUME GInv, Talk, \A b \in Clients : Informed(b), NEW c \in Clients, Register(c)
    PROVE  Talk' /\ \A b \in Clients : Informed(b)'
<1>0. PICK n : n = NextSite
  OBVIOUS
<1>1. /\ opening[c].at = "profiles" /\ usernames' = Append(usernames, UserOf[c])
      /\ cursors' = cursors \cup {n} /\ sites' = [sites EXCEPT ![c] = n]
      /\ opening' = [opening EXCEPT ![c] = Opening("registered", @.profiles, << >>)]
      /\ UNCHANGED <<editing, down, queue, posting, clientVars>>
  BY <1>0 DEF Register
<1>2. c \notin editing
  BY <1>1, WhileOpening
<1>3. /\ opening'[c].at = "registered" /\ opening'[c].profiles = opening[c].profiles
      /\ \A b \in Clients \ {c} : opening'[b] = opening[b] /\ sites'[b] = sites[b]
      /\ sites'[c] = n
  BY <1>1 DEF GInv, Opens, Opening, Sessions
<1>4. /\ n = Len(usernames) + 1 /\ n \notin 1 .. Len(usernames)
      /\ (1 .. Len(usernames))' = 1 .. n /\ 1 .. n = (1 .. Len(usernames)) \cup {n}
      /\ usernames'[n] = UserOf[c]
      /\ \A s \in 1 .. Len(usernames) : usernames'[s] = usernames[s]
  <2>1. usernames \in Seq(Users) /\ UserOf[c] \in Users
    BY PresenceAssumption DEF GInv
  <2>2. Len(usernames') = Len(usernames) + 1 /\ Len(usernames) \in Nat
    BY <1>1, <2>1
  <2>. QED
    BY <1>0, <1>1, <2>1, <2>2 DEF NextSite
<1>5. Registered(c)' /\ \A b \in Clients \ {c} : Registered(b)' <=> Registered(b)
  BY <1>3 DEF Registered
<1>6. ~Registered(c)
  BY <1>1 DEF Registered
<1>7. ASSUME NEW s PROVE Announced(s)' <=> Announced(s)
  <2>1. Announced(s)' <=>
          s \in 1 .. n /\ s # n /\ \A b \in Clients \ {c} : Registered(b) => s # sites[b]
    BY <1>3, <1>4, <1>5 DEF Announced
  <2>2. Announced(s) <=>
          s \in 1 .. Len(usernames) /\ \A b \in Clients \ {c} : Registered(b) => s # sites[b]
    BY <1>6 DEF Announced
  <2>. QED
    BY <2>1, <2>2, <1>4
<1>8. NamesStay
  BY <1>4 DEF NamesStay
<1>9. NamesKept
  <2>1. \A s \in cursors' : Announced(s) => s \in cursors
    BY <1>1, <1>4 DEF Announced
  <2>. QED
    BY <1>1, <1>7, <1>8, <2>1 DEF NamesKept
<1>10. OpenerOK(c)'
  <2>1. \A s : Coming(WorkerOf[c], {"opened"}, s)' <=> Coming(WorkerOf[c], {"opened"}, s)
    BY <1>1 DEF Posted, Coming, Told, Has
  <2>2. UserOf[c] \in opening[c].profiles
    BY <1>1 DEF Informed, OpenerOK
  <2>3. \A s : Announced(s) => usernames[s] \in opening[c].profiles \/ Coming(WorkerOf[c], {"opened"}, s)
    BY <1>1 DEF Informed, OpenerOK
  <2>4. \A s : Announced(s) => usernames'[s] = usernames[s]
    BY <1>4 DEF Announced
  <2>5. \A s : Announced(s)' => usernames'[s] \in opening'[c].profiles \/ Coming(WorkerOf[c], {"opened"}, s)'
    BY <2>1, <2>3, <2>4, <1>3, <1>7
  <2>. QED
    BY <2>2, <2>5, <1>3 DEF OpenerOK
<1>. QED
  BY <1>1, <1>2, <1>3, <1>4, <1>9, <1>10, OpeningKeeps

LEMMA ReadUsernamesKeeps ==
    ASSUME GInv, Talk, \A b \in Clients : Informed(b), NEW c \in Clients, ReadUsernames(c)
    PROVE  Talk' /\ \A b \in Clients : Informed(b)'
<1>1. /\ opening[c].at = "registered"
      /\ opening' = [opening EXCEPT ![c] = Opening("usernames", @.profiles, usernames)]
      /\ UNCHANGED <<usernames, cursors, sites, editing, down, queue, posting, clientVars>>
  BY DEF ReadUsernames
<1>2. c \notin editing
  BY <1>1, WhileOpening
<1>3. /\ opening'[c].at = "usernames" /\ opening'[c].profiles = opening[c].profiles
      /\ opening'[c].users = usernames
      /\ \A b \in Clients \ {c} : opening'[b] = opening[b]
  BY <1>1 DEF GInv, Opens, Opening
<1>4. \A b \in Clients : Registered(b)' <=> Registered(b)
  BY <1>1, <1>3 DEF Registered
<1>5. NamesKept
  BY <1>1, <1>4 DEF NamesKept, NamesStay, Announced
<1>6. OpenerOK(c)'
  <2>1. DOMAIN usernames = 1 .. Len(usernames) /\ sites[c] \in 1 .. Len(usernames)
    BY <1>1 DEF GInv, Sessions, Opens, NoSite
  <2>2. UserOf[c] \in opening[c].profiles
    BY <1>1 DEF Informed, OpenerOK
  <2>3. \A s : Announced(s) => usernames[s] \in opening[c].profiles \/ Coming(WorkerOf[c], {"opened"}, s)
    BY <1>1 DEF Informed, OpenerOK
  <2>4. \A s : Announced(s)' => usernames'[s] \in opening'[c].profiles \/ Coming(WorkerOf[c], {"opened"}, s)'
    BY <2>3, <1>1, <1>3, <1>5 DEF Posted, Coming, Told, Has, NamesKept
  <2>5. UsersOK(opening[c].users)' /\ OwnNamed(c, opening[c].profiles, opening[c].users)'
    BY <2>1, <2>2, <1>1, <1>3 DEF UsersOK, OwnNamed
  <2>6. \A s : Announced(s)' => s \in DOMAIN opening'[c].users
    BY <2>1, <1>1, <1>3 DEF Announced
  <2>. QED
    BY <2>2, <2>4, <2>5, <2>6, <1>3 DEF OpenerOK
<1>7. sites'[c] # NoSite => usernames'[sites'[c]] = UserOf[c]
  BY <1>1 DEF Talk
<1>. QED
  BY <1>1, <1>2, <1>3, <1>5, <1>6, <1>7, OpeningKeeps

LEMMA AnswerKeeps ==
    ASSUME GInv, GInv', Talk, \A b \in Clients : Informed(b), NEW c \in Clients, Answer(c)
    PROVE  Talk' /\ \A b \in Clients : Informed(b)'
<1>1. PICK n : n = sites[c]
  OBVIOUS
<1>26. PICK ps : ps = opening[c].profiles
  OBVIOUS
<1>27. PICK us : us = opening[c].users
  OBVIOUS
<1>2. /\ opening[c].at = "usernames" /\ opening' = [opening EXCEPT ![c] = NotOpening]
      /\ editing' = editing \cup {c}
      /\ Relay(c, editing', <<DocumentInfo(n, ps, us, cursors)>>, Opened(n, UserOf[c]))
      /\ UNCHANGED <<usernames, cursors, sites, queue, clientVars>>
  BY <1>1, <1>26, <1>27 DEF Answer
<1>3. /\ posting[WorkerOf[c]] = << >> /\ window[c] # "shown" /\ c \notin editing
      /\ Connected(c) => DocumentsIn(down[c]) = {}
      /\ \A d \in Clients \ {c} : WorkerOf[d] = WorkerOf[c] => opening[d].at = "no"
  BY <1>2, WhileOpening
<1>4. PICK m : m = Opened(n, UserOf[c])
  OBVIOUS
<1>5. m.type = "opened" /\ m.site = n /\ m.user = UserOf[c]
  BY <1>4 DEF Opened
<1>6. PICK doc : doc = DocumentInfo(n, ps, us, cursors)
  OBVIOUS
<1>7. /\ doc.type = "document" /\ doc.site = n
      /\ doc.profiles = ps /\ doc.users = us /\ doc.cursors = cursors
  BY <1>6 DEF DocumentInfo
<1>8. /\ Telling(c, editing', m)
      /\ down'[c] = IF Connected(c) THEN down[c] \o <<doc>> ELSE down[c]
  BY <1>2, <1>3, <1>4, <1>6, RelayTells DEF clientVars
<1>9. PICK S : down[c] \in Seq(S) /\ doc \in S
  <2>1. PICK S : down[c] \in Seq(S)
    BY DEF GInv
  <2>. DEFINE d == down[c]
  <2>. HIDE DEF d
  <2>2. d \in Seq(S \cup {doc})
    BY <2>1, SeqOfMore DEF d
  <2>. QED
    BY <2>2 DEF d
<1>10. Connected(c) => down'[c] = Append(down[c], doc)
  <2>. DEFINE d == down[c]
  <2>. HIDE DEF d
  <2>1. d \o <<doc>> = Append(d, doc)
    BY <1>9, AppendIsConcat DEF d
  <2>. QED
    BY <1>8, <2>1 DEF d
<1>11. /\ n # NoSite /\ n \in 1 .. Len(usernames) /\ n \in cursors /\ usernames[n] = UserOf[c]
  BY <1>1, <1>2 DEF GInv, Opens, Sessions, NoSite, NoGhosts, Talk
<1>12. /\ \A b \in Clients \ {c} : /\ sites[b] # n /\ (b \in editing' <=> b \in editing)
                                 /\ opening'[b] = opening[b]
       /\ opening'[c].at = "no" /\ editing' \subseteq Clients
  BY <1>1, <1>2, <1>11 DEF GInv, Sessions, Opens, NotOpening, Opening
<1>28. \A b \in Clients : Registered(b)' <=> Registered(b) /\ b # c
  BY <1>12 DEF Registered
<1>29. Registered(c)
  BY <1>2 DEF Registered
<1>30. ~Announced(n) /\ \A s : Announced(s)' <=> Announced(s) \/ s = n
  BY <1>1, <1>2, <1>11, <1>12, <1>28, <1>29 DEF Announced
<1>13. NamesGrow
  <2>1. NamesStay
    BY <1>2 DEF NamesStay
  <2>2. ASSUME NEW x, WordOK(x) PROVE WordOK(x)'
    BY <2>2, <1>2, <1>30 DEF WordOK
  <2>. QED
    BY <2>1, <2>2 DEF NamesGrow
<1>14. News(c, m)
  <2>1. Spoken(m)
    BY <1>2, <1>5, <1>30 DEF Spoken
  <2>2. WordOK(m)'
    BY <1>2, <1>5, <1>11, <1>30 DEF WordOK, Words
  <2>3. \A f \in Clients : sites'[f] # NoSite => usernames'[sites'[f]] = UserOf[f]
    BY <1>2 DEF Talk
  <2>4. \A e \in Clients : From(e, m.site) => e = c
    BY <1>5, <1>30, Unheard
  <2>5. \A d \in Clients : WorkerOf[d] = WorkerOf[c] => opening'[d].at = "no"
    BY <1>3, <1>12
  <2>. QED
    BY <2>1, <2>2, <2>3, <2>4, <2>5, <1>1, <1>2, <1>5, <1>11, <1>12, <1>13, <1>30 DEF News
<1>15. Talk'
  BY <1>8, <1>14, TalkTold
<1>16. ASSUME NEW b \in Clients, b # c PROVE Informed(b)'
  BY <1>8, <1>14, <1>16, OthersTold
<1>17. ClientKept(c) /\ Informed(c)
  BY <1>2 DEF clientVars, ClientKept
<1>18. EditorOK(c)' /\ OpenerOK(c)'
  BY <1>3, <1>12, <1>13, <1>17, EditorKept, NoOpener DEF Informed
<1>19. doc.type \notin Words /\ doc.type # "opened"
  BY <1>7 DEF Words
<1>20. ASSUME Connected(c)
       PROVE  /\ \A T, s : Has(down[c], T, s)' <=> Has(down[c], T, s) \/ (doc.type \in T /\ doc.site = s)
              /\ InOrder(down[c]) => InOrder(down[c])'
  <2>. DEFINE d == down[c]
  <2>1. /\ \A T, s : Has(Append(d, doc), T, s) <=> Has(d, T, s) \/ (doc.type \in T /\ doc.site = s)
        /\ InOrder(d) => InOrder(Append(d, doc))
    <3>. HIDE DEF d
    <3>1. d \in Seq(S) /\ doc \in S
      BY <1>9 DEF d
    <3>. QED
      BY <3>1, <1>19, HasAppend
  <2>2. down'[c] = Append(d, doc)
    BY <1>10, <1>20
  <2>3. \A T, s : Has(down[c], T, s)' <=> Has(Append(d, doc), T, s)
    BY <2>2 DEF Has
  <2>4. InOrder(Append(d, doc)) => InOrder(down[c])'
    BY <2>2 DEF InOrder
  <2>. QED
    BY <2>1, <2>3, <2>4
<1>21. \A T, s : Coming(WorkerOf[c], T, s)' <=> Coming(WorkerOf[c], T, s)
  BY <1>8, OwnWorker
<1>22. ASSUME Connected(c), HearsInOrder(c) PROVE HearsInOrder(c)'
  <2>1. ASSUME NEW i \in DOMAIN down'[c]
        PROVE  \E x : x = down'[c][i] /\ (x.type = "document" \/ WordOK(x)')
    <3>1. down'[c][i] = doc \/ (i \in DOMAIN down[c] /\ down'[c][i] = down[c][i])
      BY <1>9, <1>10, <1>22
    <3>2. CASE down'[c][i] = doc
      BY <3>2, <1>7
    <3>3. CASE i \in DOMAIN down[c] /\ down'[c][i] = down[c][i]
      <4>1. PICK x : x = down[c][i]
        OBVIOUS
      <4>2. x.type = "document" \/ WordOK(x)
        BY <1>22, <3>3, <4>1 DEF HearsInOrder
      <4>. QED
        BY <3>3, <4>1, <4>2, <1>13 DEF NamesGrow
    <3>. QED
      BY <3>1, <3>2, <3>3
  <2>2. (\A i \in DOMAIN down[c] : down[c][i].type = "document" \/ WordOK(down[c][i]))'
    BY <2>1
  <2>3. InOrder(down[c])'
    BY <1>20, <1>22 DEF HearsInOrder
  <2>4. (\A s : Coming(WorkerOf[c], {"opened"}, s) => ~Has(down[c], Words, s))'
    BY <1>19, <1>20, <1>21, <1>22 DEF HearsInOrder
  <2>. QED
    BY <2>2, <2>3, <2>4 DEF HearsInOrder
<1>23. /\ Running(c)' <=> Running(c)
       /\ Connected(c)' <=> Connected(c)
       /\ window'[c] = window[c] /\ lost'[c] = lost[c]
       /\ Running(c) => Connected(c)
  BY <1>17 DEF ClientKept, Running, Connected, Nothing
<1>24. ASSUME Running(c), DocumentFirst(c)'
       PROVE  DocumentOK(c, Head(down[c]))' /\ UpToDate(c)'
  <2>0. Connected(c) /\ OpenerOK(c)
    BY <1>17, <1>23, <1>24 DEF Informed
  <2>1. down[c] = << >>
    <3>1. DocumentsIn(down[c]) = {}
      BY <1>3, <1>23, <1>24
    <3>2. down[c] # << >> => Head(down'[c]) = down[c][1] /\ 1 \in DOMAIN down[c]
      BY <2>0, <1>9, <1>10
    <3>. QED
      BY <3>1, <3>2, <1>24 DEF DocumentFirst, DocumentsIn
  <2>2. /\ Head(down'[c]) = doc
        /\ \A T, s : ~Has(down[c], T, s)
    <3>1. Head(down'[c]) = doc
      BY <2>0, <2>1, <1>10
    <3>2. DOMAIN down[c] = {}
      BY <2>1
    <3>. QED
      BY <3>1, <3>2 DEF Has
  <2>3. /\ UsersOK(us) /\ UserOf[c] \in ps /\ n \in DOMAIN us
        /\ \A s : Announced(s) => \/ usernames[s] \in ps \/ Coming(WorkerOf[c], {"opened"}, s)
        /\ \A s : Announced(s) => \/ s \in DOMAIN us \/ Coming(WorkerOf[c], {"opened"}, s)
    BY <2>0, <1>1, <1>2, <1>26, <1>27 DEF OpenerOK, OwnNamed
  <2>4. DocumentOK(c, doc)'
    <3>1. UsersOK(us)'
      BY <2>3, <1>2 DEF UsersOK
    <3>2. UsersOK(doc.users)'
      BY <3>1, <1>7 DEF UsersOK
    <3>3. UserOf[c] \in doc.profiles /\ n \in DOMAIN doc.users /\ sites'[c] = n /\ c \in editing'
      BY <2>3, <1>1, <1>2, <1>7
    <3>4. OwnNamed(c, doc.profiles, doc.users)'
      BY <3>3 DEF OwnNamed
    <3>. QED
      BY <3>2, <3>3, <3>4, <1>7, <1>11 DEF DocumentOK
  <2>5. DocumentOK(c, Head(down[c]))'
    BY <2>2, <2>4 DEF DocumentOK, UsersOK, OwnNamed
  <2>6. Base(c)' = Nameable(ps, us) /\ Seen(c)' = Nameable(ps, us) \cap (cursors \ {n})
    BY <2>2, <1>3, <1>7, <1>23 DEF Base, Seen, Nameable
  <2>12. \A s : Announced(s)' => s \in Nameable(ps, us) \/ Coming(WorkerOf[c], {"opened"}, s)'
    <3>1. \A s \in DOMAIN us : us[s] = usernames[s]
      BY <2>3 DEF UsersOK
    <3>2. n \in Nameable(ps, us)
      BY <3>1, <2>3, <1>11 DEF Nameable
    <3>. QED
      BY <3>1, <3>2, <2>3, <1>21, <1>30 DEF Nameable
  <2>7. \A T, s : Has(down[c], T, s)' <=> (doc.type \in T /\ doc.site = s)
    BY <2>0, <2>2, <1>20
  <2>8. (~Has(down[c], {"opened"}, sites[c]) /\ sites[c] \notin Seen(c))'
    <3>1. PICK k : k = sites'[c]
      OBVIOUS
    <3>2. ~Has(down[c], {"opened"}, k)'
      BY <2>7, <1>19
    <3>. QED
      BY <3>1, <3>2, <2>6, <1>1, <1>2
  <2>9. (\A s : Announced(s) => s \in Base(c) \/ OnItsWay(c, {"opened"}, s))'
    BY <2>6, <2>12 DEF OnItsWay
  <2>10. (\A s \in cursors \ {sites[c]} : Announced(s) => s \in Seen(c) \/ OnItsWay(c, {"opened"}, s))'
    BY <2>6, <2>12, <1>1, <1>2 DEF OnItsWay
  <2>11. (\A s : s \notin cursors /\ (s \in Seen(c) \/ Has(down[c], {"opened"}, s)) =>
                   OnItsWay(c, {"closed"}, s))'
    BY <2>6, <2>7, <1>2, <1>19
  <2>. QED
    BY <2>5, <2>8, <2>9, <2>10, <2>11 DEF UpToDate
<1>25. Informed(c)'
  BY <1>3, <1>17, <1>18, <1>22, <1>23, <1>24 DEF Informed
<1>. QED
  BY <1>15, <1>16, <1>25

LEMMA ServeKeeps ==
    ASSUME GInv, GInv', Talk, \A b \in Clients : Informed(b), NEW c \in Clients, Serve(c)
    PROVE  Talk' /\ \A b \in Clients : Informed(b)'
<1>1. CASE ServeOpen(c)
  BY <1>1, JoinKeeps
<1>5. CASE OpenStep(c)
  BY <1>5, ReadProfilesKeeps, RegisterKeeps, ReadUsernamesKeeps, AnswerKeeps DEF OpenStep
<1>2. CASE ServeMove(c)
  BY <1>2, MoveKeeps
<1>3. CASE ServeClose(c)
  <2>1. Serving(c, "close") /\ Leave(c) /\ UNCHANGED <<queue, clientVars>>
    BY <1>3 DEF ServeClose
  <2>2. sites[c] # NoSite
    <3>1. c \in editing
      BY <2>1, Requested, MessagesDiffer DEF Legal
    <3>. QED
      BY <3>1 DEF GInv, Sessions
  <2>. QED
    BY <2>1, <2>2, LeaveKeeps
<1>4. CASE ServeHangup(c)
  <2>1. Serving(c, "hangup") /\ UNCHANGED <<queue, clientVars>>
    BY <1>4 DEF ServeHangup
  <2>2. CASE sites[c] # NoSite
    <3>1. Leave(c)
      BY <1>4, <2>2 DEF ServeHangup
    <3>. QED
      BY <2>1, <2>2, <3>1, LeaveKeeps
  <2>3. CASE sites[c] = NoSite
    <3>1. UNCHANGED <<usernames, cursors, sites, opening, editing, down, posting, queue,
                      window, mySite, known, shown, online, lost>>
      BY <1>4, <2>1, <2>3 DEF ServeHangup, docVars, clientVars
    <3>0. NamesKept /\ \A f \in Clients : sites'[f] # NoSite => usernames'[sites'[f]] = UserOf[f]
      BY <3>1, SameNames DEF Talk
    <3>2. \A x, T, s : (Posted(x, T, s)' <=> Posted(x, T, s)) /\ (Coming(x, T, s)' <=> Coming(x, T, s))
      BY <3>1 DEF Posted, Coming, Told, Has
    <3>3. \A b \in Clients : Informed(b)'
      BY <3>0, <3>1, <3>2, InformedKept
    <3>. QED
      BY <3>0, <3>1, <3>3, TalkSame
  <2>. QED
    BY <2>2, <2>3
<1>. QED
  BY <1>1, <1>2, <1>3, <1>4, <1>5 DEF Serve

-----------------------------------------------------------------------------
(* What an editor is made of, for every client.                             *)
Table(f) == \E S : f \in [Clients -> S]
Tabled == Table(mySite) /\ Table(known) /\ Table(shown) /\ Table(online)

(* Table f becomes g, where c has v. *)
Updated(f, g, c, v) ==
    /\ Table(g) /\ g[c] = v
    /\ \A b \in Clients \ {c} : g[b] = f[b]

LEMMA Entered ==
    ASSUME NEW f, NEW g, Table(f), NEW c \in Clients, NEW v, g = [f EXCEPT ![c] = v]
    PROVE  Updated(f, g, c, v)
<1>1. PICK S : f \in [Clients -> S]
  BY DEF Table
<1>2. [f EXCEPT ![c] = v] \in [Clients -> S \cup {v}]
  BY <1>1
<1>. QED
  BY <1>1, <1>2 DEF Table, Updated

(* A step of client c. *)
OnlyClient(c) ==
    /\ UNCHANGED <<usernames, cursors, sites, opening, editing, queue, posting>>
    /\ \A b \in Clients \ {c} : ClientKept(b) /\ down'[b] = down[b]
    /\ Tabled'

LEMMA SameComing ==
    ASSUME UNCHANGED <<queue, posting>>
    PROVE  \A w, T, s : Coming(w, T, s)' <=> Coming(w, T, s)
BY DEF Coming, Posted, Told, Has

LEMMA OthersUntouched ==
    ASSUME Talk, \A b \in Clients : Informed(b), NEW c \in Clients, OnlyClient(c), Informed(c)'
    PROVE  Talk' /\ \A b \in Clients : Informed(b)'
<1>1. /\ UNCHANGED <<usernames, cursors, sites, opening, editing, queue, posting>>
      /\ \A b \in Clients \ {c} : ClientKept(b) /\ down'[b] = down[b]
  BY DEF OnlyClient
<1>2. \A w, T, s : Coming(w, T, s)' <=> Coming(w, T, s)
  BY <1>1, SameComing
<1>4. NamesKept /\ \A f \in Clients : sites'[f] # NoSite => usernames'[sites'[f]] = UserOf[f]
  BY <1>1, SameNames DEF Talk
<1>3. ASSUME NEW b \in Clients, b # c PROVE Informed(b)'
  BY <1>1, <1>2, <1>3, <1>4, InformedKept DEF ClientKept
<1>. QED
  BY <1>1, <1>3, <1>4, TalkSame

(* A client takes its next message. *)
Taking(c, h) ==
    /\ Running(c) /\ Connected(c) /\ HearsInOrder(c)
    /\ 1 \in DOMAIN down[c] /\ h = down[c][1] /\ h = Head(down[c]) /\ down[c] # << >>
    /\ h.type # "document" => WordOK(h) /\ ~Has(down[c], {"opened"}, h.site)'
                              /\ ~Coming(WorkerOf[c], {"opened"}, h.site)
    /\ \A T, s : Has(down[c], T, s) <=> Has(down[c], T, s)' \/ (h.type \in T /\ h.site = s)
    /\ \A T, s : Coming(WorkerOf[c], T, s)' <=> Coming(WorkerOf[c], T, s)
    /\ HearsInOrder(c)'

LEMMA Taken ==
    ASSUME GInv, NEW c \in Clients, Informed(c), NEW type, Receive(c, type),
           UNCHANGED <<usernames, cursors, sites, opening, editing, queue, posting>>
    PROVE  \E h : Taking(c, h) /\ h.type = type
<1>. DEFINE d == down[c]
<1>0. Running(c) /\ Connected(c) /\ HearsInOrder(c)
  BY DEF Receive, Running, Connected, Nothing, Informed
<1>1. PICK S : down \in [Clients -> Seq(S)]
  BY DEF GInv
<1>2. /\ d \in Seq(S) /\ d # << >> /\ Head(d).type = type /\ down'[c] = Tail(d)
  BY <1>1 DEF Receive
<1>3. PICK h : h = Head(d)
  OBVIOUS
<1>4. /\ h = d[1] /\ DOMAIN d = 1 .. Len(d) /\ Len(d) \in Nat \ {0} /\ 1 \in DOMAIN d
      /\ DOMAIN Tail(d) = 1 .. (Len(d) - 1)
      /\ \A i \in 1 .. (Len(d) - 1) : Tail(d)[i] = d[i + 1]
  BY <1>2, <1>3, HeadTailProperties
<1>5. /\ \A i \in DOMAIN d : d[i].type = "document" \/ WordOK(d[i])
      /\ InOrder(d)
      /\ \A s : Coming(WorkerOf[c], {"opened"}, s) => ~Has(d, Words, s)
  BY <1>0 DEF HearsInOrder
<1>6. /\ \A T, s : Has(d, T, s) <=> Has(Tail(d), T, s) \/ (h.type \in T /\ h.site = s)
      /\ InOrder(Tail(d))
      /\ h.type \in Words => ~Has(Tail(d), {"opened"}, h.site)
  <2>. HIDE DEF d
  <2>. QED
    BY <1>2, <1>3, <1>5, HasTail
<1>7. \A T, s : Has(down[c], T, s)' <=> Has(Tail(d), T, s)
  BY <1>2 DEF Has
<1>8. h.type # "document" => WordOK(h) /\ h.type \in Words
  BY <1>4, <1>5 DEF WordOK
<1>9. h.type # "document" => ~Has(down[c], {"opened"}, h.site)'
                             /\ ~Coming(WorkerOf[c], {"opened"}, h.site)
  BY <1>5, <1>6, <1>7, <1>8
<1>10. \A T, s : Coming(WorkerOf[c], T, s)' <=> Coming(WorkerOf[c], T, s)
  BY SameComing
<1>11. HearsInOrder(c)'
  <2>1. ASSUME NEW i \in DOMAIN down'[c]
        PROVE  \E x : x = down'[c][i] /\ (x.type = "document" \/ WordOK(x)')
    <3>1. PICK x : x = d[i + 1]
      OBVIOUS
    <3>2. i + 1 \in DOMAIN d /\ down'[c][i] = x
      BY <1>2, <1>4, <3>1
    <3>3. x.type = "document" \/ WordOK(x)
      BY <1>5, <3>1, <3>2
    <3>4. WordOK(x) => WordOK(x)'
      BY SameNames, WordKept
    <3>. QED
      BY <3>2, <3>3, <3>4
  <2>2. (\A i \in DOMAIN down[c] : down[c][i].type = "document" \/ WordOK(down[c][i]))'
    BY <2>1
  <2>3. InOrder(down[c])'
    BY <1>2, <1>6 DEF InOrder
  <2>4. (\A s : Coming(WorkerOf[c], {"opened"}, s) => ~Has(down[c], Words, s))'
    BY <1>5, <1>6, <1>7, <1>10
  <2>. QED
    BY <2>2, <2>3, <2>4 DEF HearsInOrder
<1>12. Taking(c, h)
  BY <1>0, <1>2, <1>3, <1>4, <1>6, <1>7, <1>8, <1>9, <1>10, <1>11 DEF Taking
<1>. QED
  BY <1>2, <1>3, <1>12

(* An editor that is there gets no document; nor does a closed window.      *)
LEMMA NoDocument ==
    ASSUME GInv, NEW c \in Clients, Running(c), window[c] # "asked"
    PROVE  ~DocumentFirst(c)
<1>1. Connected(c)
  BY DEF Running, Connected, Nothing
<1>2. DocumentsIn(down[c]) = {}
  BY <1>1 DEF GInv, Fits
<1>3. PICK S : down[c] \in Seq(S)
  BY DEF GInv
<1>4. down[c] # << >> => Head(down[c]) = down[c][1] /\ 1 \in DOMAIN down[c]
  BY <1>3
<1>. QED
  BY <1>2, <1>4 DEF DocumentFirst, DocumentsIn

LEMMA NoDocumentLater ==
    ASSUME GInv', NEW c \in Clients, Running(c)', window'[c] # "asked"
    PROVE  ~DocumentFirst(c)'
<1>1. Connected(c)'
  BY DEF Running, Connected, Nothing
<1>2. DocumentsIn(down'[c]) = {}
  BY <1>1 DEF GInv, Fits
<1>3. PICK S : down'[c] \in Seq(S)
  BY DEF GInv
<1>4. down'[c] # << >> => Head(down'[c]) = down'[c][1] /\ 1 \in DOMAIN down'[c]
  BY <1>3
<1>. QED
  BY <1>2, <1>4 DEF DocumentFirst, DocumentsIn

-----------------------------------------------------------------------------
LEMMA ClickKeeps ==
    ASSUME GInv, GInv', Tabled, Talk, \A b \in Clients : Informed(b), NEW c \in Clients,
           AskToOpen(c) \/ MoveCursor(c) \/ CloseWindow(c) \/ Vanish(c)
    PROVE  Tabled' /\ Talk' /\ \A b \in Clients : Informed(b)'
<1>1. /\ UNCHANGED <<usernames, cursors, sites, opening, editing, queue, posting>>
      /\ \A b \in Clients \ {c} : ClientKept(b) /\ down'[b] = down[b]
      /\ Tabled'
  <2>1. CASE AskToOpen(c) \/ MoveCursor(c)
    <3>1. UNCHANGED <<usernames, cursors, sites, opening, editing, queue, posting, down,
                      mySite, known, shown, online, lost>>
      BY <2>1 DEF AskToOpen, MoveCursor, docVars, clientVars
    <3>2. \A b \in Clients \ {c} : window'[b] = window[b]
      BY <2>1 DEF AskToOpen, MoveCursor, clientVars, GInv
    <3>. QED
      BY <3>1, <3>2 DEF ClientKept, Tabled
  <2>2. CASE CloseWindow(c) \/ Vanish(c)
    <3>1. UNCHANGED <<usernames, cursors, sites, opening, editing, queue, posting>> /\ NoWindow(c)
      BY <2>2 DEF CloseWindow, Vanish, docVars
    <3>2. \A b \in Clients \ {c} : down'[b] = down[b] /\ lost'[b] = lost[b]
      BY <2>2 DEF CloseWindow, Vanish, GInv
    <3>3. \A b \in Clients \ {c} : window'[b] = window[b]
      BY <3>1 DEF NoWindow, GInv
    <3>4. Updated(mySite, mySite', c, NoSite)
      BY <3>1, Entered DEF NoWindow, Tabled
    <3>5. Updated(known, known', c, << >>)
      BY <3>1, Entered DEF NoWindow, Tabled
    <3>6. Updated(shown, shown', c, {})
      BY <3>1, Entered DEF NoWindow, Tabled
    <3>7. Updated(online, online', c, {})
      BY <3>1, Entered DEF NoWindow, Tabled
    <3>. QED
      BY <3>1, <3>2, <3>3, <3>4, <3>5, <3>6, <3>7 DEF ClientKept, Tabled, Updated
  <2>. QED
    BY <2>1, <2>2
<1>2. OnlyClient(c)
  BY <1>1 DEF OnlyClient
<1>3. \A w, T, s : Coming(w, T, s)' <=> Coming(w, T, s)
  BY <1>1, SameComing
<1>5. /\ NamesKept /\ NamesStay /\ \A x : WordOK(x) => WordOK(x)'
      /\ OpenerOK(c)'
  BY <1>1, <1>3, SameNames, WordKept, OpenerKept DEF Informed, NamesKept
<1>4. Informed(c)'
  <2>0. Informed(c)
    OBVIOUS
  <2>1. CASE MoveCursor(c)
    <3>1. UNCHANGED <<window, mySite, known, shown, online, lost, down>>
      BY <2>1 DEF MoveCursor, clientVars
    <3>. QED
      BY <3>1, <1>1, <1>3, <1>5, InformedKept
  <2>2. CASE AskToOpen(c)
    <3>1. /\ UNCHANGED <<mySite, known, shown, online, lost, down>>
          /\ window[c] = "closed" /\ window'[c] = "asked" /\ Running(c)
      BY <2>2 DEF AskToOpen, GInv
    <3>2. EditorOK(c)'
      BY <2>0, <3>1, <1>1 DEF Informed, EditorOK, Rightly, CursorOK, Cursor
    <3>3. ~DocumentFirst(c)
      BY <3>1, NoDocument
    <3>4. /\ DocumentFirst(c)' <=> DocumentFirst(c)
          /\ Connected(c)' <=> Connected(c)
      BY <3>1 DEF DocumentFirst, Connected
    <3>5. HearsInOrder(c) => HearsInOrder(c)'
      BY <3>1, <1>1, <1>3, <1>5 DEF HearsInOrder, InOrder, Has
    <3>. QED
      BY <2>0, <3>1, <3>2, <3>3, <3>4, <3>5, <1>5 DEF Informed
  <2>3. ASSUME NoWindow(c)
        PROVE  EditorOK(c)' /\ window'[c] = "closed"
    <3>0. /\ Updated(mySite, mySite', c, NoSite) /\ Updated(known, known', c, << >>)
          /\ Updated(shown, shown', c, {}) /\ Updated(online, online', c, {})
      BY <2>3, Entered DEF NoWindow, Tabled
    <3>1. /\ mySite'[c] = NoSite /\ known'[c] = << >> /\ shown'[c] = {} /\ online'[c] = {}
          /\ window'[c] = "closed"
      BY <2>3, <3>0 DEF NoWindow, Updated, GInv
    <3>. QED
      BY <3>1 DEF EditorOK, Rightly
  <2>4. CASE CloseWindow(c)
    <3>1. /\ UNCHANGED <<lost, down>> /\ NoWindow(c) /\ Running(c) /\ window[c] = "shown"
      BY <2>4 DEF CloseWindow
    <3>3. ~DocumentFirst(c)
      BY <3>1, NoDocument
    <3>4. /\ DocumentFirst(c)' <=> DocumentFirst(c)
          /\ Connected(c)' <=> Connected(c)
      BY <3>1 DEF DocumentFirst, Connected
    <3>5. HearsInOrder(c) => HearsInOrder(c)'
      BY <3>1, <1>1, <1>3, <1>5 DEF HearsInOrder, InOrder, Has
    <3>. QED
      BY <2>0, <2>3, <3>1, <3>3, <3>4, <3>5, <1>5 DEF Informed
  <2>5. CASE Vanish(c)
    <3>1. NoWindow(c) /\ lost'[c] = "connection"
      BY <2>5 DEF Vanish, GInv
    <3>2. ~Connected(c)' /\ ~Running(c)'
      BY <3>1 DEF Connected, Running, Nothing
    <3>. QED
      BY <2>3, <3>1, <3>2, <1>5 DEF Informed
  <2>. QED
    BY <2>1, <2>2, <2>4, <2>5
<1>. QED
  BY <1>1, <1>2, <1>4, OthersUntouched

(* A User of user u is named or not, and a named one has the name of u.     *)
LEMMA UsersApart ==
    \A u, v : /\ User(u) # Nameless(v) /\ (User(u) = User(v) <=> u = v)
              /\ User(u).named /\ ~Nameless(u).named
              /\ User(u).user = u /\ Nameless(u).user = u
<1>1. \A u, v : /\ User(u).named = TRUE /\ Nameless(v).named = FALSE
                /\ User(u).user = u /\ Nameless(u).user = u
  BY DEF User, Nameless
<1>2. \A u, v : u = v => User(u) = User(v)
  OBVIOUS
<1>. QED
  BY <1>1, <1>2

(* The users an editor starts with are right, and named if their profiles   *)
(* were read.                                                               *)
LEMMA StartsRight ==
    ASSUME NEW m, UsersOK(m.users)
    PROVE  /\ DOMAIN UsersOf(m) = DOMAIN m.users
           /\ Rightly(UsersOf(m))
           /\ \A s \in DOMAIN m.users :
                /\ UsersOf(m)[s] \in {User(usernames[s]), Nameless(usernames[s])}
                /\ s \in Nameable(m.profiles, m.users) <=> UsersOf(m)[s] = User(usernames[s])
           /\ ByName(UsersOf(m)) = Nameable(m.profiles, m.users)
<1>. DEFINE f == UsersOf(m)
<1>1. /\ DOMAIN f = DOMAIN m.users
      /\ \A s \in DOMAIN m.users :
           f[s] = IF m.users[s] \in m.profiles THEN User(m.users[s]) ELSE Nameless(m.users[s])
  BY DEF UsersOf
<1>. HIDE DEF f
<1>2. \A s \in DOMAIN m.users : s \in 1 .. Len(usernames) /\ m.users[s] = usernames[s]
  BY DEF UsersOK
<1>3. \A s \in DOMAIN m.users :
        /\ f[s] \in {User(usernames[s]), Nameless(usernames[s])}
        /\ s \in Nameable(m.profiles, m.users) <=> f[s] = User(usernames[s])
        /\ f[s].named <=> s \in Nameable(m.profiles, m.users)
  BY <1>1, <1>2, UsersApart DEF Nameable
<1>4. ByName(f) = Nameable(m.profiles, m.users)
  BY <1>1, <1>3 DEF ByName, Nameable
<1>5. Rightly(f)
  BY <1>1, <1>2, <1>3 DEF Rightly
<1>. QED
  BY <1>1, <1>3, <1>4, <1>5 DEF f

LEMMA NewEditorKeeps ==
    ASSUME GInv, GInv', Tabled, Talk, \A b \in Clients : Informed(b), NEW c \in Clients, NewEditor(c)
    PROVE  Tabled' /\ Talk' /\ \A b \in Clients : Informed(b)'
<1>1. /\ Receive(c, "document")
      /\ UNCHANGED <<usernames, cursors, sites, opening, editing, queue, posting, lost>>
  BY DEF NewEditor, docVars
<1>2. PICK h : Taking(c, h) /\ h.type = "document"
  BY <1>1, Taken
<1>3. h = Head(down[c]) /\ Running(c) /\ Connected(c) /\ HearsInOrder(c)'
  BY <1>2 DEF Taking
<1>4. PICK f, sh, on : /\ f = UsersOf(h) /\ sh = {<<f[s], s>> : s \in h.cursors \ {h.site}}
                       /\ on = {f[s] : s \in h.cursors}
  OBVIOUS
<1>5. /\ mySite'[c] = h.site /\ known'[c] = f /\ shown'[c] = sh /\ online'[c] = on
      /\ window' = [window EXCEPT ![c] = "shown"]
      /\ h.cursors \subseteq DOMAIN h.users
      /\ Tabled'
      /\ \A b \in Clients \ {c} : mySite'[b] = mySite[b] /\ known'[b] = known[b]
                                  /\ shown'[b] = shown[b] /\ online'[b] = online[b]
  <2>1. /\ mySite' = [mySite EXCEPT ![c] = h.site] /\ known' = [known EXCEPT ![c] = f]
        /\ shown' = [shown EXCEPT ![c] = sh] /\ online' = [online EXCEPT ![c] = on]
        /\ window' = [window EXCEPT ![c] = "shown"] /\ Complete(h)
    BY <1>3, <1>4 DEF NewEditor
  <2>2. Updated(mySite, mySite', c, h.site) /\ Updated(known, known', c, f)
    BY <2>1, Entered DEF Tabled
  <2>3. Updated(shown, shown', c, sh) /\ Updated(online, online', c, on)
    BY <2>1, Entered DEF Tabled
  <2>. QED
    BY <2>1, <2>2, <2>3 DEF Tabled, Updated, Complete
<1>6. OnlyClient(c)
  <2>1. \A b \in Clients \ {c} : down'[b] = down[b] /\ window'[b] = window[b]
    BY <1>1, <1>5 DEF Receive, GInv
  <2>. QED
    BY <1>1, <1>5, <2>1 DEF OnlyClient, ClientKept
<1>7. window'[c] = "shown" /\ lost'[c] = lost[c] /\ (Running(c)' <=> Running(c))
  BY <1>1, <1>5 DEF GInv, Running
<1>8. window[c] = "asked" /\ DocumentFirst(c)
  <2>1. DocumentFirst(c)
    BY <1>2, <1>3 DEF DocumentFirst, Taking
  <2>. QED
    BY <2>1, <1>3, NoDocument
<1>9. /\ DocumentOK(c, h) /\ UpToDate(c) /\ Base(c) = Nameable(h.profiles, h.users)
      /\ Seen(c) = Base(c) \cap (h.cursors \ {h.site})
  BY <1>3, <1>8 DEF Informed, Base, Seen
<1>17. /\ c \in editing /\ h.site = sites[c] /\ h.site \in h.cursors /\ UsersOK(h.users)
       /\ usernames[h.site] = UserOf[c] /\ h.site \in Nameable(h.profiles, h.users)
       /\ \A s \in DOMAIN h.users : usernames[s] \in Users
  <2>1. /\ c \in editing /\ h.site = sites[c] /\ h.site \in h.cursors /\ UsersOK(h.users)
        /\ UserOf[c] \in h.profiles /\ h.site \in DOMAIN h.users
    BY <1>9 DEF DocumentOK, OwnNamed
  <2>2. usernames[h.site] = UserOf[c] /\ h.users[h.site] = UserOf[c]
    BY <2>1 DEF GInv, Sessions, Talk, UsersOK
  <2>3. usernames \in Seq(Users) /\ \A s \in DOMAIN h.users : s \in 1 .. Len(usernames)
    BY <2>1 DEF GInv, UsersOK
  <2>4. \A s \in DOMAIN h.users : usernames[s] \in Users
    BY <2>3
  <2>. QED
    BY <2>1, <2>2, <2>4 DEF Nameable
<1>18. /\ DOMAIN f = DOMAIN h.users /\ Rightly(f) /\ ByName(f) = Base(c)
       /\ \A s \in DOMAIN f :
            /\ f[s] \in {User(usernames[s]), Nameless(usernames[s])}
            /\ s \in Base(c) <=> f[s] = User(usernames[s])
  BY <1>4, <1>9, <1>17, StartsRight
<1>19. WithCursor(c)' = Seen(c)
  <2>1. ASSUME NEW s \in DOMAIN f
        PROVE  Cursor(s) \in sh <=> s \in Base(c) /\ s \in h.cursors \ {h.site}
    <3>1. PICK k : k = User(usernames[s])
      OBVIOUS
    <3>2. s \in Base(c) <=> f[s] = k
      BY <1>18, <3>1
    <3>3. <<k, s>> \in sh <=> f[s] = k /\ s \in h.cursors \ {h.site}
      BY <1>4
    <3>. QED
      BY <3>1, <3>2, <3>3 DEF Cursor
  <2>2. WithCursor(c)' = {s \in DOMAIN f : Cursor(s) \in sh}
    BY <1>1, <1>5 DEF WithCursor, Cursor
  <2>3. Base(c) \subseteq DOMAIN f
    BY <1>18 DEF ByName
  <2>. QED
    BY <1>9, <2>1, <2>2, <2>3
<1>10. EditorOK(c)'
  <2>1. Rightly(known[c])'
    BY <1>1, <1>5, <1>18 DEF Rightly
  <2>2. ASSUME NEW p \in shown'[c] PROVE CursorOK(c, p)'
    <3>1. PICK s \in h.cursors \ {h.site} : p = <<f[s], s>>
      BY <1>4, <1>5, <2>2
    <3>2. s \in DOMAIN f
      BY <1>5, <1>18
    <3>4. f[s] = User(usernames[s]) \/ f[s] = Nameless(usernames[s])
      BY <3>2, <1>18
    <3>3. \/ p = Cursor(s) /\ f[s] = User(usernames[s])
          \/ p = <<Nameless(usernames[s]), s>>
      BY <3>1, <3>4 DEF Cursor
    <3>. QED
      BY <3>2, <3>3, <1>1, <1>5 DEF CursorOK, Cursor
  <2>3. ASSUME NEW x \in on PROVE x \in AnyUser
    <3>1. PICK s \in DOMAIN f : x = f[s]
      BY <1>4, <1>5, <1>18
    <3>2. x = User(usernames[s]) \/ x = Nameless(usernames[s])
      BY <3>1, <1>18
    <3>3. usernames[s] \in Users
      BY <1>17, <1>18
    <3>. QED
      BY <3>2, <3>3 DEF AnyUser
  <2>4. ASSUME NEW u PROVE User(u) \in on <=> u = UserOf[c] \/ \E s \in Seen(c) : usernames[s] = u
    <3>1. User(u) \in on <=> \E s \in h.cursors : f[s] = User(u)
      BY <1>4
    <3>2. ASSUME NEW s \in h.cursors PROVE f[s] = User(u) <=> s \in Base(c) /\ usernames[s] = u
      <4>1. s \in DOMAIN f
        BY <1>5, <1>18
      <4>2. f[s] = User(usernames[s]) \/ f[s] = Nameless(usernames[s])
        BY <4>1, <1>18
      <4>3. s \in Base(c) <=> f[s] = User(usernames[s])
        BY <4>1, <1>18
      <4>. QED
        BY <4>2, <4>3, UsersApart
    <3>3. h.site \in h.cursors /\ h.site \in Base(c) /\ usernames[h.site] = UserOf[c]
      BY <1>9, <1>17
    <3>. QED
      BY <3>1, <3>2, <3>3, <1>9
  <2>. QED
    BY <2>1, <2>2, <2>3, <2>4, <1>1, <1>5, <1>7, <1>17, <1>19 DEF EditorOK
<1>11. /\ \A s : Has(down[c], {"opened"}, s)' <=> Has(down[c], {"opened"}, s)
       /\ \A s : Has(down[c], {"closed"}, s)' <=> Has(down[c], {"closed"}, s)
       /\ \A T, s : Coming(WorkerOf[c], T, s)' <=> Coming(WorkerOf[c], T, s)
  BY <1>2 DEF Taking
<1>12. Base(c)' = Base(c) /\ Seen(c)' = Seen(c) /\ \A s : Announced(s)' <=> Announced(s)
  BY <1>1, <1>5, <1>7, <1>18, <1>19 DEF Base, Seen, ByName, Announced, Registered
<1>13. UpToDate(c)'
  BY <1>1, <1>9, <1>11, <1>12 DEF UpToDate, OnItsWay
<1>14. ~DocumentFirst(c)'
  BY <1>3, <1>7, NoDocumentLater
<1>20. OpenerOK(c)'
  BY <1>1, SameNames, SameComing, OpenerKept DEF Informed, NamesKept
<1>15. Informed(c)'
  BY <1>3, <1>7, <1>10, <1>13, <1>14, <1>20 DEF Informed
<1>. QED
  BY <1>5, <1>6, <1>15, OthersUntouched

-----------------------------------------------------------------------------
(* Whoever moves or closes is known by name to the editors that hear of it. *)
LEMMA Known ==
    ASSUME NEW c \in Clients, NEW h, Informed(c), Taking(c, h), window[c] = "shown",
           h.type \in {"moved", "closed"}
    PROVE  h.site \in DOMAIN known[c] /\ known[c][h.site] = User(usernames[h.site])
<1>1. WordOK(h) /\ ~Has(down[c], {"opened"}, h.site)' /\ ~Coming(WorkerOf[c], {"opened"}, h.site)
  BY DEF Taking
<1>2. ~Has(down[c], {"opened"}, h.site)
  BY <1>1 DEF Taking
<1>3. UpToDate(c) /\ Base(c) = ByName(known[c]) /\ Rightly(known[c])
  BY DEF Informed, Taking, Base, EditorOK
<1>4. h.site \in ByName(known[c])
  BY <1>1, <1>2, <1>3 DEF UpToDate, OnItsWay, WordOK
<1>5. /\ h.site \in DOMAIN known[c] /\ known[c][h.site].named
      /\ known[c][h.site] \in {User(usernames[h.site]), Nameless(usernames[h.site])}
  BY <1>3, <1>4 DEF ByName, Rightly
<1>. QED
  BY <1>5, UsersApart

(* An editor that does what the word h tells it is as up to date as before. *)
LEMMA DoneAsTold ==
    ASSUME NEW c \in Clients, NEW h, Taking(c, h), h.type \in Words, UpToDate(c),
           UNCHANGED <<usernames, cursors, sites, opening>>,
           Base(c) \subseteq Base(c)', h.type = "opened" => h.site \in Base(c)',
           Seen(c)' = CASE h.type = "opened" -> Seen(c) \cup {h.site}
                        [] h.type = "closed" -> Seen(c) \ {h.site}
                        [] h.type = "moved" -> Seen(c)
    PROVE  UpToDate(c)'
<1>1. /\ WordOK(h) /\ ~Has(down[c], {"opened"}, h.site)'
      /\ \A T, s : Has(down[c], T, s) <=> Has(down[c], T, s)' \/ (h.type \in T /\ h.site = s)
      /\ \A T, s : Coming(WorkerOf[c], T, s)' <=> Coming(WorkerOf[c], T, s)
  BY DEF Taking, Words
<1>2. PICK B, N : B = Base(c)' /\ N = Seen(c)'
  OBVIOUS
<1>3. PICK k : k = sites[c] /\ k = sites'[c]
  OBVIOUS
<1>4. /\ ~Has(down[c], {"opened"}, k) /\ k \notin Seen(c)
      /\ \A s : Announced(s) => s \in Base(c) \/ OnItsWay(c, {"opened"}, s)
      /\ \A s \in cursors \ {k} : Announced(s) => s \in Seen(c) \/ OnItsWay(c, {"opened"}, s)
      /\ \A s : s \notin cursors /\ (s \in Seen(c) \/ Has(down[c], {"opened"}, s)) =>
                  OnItsWay(c, {"closed"}, s)
  BY <1>3 DEF UpToDate
<1>5. /\ \A s : OnItsWay(c, {"opened"}, s) => OnItsWay(c, {"opened"}, s)' \/ (h.type = "opened" /\ h.site = s)
      /\ \A s : OnItsWay(c, {"closed"}, s) => OnItsWay(c, {"closed"}, s)' \/ (h.type = "closed" /\ h.site = s)
      /\ \A s : Has(down[c], {"opened"}, s)' => Has(down[c], {"opened"}, s)
      /\ h.type = "opened" => Has(down[c], {"opened"}, h.site)
  BY <1>1 DEF OnItsWay
<1>6. N = CASE h.type = "opened" -> Seen(c) \cup {h.site}
            [] h.type = "closed" -> Seen(c) \ {h.site}
            [] h.type = "moved" -> Seen(c)
  BY <1>2
<1>7. /\ \A s \in N : s \in Seen(c) \/ (h.type = "opened" /\ h.site = s)
      /\ \A s \in Seen(c) : s \in N \/ (h.type = "closed" /\ h.site = s)
      /\ h.type = "opened" => h.site \in N
      /\ h.type = "closed" => h.site \notin N
  BY <1>6 DEF Words
<1>8. ~Has(down[c], {"opened"}, k)' /\ k \notin N
  BY <1>4, <1>5, <1>7
<1>12. \A s : Announced(s)' <=> Announced(s)
  BY DEF Announced, Registered
<1>9. \A s : Announced(s) => s \in B \/ OnItsWay(c, {"opened"}, s)'
  BY <1>2, <1>4, <1>5
<1>10. \A s \in cursors \ {k} : Announced(s) => s \in N \/ OnItsWay(c, {"opened"}, s)'
  BY <1>1, <1>4, <1>5, <1>7 DEF WordOK
<1>11. ASSUME NEW s, s \notin cursors, s \in N \/ Has(down[c], {"opened"}, s)'
       PROVE  OnItsWay(c, {"closed"}, s)'
  BY <1>1, <1>4, <1>5, <1>7, <1>11
<1>. QED
  BY <1>2, <1>3, <1>8, <1>9, <1>10, <1>11, <1>12 DEF UpToDate

(* The program of c does something undefined with the next message.         *)
LEMMA MissedKeeps ==
    ASSUME GInv, GInv', Tabled, Talk, \A b \in Clients : Informed(b), NEW c \in Clients,
           NEW type, Receive(c, type), NEW what \in {"document", "editor", "cursor"},
           UNCHANGED <<usernames, cursors, sites, opening, editing, queue, posting, window,
                       mySite, known, shown, online>>,
           lost' = [lost EXCEPT ![c] = what]
    PROVE  Tabled' /\ Talk' /\ \A b \in Clients : Informed(b)'
<1>1. PICK h : Taking(c, h)
  BY Taken
<1>2. lost'[c] = what /\ \A b \in Clients \ {c} : lost'[b] = lost[b] /\ down'[b] = down[b]
  BY DEF GInv, Receive
<1>3. OnlyClient(c)
  BY <1>2 DEF OnlyClient, ClientKept, Tabled
<1>4. NamesStay /\ EditorOK(c) /\ (window[c] = "shown" => c \in editing)
  BY SameNames DEF NamesKept, Informed, EditorOK
<1>5. EditorOK(c)'
  BY <1>4, EditorStays
<1>6. ~Running(c)' /\ HearsInOrder(c)'
  BY <1>1, <1>2 DEF Running, Nothing, Taking
<1>7. OpenerOK(c)'
  BY SameNames, SameComing, OpenerKept DEF Informed, NamesKept
<1>8. Informed(c)'
  BY <1>2, <1>5, <1>6, <1>7 DEF Informed
<1>. QED
  BY <1>3, <1>8, OthersUntouched DEF OnlyClient

LEMMA NoEditorKeeps ==
    ASSUME GInv, GInv', Tabled, Talk, \A b \in Clients : Informed(b), NEW c \in Clients,
           NoEditor(c) \/ BadDocument(c)
    PROVE  Tabled' /\ Talk' /\ \A b \in Clients : Informed(b)'
<1>1. /\ UNCHANGED <<usernames, cursors, sites, opening, editing, queue, posting, window,
                     mySite, known, shown, online>>
      /\ \E what \in {"document", "editor", "cursor"} : lost' = [lost EXCEPT ![c] = what]
      /\ \E type \in Words \cup {"document"} : Receive(c, type)
  BY DEF NoEditor, BadDocument, docVars, Words
<1>. QED
  BY <1>1, MissedKeeps

LEMMA RemoteOpenKeeps ==
    ASSUME GInv, GInv', Tabled, Talk, \A b \in Clients : Informed(b), NEW c \in Clients, RemoteOpen(c)
    PROVE  Tabled' /\ Talk' /\ \A b \in Clients : Informed(b)'
<1>1. /\ Receive(c, "opened") /\ window[c] = "shown"
      /\ UNCHANGED <<usernames, cursors, sites, opening, editing, queue, posting, window, mySite, lost>>
  BY DEF RemoteOpen, docVars
<1>2. PICK h : Taking(c, h) /\ h.type = "opened"
  BY <1>1, Taken
<1>3. h = Head(down[c]) /\ Running(c) /\ HearsInOrder(c)' /\ WordOK(h)
  BY <1>2 DEF Taking
<1>4. PICK u, f, sh, on : /\ u = User(h.user) /\ f = Mapped(known[c], h.site, u)
                          /\ sh = shown[c] \cup {<<u, h.site>>} /\ on = online[c] \cup {u}
  OBVIOUS
<1>5. /\ known' = [known EXCEPT ![c] = f] /\ shown' = [shown EXCEPT ![c] = sh]
      /\ online' = [online EXCEPT ![c] = on]
  BY <1>3, <1>4 DEF RemoteOpen
<1>6. Updated(known, known', c, f) /\ Updated(shown, shown', c, sh) /\ Updated(online, online', c, on)
  BY <1>5, Entered DEF Tabled
<1>7. known'[c] = f /\ shown'[c] = sh /\ online'[c] = on
  BY <1>6 DEF Updated
<1>8. OnlyClient(c)
  <2>1. \A b \in Clients \ {c} : down'[b] = down[b]
    BY <1>1 DEF Receive, GInv
  <2>2. Tabled'
    BY <1>1, <1>6 DEF Updated, Tabled
  <2>. QED
    BY <1>1, <1>6, <2>1, <2>2 DEF OnlyClient, ClientKept, Updated
<1>9. EditorOK(c) /\ UpToDate(c) /\ Base(c) = ByName(known[c]) /\ Seen(c) = WithCursor(c)
  BY <1>1, <1>3 DEF Informed, Base, Seen
<1>10. /\ DOMAIN f = DOMAIN known[c] \cup {h.site} /\ f[h.site] = u
       /\ h.site \in 1 .. Len(usernames) /\ h.user = usernames[h.site]
       /\ u = User(usernames[h.site]) /\ u \in AnyUser
       /\ \A x \in DOMAIN known[c] : x # h.site => f[x] = known[c][x]
  <2>1. h.site \in 1 .. Len(usernames) /\ h.user = usernames[h.site] /\ usernames \in Seq(Users)
    BY <1>2, <1>3 DEF WordOK, Announced, GInv
  <2>2. h.user \in Users
    BY <2>1
  <2>. QED
    BY <2>1, <2>2, <1>4 DEF Mapped, AnyUser
<1>17. /\ Rightly(f) /\ ByName(f) = ByName(known[c]) \cup {h.site}
       /\ \A s \in DOMAIN known[c] : known[c][s] = User(usernames[s]) => f[s] = User(usernames[s])
  <2>1. Rightly(known[c])
    BY <1>9 DEF EditorOK
  <2>2. Rightly(f)
    BY <2>1, <1>10 DEF Rightly
  <2>3. u.named
    BY <1>10, UsersApart
  <2>. QED
    BY <2>2, <2>3, <1>10 DEF ByName
<1>18. WithCursor(c)' = WithCursor(c) \cup {h.site}
  <2>1. WithCursor(c)' = {s \in DOMAIN f : Cursor(s) \in sh}
    BY <1>1, <1>7 DEF WithCursor, Cursor
  <2>2. ASSUME NEW s PROVE Cursor(s) \in sh <=> Cursor(s) \in shown[c] \/ s = h.site
    <3>1. PICK k : k = User(usernames[s]) /\ (s = h.site => k = u)
      BY <1>10
    <3>2. <<k, s>> \in sh <=> <<k, s>> \in shown[c] \/ s = h.site
      BY <1>4, <3>1
    <3>. QED
      BY <3>1, <3>2 DEF Cursor
  <2>. QED
    BY <2>1, <2>2, <1>10 DEF WithCursor
<1>11. EditorOK(c)'
  <2>1. Rightly(known[c])'
    BY <1>1, <1>7, <1>17 DEF Rightly
  <2>2. ASSUME NEW p \in shown'[c] PROVE CursorOK(c, p)'
    <3>1. CASE p \in shown[c]
      <4>1. PICK s \in DOMAIN known[c] :
              \/ p = Cursor(s) /\ known[c][s] = User(usernames[s])
              \/ p = <<Nameless(usernames[s]), s>>
        BY <3>1, <1>9 DEF EditorOK, CursorOK
      <4>2. /\ s \in DOMAIN f
            /\ \/ p = Cursor(s) /\ f[s] = User(usernames[s])
               \/ p = <<Nameless(usernames[s]), s>>
        BY <4>1, <1>10, <1>17
      <4>. QED
        BY <4>2, <1>1, <1>7 DEF CursorOK, Cursor
    <3>2. CASE p = <<u, h.site>>
      <4>1. h.site \in DOMAIN f /\ p = Cursor(h.site) /\ f[h.site] = User(usernames[h.site])
        BY <3>2, <1>10 DEF Cursor
      <4>. QED
        BY <4>1, <1>1, <1>7 DEF CursorOK, Cursor
    <3>. QED
      BY <3>1, <3>2, <2>2, <1>4, <1>7
  <2>3. on \subseteq AnyUser
    BY <1>4, <1>9, <1>10 DEF EditorOK
  <2>4. ASSUME NEW v
        PROVE  User(v) \in on <=> v = UserOf[c] \/ \E s \in WithCursor(c)' : usernames[s] = v
    <3>1. User(v) \in on <=> User(v) \in online[c] \/ v = usernames[h.site]
      BY <1>4, <1>10, UsersApart
    <3>2. User(v) \in online[c] <=> v = UserOf[c] \/ \E s \in WithCursor(c) : usernames[s] = v
      BY <1>1, <1>9 DEF EditorOK
    <3>. QED
      BY <3>1, <3>2, <1>18
  <2>5. c \in editing /\ mySite[c] = sites[c]
    BY <1>1, <1>9 DEF EditorOK
  <2>. QED
    BY <2>1, <2>2, <2>3, <2>4, <2>5, <1>1, <1>7 DEF EditorOK
<1>12. Base(c)' = Base(c) \cup {h.site} /\ Seen(c)' = Seen(c) \cup {h.site}
  BY <1>1, <1>7, <1>9, <1>17, <1>18 DEF Base, Seen, ByName
<1>13. UpToDate(c)'
  BY <1>1, <1>2, <1>9, <1>12, DoneAsTold DEF Words
<1>14. Running(c)' /\ window'[c] = "shown" /\ lost'[c] = lost[c]
  BY <1>1, <1>3 DEF Running
<1>15. ~DocumentFirst(c)'
  BY <1>14, NoDocumentLater
<1>19. OpenerOK(c)'
  BY <1>1, SameNames, SameComing, OpenerKept DEF Informed, NamesKept
<1>16. Informed(c)'
  BY <1>3, <1>11, <1>13, <1>14, <1>15, <1>19 DEF Informed
<1>. QED
  BY <1>8, <1>16, OthersUntouched DEF OnlyClient

LEMMA RemoteCloseKeeps ==
    ASSUME GInv, GInv', Tabled, Talk, \A b \in Clients : Informed(b), NEW c \in Clients, RemoteClose(c)
    PROVE  Tabled' /\ Talk' /\ \A b \in Clients : Informed(b)'
<1>1. /\ Receive(c, "closed") /\ window[c] = "shown"
      /\ UNCHANGED <<usernames, cursors, sites, opening, editing, queue, posting, window, mySite, known>>
  BY DEF RemoteClose, docVars
<1>2. PICK h : Taking(c, h) /\ h.type = "closed"
  BY <1>1, Taken
<1>3. h = Head(down[c]) /\ Running(c) /\ HearsInOrder(c)' /\ WordOK(h)
  BY <1>2 DEF Taking
<1>4. h.site \in DOMAIN known[c] /\ known[c][h.site] = User(usernames[h.site])
  BY <1>1, <1>2, Known
<1>5. PICK u, sh, on : /\ u = known[c][h.site] /\ sh = shown[c] \ {<<u, h.site>>}
                       /\ on = IF StillOnline(c, u, sh) THEN online[c] ELSE online[c] \ {u}
  OBVIOUS
<1>6. /\ shown' = [shown EXCEPT ![c] = sh] /\ online' = [online EXCEPT ![c] = on]
      /\ lost' = lost
  BY <1>3, <1>4, <1>5 DEF RemoteClose
<1>7. Updated(shown, shown', c, sh) /\ Updated(online, online', c, on)
  BY <1>6, Entered DEF Tabled
<1>8. shown'[c] = sh /\ online'[c] = on
  BY <1>7 DEF Updated
<1>9. OnlyClient(c)
  <2>1. \A b \in Clients \ {c} : down'[b] = down[b]
    BY <1>1 DEF Receive, GInv
  <2>2. Tabled'
    BY <1>1, <1>7 DEF Updated, Tabled
  <2>. QED
    BY <1>1, <1>6, <1>7, <2>1, <2>2 DEF OnlyClient, ClientKept, Updated
<1>10. EditorOK(c) /\ UpToDate(c) /\ Base(c) = ByName(known[c]) /\ Seen(c) = WithCursor(c)
  BY <1>1, <1>3 DEF Informed, Base, Seen
<1>17. \A s : Cursor(s) \in sh <=> Cursor(s) \in shown[c] /\ s # h.site
  <2>. SUFFICES ASSUME NEW s PROVE Cursor(s) \in sh <=> Cursor(s) \in shown[c] /\ s # h.site
    OBVIOUS
  <2>1. PICK k : k = User(usernames[s]) /\ (s = h.site => k = u)
    BY <1>4, <1>5
  <2>2. <<k, s>> \in sh <=> <<k, s>> \in shown[c] /\ s # h.site
    BY <1>5, <2>1
  <2>. QED
    BY <2>1, <2>2 DEF Cursor
<1>18. WithCursor(c)' = WithCursor(c) \ {h.site}
  BY <1>1, <1>8, <1>17 DEF WithCursor, Cursor
<1>19. StillOnline(c, u, sh) <=>
          \/ usernames[h.site] = UserOf[c]
          \/ \E s \in WithCursor(c)' : usernames[s] = usernames[h.site]
  <2>1. u = User(UserOf[c]) <=> usernames[h.site] = UserOf[c]
    BY <1>4, <1>5, UsersApart
  <2>2. ASSUME NEW p \in sh, p[1] = u PROVE \E s \in WithCursor(c)' : usernames[s] = usernames[h.site]
    <3>1. p \in shown[c] /\ CursorOK(c, p)
      BY <1>5, <1>10, <2>2 DEF EditorOK
    <3>2. PICK s \in DOMAIN known[c] :
            p = <<User(usernames[s]), s>> \/ p = <<Nameless(usernames[s]), s>>
      BY <3>1 DEF CursorOK, Cursor
    <3>3. p[1] = User(usernames[s]) \/ p[1] = Nameless(usernames[s])
      BY <3>2
    <3>4. p[1] = User(usernames[s]) /\ usernames[s] = usernames[h.site]
      BY <3>3, <2>2, <1>4, <1>5, UsersApart
    <3>5. p = Cursor(s)
      <4>1. p[1] # Nameless(usernames[s])
        BY <3>4, UsersApart
      <4>2. p # <<Nameless(usernames[s]), s>>
        BY <4>1
      <4>. QED
        BY <3>2, <4>2 DEF Cursor
    <3>6. s \in WithCursor(c) /\ s # h.site
      BY <3>1, <3>2, <3>5, <2>2, <1>17 DEF WithCursor
    <3>. QED
      BY <3>4, <3>6, <1>18
  <2>3. ASSUME NEW s \in WithCursor(c)', usernames[s] = usernames[h.site]
        PROVE  \E p \in sh : p[1] = u
    <3>1. Cursor(s) \in sh
      BY <2>3, <1>17, <1>18 DEF WithCursor
    <3>2. Cursor(s)[1] = u
      BY <2>3, <1>4, <1>5 DEF Cursor
    <3>. QED
      BY <3>1, <3>2
  <2>. QED
    BY <2>1, <2>2, <2>3 DEF StillOnline
<1>11. EditorOK(c)'
  <2>1. Rightly(known[c])'
    BY <1>1, <1>10 DEF Rightly, EditorOK
  <2>2. ASSUME NEW p \in shown'[c] PROVE CursorOK(c, p)'
    <3>1. CursorOK(c, p)
      BY <2>2, <1>5, <1>8, <1>10 DEF EditorOK
    <3>. QED
      BY <3>1, <1>1 DEF CursorOK, Cursor
  <2>3. on \subseteq AnyUser
    BY <1>5, <1>10 DEF EditorOK
  <2>4. ASSUME NEW v
        PROVE  User(v) \in on <=> v = UserOf[c] \/ \E s \in WithCursor(c)' : usernames[s] = v
    <3>1. User(v) \in online[c] <=> v = UserOf[c] \/ \E s \in WithCursor(c) : usernames[s] = v
      BY <1>1, <1>10 DEF EditorOK
    <3>2. User(v) = u <=> v = usernames[h.site]
      BY <1>4, <1>5, UsersApart
    <3>3. User(v) \in on <=> User(v) \in online[c] /\ (v = usernames[h.site] => StillOnline(c, u, sh))
      BY <1>5, <3>2
    <3>4. CASE v = usernames[h.site]
      BY <3>4, <3>1, <3>3, <1>18, <1>19
    <3>5. CASE v # usernames[h.site]
      BY <3>5, <3>1, <3>3, <1>18
    <3>. QED
      BY <3>4, <3>5
  <2>5. c \in editing /\ mySite[c] = sites[c]
    BY <1>1, <1>10 DEF EditorOK
  <2>. QED
    BY <2>1, <2>2, <2>3, <2>4, <2>5, <1>1, <1>8 DEF EditorOK
<1>12. Base(c)' = Base(c) /\ Seen(c)' = Seen(c) \ {h.site}
  BY <1>1, <1>10, <1>18 DEF Base, Seen, ByName
<1>13. UpToDate(c)'
  BY <1>1, <1>2, <1>10, <1>12, DoneAsTold DEF Words
<1>14. Running(c)' /\ window'[c] = "shown" /\ lost'[c] = lost[c]
  BY <1>1, <1>3, <1>6 DEF Running
<1>15. ~DocumentFirst(c)'
  BY <1>14, NoDocumentLater
<1>20. OpenerOK(c)'
  BY <1>1, SameNames, SameComing, OpenerKept DEF Informed, NamesKept
<1>16. Informed(c)'
  BY <1>3, <1>11, <1>13, <1>14, <1>15, <1>20 DEF Informed
<1>. QED
  BY <1>9, <1>16, OthersUntouched DEF OnlyClient

LEMMA RemoteMoveKeeps ==
    ASSUME GInv, GInv', Tabled, Talk, \A b \in Clients : Informed(b), NEW c \in Clients, RemoteMove(c)
    PROVE  Tabled' /\ Talk' /\ \A b \in Clients : Informed(b)'
<1>1. /\ Receive(c, "moved") /\ window[c] = "shown"
      /\ UNCHANGED <<usernames, cursors, sites, opening, editing, queue, posting, window,
                     mySite, known, shown, online>>
  BY DEF RemoteMove, docVars
<1>2. PICK h : Taking(c, h) /\ h.type = "moved"
  BY <1>1, Taken
<1>3. h = Head(down[c]) /\ Running(c) /\ HearsInOrder(c)' /\ WordOK(h)
  BY <1>2 DEF Taking
<1>4. h.site \in DOMAIN known[c]
  BY <1>1, <1>2, Known
<1>5. CASE lost' = [lost EXCEPT ![c] = "cursor"]
  BY <1>1, <1>5, MissedKeeps
<1>6. CASE lost' = lost
  <2>1. \A b \in Clients \ {c} : down'[b] = down[b]
    BY <1>1 DEF GInv, Receive
  <2>2. OnlyClient(c)
    BY <1>1, <1>6, <2>1 DEF OnlyClient, ClientKept, Tabled
  <2>3. NamesStay /\ EditorOK(c) /\ UpToDate(c) /\ c \in editing
    BY <1>1, <1>3, SameNames DEF NamesKept, Informed, EditorOK
  <2>4. EditorOK(c)' /\ WithCursor(c)' = WithCursor(c)
    BY <1>1, <2>3, EditorStays, WithCursorKept DEF EditorOK
  <2>5. Base(c)' = Base(c) /\ Seen(c)' = Seen(c)
    BY <1>1, <2>4 DEF Base, Seen
  <2>6. UpToDate(c)'
    BY <1>1, <1>2, <2>3, <2>5, DoneAsTold DEF Words
  <2>7. Running(c)' => ~DocumentFirst(c)'
    BY <1>1, NoDocumentLater
  <2>8. OpenerOK(c)'
    BY <1>1, SameNames, SameComing, OpenerKept DEF Informed, NamesKept
  <2>9. Informed(c)'
    BY <1>3, <1>6, <2>4, <2>6, <2>7, <2>8 DEF Informed
  <2>. QED
    BY <2>2, <2>9, OthersUntouched DEF OnlyClient
<1>. QED
  BY <1>3, <1>4, <1>5, <1>6 DEF RemoteMove

LEMMA WorkerKeeps ==
    ASSUME GInv, Tabled, Talk, \A b \in Clients : Informed(b), NEW w \in Workers,
           PostNext(w) \/ Dispatch(w)
    PROVE  Tabled' /\ Talk' /\ \A b \in Clients : Informed(b)'
<1>1. Tabled'
  BY DEF PostNext, Dispatch, clientVars, Tabled
<1>2. CASE PostNext(w)
  <2>1. Talk'
    BY <1>2, TalkPost
  <2>2. PICK p : Calling(w, p)
    BY <1>2, CallMade DEF Talk
  <2>3. /\ UNCHANGED <<usernames, cursors, sites, opening, editing, down,
                       window, mySite, known, shown, online, lost>>
        /\ \A x \in Workers : \A T, s : Coming(x, T, s)' <=> Coming(x, T, s)
    BY <1>2, <2>2, CallComing DEF PostNext, docVars, clientVars
  <2>4. \A b \in Clients : WorkerOf[b] \in Workers
    BY PresenceAssumption DEF Workers
  <2>5. ASSUME NEW b \in Clients PROVE Informed(b)'
    <3>1. \A T, s : Coming(WorkerOf[b], T, s)' <=> Coming(WorkerOf[b], T, s)
      BY <2>3, <2>4
    <3>. QED
      BY <2>3, <3>1, SameNames, InformedKept
  <2>. QED
    BY <1>1, <2>1, <2>5
<1>3. CASE Dispatch(w)
  BY <1>1, <1>3, DispatchKeeps
<1>. QED
  BY <1>2, <1>3

LEMMA NextKeeps ==
    ASSUME GInv, GInv', Tabled, Talk, \A b \in Clients : Informed(b), Next
    PROVE  Tabled' /\ Talk' /\ \A b \in Clients : Informed(b)'
<1>1. ASSUME NEW c \in Clients, AskToOpen(c) \/ MoveCursor(c) \/ CloseWindow(c) \/ Vanish(c)
      PROVE  Tabled' /\ Talk' /\ \A b \in Clients : Informed(b)'
  BY <1>1, ClickKeeps
<1>2. ASSUME NEW c \in Clients, Serve(c)
      PROVE  Tabled' /\ Talk' /\ \A b \in Clients : Informed(b)'
  <2>1. UNCHANGED clientVars
    BY <1>2 DEF Serve, ServeOpen, OpenStep, ReadProfiles, Register, ReadUsernames, Answer,
       ServeMove, ServeClose, ServeHangup
  <2>. QED
    BY <1>2, <2>1, ServeKeeps DEF clientVars, Tabled
<1>3. ASSUME NEW c \in Clients, ClientHandles(c)
      PROVE  Tabled' /\ Talk' /\ \A b \in Clients : Informed(b)'
  <2>1. CASE NewEditor(c)
    BY <2>1, NewEditorKeeps
  <2>2. CASE NoEditor(c) \/ BadDocument(c)
    BY <2>2, NoEditorKeeps
  <2>3. CASE RemoteOpen(c)
    BY <2>3, RemoteOpenKeeps
  <2>4. CASE RemoteClose(c)
    BY <2>4, RemoteCloseKeeps
  <2>5. CASE RemoteMove(c)
    BY <2>5, RemoteMoveKeeps
  <2>. QED
    BY <1>3, <2>1, <2>2, <2>3, <2>4, <2>5 DEF ClientHandles
<1>4. ASSUME NEW w \in Workers, PostNext(w) \/ Dispatch(w)
      PROVE  Tabled' /\ Talk' /\ \A b \in Clients : Informed(b)'
  BY <1>4, WorkerKeeps
<1>. QED
  BY <1>1, <1>2, <1>3, <1>4 DEF Next

LEMMA NothingSaid ==
    ASSUME Init
    PROVE  Tabled /\ Talk /\ \A c \in Clients : Informed(c)
<1>1. Tabled
  <2>1. /\ mySite \in [Clients -> {NoSite}] /\ known \in [Clients -> {<< >>}]
        /\ shown \in [Clients -> {{}}] /\ online \in [Clients -> {{}}]
    BY DEF Init
  <2>. QED
    BY <2>1 DEF Tabled, Table
<1>2. /\ \A w \in Workers : queue[w] = << >> /\ posting[w] = << >> /\ DOMAIN Told(w) = {}
      /\ \A c \in Clients : DOMAIN down[c] = {}
  BY DEF Init, Told, Messages
<1>3. Talk
  <2>1. editing = {} /\ OneSource /\ \A c \in Clients : sites[c] = NoSite
    BY <1>2 DEF Init, OneSource, From
  <2>2. \A v \in Workers : PostsOK(v)
    BY <1>2 DEF PostsOK
  <2>3. \A w \in Workers : QueueOK(w)
    BY <1>2 DEF QueueOK, InOrder, Posted, Has, Coming
  <2>. QED
    BY <2>1, <2>2, <2>3 DEF Talk
<1>4. ASSUME NEW c \in Clients PROVE Informed(c)
  <2>1. /\ window[c] = "closed" /\ mySite[c] = NoSite /\ known[c] = << >> /\ shown[c] = {}
        /\ online[c] = {} /\ lost[c] = Nothing /\ down[c] = << >>
    BY DEF Init
  <2>2. EditorOK(c)
    BY <2>1 DEF EditorOK, Rightly
  <2>4. OpenerOK(c)
    BY DEF Init, NotOpening, Opening, OpenerOK
  <2>3. HearsInOrder(c)
    BY <1>2 DEF HearsInOrder, InOrder, Has
  <2>. QED
    BY <2>1, <2>2, <2>3, <2>4 DEF Informed, DocumentFirst
<1>. QED
  BY <1>1, <1>3, <1>4

Introduced == GInv /\ Tabled /\ Talk /\ \A c \in Clients : Informed(c)

(* The words on their way and the editors stay in step: whatever an editor  *)
(* does not know yet, or shows wrongly, it will hear of.                    *)
THEOREM Coherence == Spec => []Introduced
<1>1. Init => Introduced
  BY InitG, NothingSaid DEF Introduced
<1>2. Introduced /\ [Next]_vars => Introduced'
  <2>. SUFFICES ASSUME Introduced, [Next]_vars, GInv' PROVE Introduced'
    BY GNext DEF Introduced
  <2>1. CASE UNCHANGED vars
    <3>1. UNCHANGED <<usernames, cursors, sites, opening, editing, down, queue, posting,
                      window, mySite, known, shown, online, lost>>
      BY <2>1 DEF vars, docVars, clientVars
    <3>2. \A w, T, s : Coming(w, T, s)' <=> Coming(w, T, s)
      BY <3>1, SameComing
    <3>3. \A b \in Clients : Informed(b)'
      BY <3>1, <3>2, SameNames, InformedKept DEF Introduced
    <3>4. Talk'
      BY <3>1, SameNames, TalkSame DEF Introduced, Talk
    <3>. QED
      BY <3>1, <3>3, <3>4 DEF Introduced, Tabled
  <2>2. CASE Next
    BY <2>2, NextKeeps DEF Introduced
  <2>. QED
    BY <2>1, <2>2
<1>. QED
  BY <1>1, <1>2, PTL DEF Spec

(* Whoever a message is about is known to the editor it reaches, whichever  *)
(* workers they are with, and however their messages and the calls between  *)
(* the workers interleave.                                                  *)
THEOREM EveryoneIsIntroduced == Spec => []UsersKnown
<1>1. Introduced => UsersKnown
  BY DEF Introduced, Informed, UsersKnown, Nothing
<1>. QED
  BY <1>1, Coherence, PTL

(* When nothing is on its way any more, an editor shows under its user's    *)
(* name the site of every other session that has the document open, and     *)
(* who is said to be online is, for any number of clients, users, workers   *)
(* and sites, and whatever was left out of the document it was made from.   *)
THEOREM EditorsAgree == Spec => []UsersAgree
<1>1. ASSUME Introduced, Quiescent, NEW c \in Clients, Running(c), window[c] = "shown"
      PROVE  /\ mySite[c] = sites[c]
             /\ {p \in shown[c] : Named(p[1])} = {<<User(UserOf[e]), sites[e]>> : e \in editing \ {c}}
             /\ {x \in online[c] : Named(x)} = {User(UserOf[e]) : e \in editing}
  <2>1. \A T, s : ~OnItsWay(c, T, s) /\ ~Has(down[c], T, s)
    <3>1. /\ down[c] = << >> /\ WorkerOf[c] \in Workers
          /\ \A w \in Workers : queue[w] = << >> /\ posting[w] = << >>
      BY <1>1, PresenceAssumption DEF Quiescent, Workers
    <3>2. DOMAIN down[c] = {} /\ DOMAIN Told(WorkerOf[c]) = {} /\ \A w \in Workers : DOMAIN posting[w] = {}
      BY <3>1 DEF Told, Messages
    <3>. QED
      BY <3>2 DEF OnItsWay, Coming, Posted, Has
  <2>2. EditorOK(c) /\ UpToDate(c) /\ Seen(c) = WithCursor(c)
    BY <1>1 DEF Introduced, Informed, Seen
  <2>3. c \in editing /\ mySite[c] = sites[c]
    BY <1>1, <2>2 DEF EditorOK
  <2>4. /\ cursors = {sites[e] : e \in editing} /\ editing \subseteq Clients
        /\ \A e \in editing \ {c} : sites[e] # sites[c]
        /\ \A e \in editing : usernames[sites[e]] = UserOf[e]
        /\ \A s \in cursors : Announced(s)
    <3>1. \A e \in Clients : opening[e].at = "no"
      BY <1>1 DEF Quiescent, NotOpening, Opening
    <3>2. /\ editing = {e \in Clients : sites[e] # NoSite}
          /\ cursors = {sites[e] : e \in Clients} \ {NoSite}
          /\ sites \in [Clients -> 0 .. Len(usernames)] /\ Len(usernames) \in Nat
          /\ \A b, d \in Clients : b # d /\ sites[b] = sites[d] => sites[b] = NoSite
          /\ \A e \in Clients : sites[e] # NoSite => usernames[sites[e]] = UserOf[e]
      BY <1>1, <3>1 DEF Introduced, GInv, Sessions, NoGhosts, Talk
    <3>3. ASSUME NEW s \in cursors PROVE Announced(s)
      <4>1. s \in 1 .. Len(usernames)
        BY <3>2 DEF NoSite
      <4>. QED
        BY <3>1, <4>1 DEF Announced, Registered
    <3>. QED
      BY <3>2, <3>3, <2>3
  <2>5. WithCursor(c) = cursors \ {sites[c]}
    BY <2>1, <2>2, <2>4 DEF UpToDate
  <2>6. WithCursor(c) = {sites[e] : e \in editing \ {c}}
    BY <2>3, <2>4, <2>5
  <2>7. ASSUME NEW p \in shown[c], p[1].named PROVE \E s \in WithCursor(c) : p = Cursor(s)
    <3>1. PICK s \in DOMAIN known[c] : p = Cursor(s) \/ p = <<Nameless(usernames[s]), s>>
      BY <2>2, <2>7 DEF EditorOK, CursorOK
    <3>2. p = Cursor(s)
      <4>1. SUFFICES ASSUME p = <<Nameless(usernames[s]), s>> PROVE FALSE
        BY <3>1
      <4>2. p[1] = Nameless(usernames[s])
        BY <4>1
      <4>. QED
        BY <4>2, <2>7, UsersApart
    <3>. QED
      BY <3>2, <2>7 DEF WithCursor
  <2>8. ASSUME NEW s \in WithCursor(c) PROVE Cursor(s) \in shown[c] /\ Cursor(s)[1].named
    <3>1. Cursor(s)[1] = User(usernames[s])
      BY DEF Cursor
    <3>. QED
      BY <3>1, UsersApart DEF WithCursor
  <2>9. \A e \in editing \ {c} : Cursor(sites[e]) = <<User(UserOf[e]), sites[e]>>
    BY <2>4 DEF Cursor
  <2>10. {p \in shown[c] : Named(p[1])} = {<<User(UserOf[e]), sites[e]>> : e \in editing \ {c}}
    <3>1. {p \in shown[c] : Named(p[1])} = {Cursor(s) : s \in WithCursor(c)}
      BY <2>7, <2>8 DEF Named
    <3>2. {Cursor(s) : s \in WithCursor(c)} = {Cursor(sites[e]) : e \in editing \ {c}}
      BY <2>6
    <3>. QED
      BY <3>1, <3>2, <2>9
  <2>11. ASSUME NEW u PROVE User(u) \in online[c] <=> \E e \in editing : u = UserOf[e]
    <3>1. User(u) \in online[c] <=> u = UserOf[c] \/ \E s \in WithCursor(c) : usernames[s] = u
      BY <1>1, <2>2 DEF EditorOK
    <3>2. (\E s \in WithCursor(c) : usernames[s] = u) <=> \E e \in editing \ {c} : UserOf[e] = u
      BY <2>4, <2>6
    <3>. QED
      BY <3>1, <3>2, <2>3
  <2>12. ASSUME NEW x \in online[c], x.named PROVE \E u : x = User(u)
    <3>1. PICK u : x = User(u) \/ x = Nameless(u)
      BY <2>2 DEF EditorOK, AnyUser
    <3>. QED
      BY <3>1, <2>12, UsersApart
  <2>13. {x \in online[c] : Named(x)} = {User(UserOf[e]) : e \in editing}
    BY <2>11, <2>12, UsersApart DEF Named
  <2>. QED
    BY <2>3, <2>10, <2>13
<1>2. Introduced => UsersAgree
  BY <1>1 DEF UsersAgree
<1>. QED
  BY <1>2, Coherence, PTL

-----------------------------------------------------------------------------
(* The sites given out stay within the bound: a client has at most one      *)
(* request to open on its way or being served.                              *)
Openers == {c \in Clients : \/ Plain("open") \in ToSet(up[c])
                           \/ opening[c].at \in {"joined", "profiles"}}
Bounded ==
    /\ IsFiniteSet(Openers)
    /\ Openings <= MaxSites

LEMMA Sent ==
    ASSUME NEW S, NEW q \in Seq(S), NEW m \in S, NEW n \in 0 .. Len(q)
    PROVE  /\ ToSet(Append(q, m)) = ToSet(q) \cup {m}
           /\ ToSet(Append(SubSeq(q, 1, n), m)) \subseteq ToSet(q) \cup {m}
           /\ q # << >> => ToSet(Tail(q)) \subseteq ToSet(q) /\ Head(q) \in ToSet(q)
<1>1. Len(q) \in Nat /\ DOMAIN q = 1 .. Len(q) /\ n \in Nat /\ n <= Len(q)
  OBVIOUS
<1>2. ToSet(Append(q, m)) = ToSet(q) \cup {m}
  <2>. DEFINE r == Append(q, m)
  <2>1. DOMAIN r = 1 .. (Len(q) + 1) /\ r[Len(q) + 1] = m /\ \A i \in 1 .. Len(q) : r[i] = q[i]
    OBVIOUS
  <2>. HIDE DEF r
  <2>2. ASSUME NEW i \in DOMAIN r PROVE r[i] = m \/ \E j \in DOMAIN q : r[i] = q[j]
    BY <1>1, <2>1
  <2>3. ASSUME NEW j \in DOMAIN q PROVE j \in DOMAIN r /\ r[j] = q[j]
    BY <1>1, <2>1
  <2>4. Len(q) + 1 \in DOMAIN r
    BY <1>1, <2>1
  <2>5. ToSet(r) = ToSet(q) \cup {m}
    BY <2>1, <2>2, <2>3, <2>4 DEF ToSet
  <2>. QED
    BY <2>5 DEF r
<1>3. ToSet(Append(SubSeq(q, 1, n), m)) \subseteq ToSet(q) \cup {m}
  <2>. DEFINE p == SubSeq(q, 1, n)
              r == Append(p, m)
  <2>1. p \in Seq(S) /\ Len(p) = n /\ \A i \in 1 .. n : p[i] = q[i]
    BY <1>1
  <2>. HIDE DEF p
  <2>2. DOMAIN r = 1 .. (n + 1) /\ r[n + 1] = m /\ \A i \in 1 .. n : r[i] = q[i]
    BY <1>1, <2>1
  <2>. HIDE DEF r
  <2>3. ASSUME NEW i \in DOMAIN r PROVE r[i] = m \/ \E j \in DOMAIN q : r[i] = q[j]
    BY <1>1, <2>2
  <2>4. ToSet(r) \subseteq ToSet(q) \cup {m}
    BY <2>3 DEF ToSet
  <2>. QED
    BY <2>4 DEF r, p
<1>4. ASSUME q # << >> PROVE ToSet(Tail(q)) \subseteq ToSet(q) /\ Head(q) \in ToSet(q)
  <2>. DEFINE r == Tail(q)
  <2>1. /\ DOMAIN r = 1 .. (Len(q) - 1) /\ \A i \in 1 .. (Len(q) - 1) : r[i] = q[i + 1]
        /\ Head(q) = q[1] /\ 1 \in DOMAIN q
    BY <1>1, <1>4, HeadTailProperties
  <2>. HIDE DEF r
  <2>2. ASSUME NEW i \in DOMAIN r PROVE \E j \in DOMAIN q : r[i] = q[j]
    <3>1. i + 1 \in DOMAIN q /\ r[i] = q[i + 1]
      BY <1>1, <2>1
    <3>. QED
      BY <3>1
  <2>3. ToSet(r) \subseteq ToSet(q) /\ Head(q) \in ToSet(q)
    BY <2>1, <2>2 DEF ToSet
  <2>. QED
    BY <2>3 DEF r
<1>. QED
  BY <1>2, <1>3, <1>4

(* After a request to open nothing but the end of the connection follows.   *)
LEMMA OneOpen ==
    ASSUME NEW q, NEW e, Orderly(q, e), q # << >>, Head(q) = Plain("open")
    PROVE  Plain("open") \notin ToSet(Tail(q))
<1>1. /\ q \in Seq(Message) /\ Len(q) \in Nat \ {0} /\ q[1] = Plain("open")
      /\ \A i \in 2 .. Len(q) : Follows(q[i - 1], q[i])
      /\ DOMAIN Tail(q) = 1 .. (Len(q) - 1)
      /\ \A i \in 1 .. (Len(q) - 1) : Tail(q)[i] = q[i + 1]
  BY HeadTailProperties DEF Orderly
<1>2. Len(q) > 1 => q[2] = Plain("hangup")
  <2>1. Len(q) > 1 => Follows(q[1], q[2])
    BY <1>1
  <2>. QED
    BY <1>1, <2>1, MessagesDiffer DEF Follows
<1>3. Len(q) <= 2
  <2>1. Len(q) > 2 => Follows(q[2], q[3])
    BY <1>1
  <2>2. Len(q) > 2 => FALSE
    BY <1>1, <1>2, <2>1, MessagesDiffer DEF Follows
  <2>. QED
    BY <1>1, <2>2
<1>4. ASSUME NEW i \in DOMAIN Tail(q) PROVE Tail(q)[i] = Plain("hangup")
  <2>1. i = 1 /\ Len(q) > 1
    BY <1>1, <1>3
  <2>. QED
    BY <1>1, <1>2, <2>1
<1>. QED
  BY <1>4, MessagesDiffer DEF ToSet

LEMMA NoMoreOpeners ==
    ASSUME GInv, Bounded, usernames' = usernames, Openers' \subseteq Openers
    PROVE  Bounded'
<1>1. /\ IsFiniteSet(Openers') /\ Cardinality(Openers') <= Cardinality(Openers)
      /\ Cardinality(Openers') \in Nat /\ Cardinality(Openers) \in Nat
  BY FS_Subset, FS_CardinalityType DEF Bounded
<1>2. /\ Openings = Len(usernames) - Len(Authors) + Cardinality(Openers)
      /\ Openings' = Len(usernames) - Len(Authors) + Cardinality(Openers')
  BY DEF Openings, Openers
<1>3. Len(usernames) \in Nat /\ Len(Authors) \in Nat /\ MaxSites \in Nat
  BY PresenceAssumption DEF GInv
<1>. QED
  BY <1>1, <1>2, <1>3 DEF Bounded

LEMMA SenderBounded ==
    ASSUME GInv, Bounded, NEW c \in Clients, UNCHANGED <<usernames, opening>>, NEW q,
           up' = [up EXCEPT ![c] = q],
           Plain("open") \in ToSet(q) => Plain("open") \in ToSet(up[c])
    PROVE  Bounded'
<1>1. \A b \in Clients : up'[b] = IF b = c THEN q ELSE up[b]
  BY DEF GInv
<1>2. Openers' \subseteq Openers
  BY <1>1 DEF Openers
<1>. QED
  BY <1>2, NoMoreOpeners

LEMMA RegisterBounded ==
    ASSUME GInv, Bounded, NEW c \in Clients, Register(c)
    PROVE  Bounded'
<1>1. /\ opening[c].at = "profiles" /\ usernames' = Append(usernames, UserOf[c])
      /\ up' = up /\ opening'[c].at = "registered"
      /\ \A b \in Clients \ {c} : opening'[b] = opening[b]
  BY DEF Register, Opening, GInv, Opens
<1>2. Plain("open") \notin ToSet(up[c])
  <2>1. Orderly(Pending(c), c \in editing) /\ up[c] \in Seq(Message)
    BY DEF GInv
  <2>2. PICK o, u, q : o = opening[c] /\ u = up[c] /\ q = Still(o, u)
    OBVIOUS
  <2>3. q # << >> /\ Head(q) = Plain("open") /\ Tail(q) = u
    BY <1>1, <2>1, <2>2, StillProperties
  <2>4. Orderly(q, c \in editing)
    BY <2>1, <2>2 DEF Pending
  <2>. QED
    BY <2>2, <2>3, <2>4, OneOpen
<1>3. c \in Openers /\ Openers' = Openers \ {c}
  BY <1>1, <1>2 DEF Openers
<1>4. /\ IsFiniteSet(Openers') /\ Cardinality(Openers') = Cardinality(Openers) - 1
      /\ Cardinality(Openers) \in Nat
  BY <1>3, FS_RemoveElement, FS_CardinalityType DEF Bounded
<1>5. /\ usernames \in Seq(Users) /\ Len(usernames) \in Nat /\ UserOf[c] \in Users
      /\ Len(Authors) \in Nat /\ MaxSites \in Nat
  BY PresenceAssumption DEF GInv
<1>6. Len(usernames') = Len(usernames) + 1
  BY <1>1, <1>5
<1>7. /\ Openings = Len(usernames) - Len(Authors) + Cardinality(Openers)
      /\ Openings' = Len(usernames') - Len(Authors) + Cardinality(Openers')
  BY DEF Openings, Openers
<1>. QED
  BY <1>4, <1>5, <1>6, <1>7 DEF Bounded

LEMMA BoundedNext ==
    ASSUME GInv, Bounded, [Next]_vars
    PROVE  Bounded'
<1>1. /\ \A c \in Clients : up[c] \in Seq(Message)
      /\ \A type \in {"move", "close", "hangup"} : Plain(type) \in Message /\ Plain(type) # Plain("open")
      /\ Plain("open") \in Message
  BY MessagesDiffer DEF GInv
<1>2. CASE UNCHANGED vars
  BY <1>2, NoMoreOpeners DEF vars, docVars, Openers
<1>3. ASSUME NEW c \in Clients, AskToOpen(c) PROVE Bounded'
  <2>1. /\ Openings < MaxSites /\ up' = [up EXCEPT ![c] = Append(up[c], Plain("open"))]
        /\ UNCHANGED <<usernames, opening>>
    BY <1>3 DEF AskToOpen, Send, docVars
  <2>2. \A b \in Clients : b # c => up'[b] = up[b]
    BY <2>1 DEF GInv
  <2>3. Openers' \subseteq Openers \cup {c}
    BY <2>1, <2>2 DEF Openers
  <2>4. /\ IsFiniteSet(Openers \cup {c})
        /\ Cardinality(Openers \cup {c}) <= Cardinality(Openers) + 1
        /\ Cardinality(Openers) \in Nat /\ Cardinality(Openers \cup {c}) \in Nat
    <3>1. IsFiniteSet(Openers) /\ Cardinality(Openers) \in Nat
      BY FS_CardinalityType DEF Bounded
    <3>. QED
      BY <3>1, FS_AddElement
  <2>5. /\ IsFiniteSet(Openers') /\ Cardinality(Openers') \in Nat
        /\ Cardinality(Openers') <= Cardinality(Openers) + 1
    BY <2>3, <2>4, FS_Subset, FS_CardinalityType
  <2>6. /\ Openings = Len(usernames) - Len(Authors) + Cardinality(Openers)
        /\ Openings' = Len(usernames) - Len(Authors) + Cardinality(Openers')
    BY <2>1 DEF Openings, Openers
  <2>7. Len(usernames) \in Nat /\ Len(Authors) \in Nat /\ MaxSites \in Nat
    BY PresenceAssumption DEF GInv
  <2>. QED
    BY <2>1, <2>4, <2>5, <2>6, <2>7 DEF Bounded
<1>4. ASSUME NEW c \in Clients, MoveCursor(c) \/ CloseWindow(c) PROVE Bounded'
  <2>1. PICK m \in {Plain("move"), Plain("close")} :
          up' = [up EXCEPT ![c] = Append(up[c], m)] /\ UNCHANGED <<usernames, opening>>
    BY <1>4 DEF MoveCursor, CloseWindow, Send, docVars
  <2>2. ToSet(Append(up[c], m)) = ToSet(up[c]) \cup {m}
    BY <1>1, Sent
  <2>. QED
    BY <1>1, <2>1, <2>2, SenderBounded
<1>5. ASSUME NEW c \in Clients, Vanish(c) PROVE Bounded'
  <2>1. PICK n \in 0 .. Len(up[c]) :
          up' = [up EXCEPT ![c] = Append(SubSeq(up[c], 1, n), Plain("hangup"))]
    BY <1>5 DEF Vanish
  <2>2. ToSet(Append(SubSeq(up[c], 1, n), Plain("hangup"))) \subseteq ToSet(up[c]) \cup {Plain("hangup")}
    BY <1>1, Sent
  <2>3. UNCHANGED <<usernames, opening>>
    BY <1>5 DEF Vanish, docVars
  <2>. QED
    BY <1>1, <2>1, <2>2, <2>3, SenderBounded
<1>6. ASSUME NEW c \in Clients, ServeMove(c) \/ ServeClose(c) \/ ServeHangup(c) PROVE Bounded'
  <2>1. /\ up[c] # << >> /\ up' = [up EXCEPT ![c] = Tail(up[c])] /\ UNCHANGED <<usernames, opening>>
    BY <1>6 DEF ServeMove, ServeClose, ServeHangup, Serving, Leave, docVars
  <2>2. ToSet(Tail(up[c])) \subseteq ToSet(up[c])
    BY <1>1, <2>1, Sent
  <2>. QED
    BY <2>1, <2>2, SenderBounded
<1>7. ASSUME NEW c \in Clients, ServeOpen(c) \/ ReadProfiles(c) PROVE Bounded'
  <2>1. usernames' = usernames /\ \A b \in Clients \ {c} : opening'[b] = opening[b] /\ up'[b] = up[b]
    BY <1>7 DEF ServeOpen, Serving, ReadProfiles, GInv, Opens
  <2>2. c \in Openers
    <3>1. CASE ServeOpen(c)
      <4>1. up[c] # << >> /\ Head(up[c]) = Plain("open")
        BY <3>1 DEF ServeOpen, Serving
      <4>. QED
        BY <1>1, <4>1, Sent DEF Openers
    <3>2. CASE ReadProfiles(c)
      BY <3>2 DEF ReadProfiles, Openers
    <3>. QED
      BY <1>7, <3>1, <3>2
  <2>3. Openers' \subseteq Openers
    BY <2>1, <2>2 DEF Openers
  <2>. QED
    BY <2>1, <2>3, NoMoreOpeners
<1>8. ASSUME NEW c \in Clients, ReadUsernames(c) \/ Answer(c) PROVE Bounded'
  <2>1. /\ UNCHANGED <<usernames, up>> /\ opening'[c].at \notin {"joined", "profiles"}
        /\ \A b \in Clients \ {c} : opening'[b] = opening[b]
    BY <1>8 DEF ReadUsernames, Answer, NotOpening, Opening, GInv, Opens
  <2>2. Openers' \subseteq Openers
    BY <2>1 DEF Openers
  <2>. QED
    BY <2>1, <2>2, NoMoreOpeners
<1>9. ASSUME NEW c \in Clients, ClientHandles(c) PROVE Bounded'
  BY <1>9, NoMoreOpeners DEF ClientHandles, NewEditor, BadDocument, NoEditor, RemoteOpen,
     RemoteClose, RemoteMove, docVars, Openers
<1>10. ASSUME NEW w \in Workers, PostNext(w) \/ Dispatch(w) PROVE Bounded'
  BY <1>10, NoMoreOpeners DEF PostNext, Dispatch, docVars, Openers
<1>. QED
  BY <1>2, <1>3, <1>4, <1>5, <1>6, <1>7, <1>8, <1>9, <1>10, RegisterBounded
     DEF Next, Serve, OpenStep

(* Whoever is named in a document has it shared.                            *)
Shared ==
    /\ ToSet(Authors) \subseteq members
    /\ \A c \in Clients : opening[c].profiles \subseteq members

LEMMA SharedNext ==
    ASSUME GInv, Shared, [Next]_vars
    PROVE  Shared'
<1>1. members \subseteq members'
      /\ \A c \in Clients : opening'[c].profiles \subseteq opening[c].profiles \cup members
  <2>1. CASE UNCHANGED <<members, opening>>
    BY <2>1
  <2>2. ASSUME NEW c \in Clients, NEW ps, NEW at, NEW us, ps \subseteq opening[c].profiles \cup members,
               opening' = [opening EXCEPT ![c] = Opening(at, ps, us)], members \subseteq members'
        PROVE  <1>1!:
    <3>1. opening'[c].profiles = ps /\ \A b \in Clients \ {c} : opening'[b] = opening[b]
      BY <2>2 DEF Opening, GInv, Opens
    <3>. QED
      BY <2>2, <3>1
  <2>3. ASSUME NEW c \in Clients, ServeOpen(c) \/ OpenStep(c) PROVE <1>1!:
    <3>1. PICK at, ps, us : /\ ps \subseteq opening[c].profiles \cup members
                            /\ opening' = [opening EXCEPT ![c] = Opening(at, ps, us)]
                            /\ members \subseteq members'
      BY <2>3, Zenon DEF ServeOpen, OpenStep, ReadProfiles, Register, ReadUsernames, Answer, NotOpening
    <3>. QED
      BY <2>2, <3>1
  <2>4. ASSUME NEW c \in Clients, AskToOpen(c) \/ MoveCursor(c) \/ CloseWindow(c) \/ Vanish(c)
        PROVE  UNCHANGED <<members, opening>>
    BY <2>4 DEF AskToOpen, MoveCursor, CloseWindow, Vanish, docVars
  <2>5. ASSUME NEW c \in Clients, ServeMove(c) \/ ServeClose(c) \/ ServeHangup(c)
        PROVE  UNCHANGED <<members, opening>>
    BY <2>5 DEF ServeMove, ServeClose, ServeHangup, Leave, docVars
  <2>6. ASSUME NEW c \in Clients, ClientHandles(c) PROVE UNCHANGED <<members, opening>>
    BY <2>6 DEF ClientHandles, NewEditor, BadDocument, NoEditor, RemoteOpen, RemoteClose,
       RemoteMove, docVars
  <2>7. ASSUME NEW w \in Workers, PostNext(w) \/ Dispatch(w) PROVE UNCHANGED <<members, opening>>
    BY <2>7 DEF PostNext, Dispatch, docVars
  <2>8. UNCHANGED vars => UNCHANGED <<members, opening>>
    BY DEF vars, docVars
  <2>. QED
    BY <2>1, <2>3, <2>4, <2>5, <2>6, <2>7, <2>8 DEF Next, Serve
<1>. QED
  BY <1>1 DEF Shared

LEMMA InitBounded == Init => Bounded /\ Shared
<1>. SUFFICES ASSUME Init PROVE Bounded /\ Shared
  OBVIOUS
<1>1. Openers = {}
  BY DEF Init, Openers, ToSet, NotOpening, Opening
<1>2. Openings = Len(Authors) - Len(Authors) + Cardinality(Openers)
  BY DEF Init, Openings, Openers
<1>3. Len(Authors) \in Nat /\ MaxSites \in Nat
  BY PresenceAssumption
<1>4. Shared
  BY DEF Init, Shared, NotOpening, Opening
<1>. QED
  BY <1>1, <1>2, <1>3, <1>4, FS_EmptySet DEF Bounded

LEMMA TypesRight == Introduced /\ Bounded /\ Shared => TypeOK
<1>. SUFFICES ASSUME Introduced, Bounded, Shared PROVE TypeOK
  OBVIOUS
<1>1. /\ usernames \in Seq(Users) /\ Len(usernames) \in Nat /\ Len(usernames) \in Site
      /\ 0 .. Len(usernames) \subseteq Site
  <2>1. usernames \in Seq(Users) /\ Len(usernames) \in Nat /\ Len(Authors) \in Nat /\ MaxSites \in Nat
    BY PresenceAssumption DEF Introduced, GInv
  <2>2. Cardinality(Openers) \in Nat /\ Len(usernames) - Len(Authors) + Cardinality(Openers) <= MaxSites
    BY FS_CardinalityType DEF Bounded, Openings, Openers
  <2>. QED
    BY <2>1, <2>2 DEF Site
<1>2. /\ sites \in [Clients -> 0 .. Len(usernames)]
      /\ editing = {c \in Clients : sites[c] # NoSite /\ opening[c].at = "no"}
      /\ cursors = {sites[c] : c \in Clients} \ {NoSite}
  BY DEF Introduced, GInv, Sessions, NoGhosts
<1>3. cursors \subseteq Site /\ sites \in [Clients -> Site]
  BY <1>1, <1>2
<1>4. Table(mySite) /\ \E S : lost \in [Clients -> S]
  BY DEF Introduced, GInv, Tabled
<1>5. ASSUME NEW c \in Clients
      PROVE  /\ mySite[c] \in Site
             /\ \A s \in DOMAIN known[c] : known[c][s] \in {User(usernames[s]), Nameless(usernames[s])}
             /\ \A p \in shown[c] : p[1].user \in Users /\ p[2] \in Site
             /\ \A x \in online[c] : x.user \in Users
             /\ lost[c] \in {Nothing, "connection", "document", "editor", "user", "cursor"}
  <2>1. Informed(c) /\ EditorOK(c) /\ Rightly(known[c])
    BY DEF Introduced, Informed, EditorOK
  <2>2. mySite[c] \in Site
    BY <1>1, <1>3, <2>1 DEF EditorOK, NoSite
  <2>3. ASSUME NEW p \in shown[c] PROVE p[1].user \in Users /\ p[2] \in Site
    <3>1. PICK s \in DOMAIN known[c] :
            p = <<User(usernames[s]), s>> \/ p = <<Nameless(usernames[s]), s>>
      BY <2>1, <2>3 DEF EditorOK, CursorOK, Cursor
    <3>2. s \in 1 .. Len(usernames) /\ s \in 0 .. Len(usernames) /\ usernames[s] \in Users
      BY <1>1, <2>1, <3>1 DEF Rightly
    <3>3. p[2] = s /\ (p[1] = User(usernames[s]) \/ p[1] = Nameless(usernames[s]))
      BY <3>1
    <3>4. p[1].user = usernames[s]
      BY <3>3, UsersApart
    <3>. QED
      BY <1>1, <3>2, <3>3, <3>4
  <2>4. ASSUME NEW x \in online[c] PROVE x.user \in Users
    <3>1. PICK u \in Users : x = User(u) \/ x = Nameless(u)
      BY <2>1, <2>4 DEF EditorOK, AnyUser
    <3>. QED
      BY <3>1, UsersApart
  <2>. QED
    BY <2>1, <2>2, <2>3, <2>4 DEF Informed, Rightly
<1>6. mySite \in [Clients -> Site]
  BY <1>4, <1>5 DEF Table
<1>7. lost \in [Clients -> {Nothing, "connection", "document", "editor", "user", "cursor"}]
  BY <1>4, <1>5
<1>8. \A c \in Clients : opening[c].at \in Stages
  BY DEF Introduced, GInv, Opens
<1>9. ToSet(usernames) \subseteq members /\ members \subseteq Users
  <2>1. \A i \in 1 .. Len(usernames) : usernames[i] \in members
    BY DEF Introduced, GInv
  <2>. QED
    BY <1>1, <2>1 DEF ToSet, Introduced, GInv
<1>. QED
  BY <1>1, <1>2, <1>3, <1>5, <1>6, <1>7, <1>8, <1>9 DEF TypeOK, Shared

(* The server's tables and the editors' are what they should be: sites are  *)
(* given out within the bound, a session's is one of them, whose users have *)
(* the document shared, and every User an editor has for a site is that of  *)
(* the user that opened it, or stands for that user without its name.       *)
THEOREM TypeCorrect == Spec => []TypeOK
<1>1. Introduced /\ Bounded /\ Shared /\ [Next]_vars => Bounded' /\ Shared'
  BY BoundedNext, SharedNext DEF Introduced
<1>2. Spec => [](Bounded /\ Shared)
  BY <1>1, InitBounded, Coherence, PTL DEF Spec
<1>. QED
  BY <1>2, TypesRight, Coherence, PTL
=============================================================================
