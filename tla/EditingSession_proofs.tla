----------------------- MODULE EditingSession_proofs -----------------------
(***************************************************************************)
(* What holds of an editing session for every number of clients, workers   *)
(* and edits.  The messages under way to a client are looked at as a set,  *)
(* wherever they are: written to its socket, posted to its worker or still *)
(* to be posted.                                                           *)
(***************************************************************************)
EXTENDS EditingSession, SharedEditor_proofs, FiniteSetTheorems

Post == [to : Workers, source : Clients, message : Message]
Character == [of : Symbol \cup {Replaced}, format : Formats]
Document == [type : {"document"}, text : Seq([of : Symbol, format : Formats])]
SymbolsOf(v) == [i \in DOMAIN v |-> v[i].of]

Types ==
    /\ editor \in [Replicas -> Editor]
    /\ view \in [Replicas -> Seq(Character)]
    /\ counter \in [Clients -> Nat]
    /\ joined \subseteq editing /\ editing \subseteq Clients
    /\ up \in [Clients -> Seq(Message \cup {Open})]
    /\ down \in [Clients -> Seq(Message \cup Document)]
    /\ queue \in [Workers -> Seq(Call)]
    /\ posting \in [Workers -> Seq(Post)]
    /\ issued \subseteq Symbol
    /\ edits \in 0 .. MaxEdits

(* Every editor is sound; the server's never repeats a symbol and never     *)
(* buffers.                                                                 *)
Replicated ==
    /\ \A r \in Replicas : Sound(editor[r])
    /\ Ascending(editor[Server].text)
    /\ editor[Server].buf = << >>

(* No replica has heard of a counter that has not been used, and a client   *)
(* has recorded all of its own.                                             *)
Counted ==
    /\ \A c \in Clients : counter[c] <= edits
    /\ \A r \in Replicas, c \in Clients : editor[r].vv[c] < counter[c]
    /\ \A s \in issued : s.n < counter[s.site]
    /\ \A c \in Clients : editor[c].vv[c] = counter[c] - 1

(* The stages of a client that opens the document. *)
Joining ==
    /\ \A c \in Clients : c \notin joined => counter[c] = 0 /\ editor[c] = EditorOf(<< >>)
    /\ \A c \in Clients : c \notin editing => down[c] = << >> /\ up[c] \in {<< >>, <<Open>>}
    /\ \A c \in editing : Open \notin ToSet(up[c])
    /\ \A c \in editing \ joined : up[c] = << >> /\ down[c] # << >> /\ down[c][1] \in Document
    /\ \A c \in Clients : \A i \in DOMAIN down[c] :
          down[c][i] \in Document => i = 1 /\ c \notin joined

(* A snapshot is of a text the server has had. *)
Snapshots ==
    \A c \in Clients : \A m \in ToSet(down[c]) : m \in Document =>
        /\ Ascending(SymbolsOf(m.text))
        /\ \A s \in ToSet(SymbolsOf(m.text)) : Received(editor[Server], s)

Sending(c, s) == \E f \in Formats : Insert(s, f) \in ToSet(up[c])

(* What a client asks for: inserts of its own symbols, in their order, and  *)
(* the rest only of symbols that the server knows by then.                  *)
RequestsOf(c, q, next, ed) ==
    \A i \in DOMAIN q :
        /\ q[i].type = "insert" =>
              /\ q[i].symbol.site = c /\ q[i].symbol.n < next
              /\ ~Received(ed, q[i].symbol)
              /\ \A j \in DOMAIN q : j < i /\ q[j].type = "insert" =>
                    q[j].symbol.n < q[i].symbol.n
        /\ q[i].type \in {"erase", "format"} =>
              \/ Received(ed, q[i].symbol)
              \/ \E j \in DOMAIN q : j < i /\ q[j].type = "insert" /\ q[j].symbol = q[i].symbol
Requests == \A c \in Clients : RequestsOf(c, up[c], counter[c], editor[Server])

(* The server knows what a client shows, or will. *)
Known ==
    \A c \in Clients : \A s \in ToSet(editor[c].text) :
        Received(editor[Server], s) \/ Sending(c, s)

(* Message m is on its way from a worker: to client d, to anybody. *)
UnderWay(m, d) ==
    \/ m \in ToSet(down[d])
    \/ \E call \in ToSet(queue[WorkerOf[d]]) : call.source # d /\ call.message = m
    \/ \E w \in Workers : \E p \in ToSet(posting[w]) :
          p.to = WorkerOf[d] /\ p.source # d /\ p.message = m
Flying(m) ==
    \/ \E d \in Clients : m \in ToSet(down[d])
    \/ \E w \in Workers : \/ \E call \in ToSet(queue[w]) : call.message = m
                          \/ \E p \in ToSet(posting[w]) : p.message = m

Coming(s, d) == \E f \in Formats : UnderWay(Insert(s, f), d)

Relayed ==
    \A m \in Message : Flying(m) => Received(editor[Server], m.symbol)

(* What a client has typed and not yet sent it shows or has erased. *)
Own ==
    \A c \in Clients : \A s \in Symbol : Sending(c, s) =>
        s \in ToSet(editor[c].text) \/ Erase(s) \in ToSet(up[c])

(* What is being erased has been erased at the server. *)
Gone(s) == Received(editor[Server], s) /\ s \notin ToSet(editor[Server].text)
Dead ==
    /\ \A s \in Symbol : Flying(Erase(s)) => Gone(s)
    /\ \A c \in Clients : \A s \in ToSet(editor[c].buf) : Gone(s)

(* What client d shows, or will when it has opened its snapshot. *)
Copy(d) == IF d \in joined THEN editor[d] ELSE EditorOf(SymbolsOf(down[d][1].text))

(* A client misses no symbol: it shows it, gets it or is erasing it. *)
Arriving ==
    \A d \in editing : \A s \in ToSet(editor[Server].text) :
        s \in ToSet(Copy(d).text) \/ Coming(s, d) \/ Erase(s) \in ToSet(up[d])

(* What is kept by index stays aligned. *)
AlignedAt(r, v, t) ==
    /\ Len(v) = Len(t)
    /\ \A i \in 1 .. Len(v) :
          \/ v[i].of = t[i]
          \/ Replacing /\ r # Server /\ v[i].of = Replaced
Aligned == \A r \in Replicas : AlignedAt(r, view[r], editor[r].text)

Inv ==
    /\ Types /\ Replicated /\ Counted /\ Joining /\ Snapshots /\ Requests /\ Known
    /\ Relayed /\ Own /\ Dead /\ Arriving /\ Aligned

-----------------------------------------------------------------------------
(* Sequences that messages are added to and taken from.                     *)
LEMMA AppendFacts ==
    ASSUME NEW S, NEW q \in Seq(S), NEW x \in S
    PROVE  /\ Append(q, x) \in Seq(S) /\ Len(q) \in Nat
           /\ DOMAIN q = 1 .. Len(q) /\ DOMAIN Append(q, x) = 1 .. (Len(q) + 1)
           /\ Append(q, x)[Len(q) + 1] = x
           /\ \A i \in 1 .. Len(q) : Append(q, x)[i] = q[i]
           /\ ToSet(Append(q, x)) = ToSet(q) \cup {x}
           /\ q \o <<x>> = Append(q, x)
<1>. DEFINE u == Append(q, x)
<1>1. /\ u \in Seq(S) /\ Len(q) \in Nat
      /\ DOMAIN q = 1 .. Len(q) /\ DOMAIN u = 1 .. (Len(q) + 1)
      /\ u[Len(q) + 1] = x
      /\ \A i \in 1 .. Len(q) : u[i] = q[i]
  OBVIOUS
<1>2. q \o <<x>> = u
  OBVIOUS
<1>. HIDE DEF u
<1>3. \A i : i \in DOMAIN u <=> i \in DOMAIN q \/ i = Len(q) + 1
  BY <1>1
<1>4. ToSet(u) = ToSet(q) \cup {x}
  BY <1>1, <1>3 DEF ToSet
<1>. QED
  BY <1>1, <1>2, <1>4 DEF u

LEMMA TailFacts ==
    ASSUME NEW S, NEW q \in Seq(S), q # << >>
    PROVE  /\ Tail(q) \in Seq(S) /\ Len(q) \in Nat \ {0} /\ Len(Tail(q)) = Len(q) - 1
           /\ DOMAIN q = 1 .. Len(q) /\ DOMAIN Tail(q) = 1 .. (Len(q) - 1)
           /\ Head(q) = q[1] /\ Head(q) \in S /\ 1 \in DOMAIN q
           /\ \A i \in 1 .. (Len(q) - 1) : Tail(q)[i] = q[i + 1]
           /\ ToSet(q) = ToSet(Tail(q)) \cup {Head(q)}
<1>. DEFINE u == Tail(q)
<1>1. /\ u \in Seq(S) /\ Len(q) \in Nat \ {0} /\ Len(u) = Len(q) - 1
      /\ Head(q) = q[1] /\ Head(q) \in S
      /\ \A i \in 1 .. (Len(q) - 1) : u[i] = q[i + 1]
  BY HeadTailProperties, EmptySeq
<1>2. DOMAIN q = 1 .. Len(q)
  OBVIOUS
<1>. HIDE DEF u
<1>3. DOMAIN u = 1 .. (Len(q) - 1) /\ 1 \in DOMAIN q
  BY <1>1, <1>2
<1>4. \A y : y \in ToSet(q) <=> \E i \in 1 .. Len(q) : q[i] = y
  BY <1>2 DEF ToSet
<1>5. \A y : y \in ToSet(u) <=> \E i \in 1 .. (Len(q) - 1) : u[i] = y
  BY <1>3 DEF ToSet
<1>6. ASSUME NEW y, y \in ToSet(q), y # Head(q) PROVE y \in ToSet(u)
  <2>1. PICK i \in 1 .. Len(q) : q[i] = y
    BY <1>4, <1>6
  <2>2. i - 1 \in 1 .. (Len(q) - 1) /\ (i - 1) + 1 = i
    BY <2>1, <1>1, <1>6
  <2>. QED
    BY <2>1, <2>2, <1>1, <1>5
<1>7. ASSUME NEW y, y \in ToSet(u) PROVE y \in ToSet(q)
  <2>1. PICK i \in 1 .. (Len(q) - 1) : u[i] = y
    BY <1>5, <1>7
  <2>2. i + 1 \in 1 .. Len(q)
    BY <2>1, <1>1
  <2>. QED
    BY <2>1, <2>2, <1>1, <1>4
<1>8. Head(q) \in ToSet(q)
  BY <1>1, <1>2, <1>3 DEF ToSet
<1>9. ToSet(q) = ToSet(u) \cup {Head(q)}
  BY <1>6, <1>7, <1>8
<1>. QED
  BY <1>1, <1>2, <1>3, <1>9 DEF u

LEMMA SeqFacts ==
    ASSUME NEW S, NEW q \in Seq(S)
    PROVE  /\ Len(q) \in Nat /\ DOMAIN q = 1 .. Len(q)
           /\ \A i \in 1 .. Len(q) : q[i] \in S /\ q[i] \in ToSet(q)
           /\ \A x : x \in ToSet(q) <=> \E i \in 1 .. Len(q) : q[i] = x
           /\ ToSet(q) \subseteq S
           /\ q \o << >> = q
<1>1. Len(q) \in Nat /\ DOMAIN q = 1 .. Len(q) /\ q \o << >> = q
  OBVIOUS
<1>2. \A i \in 1 .. Len(q) : q[i] \in S
  BY ElementOfSeq
<1>3. \A x : x \in ToSet(q) <=> \E i \in 1 .. Len(q) : q[i] = x
  BY <1>1 DEF ToSet
<1>. QED
  BY <1>1, <1>2, <1>3

LEMMA EmptyFacts ==
    ToSet(<< >>) = {} /\ DOMAIN << >> = {} /\ \A S : << >> \in Seq(S)
<1>1. DOMAIN << >> = {}
  OBVIOUS
<1>. QED
  BY <1>1 DEF ToSet

(* Messages.                                                                *)
LEMMA MessageFields ==
    ASSUME NEW m \in Message
    PROVE  /\ m.symbol \in Symbol /\ m.type \in {"insert", "erase", "format"}
           /\ m.type # "erase" => m.format \in Formats
           /\ m.type = "insert" => m = Insert(m.symbol, m.format)
           /\ m.type = "erase" => m = Erase(m.symbol)
           /\ m.type = "format" => m = Format(m.symbol, m.format)
           /\ m # Open /\ m \notin Document
<1>1. CASE m \in [type : {"insert", "format"}, symbol : Symbol, format : Formats]
  BY <1>1 DEF Insert, Format, Open, Document
<1>2. CASE m \in [type : {"erase"}, symbol : Symbol]
  BY <1>2 DEF Erase, Open, Document
<1>. QED
  BY <1>1, <1>2 DEF Message

LEMMA MessagesMade ==
    ASSUME NEW s \in Symbol, NEW f \in Formats
    PROVE  /\ Insert(s, f) \in Message /\ Erase(s) \in Message /\ Format(s, f) \in Message
           /\ Insert(s, f).type = "insert" /\ Insert(s, f).symbol = s
           /\ Erase(s).type = "erase" /\ Erase(s).symbol = s
           /\ Format(s, f).type = "format" /\ Format(s, f).symbol = s
  BY DEF Message, Insert, Erase, Format

LEMMA OpenIsOpen == Open.type = "open" /\ Open \notin Message /\ Open \notin Document
  BY DEF Open, Message, Document

LEMMA DocumentFields ==
    ASSUME NEW m \in Document
    PROVE  /\ m.type = "document" /\ m \notin Message
           /\ m.text \in Seq([of : Symbol, format : Formats])
           /\ SymbolsOf(m.text) \in Seq(Symbol) /\ Len(SymbolsOf(m.text)) = Len(m.text)
           /\ \A i \in 1 .. Len(m.text) : SymbolsOf(m.text)[i] = m.text[i].of
           /\ m.text \in Seq(Character)
<1>1. m.type = "document" /\ m.text \in Seq([of : Symbol, format : Formats])
  BY DEF Document
<1>2. m \notin Message
  BY <1>1, MessageFields
<1>. DEFINE v == m.text
            S == [of : Symbol, format : Formats]
<1>3. /\ Len(v) \in Nat /\ DOMAIN v = 1 .. Len(v)
      /\ \A i \in 1 .. Len(v) : v[i] \in S
  <2>. HIDE DEF v, S
  <2>1. v \in Seq(S)
    BY <1>1 DEF v, S
  <2>. QED
    BY <2>1, SeqFacts
<1>4. SymbolsOf(v) = [i \in 1 .. Len(v) |-> v[i].of]
  BY <1>3 DEF SymbolsOf
<1>5. \A i \in 1 .. Len(v) : v[i].of \in Symbol /\ v[i] \in Character
  BY <1>3 DEF Character
<1>. HIDE DEF v
<1>6. SymbolsOf(v) \in Seq(Symbol) /\ Len(SymbolsOf(v)) = Len(v)
  BY <1>3, <1>4, <1>5
<1>7. v \in Seq(Character)
  <2>1. S \subseteq Character
    BY DEF Character
  <2>2. v \in Seq(S)
    BY <1>1 DEF v
  <2>. HIDE DEF S
  <2>. QED
    BY <2>1, <2>2, SeqMonotonic
<1>. QED
  BY <1>1, <1>2, <1>4, <1>6, <1>7 DEF v

-----------------------------------------------------------------------------
(* What is kept by index follows the text.                                  *)
LEMMA AlignedInsert ==
    ASSUME NEW r, NEW v \in Seq(Character), NEW t \in Seq(Symbol), AlignedAt(r, v, t),
           NEW k \in 1 .. (Len(t) + 1), NEW s \in Symbol, NEW f \in Formats
    PROVE  /\ InsertAt(v, k, Char(s, f)) \in Seq(Character)
           /\ AlignedAt(r, InsertAt(v, k, Char(s, f)), InsertAt(t, k, s))
<1>. DEFINE x == Char(s, f)
            u == InsertAt(t, k, s)
            z == InsertAt(v, k, x)
<1>1. Len(t) \in Nat /\ k \in Nat /\ Len(v) = Len(t) /\ k \in 1 .. (Len(v) + 1)
  BY DEF AlignedAt
<1>2. x \in Character /\ x.of = s
  BY DEF Char, Character
<1>. HIDE DEF x
<1>3. /\ Len(u) = Len(t) + 1 /\ u[k] = s
      /\ \A i \in 1 .. (k - 1) : u[i] = t[i]
      /\ \A i \in (k + 1) .. (Len(t) + 1) : u[i] = t[i - 1]
  BY InsertShape
<1>4. /\ z \in Seq(Character) /\ Len(z) = Len(v) + 1 /\ z[k] = x
      /\ \A i \in 1 .. (k - 1) : z[i] = v[i]
      /\ \A i \in (k + 1) .. (Len(v) + 1) : z[i] = v[i - 1]
  BY <1>1, <1>2, InsertShape
<1>. HIDE DEF u, z
<1>5. ASSUME NEW i \in 1 .. Len(z)
      PROVE  z[i].of = u[i] \/ (Replacing /\ r # Server /\ z[i].of = Replaced)
  <2>1. CASE i < k
    <3>1. i \in 1 .. Len(v) /\ z[i] = v[i] /\ u[i] = t[i]
      BY <2>1, <1>1, <1>3, <1>4
    <3>. QED
      BY <3>1 DEF AlignedAt
  <2>2. CASE i = k
    BY <2>2, <1>2, <1>3, <1>4
  <2>3. CASE i > k
    <3>1. i - 1 \in 1 .. Len(v) /\ z[i] = v[i - 1] /\ u[i] = t[i - 1]
      BY <2>3, <1>1, <1>3, <1>4
    <3>. QED
      BY <3>1 DEF AlignedAt
  <2>. QED
    BY <2>1, <2>2, <2>3, <1>1, <1>4
<1>6. Len(z) = Len(u)
  BY <1>1, <1>3, <1>4
<1>. QED
  BY <1>4, <1>5, <1>6 DEF AlignedAt, x, u, z

LEMMA AlignedRemove ==
    ASSUME NEW r, NEW v \in Seq(Character), NEW t \in Seq(Symbol), AlignedAt(r, v, t),
           NEW k \in 1 .. Len(t)
    PROVE  /\ RemoveAt(v, k) \in Seq(Character)
           /\ AlignedAt(r, RemoveAt(v, k), RemoveAt(t, k))
<1>. DEFINE u == RemoveAt(t, k)
            z == RemoveAt(v, k)
<1>1. Len(t) \in Nat /\ k \in Nat /\ Len(v) = Len(t) /\ k \in 1 .. Len(v)
  BY DEF AlignedAt
<1>2. /\ Len(u) = Len(t) - 1
      /\ \A i \in 1 .. (k - 1) : u[i] = t[i]
      /\ \A i \in k .. (Len(t) - 1) : u[i] = t[i + 1]
  BY RemoveShape
<1>3. /\ z \in Seq(Character) /\ Len(z) = Len(v) - 1
      /\ \A i \in 1 .. (k - 1) : z[i] = v[i]
      /\ \A i \in k .. (Len(v) - 1) : z[i] = v[i + 1]
  BY <1>1, RemoveShape
<1>. HIDE DEF u, z
<1>4. ASSUME NEW i \in 1 .. Len(z)
      PROVE  z[i].of = u[i] \/ (Replacing /\ r # Server /\ z[i].of = Replaced)
  <2>1. CASE i < k
    <3>0. i \in 1 .. Len(v) /\ i \in 1 .. (k - 1)
      BY <2>1, <1>1, <1>3
    <3>1. i \in 1 .. Len(v) /\ z[i] = v[i] /\ u[i] = t[i]
      BY <3>0, <1>2, <1>3
    <3>. QED
      BY <3>1 DEF AlignedAt
  <2>2. CASE i >= k
    <3>1. i + 1 \in 1 .. Len(v) /\ z[i] = v[i + 1] /\ u[i] = t[i + 1]
      BY <2>2, <1>1, <1>2, <1>3
    <3>. QED
      BY <3>1 DEF AlignedAt
  <2>. QED
    BY <2>1, <2>2, <1>1, <1>3
<1>5. Len(z) = Len(u)
  BY <1>1, <1>2, <1>3
<1>. QED
  BY <1>3, <1>4, <1>5 DEF AlignedAt, u, z

-----------------------------------------------------------------------------
(* What a message does to the editor that handles it.                       *)
Handled(ed, m, e) ==
    LET s == m.symbol IN
    /\ Sound(e)
    /\ m.type = "insert" =>
          /\ e.vv = UpdateVersionVector(ed.vv, s)
          /\ \A x : x \in ToSet(e.buf) <=> x \in ToSet(ed.buf) /\ ~Received(e, x)
          /\ s \in ToSet(ed.buf) => e.text = ed.text /\ s \notin ToSet(ed.text)
          /\ s \notin ToSet(ed.buf) => ToSet(e.text) = ToSet(ed.text) \cup {s}
          /\ Ascending(ed.text) /\ ~Received(ed, s) => Ascending(e.text)
    /\ m.type = "erase" =>
          /\ e.vv = ed.vv
          /\ \A x : x \in ToSet(e.buf) <=> x \in ToSet(ed.buf) \/ (x = s /\ ~Received(ed, s))
          /\ ToSet(e.text) \subseteq ToSet(ed.text) /\ ToSet(ed.text) \ {s} \subseteq ToSet(e.text)
          /\ Ascending(ed.text) => Ascending(e.text) /\ s \notin ToSet(e.text)
    /\ m.type = "format" => e = ed

AtReplica(r, m, e) ==
    /\ Handled(editor[r], m, e)
    /\ editor' = [editor EXCEPT ![r] = e]
    /\ view' \in [Replicas -> Seq(Character)]
    /\ \A q \in Replicas : AlignedAt(q, view'[q], IF q = r THEN e.text ELSE editor[q].text)

LEMMA MadeAtReplica ==
    ASSUME view \in [Replicas -> Seq(Character)],
           \A q \in Replicas : AlignedAt(q, view[q], editor[q].text),
           NEW r \in Replicas, NEW m, NEW e, Handled(editor[r], m, e),
           editor' = [editor EXCEPT ![r] = e],
           NEW z \in Seq(Character), AlignedAt(r, z, e.text),
           view' = [view EXCEPT ![r] = z]
    PROVE  AtReplica(r, m, e)
<1>1. view' \in [Replicas -> Seq(Character)]
  OBVIOUS
<1>2. ASSUME NEW q \in Replicas
      PROVE  AlignedAt(q, view'[q], IF q = r THEN e.text ELSE editor[q].text)
  <2>1. view'[q] = IF q = r THEN z ELSE view[q]
    OBVIOUS
  <2>. QED
    BY <2>1
<1>. QED
  BY <1>1, <1>2 DEF AtReplica

LEMMA Applied ==
    ASSUME Types, Aligned, NEW r \in Replicas, Sound(editor[r]),
           NEW m \in Message, Apply(r, m)
    PROVE  \E e : AtReplica(r, m, e)
<1>. DEFINE s == m.symbol
            ed == editor[r]
<1>1. /\ s \in Symbol /\ m.type \in {"insert", "erase", "format"}
      /\ m.type # "erase" => m.format \in Formats
  BY MessageFields
<1>2. /\ editor \in [Replicas -> Editor] /\ view \in [Replicas -> Seq(Character)]
      /\ ed.text \in Seq(Symbol) /\ view[r] \in Seq(Character)
      /\ \A q \in Replicas : AlignedAt(q, view[q], editor[q].text)
  <2>1. editor \in [Replicas -> Editor] /\ view \in [Replicas -> Seq(Character)]
    BY DEF Types
  <2>2. ed.text \in Seq(Symbol)
    BY <2>1, EditorFields
  <2>. QED
    BY <2>1, <2>2 DEF Aligned
<1>3. CASE m.type = "insert"
  <2>0. PICK done : done = RemoteInsert(ed, s)
    OBVIOUS
  <2>. DEFINE e == done.ed
              x == Char(s, m.format)
  <2>1. /\ editor' = [editor EXCEPT ![r] = e]
        /\ view' = IF done.index = NoIndex THEN view
                   ELSE [view EXCEPT ![r] = InsertAt(view[r], done.index, x)]
    BY <2>0, <1>3, <1>2 DEF Apply, ApplyInsert
  <2>2. /\ Sound(e)
        /\ e.vv = UpdateVersionVector(ed.vv, s)
        /\ \A y : y \in ToSet(e.buf) <=> y \in ToSet(ed.buf) /\ ~Received(e, y)
        /\ s \in ToSet(ed.buf) =>
              done.index = NoIndex /\ e.text = ed.text /\ s \notin ToSet(ed.text)
        /\ s \notin ToSet(ed.buf) =>
              /\ done.index \in 1 .. (Len(ed.text) + 1)
              /\ e.text = InsertAt(ed.text, done.index, s)
              /\ ToSet(e.text) = ToSet(ed.text) \cup {s}
        /\ Ascending(ed.text) /\ ~Received(ed, s) => Ascending(e.text)
    <3>. HIDE DEF ed, s
    <3>1. Sound(ed) /\ s \in Symbol
      BY <1>1 DEF ed
    <3>2. InsertOutcome(ed, s, done)
      BY <2>0, <3>1, AfterInsert
    <3>. QED
      BY <3>2 DEF InsertOutcome
  <2>3. Handled(ed, m, e)
    BY <1>3, <2>2 DEF Handled
  <2>4. CASE s \in ToSet(ed.buf)
    <3>1. e.text = ed.text /\ view' = view /\ view' = [view EXCEPT ![r] = view[r]]
      BY <2>1, <2>2, <2>4, <1>2
    <3>. QED
      BY <3>1, <2>1, <2>3, <1>2, MadeAtReplica
  <2>5. CASE s \notin ToSet(ed.buf)
    <3>1. done.index \in 1 .. (Len(ed.text) + 1) /\ done.index # NoIndex
      BY <2>2, <2>5, <1>2 DEF NoIndex
    <3>. DEFINE z == InsertAt(view[r], done.index, x)
    <3>2. m.format \in Formats /\ AlignedAt(r, view[r], ed.text) /\ e.text = InsertAt(ed.text, done.index, s)
      BY <2>2, <2>5, <1>1, <1>2, <1>3
    <3>3. /\ z \in Seq(Character)
          /\ AlignedAt(r, z, InsertAt(ed.text, done.index, s))
      BY <3>1, <3>2, <1>1, <1>2, AlignedInsert, Zenon
    <3>4. view' = [view EXCEPT ![r] = z]
      BY <3>1, <2>1
    <3>. HIDE DEF z
    <3>. QED
      BY <3>2, <3>3, <3>4, <2>1, <2>3, <1>2, MadeAtReplica
  <2>. QED
    BY <2>4, <2>5
<1>4. CASE m.type = "erase"
  <2>0. PICK done : done = RemoteErase(ed, s)
    OBVIOUS
  <2>. DEFINE e == done.ed
  <2>1. /\ editor' = [editor EXCEPT ![r] = e]
        /\ view' = IF done.index = NoIndex THEN view
                   ELSE [view EXCEPT ![r] = RemoveAt(view[r], done.index)]
    BY <2>0, <1>4, <1>2 DEF Apply, ApplyErase
  <2>2. /\ Sound(e)
        /\ e.vv = ed.vv
        /\ \A y : y \in ToSet(e.buf) <=> y \in ToSet(ed.buf) \/ (y = s /\ ~Received(ed, s))
        /\ s \notin ToSet(ed.text) => done.index = NoIndex /\ e.text = ed.text
        /\ s \in ToSet(ed.text) => /\ done.index \in 1 .. Len(ed.text)
                                   /\ e.text = RemoveAt(ed.text, done.index)
        /\ ToSet(e.text) \subseteq ToSet(ed.text)
        /\ ToSet(ed.text) \ {s} \subseteq ToSet(e.text)
        /\ Ascending(ed.text) => Ascending(e.text) /\ s \notin ToSet(e.text)
    <3>. HIDE DEF ed, s
    <3>1. Sound(ed) /\ s \in Symbol
      BY <1>1 DEF ed
    <3>2. EraseOutcome(ed, s, done)
      BY <2>0, <3>1, AfterErase
    <3>. QED
      BY <3>2 DEF EraseOutcome
  <2>3. Handled(ed, m, e)
    BY <1>4, <2>2 DEF Handled
  <2>4. CASE s \notin ToSet(ed.text)
    <3>1. e.text = ed.text /\ view' = view /\ view' = [view EXCEPT ![r] = view[r]]
      BY <2>1, <2>2, <2>4, <1>2
    <3>. QED
      BY <3>1, <2>1, <2>3, <1>2, MadeAtReplica
  <2>5. CASE s \in ToSet(ed.text)
    <3>1. done.index \in 1 .. Len(ed.text) /\ done.index # NoIndex
      BY <2>2, <2>5, <1>2 DEF NoIndex
    <3>. DEFINE z == RemoveAt(view[r], done.index)
    <3>2. AlignedAt(r, view[r], ed.text) /\ e.text = RemoveAt(ed.text, done.index)
      BY <2>2, <2>5, <1>2
    <3>3. /\ z \in Seq(Character)
          /\ AlignedAt(r, z, RemoveAt(ed.text, done.index))
      BY <3>1, <3>2, <1>2, AlignedRemove, Zenon
    <3>4. view' = [view EXCEPT ![r] = z]
      BY <3>1, <2>1
    <3>. HIDE DEF z
    <3>. QED
      BY <3>2, <3>3, <3>4, <2>1, <2>3, <1>2, MadeAtReplica
  <2>. QED
    BY <2>4, <2>5
<1>5. CASE m.type = "format"
  <2>. DEFINE i == FindSymbol(ed, s)
              v == view[r]
              z == [v EXCEPT ![i] = [v[i] EXCEPT !.format = m.format]]
  <2>1. /\ editor' = editor
        /\ view' = IF i = NoIndex THEN view ELSE [view EXCEPT ![r] = z]
    BY <1>5, <1>2 DEF Apply, ApplyFormat
  <2>2. editor' = [editor EXCEPT ![r] = ed]
    BY <2>1, <1>2
  <2>3. Handled(ed, m, ed)
    BY <1>5 DEF Handled
  <2>4. CASE i = NoIndex
    <3>1. view' = view /\ view' = [view EXCEPT ![r] = view[r]]
      BY <2>1, <2>4, <1>2
    <3>. QED
      BY <3>1, <2>2, <2>3, <1>2, MadeAtReplica
  <2>5. CASE i # NoIndex
    <3>1. Ordered(ed.text)
      BY DEF Sound
    <3>2. i \in 1 .. Len(ed.text)
      BY <3>1, <2>5, <1>1, FindSymbolFinds
    <3>. HIDE DEF i
    <3>3. Len(v) = Len(ed.text) /\ i \in 1 .. Len(v) /\ v \in Seq(Character) /\ Len(v) \in Nat
      BY <3>2, <1>2, SeqFacts DEF AlignedAt
    <3>. DEFINE x == [v[i] EXCEPT !.format = m.format]
    <3>4. x \in Character /\ x.of = v[i].of
      <4>1. v[i] \in Character
        BY <3>3, SeqFacts
      <4>. QED
        BY <4>1, <1>1, <1>5 DEF Character
    <3>. HIDE DEF x
    <3>5. z = [v EXCEPT ![i] = x]
      BY DEF x
    <3>. HIDE DEF z, v
    <3>6. /\ z \in Seq(Character) /\ Len(z) = Len(v)
          /\ \A j \in 1 .. Len(v) : z[j] = IF j = i THEN x ELSE v[j]
      BY <3>3, <3>4, <3>5, ExceptSeq
    <3>7. \A j \in 1 .. Len(v) : z[j].of = v[j].of
      BY <3>4, <3>6
    <3>8. AlignedAt(r, v, ed.text)
      BY <1>2 DEF v
    <3>9. AlignedAt(r, z, ed.text)
      BY <3>3, <3>6, <3>7, <3>8 DEF AlignedAt
    <3>10. view' = [view EXCEPT ![r] = z]
      BY <2>1, <2>5
    <3>. QED
      BY <3>6, <3>9, <3>10, <2>2, <2>3, <1>2, MadeAtReplica
  <2>. QED
    BY <2>4, <2>5
<1>. QED
  BY <1>1, <1>3, <1>4, <1>5

-----------------------------------------------------------------------------
(* The steps of a session, with what they do to the editors said in terms   *)
(* of the symbols shown.  Views are left to Types and Aligned.              *)
Edit(c, e) ==
    /\ c \in joined /\ Sound(e)
    /\ editor' = [editor EXCEPT ![c] = e]
    /\ edits < MaxEdits /\ edits' = edits + 1
    /\ UNCHANGED <<joined, editing, down, queue, posting>>

Typed(c, s, e) ==
    /\ Edit(c, e)
    /\ s \in Symbol /\ s.site = c /\ s.n = counter[c]
    /\ e.vv = UpdateVersionVector(editor[c].vv, s) /\ e.buf = editor[c].buf
    /\ ToSet(e.text) = ToSet(editor[c].text) \cup {s}
    /\ Ascending(editor[c].text) => Ascending(e.text)
    /\ up' = [up EXCEPT ![c] = Append(@, Insert(s, DefaultFormat))]
    /\ counter' = [counter EXCEPT ![c] = @ + 1]
    /\ issued' = issued \cup {s}

Deleted(c, s, e) ==
    /\ Edit(c, e)
    /\ s \in ToSet(editor[c].text)
    /\ e.vv = editor[c].vv /\ e.buf = editor[c].buf
    /\ ToSet(e.text) \subseteq ToSet(editor[c].text)
    /\ ToSet(editor[c].text) \ {s} \subseteq ToSet(e.text)
    /\ Ascending(editor[c].text) => Ascending(e.text) /\ s \notin ToSet(e.text)
    /\ up' = [up EXCEPT ![c] = Append(@, Erase(s))]
    /\ UNCHANGED <<counter, issued>>

Marked(c, s, f) ==
    /\ Edit(c, editor[c])
    /\ s \in ToSet(editor[c].text) /\ f \in Formats
    /\ up' = [up EXCEPT ![c] = Append(@, Format(s, f))]
    /\ UNCHANGED <<counter, issued>>

Overtyped(c) ==
    /\ Edit(c, editor[c])
    /\ UNCHANGED <<counter, issued, up>>

(* A worker handles a message of a client, or admits a client. *)
Served(w, c, m, e) ==
    /\ posting[w] = << >> /\ WorkerOf[c] = w
    /\ up[c] # << >> /\ Head(up[c]) = m /\ m \in Message
    /\ AtReplica(Server, m, e)
    /\ down' = Written(down, w, c, m)
    /\ posting' = [posting EXCEPT ![w] =
           [i \in DOMAIN OtherWorkers(w) |->
               [to |-> OtherWorkers(w)[i], source |-> c, message |-> m]]]
    /\ up' = [up EXCEPT ![c] = Tail(@)]
    /\ UNCHANGED <<counter, joined, editing, queue, issued, edits>>

Admitted(w, c, m) ==
    /\ posting[w] = << >> /\ WorkerOf[c] = w
    /\ up[c] = <<Open>> /\ c \notin editing /\ down[c] = << >>
    /\ m \in Document /\ SymbolsOf(m.text) = editor[Server].text
    /\ editing' = editing \cup {c}
    /\ down' = [down EXCEPT ![c] = <<m>>]
    /\ up' = [up EXCEPT ![c] = << >>]
    /\ UNCHANGED <<editor, counter, joined, queue, posting, issued, edits>>

(* A client handles a message, or opens its editor. *)
Heard(c, m, e) ==
    /\ down[c] # << >> /\ Head(down[c]) = m /\ m \in Message /\ c \in joined
    /\ AtReplica(c, m, e)
    /\ down' = [down EXCEPT ![c] = Tail(@)]
    /\ UNCHANGED <<counter, joined, editing, up, queue, posting, issued, edits>>

Entered(c, m, e) ==
    /\ down[c] # << >> /\ Head(down[c]) = m /\ m = down[c][1] /\ m \in Document
    /\ c \in editing \ joined
    /\ Ascending(SymbolsOf(m.text))
    /\ e = EditorOf(SymbolsOf(m.text)) /\ Sound(e) /\ e.text = SymbolsOf(m.text)
    /\ editor' = [editor EXCEPT ![c] = e]
    /\ joined' = joined \cup {c}
    /\ down' = [down EXCEPT ![c] = Tail(@)]
    /\ UNCHANGED <<counter, editing, up, queue, posting, issued, edits>>

LocalStep(c) ==
    \/ \E s, e : Typed(c, s, e) \/ Deleted(c, s, e)
    \/ \E s, f : Marked(c, s, f)
    \/ Overtyped(c)
    \/ RequestOpen(c)
RemoteStep(c) == \E m, e : Heard(c, m, e) \/ Entered(c, m, e)
WorkerStep(w) ==
    \/ \E c \in Clients : \E m, e : Served(w, c, m, e)
    \/ \E c \in Clients : \E m : Admitted(w, c, m)
    \/ PostNext(w)
    \/ Dispatch(w)
Step ==
    \/ \E c \in Clients : LocalStep(c) \/ RemoteStep(c)
    \/ \E w \in Workers : WorkerStep(w)

LEMMA Constants ==
    /\ Clients = Sites /\ Server \notin Clients /\ Replicas = Clients \cup {Server}
    /\ Clients \subseteq Replicas /\ Server \in Replicas
    /\ NWorkers \in Nat \ {0} /\ WorkerOf \in [Clients -> Workers]
    /\ DefaultFormat \in Formats /\ Replacing \in BOOLEAN
    /\ MaxEdits \in Nat /\ MaxCount \in Nat /\ MaxEdits <= MaxCount
    /\ MaxPos \in Nat /\ Sites \subseteq Nat
  BY SessionAssumption, ServerAssumption, SharedEditorAssumption DEF Replicas, Workers

(* What Types says of one replica, one client and one worker. *)
LEMMA TypesOf ==
    ASSUME Types
    PROVE  /\ \A r \in Replicas : editor[r] \in Editor /\ view[r] \in Seq(Character)
           /\ \A c \in Clients : /\ editor[c] \in Editor /\ view[c] \in Seq(Character)
                                 /\ counter[c] \in Nat
                                 /\ up[c] \in Seq(Message \cup {Open})
                                 /\ down[c] \in Seq(Message \cup Document)
           /\ \A w \in Workers : queue[w] \in Seq(Call) /\ posting[w] \in Seq(Post)
           /\ editor[Server] \in Editor
           /\ joined \subseteq Clients
  BY Constants DEF Types

LEMMA EditTypes ==
    ASSUME Types, NEW c \in Clients, NEW e \in Editor, Edit(c, e),
           view' \in [Replicas -> Seq(Character)],
           counter' = counter \/ counter' = [counter EXCEPT ![c] = @ + 1],
           up' = up \/ \E m \in Message : up' = [up EXCEPT ![c] = Append(@, m)],
           issued' \subseteq Symbol
    PROVE  Types'
<1>1. editor' \in [Replicas -> Editor] /\ edits' \in 0 .. MaxEdits
  BY Constants DEF Types, Edit
<1>2. counter' \in [Clients -> Nat]
  <2>1. counter \in [Clients -> Nat] /\ counter[c] + 1 \in Nat
    BY DEF Types
  <2>. QED
    BY <2>1
<1>3. up' \in [Clients -> Seq(Message \cup {Open})]
  <2>. DEFINE S == Message \cup {Open}
  <2>1. up \in [Clients -> Seq(S)]
    BY DEF Types
  <2>2. \A m \in Message : m \in S
    OBVIOUS
  <2>. HIDE DEF S
  <2>3. ASSUME NEW m \in Message, up' = [up EXCEPT ![c] = Append(@, m)]
        PROVE  up' \in [Clients -> Seq(S)]
    <3>1. up[c] \in Seq(S) /\ m \in S
      BY <2>1, <2>2
    <3>2. Append(up[c], m) \in Seq(S)
      BY <3>1, AppendFacts
    <3>. QED
      BY <2>1, <2>3, <3>2
  <2>4. up' \in [Clients -> Seq(S)]
    BY <2>1, <2>3
  <2>. QED
    BY <2>4 DEF S
<1>. QED
  BY <1>1, <1>2, <1>3 DEF Types, Edit

(* The symbols that a client buffers are not its own. *)
LEMMA OthersBuffered ==
    ASSUME Inv, NEW c \in Clients, NEW x \in ToSet(editor[c].buf)
    PROVE  x \in Symbol /\ x.site # c
<1>1. /\ Sound(editor[c]) /\ editor[c] \in Editor /\ Gone(x)
      /\ \A d \in Clients : editor[Server].vv[d] < counter[d]
      /\ editor[c].vv[c] = counter[c] - 1
  BY Constants, TypesOf DEF Inv, Replicated, Dead, Counted
<1>2. x \in Symbol
  <2>1. editor[c].buf \in Seq(Symbol)
    BY <1>1, EditorFields
  <2>. QED
    BY <2>1, TextFacts
<1>3. x.site \in Clients /\ x.n \in Int /\ counter[x.site] \in Int
  BY <1>2, SymbolFields, Constants, TypesOf DEF Inv
<1>4. editor[Server].vv[x.site] >= x.n /\ editor[Server].vv[x.site] \in Int
  BY <1>1, <1>3, EditorFields, TypesOf, Constants DEF Gone, Received, Inv
<1>5. ~(editor[c].vv[x.site] >= x.n)
  BY <1>1 DEF Sound, Received
<1>6. x.n < counter[x.site]
  BY <1>1, <1>3, <1>4
<1>7. x.site # c
  BY <1>1, <1>3, <1>5, <1>6
<1>. QED
  BY <1>2, <1>7

LEMMA TypeCharStep ==
    ASSUME Inv, NEW c \in joined, NEW i \in 1 .. (Len(editor[c].text) + 1), TypeChar(c, i)
    PROVE  (\E s, e : Typed(c, s, e)) /\ Types' /\ Aligned'
<1>. DEFINE ed == editor[c]
<1>1. /\ c \in Clients /\ c \in Replicas /\ c \in Sites /\ c # Server
      /\ Types /\ ed \in Editor /\ view[c] \in Seq(Character) /\ counter[c] \in Nat
      /\ Sound(ed) /\ AlignedAt(c, view[c], ed.text)
      /\ counter[c] <= edits /\ edits \in 0 .. MaxEdits
      /\ editor \in [Replicas -> Editor] /\ view \in [Replicas -> Seq(Character)]
  BY Constants, TypesOf DEF Inv, Types, Replicated, Aligned, Counted
<1>2. PICK p \in FreePositions(ed, i) :
        LET s == [pos |-> p, site |-> c, n |-> counter[c]]
        IN  /\ editor' = [editor EXCEPT ![c] = LocalInsert(@, i, s)]
            /\ view' = [view EXCEPT ![c] = InsertAt(@, i, Char(s, DefaultFormat))]
            /\ issued' = issued \cup {s}
            /\ Edited(c, <<Insert(s, DefaultFormat)>>)
  BY DEF TypeChar
<1>3. counter' = [counter EXCEPT ![c] = @ + 1]
  BY DEF TypeChar
<1>. DEFINE s == [pos |-> p, site |-> c, n |-> counter[c]]
            e == LocalInsert(ed, i, s)
            z == InsertAt(view[c], i, Char(s, DefaultFormat))
<1>4. edits < MaxEdits /\ edits' = edits + 1
  BY <1>2 DEF Edited
<1>5. ed.text \in Seq(Symbol) /\ Len(ed.text) \in Nat
      /\ \A j \in 1 .. Len(ed.text) : ed.text[j] \in Symbol
  BY <1>1, EditorFields
<1>6. p \in 1 .. MaxPos
  <2>1. CASE i = 1 /\ i > Len(ed.text)
    BY <2>1, Constants DEF FreePositions
  <2>2. CASE i = 1 /\ i <= Len(ed.text)
    <3>1. ed.text[i].pos \in 1 .. MaxPos
      BY <1>5, <2>2, SymbolFields
    <3>. QED
      BY <3>1, <2>2, Constants DEF FreePositions
  <2>3. CASE i # 1 /\ i > Len(ed.text)
    <3>1. i - 1 \in 1 .. Len(ed.text)
      BY <1>5, <2>3
    <3>2. ed.text[i - 1].pos \in 1 .. MaxPos
      BY <3>1, <1>5, SymbolFields
    <3>. QED
      BY <3>2, <2>3, Constants DEF FreePositions
  <2>4. CASE i # 1 /\ i <= Len(ed.text)
    <3>1. i - 1 \in 1 .. Len(ed.text) /\ i \in 1 .. Len(ed.text)
      BY <1>5, <2>4
    <3>2. ed.text[i - 1].pos \in 1 .. MaxPos /\ ed.text[i].pos \in 1 .. MaxPos
      BY <3>1, <1>5, SymbolFields
    <3>3. p \in (ed.text[i - 1].pos + 1) .. (ed.text[i].pos - 1)
      BY <2>4 DEF FreePositions
    <3>. DEFINE low == ed.text[i - 1].pos
                high == ed.text[i].pos
    <3>4. low \in Int /\ high \in Int /\ 1 <= low /\ high <= MaxPos /\ MaxPos \in Int
      BY <3>2, Constants
    <3>5. p \in (low + 1) .. (high - 1)
      BY <3>3
    <3>. HIDE DEF low, high
    <3>. QED
      BY <3>4, <3>5
  <2>. QED
    BY <2>1, <2>2, <2>3, <2>4, <1>5
<1>7. s \in Symbol /\ s.site = c /\ s.n = counter[c] /\ s.pos = p
  <2>1. counter[c] \in 0 .. (MaxCount - 1)
    BY <1>1, <1>4, Constants
  <2>. QED
    BY <2>1, <1>1, <1>6 DEF Symbol
<1>8. /\ editor' = [editor EXCEPT ![c] = e] /\ view' = [view EXCEPT ![c] = z]
      /\ issued' = issued \cup {s} /\ Edited(c, <<Insert(s, DefaultFormat)>>)
  BY <1>1, <1>2
<1>. HIDE DEF s
<1>9. \A x \in ToSet(ed.buf) : x.site # s.site
  BY <1>1, <1>7, OthersBuffered
<1>10. /\ Sound(e)
       /\ e.vv = UpdateVersionVector(ed.vv, s) /\ e.buf = ed.buf
       /\ e.text = InsertAt(ed.text, i, s)
       /\ ToSet(e.text) = ToSet(ed.text) \cup {s}
       /\ Ascending(ed.text) => Ascending(e.text)
  <2>. HIDE DEF ed
  <2>1. i \in 1 .. (Len(ed.text) + 1) /\ s.pos \in FreePositions(ed, i)
    BY <1>7 DEF ed
  <2>. QED
    BY <1>1, <1>7, <1>9, <2>1, AfterLocalInsert
<1>. HIDE DEF e
<1>11. z \in Seq(Character) /\ AlignedAt(c, z, e.text)
  <2>1. DefaultFormat \in Formats
    BY Constants
  <2>. QED
    BY <2>1, <1>1, <1>5, <1>7, <1>10, AlignedInsert
<1>. HIDE DEF z
<1>. DEFINE m == Insert(s, DefaultFormat)
<1>12. m \in Message
  BY <1>7, Constants, MessagesMade
<1>13. up' = [up EXCEPT ![c] = Append(@, m)]
  <2>. DEFINE S == Message \cup {Open}
  <2>1. up[c] \in Seq(S) /\ m \in S
    BY <1>1, <1>12, TypesOf
  <2>. HIDE DEF S, m
  <2>2. up[c] \o <<m>> = Append(up[c], m)
    BY <2>1, AppendFacts
  <2>. QED
    BY <2>2, <1>8 DEF Edited, m
<1>14. Edit(c, e)
  BY <1>8, <1>10 DEF Edit, Edited
<1>15. Typed(c, s, e)
  BY <1>3, <1>7, <1>8, <1>10, <1>13, <1>14 DEF Typed
<1>16. view' \in [Replicas -> Seq(Character)] /\ issued' \subseteq Symbol /\ e \in Editor
  BY <1>1, <1>7, <1>8, <1>10, <1>11 DEF Types, Sound
<1>17. Types'
  BY <1>1, <1>3, <1>12, <1>13, <1>14, <1>16, EditTypes
<1>18. ASSUME NEW r \in Replicas PROVE AlignedAt(r, view'[r], editor'[r].text)
  <2>1. view'[r] = (IF r = c THEN z ELSE view[r]) /\ editor'[r] = IF r = c THEN e ELSE editor[r]
    BY <1>1, <1>8
  <2>. QED
    BY <2>1, <1>11 DEF Inv, Aligned
<1>. QED
  BY <1>15, <1>17, <1>18 DEF Aligned

LEMMA DeleteCharStep ==
    ASSUME Inv, NEW c \in joined, NEW i \in DOMAIN editor[c].text, DeleteChar(c, i)
    PROVE  (\E s, e : Deleted(c, s, e)) /\ Types' /\ Aligned'
<1>. DEFINE ed == editor[c]
            s == ed.text[i]
            e == LocalErase(ed, i)
            z == RemoveAt(view[c], i)
<1>1. /\ c \in Clients /\ c \in Replicas /\ c # Server
      /\ Types /\ ed \in Editor /\ view[c] \in Seq(Character)
      /\ Sound(ed) /\ AlignedAt(c, view[c], ed.text)
      /\ editor \in [Replicas -> Editor] /\ view \in [Replicas -> Seq(Character)]
  BY Constants, TypesOf DEF Inv, Types, Replicated, Aligned
<1>2. ed.text \in Seq(Symbol)
  BY <1>1, EditorFields
<1>3. i \in 1 .. Len(ed.text) /\ s \in Symbol /\ s \in ToSet(ed.text)
  <2>1. i \in 1 .. Len(ed.text)
    BY <1>2
  <2>. QED
    BY <2>1, <1>2, TextFacts
<1>4. /\ editor' = [editor EXCEPT ![c] = e] /\ view' = [view EXCEPT ![c] = z]
      /\ Edited(c, <<Erase(s)>>) /\ UNCHANGED <<counter, issued>>
  BY <1>1 DEF DeleteChar
<1>. HIDE DEF s, e
<1>5. /\ Sound(e) /\ e.vv = ed.vv /\ e.buf = ed.buf
      /\ e.text = RemoveAt(ed.text, i)
      /\ ToSet(e.text) \subseteq ToSet(ed.text)
      /\ ToSet(ed.text) \ {s} \subseteq ToSet(e.text)
      /\ Ascending(ed.text) => Ascending(e.text) /\ s \notin ToSet(e.text)
  <2>1. Sound(ed) /\ i \in 1 .. Len(ed.text) /\ e = LocalErase(ed, i) /\ s = ed.text[i]
    BY <1>1, <1>3 DEF s, e
  <2>. HIDE DEF ed
  <2>. QED
    BY <2>1, AfterLocalErase
<1>6. z \in Seq(Character) /\ AlignedAt(c, z, e.text)
  BY <1>1, <1>2, <1>3, <1>5, AlignedRemove
<1>. HIDE DEF z
<1>. DEFINE m == Erase(s)
<1>7. m \in Message
  BY <1>3, Constants, MessagesMade
<1>8. up' = [up EXCEPT ![c] = Append(@, m)]
  <2>. DEFINE S == Message \cup {Open}
  <2>1. up[c] \in Seq(S) /\ m \in S
    BY <1>1, <1>7, TypesOf
  <2>. HIDE DEF S, m
  <2>2. up[c] \o <<m>> = Append(up[c], m)
    BY <2>1, AppendFacts
  <2>. QED
    BY <2>2, <1>4 DEF Edited, m
<1>9. Edit(c, e)
  BY <1>4, <1>5 DEF Edit, Edited
<1>10. Deleted(c, s, e)
  BY <1>3, <1>4, <1>5, <1>8, <1>9 DEF Deleted
<1>11. Types'
  <2>1. view' \in [Replicas -> Seq(Character)] /\ issued' \subseteq Symbol /\ e \in Editor
    BY <1>1, <1>4, <1>5, <1>6 DEF Types, Sound
  <2>. QED
    BY <2>1, <1>1, <1>4, <1>7, <1>8, <1>9, EditTypes
<1>12. ASSUME NEW r \in Replicas PROVE AlignedAt(r, view'[r], editor'[r].text)
  <2>1. view'[r] = (IF r = c THEN z ELSE view[r]) /\ editor'[r] = IF r = c THEN e ELSE editor[r]
    BY <1>1, <1>4
  <2>. QED
    BY <2>1, <1>6 DEF Inv, Aligned
<1>. QED
  BY <1>10, <1>11, <1>12 DEF Aligned

LEMMA ReplaceCharStep ==
    ASSUME Inv, NEW c \in joined, NEW i \in DOMAIN editor[c].text, ReplaceChar(c, i)
    PROVE  Overtyped(c) /\ Types' /\ Aligned'
<1>. DEFINE x == Char(Replaced, DefaultFormat)
            v == view[c]
            z == [v EXCEPT ![i] = x]
<1>1. /\ c \in Clients /\ c \in Replicas /\ c # Server
      /\ Types /\ editor[c] \in Editor /\ v \in Seq(Character)
      /\ Sound(editor[c]) /\ AlignedAt(c, v, editor[c].text)
      /\ editor \in [Replicas -> Editor] /\ view \in [Replicas -> Seq(Character)]
      /\ up[c] \in Seq(Message \cup {Open}) /\ up \in [Clients -> Seq(Message \cup {Open})]
  BY Constants, TypesOf DEF Inv, Types, Replicated, Aligned
<1>2. /\ Replacing /\ view' = [view EXCEPT ![c] = z]
      /\ Edited(c, << >>) /\ UNCHANGED <<editor, counter, issued>>
  BY <1>1 DEF ReplaceChar, ReplaceAt
<1>3. x \in Character /\ x.of = Replaced
  BY Constants DEF Character, Char
<1>4. i \in 1 .. Len(v) /\ Len(v) = Len(editor[c].text)
  <2>1. editor[c].text \in Seq(Symbol)
    BY <1>1, EditorFields
  <2>. QED
    BY <2>1, <1>1 DEF AlignedAt
<1>. HIDE DEF x, v
<1>5. /\ z \in Seq(Character) /\ Len(z) = Len(v)
      /\ \A j \in 1 .. Len(v) : z[j] = IF j = i THEN x ELSE v[j]
  BY <1>1, <1>3, <1>4, ExceptSeq
<1>. HIDE DEF z
<1>6. AlignedAt(c, z, editor[c].text)
  BY <1>1, <1>2, <1>3, <1>4, <1>5 DEF AlignedAt
<1>7. up' = up
  <2>1. up[c] \o << >> = up[c]
    BY <1>1, SeqFacts
  <2>. QED
    BY <2>1, <1>1, <1>2 DEF Edited
<1>8. editor' = [editor EXCEPT ![c] = editor[c]]
  BY <1>1, <1>2
<1>9. Edit(c, editor[c])
  BY <1>1, <1>2, <1>8 DEF Edit, Edited
<1>10. Overtyped(c)
  BY <1>2, <1>7, <1>9 DEF Overtyped
<1>11. Types'
  <2>1. view' \in [Replicas -> Seq(Character)] /\ issued' \subseteq Symbol
    BY <1>1, <1>2, <1>5 DEF Types
  <2>. QED
    BY <2>1, <1>1, <1>2, <1>7, <1>9, EditTypes
<1>12. ASSUME NEW r \in Replicas PROVE AlignedAt(r, view'[r], editor'[r].text)
  <2>1. view'[r] = (IF r = c THEN z ELSE view[r]) /\ editor'[r] = editor[r]
    BY <1>1, <1>2
  <2>. QED
    BY <2>1, <1>6 DEF Inv, Aligned
<1>. QED
  BY <1>10, <1>11, <1>12 DEF Aligned

(* A view with another format at one place.                                 *)
LEMMA FormatChanged ==
    ASSUME NEW r, NEW v \in Seq(Character), NEW t, AlignedAt(r, v, t), NEW i \in 1 .. Len(v),
           NEW f \in Formats, NEW z, z = [v EXCEPT ![i] = [v[i] EXCEPT !.format = f]]
    PROVE  z \in Seq(Character) /\ AlignedAt(r, z, t)
<1>. DEFINE x == [v[i] EXCEPT !.format = f]
<1>1. x \in Character /\ x.of = v[i].of
  <2>1. v[i] \in Character
    BY SeqFacts
  <2>. QED
    BY <2>1 DEF Character
<1>. HIDE DEF x
<1>2. z = [v EXCEPT ![i] = x]
  BY DEF x
<1>3. /\ z \in Seq(Character) /\ Len(z) = Len(v)
      /\ \A j \in 1 .. Len(v) : z[j] = IF j = i THEN x ELSE v[j]
  BY <1>1, <1>2, ExceptSeq
<1>4. \A j \in 1 .. Len(v) : z[j].of = v[j].of
  BY <1>1, <1>3
<1>. QED
  BY <1>3, <1>4 DEF AlignedAt

LEMMA ChangeFormatStep ==
    ASSUME Inv, NEW c \in joined, NEW i \in DOMAIN editor[c].text, NEW f \in Formats,
           ChangeFormat(c, i, f)
    PROVE  (\E s : Marked(c, s, f)) /\ Types' /\ Aligned'
<1>. DEFINE ed == editor[c]
            s == ed.text[i]
            v == view[c]
            z == [v EXCEPT ![i] = [v[i] EXCEPT !.format = f]]
            m == Format(s, f)
<1>1. /\ c \in Clients /\ c \in Replicas /\ c # Server
      /\ Types /\ ed \in Editor /\ v \in Seq(Character)
      /\ Sound(ed) /\ AlignedAt(c, v, ed.text)
      /\ editor \in [Replicas -> Editor] /\ view \in [Replicas -> Seq(Character)]
  BY Constants, TypesOf DEF Inv, Types, Replicated, Aligned
<1>2. ed.text \in Seq(Symbol)
  BY <1>1, EditorFields
<1>3. i \in 1 .. Len(v) /\ s \in Symbol /\ s \in ToSet(ed.text)
  <2>1. i \in 1 .. Len(ed.text) /\ Len(v) = Len(ed.text)
    BY <1>1, <1>2 DEF AlignedAt
  <2>. QED
    BY <2>1, <1>2, TextFacts
<1>4. /\ view' = [view EXCEPT ![c] = z]
      /\ Edited(c, <<m>>) /\ UNCHANGED <<editor, counter, issued>>
  BY <1>1 DEF ChangeFormat
<1>. HIDE DEF s
<1>5. z \in Seq(Character) /\ AlignedAt(c, z, ed.text)
  BY <1>1, <1>3, FormatChanged
<1>. HIDE DEF z
<1>7. m \in Message
  BY <1>3, Constants, MessagesMade
<1>8. up' = [up EXCEPT ![c] = Append(@, m)]
  <2>. DEFINE S == Message \cup {Open}
  <2>1. up[c] \in Seq(S) /\ m \in S
    BY <1>1, <1>7, TypesOf
  <2>. HIDE DEF S, m
  <2>2. up[c] \o <<m>> = Append(up[c], m)
    BY <2>1, AppendFacts
  <2>. QED
    BY <2>2, <1>4 DEF Edited, m
<1>9. Edit(c, editor[c])
  <2>1. editor' = [editor EXCEPT ![c] = editor[c]]
    BY <1>1, <1>4
  <2>. QED
    BY <2>1, <1>1, <1>4 DEF Edit, Edited
<1>10. Marked(c, s, f)
  BY <1>3, <1>4, <1>8, <1>9 DEF Marked
<1>11. Types'
  <2>1. view' \in [Replicas -> Seq(Character)] /\ issued' \subseteq Symbol
    BY <1>1, <1>4, <1>5 DEF Types
  <2>. QED
    BY <2>1, <1>1, <1>4, <1>7, <1>8, <1>9, EditTypes
<1>12. ASSUME NEW r \in Replicas PROVE AlignedAt(r, view'[r], editor'[r].text)
  <2>1. view'[r] = (IF r = c THEN z ELSE view[r]) /\ editor'[r] = editor[r]
    BY <1>1, <1>4
  <2>. QED
    BY <2>1, <1>5 DEF Inv, Aligned
<1>. QED
  BY <1>10, <1>11, <1>12 DEF Aligned

LEMMA RequestOpenStep ==
    ASSUME Inv, NEW c \in Clients, RequestOpen(c)
    PROVE  Types' /\ Aligned'
<1>. DEFINE S == Message \cup {Open}
<1>1. Types /\ Aligned /\ up \in [Clients -> Seq(S)] /\ up[c] \in Seq(S) /\ Open \in S
  BY TypesOf DEF Inv, Types
<1>2. /\ up' = [up EXCEPT ![c] = Append(@, Open)]
      /\ UNCHANGED <<editor, view, counter, joined, editing, down, queue, posting, issued, edits>>
  BY DEF RequestOpen
<1>3. up' \in [Clients -> Seq(S)]
  <2>. HIDE DEF S
  <2>1. Append(up[c], Open) \in Seq(S)
    BY <1>1, AppendFacts
  <2>. QED
    BY <2>1, <1>1, <1>2
<1>4. Types'
  BY <1>1, <1>2, <1>3 DEF Types
<1>5. Aligned'
  BY <1>1, <1>2 DEF Aligned
<1>. QED
  BY <1>4, <1>5

(* The workers a message is posted to.                                      *)
LEMMA OthersFacts ==
    ASSUME NEW w \in Workers
    PROVE  /\ OtherWorkers(w) \in Seq(Workers) /\ Len(OtherWorkers(w)) = NWorkers - 1
           /\ DOMAIN OtherWorkers(w) = 1 .. (NWorkers - 1)
           /\ \A i \in 1 .. (NWorkers - 1) : OtherWorkers(w)[i] \in Workers \ {w}
           /\ \A v \in Workers \ {w} : \E i \in 1 .. (NWorkers - 1) : OtherWorkers(w)[i] = v
           /\ \A i, j \in 1 .. (NWorkers - 1) : OtherWorkers(w)[i] = OtherWorkers(w)[j] => i = j
<1>. DEFINE q == OtherWorkers(w)
<1>1. NWorkers \in Nat \ {0} /\ Workers = 1 .. NWorkers /\ w \in 1 .. NWorkers
  BY Constants DEF Workers
<1>2. q = [i \in 1 .. (NWorkers - 1) |-> IF i < w THEN i ELSE i + 1]
  BY DEF OtherWorkers
<1>. HIDE DEF q
<1>3. \A i \in 1 .. (NWorkers - 1) : q[i] = IF i < w THEN i ELSE i + 1
  BY <1>2
<1>4. \A i \in 1 .. (NWorkers - 1) : q[i] \in Workers \ {w}
  BY <1>1, <1>3
<1>5. NWorkers - 1 \in Nat
  BY <1>1
<1>6. q \in Seq(Workers) /\ Len(q) = NWorkers - 1 /\ DOMAIN q = 1 .. (NWorkers - 1)
  <2>1. q \in [1 .. (NWorkers - 1) -> Workers]
    BY <1>2, <1>3, <1>4
  <2>. QED
    BY <2>1, <1>5
<1>7. ASSUME NEW v \in Workers \ {w} PROVE \E i \in 1 .. (NWorkers - 1) : q[i] = v
  <2>1. CASE v < w
    <3>1. v \in 1 .. (NWorkers - 1) /\ q[v] = v
      BY <2>1, <1>1, <1>3
    <3>. QED
      BY <3>1
  <2>2. CASE ~(v < w)
    <3>1. v - 1 \in 1 .. (NWorkers - 1) /\ ~(v - 1 < w) /\ (v - 1) + 1 = v
      BY <2>2, <1>1
    <3>. QED
      BY <3>1, <1>3
  <2>. QED
    BY <2>1, <2>2
<1>8. \A i, j \in 1 .. (NWorkers - 1) : q[i] = q[j] => i = j
  BY <1>1, <1>3
<1>. QED
  BY <1>4, <1>6, <1>7, <1>8 DEF q

PostsOf(w, c, m) ==
    [i \in DOMAIN OtherWorkers(w) |-> [to |-> OtherWorkers(w)[i], source |-> c, message |-> m]]

LEMMA PostsFacts ==
    ASSUME NEW w \in Workers, NEW c \in Clients, NEW m \in Message
    PROVE  /\ PostsOf(w, c, m) \in Seq(Post)
           /\ \A p \in ToSet(PostsOf(w, c, m)) :
                 p.to \in Workers \ {w} /\ p.source = c /\ p.message = m
           /\ \A v \in Workers \ {w} : \E p \in ToSet(PostsOf(w, c, m)) : p.to = v
           /\ \A i, j \in DOMAIN PostsOf(w, c, m) :
                 PostsOf(w, c, m)[i].to = PostsOf(w, c, m)[j].to => i = j
<1>. DEFINE q == OtherWorkers(w)
            n == NWorkers - 1
            P == PostsOf(w, c, m)
<1>1. /\ DOMAIN q = 1 .. n
      /\ \A i \in 1 .. n : q[i] \in Workers \ {w}
      /\ \A v \in Workers \ {w} : \E i \in 1 .. n : q[i] = v
      /\ \A i, j \in 1 .. n : q[i] = q[j] => i = j
  BY OthersFacts
<1>2. n \in Nat
  BY Constants
<1>. HIDE DEF n
<1>3. P = [i \in 1 .. n |-> [to |-> q[i], source |-> c, message |-> m]]
  BY <1>1 DEF PostsOf
<1>. HIDE DEF P, q
<1>4. DOMAIN P = 1 .. n /\ \A i \in 1 .. n : P[i] = [to |-> q[i], source |-> c, message |-> m]
  BY <1>3
<1>5. \A i \in 1 .. n : P[i] \in Post /\ P[i].to = q[i] /\ P[i].source = c /\ P[i].message = m
  BY <1>1, <1>4 DEF Post
<1>6. P \in Seq(Post)
  <2>1. P \in [1 .. n -> Post]
    BY <1>3, <1>4, <1>5
  <2>. QED
    BY <2>1, <1>2
<1>7. \A p : p \in ToSet(P) <=> \E i \in 1 .. n : P[i] = p
  BY <1>4 DEF ToSet
<1>8. \A p \in ToSet(P) : p.to \in Workers \ {w} /\ p.source = c /\ p.message = m
  BY <1>1, <1>5, <1>7
<1>9. \A v \in Workers \ {w} : \E p \in ToSet(P) : p.to = v
  BY <1>1, <1>5, <1>7
<1>10. \A i, j \in DOMAIN P : P[i].to = P[j].to => i = j
  BY <1>1, <1>4, <1>5
<1>. QED
  BY <1>6, <1>8, <1>9, <1>10 DEF P

(* Who is written to. *)
LEMMA WrittenTypes ==
    ASSUME NEW S, down \in [Clients -> Seq(S)], NEW w, NEW c, NEW m \in S
    PROVE  /\ Written(down, w, c, m) \in [Clients -> Seq(S)]
           /\ \A d \in Clients :
                 Written(down, w, c, m)[d] = IF d \in editing /\ d # c /\ WorkerOf[d] = w
                                             THEN Append(down[d], m) ELSE down[d]
<1>1. \A d \in Clients : Append(down[d], m) \in Seq(S)
  BY AppendFacts
<1>. QED
  BY <1>1 DEF Written

LEMMA ServeEditStep ==
    ASSUME Inv, NEW w \in Workers, NEW c \in Clients, ServeEdit(w, c)
    PROVE  (\E m, e : Served(w, c, m, e)) /\ Types' /\ Aligned'
<1>. DEFINE S == Message \cup {Open}
            D == Message \cup Document
            m == Head(up[c])
<1>1. /\ Types /\ Aligned /\ Sound(editor[Server]) /\ Server \in Replicas
      /\ up \in [Clients -> Seq(S)] /\ up[c] \in Seq(S) /\ down \in [Clients -> Seq(D)]
      /\ editor \in [Replicas -> Editor] /\ posting \in [Workers -> Seq(Post)]
  BY TypesOf, Constants DEF Inv, Types, Replicated
<1>2. /\ posting[w] = << >> /\ WorkerOf[c] = w /\ up[c] # << >>
      /\ m.type # "open" /\ Apply(Server, m)
      /\ down' = Written(down, w, c, m)
      /\ posting' = [posting EXCEPT ![w] = PostsOf(w, c, m)]
      /\ up' = [up EXCEPT ![c] = Tail(@)]
      /\ UNCHANGED <<counter, joined, editing, queue, issued, edits>>
  BY DEF ServeEdit, PostsOf
<1>3. m \in Message
  <2>1. m \in S
    <3>. HIDE DEF S
    <3>. QED
      BY <1>1, <1>2, TailFacts
  <2>. QED
    BY <2>1, <1>2, OpenIsOpen
<1>. HIDE DEF m
<1>4. PICK e : AtReplica(Server, m, e)
  BY <1>1, <1>2, <1>3, Applied
<1>5. Served(w, c, m, e)
  BY <1>2, <1>3, <1>4 DEF Served, PostsOf, m
<1>6. editor' \in [Replicas -> Editor] /\ view' \in [Replicas -> Seq(Character)]
  BY <1>1, <1>4 DEF AtReplica, Handled, Sound
<1>7. up' \in [Clients -> Seq(S)]
  <2>. HIDE DEF S
  <2>1. Tail(up[c]) \in Seq(S)
    BY <1>1, <1>2, TailFacts
  <2>. QED
    BY <2>1, <1>1, <1>2
<1>8. down' \in [Clients -> Seq(D)]
  <2>1. m \in D
    BY <1>3
  <2>. HIDE DEF D
  <2>. QED
    BY <2>1, <1>1, <1>2, WrittenTypes
<1>9. posting' \in [Workers -> Seq(Post)]
  BY <1>1, <1>2, <1>3, PostsFacts
<1>10. Types'
  BY <1>1, <1>2, <1>6, <1>7, <1>8, <1>9 DEF Types
<1>11. ASSUME NEW r \in Replicas PROVE AlignedAt(r, view'[r], editor'[r].text)
  <2>1. /\ editor'[r] = IF r = Server THEN e ELSE editor[r]
        /\ AlignedAt(r, view'[r], IF r = Server THEN e.text ELSE editor[r].text)
    BY <1>1, <1>4 DEF AtReplica
  <2>. QED
    BY <2>1
<1>. QED
  BY <1>5, <1>10, <1>11 DEF Aligned

LEMMA PostNextStep ==
    ASSUME Inv, NEW w \in Workers, PostNext(w)
    PROVE  Types' /\ Aligned'
<1>. DEFINE p == Head(posting[w])
            call == [source |-> p.source, message |-> p.message]
<1>1. /\ Types /\ Aligned /\ posting[w] \in Seq(Post)
      /\ posting \in [Workers -> Seq(Post)] /\ queue \in [Workers -> Seq(Call)]
  BY TypesOf DEF Inv, Types
<1>2. /\ posting[w] # << >>
      /\ queue' = [queue EXCEPT ![p.to] = Append(@, call)]
      /\ posting' = [posting EXCEPT ![w] = Tail(@)]
      /\ UNCHANGED <<editor, view, counter, joined, editing, up, down, issued, edits>>
  BY DEF PostNext
<1>3. p \in Post /\ Tail(posting[w]) \in Seq(Post)
  BY <1>1, <1>2, TailFacts
<1>4. call \in Call /\ p.to \in Workers
  BY <1>3 DEF Post, Call
<1>. HIDE DEF call, p
<1>5. Append(queue[p.to], call) \in Seq(Call)
  BY <1>1, <1>4, AppendFacts
<1>6. posting' \in [Workers -> Seq(Post)] /\ queue' \in [Workers -> Seq(Call)]
  BY <1>1, <1>2, <1>3, <1>4, <1>5
<1>7. Types'
  BY <1>1, <1>2, <1>6 DEF Types
<1>8. Aligned'
  BY <1>1, <1>2 DEF Aligned
<1>. QED
  BY <1>7, <1>8

LEMMA DispatchStep ==
    ASSUME Inv, NEW w \in Workers, Dispatch(w)
    PROVE  Types' /\ Aligned'
<1>. DEFINE call == Head(queue[w])
            D == Message \cup Document
<1>1. /\ Types /\ Aligned /\ queue[w] \in Seq(Call)
      /\ down \in [Clients -> Seq(D)] /\ queue \in [Workers -> Seq(Call)]
  BY TypesOf DEF Inv, Types
<1>2. /\ queue[w] # << >>
      /\ down' = Written(down, w, call.source, call.message)
      /\ queue' = [queue EXCEPT ![w] = Tail(@)]
      /\ UNCHANGED <<editor, view, counter, joined, editing, up, posting, issued, edits>>
  BY DEF Dispatch
<1>3. call \in Call /\ Tail(queue[w]) \in Seq(Call)
  BY <1>1, <1>2, TailFacts
<1>4. call.message \in D
  BY <1>3 DEF Call
<1>. HIDE DEF D
<1>5. down' \in [Clients -> Seq(D)]
  BY <1>1, <1>2, <1>4, WrittenTypes
<1>6. queue' \in [Workers -> Seq(Call)]
  BY <1>1, <1>2, <1>3
<1>7. Types'
  BY <1>1, <1>2, <1>5, <1>6 DEF Types, D
<1>8. Aligned'
  BY <1>1, <1>2 DEF Aligned
<1>. QED
  BY <1>7, <1>8

LEMMA ServeOpenStep ==
    ASSUME Inv, NEW w \in Workers, NEW c \in Clients, ServeOpen(w, c)
    PROVE  (\E m : Admitted(w, c, m)) /\ Types' /\ Aligned'
<1>. DEFINE S == Message \cup {Open}
            D == Message \cup Document
            t == editor[Server].text
            v == view[Server]
            x == [i \in DOMAIN t |-> Char(t[i], v[i].format)]
            m == DocumentOf(x)
            C == [of : Symbol, format : Formats]
<1>1. /\ Types /\ Aligned /\ t \in Seq(Symbol) /\ v \in Seq(Character)
      /\ AlignedAt(Server, v, t)
      /\ up \in [Clients -> Seq(S)] /\ up[c] \in Seq(S)
      /\ down \in [Clients -> Seq(D)] /\ down[c] \in Seq(D)
  BY TypesOf, EditorFields, Constants DEF Inv, Types, Aligned
<1>2. /\ posting[w] = << >> /\ WorkerOf[c] = w /\ up[c] # << >> /\ Head(up[c]) = Open
      /\ editing' = editing \cup {c}
      /\ down' = [down EXCEPT ![c] = Append(@, m)]
      /\ up' = [up EXCEPT ![c] = Tail(@)]
      /\ UNCHANGED <<editor, view, counter, joined, queue, posting, issued, edits>>
  BY DEF ServeOpen
<1>3. /\ Len(t) \in Nat /\ DOMAIN t = 1 .. Len(t) /\ Len(v) = Len(t)
      /\ \A i \in 1 .. Len(t) : t[i] \in Symbol /\ v[i].format \in Formats
  <2>1. /\ Len(t) \in Nat /\ DOMAIN t = 1 .. Len(t) /\ Len(v) = Len(t)
        /\ \A i \in 1 .. Len(t) : t[i] \in Symbol
    BY <1>1, TextFacts DEF AlignedAt
  <2>2. \A i \in 1 .. Len(v) : v[i] \in Character
    BY <1>1, SeqFacts
  <2>3. \A y \in Character : y.format \in Formats
    BY DEF Character
  <2>. QED
    BY <2>1, <2>2, <2>3
<1>. HIDE DEF v
<1>4. \A i \in 1 .. Len(t) : Char(t[i], v[i].format) \in C /\ Char(t[i], v[i].format).of = t[i]
  BY <1>3 DEF Char
<1>5. x \in Seq(C) /\ x = [i \in 1 .. Len(t) |-> Char(t[i], v[i].format)]
  <2>1. x = [i \in 1 .. Len(t) |-> Char(t[i], v[i].format)]
    BY <1>3
  <2>2. x \in [1 .. Len(t) -> C]
    BY <2>1, <1>4
  <2>. QED
    BY <2>1, <2>2, <1>3
<1>. HIDE DEF x, t
<1>6. m \in Document /\ m.text = x
  BY <1>5 DEF DocumentOf, Document
<1>7. SymbolsOf(x) = t
  <2>1. DOMAIN x = 1 .. Len(t) /\ \A i \in 1 .. Len(t) : x[i].of = t[i]
    BY <1>4, <1>5
  <2>2. SymbolsOf(x) = [i \in 1 .. Len(t) |-> t[i]]
    BY <2>1 DEF SymbolsOf
  <2>3. t = [i \in 1 .. Len(t) |-> t[i]]
    BY <1>1, <1>3
  <2>. QED
    BY <2>2, <2>3
<1>. HIDE DEF m
<1>8. up[c] = <<Open>> /\ c \notin editing /\ down[c] = << >>
  <2>1. Open \in ToSet(up[c])
    <3>. HIDE DEF S
    <3>1. Head(up[c]) \in ToSet(up[c])
      BY <1>1, <1>2, TailFacts
    <3>. QED
      BY <3>1, <1>2
  <2>2. c \notin editing
    BY <2>1 DEF Inv, Joining
  <2>. QED
    BY <2>2, <1>2 DEF Inv, Joining
<1>9. down' = [down EXCEPT ![c] = <<m>>] /\ up' = [up EXCEPT ![c] = << >>]
  <2>1. Append(down[c], m) = <<m>>
    BY <1>8
  <2>2. Tail(up[c]) = << >>
    BY <1>8
  <2>. QED
    BY <2>1, <2>2, <1>2
<1>10. Admitted(w, c, m)
  BY <1>2, <1>6, <1>7, <1>8, <1>9 DEF Admitted, t
<1>11. down' \in [Clients -> Seq(D)] /\ up' \in [Clients -> Seq(S)]
  <2>1. m \in D
    BY <1>6
  <2>. HIDE DEF D, S
  <2>2. << >> \in Seq(S)
    BY EmptySeq
  <2>3. <<m>> \in Seq(D)
    BY <2>1
  <2>. QED
    BY <2>2, <2>3, <1>1, <1>9
<1>12. Types'
  BY <1>1, <1>2, <1>11 DEF Types
<1>13. Aligned'
  BY <1>1, <1>2 DEF Aligned
<1>. QED
  BY <1>10, <1>12, <1>13

LEMMA ReceiveEditStep ==
    ASSUME Inv, NEW c \in Clients, ReceiveEdit(c)
    PROVE  (\E m, e : Heard(c, m, e)) /\ Types' /\ Aligned'
<1>. DEFINE D == Message \cup Document
            m == Head(down[c])
<1>1. /\ Types /\ Aligned /\ Sound(editor[c]) /\ c \in Replicas
      /\ down \in [Clients -> Seq(D)] /\ down[c] \in Seq(D)
      /\ editor \in [Replicas -> Editor]
  BY TypesOf, Constants DEF Inv, Types, Replicated
<1>2. /\ down[c] # << >> /\ m.type # "document" /\ c \in joined /\ Apply(c, m)
      /\ down' = [down EXCEPT ![c] = Tail(@)]
      /\ UNCHANGED <<counter, joined, editing, up, queue, posting, issued, edits>>
  BY DEF ReceiveEdit
<1>3. m \in D /\ Tail(down[c]) \in Seq(D)
  <2>. HIDE DEF D
  <2>. QED
    BY <1>1, <1>2, TailFacts
<1>4. m \in Message
  BY <1>2, <1>3, DocumentFields
<1>. HIDE DEF m, D
<1>5. PICK e : AtReplica(c, m, e)
  BY <1>1, <1>2, <1>4, Applied
<1>6. Heard(c, m, e)
  BY <1>2, <1>4, <1>5 DEF Heard, m
<1>7. editor' \in [Replicas -> Editor] /\ view' \in [Replicas -> Seq(Character)]
  BY <1>1, <1>5 DEF AtReplica, Handled, Sound
<1>8. down' \in [Clients -> Seq(D)]
  BY <1>1, <1>2, <1>3
<1>9. Types'
  BY <1>1, <1>2, <1>7, <1>8 DEF Types, D
<1>10. ASSUME NEW r \in Replicas PROVE AlignedAt(r, view'[r], editor'[r].text)
  <2>1. /\ editor'[r] = IF r = c THEN e ELSE editor[r]
        /\ AlignedAt(r, view'[r], IF r = c THEN e.text ELSE editor[r].text)
    BY <1>1, <1>5 DEF AtReplica
  <2>. QED
    BY <2>1
<1>. QED
  BY <1>6, <1>9, <1>10 DEF Aligned

LEMMA ReceiveDocumentStep ==
    ASSUME Inv, NEW c \in Clients, ReceiveDocument(c)
    PROVE  (\E m, e : Entered(c, m, e)) /\ Types' /\ Aligned'
<1>. DEFINE D == Message \cup Document
            m == Head(down[c])
            t == SymbolsOf(m.text)
            e == EditorOf(t)
<1>1. /\ Types /\ Aligned /\ c \in Replicas
      /\ down \in [Clients -> Seq(D)] /\ down[c] \in Seq(D)
      /\ editor \in [Replicas -> Editor] /\ view \in [Replicas -> Seq(Character)]
  BY TypesOf, Constants DEF Inv, Types
<1>2. /\ down[c] # << >> /\ m.type = "document"
      /\ editor' = [editor EXCEPT ![c] = e]
      /\ view' = [view EXCEPT ![c] = m.text]
      /\ joined' = joined \cup {c}
      /\ down' = [down EXCEPT ![c] = Tail(@)]
      /\ UNCHANGED <<counter, editing, up, queue, posting, issued, edits>>
  BY DEF ReceiveDocument, SymbolsOf
<1>3. /\ m \in D /\ Tail(down[c]) \in Seq(D) /\ m = down[c][1] /\ m \in ToSet(down[c])
      /\ 1 \in DOMAIN down[c]
  <2>. HIDE DEF D
  <2>. QED
    BY <1>1, <1>2, TailFacts
<1>4. m \in Document
  BY <1>2, <1>3, MessageFields
<1>5. c \in editing \ joined
  <2>1. c \notin joined
    BY <1>3, <1>4 DEF Inv, Joining
  <2>2. c \in editing
    BY <1>2 DEF Inv, Joining
  <2>. QED
    BY <2>1, <2>2
<1>6. Ascending(t)
  BY <1>3, <1>4 DEF Inv, Snapshots
<1>7. /\ m.text \in Seq(Character)
      /\ t \in Seq(Symbol) /\ Len(t) = Len(m.text)
      /\ \A i \in 1 .. Len(m.text) : t[i] = m.text[i].of
  BY <1>4, DocumentFields
<1>. HIDE DEF m, t, D
<1>8. Sound(e) /\ e.text = t
  BY <1>6, AscendingIsOrdered, EditorOfText
<1>9. Entered(c, m, e)
  BY <1>2, <1>3, <1>4, <1>5, <1>6, <1>8 DEF Entered, m, t
<1>. HIDE DEF e
<1>10. /\ editor' \in [Replicas -> Editor] /\ view' \in [Replicas -> Seq(Character)]
       /\ down' \in [Clients -> Seq(D)]
       /\ joined' \subseteq editing'
  BY <1>1, <1>2, <1>3, <1>5, <1>7, <1>8 DEF Sound, Types
<1>11. Types'
  BY <1>1, <1>2, <1>10 DEF Types, D
<1>12. AlignedAt(c, m.text, t)
  BY <1>7 DEF AlignedAt
<1>13. ASSUME NEW r \in Replicas PROVE AlignedAt(r, view'[r], editor'[r].text)
  <2>1. /\ editor'[r] = IF r = c THEN e ELSE editor[r]
        /\ view'[r] = IF r = c THEN m.text ELSE view[r]
    BY <1>1, <1>2
  <2>. QED
    BY <2>1, <1>1, <1>8, <1>12 DEF Aligned
<1>. QED
  BY <1>9, <1>11, <1>13 DEF Aligned

(* Every step of the session is one of the steps above.                     *)
LEMMA NextIsStep ==
    ASSUME Inv, Next
    PROVE  Step /\ Types' /\ Aligned'
<1>1. joined \subseteq Clients
  BY TypesOf DEF Inv
<1>2. ASSUME NEW c \in Clients, LocalEdit(c) PROVE LocalStep(c) /\ Types' /\ Aligned'
  <2>1. c \in joined
    BY <1>2 DEF LocalEdit
  <2>2. ASSUME NEW i \in 1 .. (Len(editor[c].text) + 1), TypeChar(c, i)
        PROVE  LocalStep(c) /\ Types' /\ Aligned'
    BY <2>1, <2>2, TypeCharStep DEF LocalStep
  <2>3. ASSUME NEW i \in DOMAIN editor[c].text, DeleteChar(c, i)
        PROVE  LocalStep(c) /\ Types' /\ Aligned'
    BY <2>1, <2>3, DeleteCharStep DEF LocalStep
  <2>4. ASSUME NEW i \in DOMAIN editor[c].text, ReplaceChar(c, i)
        PROVE  LocalStep(c) /\ Types' /\ Aligned'
    BY <2>1, <2>4, ReplaceCharStep DEF LocalStep
  <2>5. ASSUME NEW i \in DOMAIN editor[c].text, NEW f \in Formats, ChangeFormat(c, i, f)
        PROVE  LocalStep(c) /\ Types' /\ Aligned'
    BY <2>1, <2>5, ChangeFormatStep DEF LocalStep
  <2>. QED
    BY <1>2, <2>2, <2>3, <2>4, <2>5 DEF LocalEdit
<1>3. ASSUME NEW c \in Clients, RequestOpen(c) PROVE LocalStep(c) /\ Types' /\ Aligned'
  BY <1>3, RequestOpenStep DEF LocalStep
<1>4. ASSUME NEW c \in Clients, Receive(c) PROVE RemoteStep(c) /\ Types' /\ Aligned'
  BY <1>4, ReceiveEditStep, ReceiveDocumentStep DEF Receive, RemoteStep
<1>5. ASSUME NEW w \in Workers, Serve(w) PROVE WorkerStep(w) /\ Types' /\ Aligned'
  BY <1>5, ServeEditStep, ServeOpenStep DEF Serve, WorkerStep
<1>6. ASSUME NEW w \in Workers, PostNext(w) PROVE WorkerStep(w) /\ Types' /\ Aligned'
  BY <1>6, PostNextStep DEF WorkerStep
<1>7. ASSUME NEW w \in Workers, Dispatch(w) PROVE WorkerStep(w) /\ Types' /\ Aligned'
  BY <1>7, DispatchStep DEF WorkerStep
<1>. QED
  BY <1>2, <1>3, <1>4, <1>5, <1>6, <1>7 DEF Next, Step

-----------------------------------------------------------------------------
(* What a step leaves alone.                                                *)
LEMMA EditFacts ==
    ASSUME Inv, NEW c \in Clients, NEW e, Edit(c, e)
    PROVE  /\ editor'[Server] = editor[Server] /\ c \in joined /\ c \in editing
           /\ \A r \in Replicas : editor'[r] = IF r = c THEN e ELSE editor[r]
           /\ UNCHANGED <<joined, editing, down, queue, posting>>
  BY Constants DEF Edit, Inv, Types

LEMMA HeardFacts ==
    ASSUME Inv, NEW c \in Clients, NEW m, NEW e, Heard(c, m, e)
    PROVE  /\ editor'[Server] = editor[Server] /\ c \in joined /\ c \in editing
           /\ \A r \in Replicas : editor'[r] = IF r = c THEN e ELSE editor[r]
           /\ Handled(editor[c], m, e) /\ m \in Message /\ m \in ToSet(down[c]) /\ Flying(m)
           /\ \A d \in Clients : down'[d] = IF d = c THEN Tail(down[c]) ELSE down[d]
<1>1. /\ editor \in [Replicas -> Editor] /\ down \in [Clients -> Seq(Message \cup Document)]
      /\ c # Server /\ Server \in Replicas /\ c \in Replicas /\ joined \subseteq editing
  BY Constants DEF Inv, Types
<1>2. /\ down[c] # << >> /\ Head(down[c]) = m /\ m \in Message /\ c \in joined
      /\ Handled(editor[c], m, e)
      /\ editor' = [editor EXCEPT ![c] = e]
      /\ down' = [down EXCEPT ![c] = Tail(@)]
  BY DEF Heard, AtReplica
<1>3. m \in ToSet(down[c])
  BY <1>1, <1>2, TailFacts
<1>. QED
  BY <1>1, <1>2, <1>3 DEF Flying

LEMMA EnteredFacts ==
    ASSUME Inv, NEW c \in Clients, NEW m, NEW e, Entered(c, m, e)
    PROVE  /\ editor'[Server] = editor[Server]
           /\ \A r \in Replicas : editor'[r] = IF r = c THEN e ELSE editor[r]
           /\ m \in Document /\ m \in ToSet(down[c]) /\ m = down[c][1]
           /\ \A d \in Clients : down'[d] = IF d = c THEN Tail(down[c]) ELSE down[d]
           /\ \A x \in ToSet(e.text) : Received(editor[Server], x)
<1>1. /\ editor \in [Replicas -> Editor] /\ down \in [Clients -> Seq(Message \cup Document)]
      /\ c # Server /\ Server \in Replicas /\ c \in Replicas
  BY Constants DEF Inv, Types
<1>2. /\ down[c] # << >> /\ Head(down[c]) = m /\ m = down[c][1] /\ m \in Document
      /\ e.text = SymbolsOf(m.text)
      /\ editor' = [editor EXCEPT ![c] = e]
      /\ down' = [down EXCEPT ![c] = Tail(@)]
  BY DEF Entered
<1>3. m \in ToSet(down[c])
  BY <1>1, <1>2, TailFacts
<1>. QED
  BY <1>1, <1>2, <1>3 DEF Inv, Snapshots

(* The server handles the inserts it has not received, each site's in       *)
(* order, and erases what it has received.                                  *)
LEMMA ServedFacts ==
    ASSUME Inv, NEW w \in Workers, NEW c \in Clients, NEW m, NEW e, Served(w, c, m, e)
    PROVE  LET s == m.symbol
               old == editor[Server]
           IN  /\ editor'[Server] = e /\ Sound(e) /\ Ascending(e.text) /\ e.buf = << >>
               /\ \A d \in Clients : editor'[d] = editor[d]
               /\ m \in Message /\ s \in Symbol /\ c \in joined /\ c \in editing
               /\ m \in ToSet(up[c]) /\ up[c] # << >> /\ 1 \in DOMAIN up[c] /\ up[c][1] = m
               /\ m.type = "insert" => s.site = c /\ ~Received(old, s) /\ s.n < counter[c]
               /\ m.type = "insert" => ToSet(e.text) = ToSet(old.text) \cup {s}
               /\ m.type = "insert" => e.vv = UpdateVersionVector(old.vv, s)
               /\ m.type # "insert" => Received(old, s) /\ e.vv = old.vv
               /\ m.type = "erase" => ToSet(e.text) = ToSet(old.text) \ {s}
               /\ m.type = "format" => e = old
               /\ Received(e, s)
               /\ \A x \in Symbol : Received(old, x) => Received(e, x)
               /\ \A x \in Symbol : Received(e, x) /\ ~Received(old, x) =>
                     m.type = "insert" /\ x.site = c /\ x.n <= s.n
<1>. DEFINE s == m.symbol
            old == editor[Server]
<1>1. /\ Types /\ old \in Editor /\ Sound(old) /\ Ascending(old.text) /\ old.buf = << >>
      /\ editor \in [Replicas -> Editor] /\ Server \in Replicas
      /\ up[c] \in Seq(Message \cup {Open})
      /\ \A d \in Clients : d # Server /\ d \in Replicas
  BY TypesOf, Constants DEF Inv, Types, Replicated
<1>2. /\ up[c] # << >> /\ Head(up[c]) = m /\ m \in Message
      /\ Handled(old, m, e) /\ editor' = [editor EXCEPT ![Server] = e]
  BY DEF Served, AtReplica
<1>3. m \in ToSet(up[c]) /\ 1 \in DOMAIN up[c] /\ up[c][1] = m
  BY <1>1, <1>2, TailFacts
<1>4. s \in Symbol /\ m.type \in {"insert", "erase", "format"}
  BY <1>2, MessageFields
<1>5. m.type = "insert" => s.site = c /\ ~Received(old, s) /\ s.n < counter[c]
  BY <1>3 DEF Inv, Requests, RequestsOf
<1>6. m.type # "insert" => Received(old, s)
  <2>1. ~ \E j \in DOMAIN up[c] : j < 1
    BY <1>1, SeqFacts
  <2>. QED
    BY <2>1, <1>3, <1>4 DEF Inv, Requests, RequestsOf
<1>7. c \in joined /\ c \in editing
  <2>1. m # Open
    BY <1>2, MessageFields
  <2>2. up[c] \notin {<< >>, <<Open>>}
    BY <2>1, <1>2
  <2>3. c \in editing
    BY <2>2 DEF Inv, Joining
  <2>. QED
    BY <2>3, <1>2 DEF Inv, Joining
<1>8. editor'[Server] = e /\ \A d \in Clients : editor'[d] = editor[d]
  BY <1>1, <1>2
<1>9. ToSet(old.buf) = {}
  BY <1>1, EmptyFacts
<1>10. Sound(e) /\ Ascending(e.text) /\ ToSet(e.buf) = {}
  <2>1. CASE m.type = "insert"
    BY <2>1, <1>1, <1>2, <1>5, <1>9 DEF Handled
  <2>2. CASE m.type = "erase"
    BY <2>2, <1>1, <1>2, <1>6, <1>9 DEF Handled
  <2>3. CASE m.type = "format"
    BY <2>3, <1>1, <1>2, <1>9 DEF Handled
  <2>. QED
    BY <2>1, <2>2, <2>3, <1>4
<1>11. e.buf = << >>
  <2>1. e.buf \in Seq(Symbol) /\ ToSet(e.buf) = {}
    BY <1>10, EditorFields DEF Sound
  <2>. HIDE DEF s, old
  <2>. QED
    BY <2>1, TailFacts
<1>12. m.type = "insert" => /\ ToSet(e.text) = ToSet(old.text) \cup {s}
                            /\ e.vv = UpdateVersionVector(old.vv, s)
  BY <1>2, <1>9 DEF Handled
<1>13. m.type # "insert" => e.vv = old.vv
  BY <1>2, <1>4 DEF Handled
<1>14. m.type = "erase" => ToSet(e.text) = ToSet(old.text) \ {s}
  BY <1>1, <1>2 DEF Handled
<1>15. m.type = "format" => e = old
  BY <1>2 DEF Handled
<1>16. /\ Received(e, s)
       /\ \A x \in Symbol : Received(old, x) => Received(e, x)
       /\ \A x \in Symbol : Received(e, x) /\ ~Received(old, x) =>
             m.type = "insert" /\ x.site = c /\ x.n <= s.n
  <2>1. CASE m.type = "insert"
    BY <2>1, <1>1, <1>4, <1>5, <1>12, ReceivedMore
  <2>2. CASE m.type # "insert"
    BY <2>2, <1>6, <1>13 DEF Received
  <2>. QED
    BY <2>1, <2>2
<1>. QED
  BY <1>2, <1>3, <1>4, <1>5, <1>6, <1>7, <1>8, <1>10, <1>11, <1>12, <1>13, <1>14, <1>15, <1>16

-----------------------------------------------------------------------------
(* What each step does to the messages under way.                           *)
Channels(w, c, m) ==
    /\ m \in Message /\ WorkerOf[c] = w /\ ToSet(posting[w]) = {}
    /\ \A d \in Clients :
          IF d \in editing /\ d # c /\ WorkerOf[d] = w
          THEN down'[d] = Append(down[d], m) /\ ToSet(down'[d]) = ToSet(down[d]) \cup {m}
          ELSE down'[d] = down[d]
    /\ queue' = queue
    /\ \A v \in Workers : v # w => posting'[v] = posting[v]
    /\ posting'[w] = PostsOf(w, c, m)
    /\ \A p \in ToSet(posting'[w]) : p.to \in Workers \ {w} /\ p.source = c /\ p.message = m
    /\ \A v \in Workers \ {w} : \E p \in ToSet(posting'[w]) : p.to = v
    /\ \A d \in Clients : d # c => up'[d] = up[d]
    /\ up'[c] = Tail(up[c]) /\ ToSet(up[c]) = ToSet(up'[c]) \cup {m}

LEMMA ServedChannels ==
    ASSUME Inv, NEW w \in Workers, NEW c \in Clients, NEW m, NEW e, Served(w, c, m, e)
    PROVE  Channels(w, c, m)
<1>. DEFINE D == Message \cup Document
            S == Message \cup {Open}
<1>1. /\ down \in [Clients -> Seq(D)] /\ up \in [Clients -> Seq(S)]
      /\ posting \in [Workers -> Seq(Post)]
  BY DEF Inv, Types
<1>2. /\ posting[w] = << >> /\ WorkerOf[c] = w
      /\ up[c] # << >> /\ Head(up[c]) = m /\ m \in Message
      /\ down' = Written(down, w, c, m)
      /\ posting' = [posting EXCEPT ![w] = PostsOf(w, c, m)]
      /\ up' = [up EXCEPT ![c] = Tail(@)]
      /\ queue' = queue
  BY DEF Served, PostsOf
<1>3. m \in D
  BY <1>2
<1>. HIDE DEF D, S
<1>4. \A d \in Clients : down'[d] = IF d \in editing /\ d # c /\ WorkerOf[d] = w
                                    THEN Append(down[d], m) ELSE down[d]
  BY <1>2 DEF Written
<1>5. \A d \in Clients : ToSet(Append(down[d], m)) = ToSet(down[d]) \cup {m}
  BY <1>1, <1>3, AppendFacts
<1>6. /\ \A v \in Workers : v # w => posting'[v] = posting[v]
      /\ posting'[w] = PostsOf(w, c, m)
  BY <1>1, <1>2
<1>7. /\ \A p \in ToSet(posting'[w]) : p.to \in Workers \ {w} /\ p.source = c /\ p.message = m
      /\ \A v \in Workers \ {w} : \E p \in ToSet(posting'[w]) : p.to = v
  BY <1>2, <1>6, PostsFacts
<1>8. /\ \A d \in Clients : d # c => up'[d] = up[d]
      /\ up'[c] = Tail(up[c])
  BY <1>1, <1>2
<1>9. ToSet(up[c]) = ToSet(up'[c]) \cup {m}
  BY <1>1, <1>2, <1>8, TailFacts
<1>10. ToSet(posting[w]) = {}
  BY <1>2, EmptyFacts
<1>11. \A d \in Clients :
          IF d \in editing /\ d # c /\ WorkerOf[d] = w
          THEN down'[d] = Append(down[d], m) /\ ToSet(down'[d]) = ToSet(down[d]) \cup {m}
          ELSE down'[d] = down[d]
  BY <1>4, <1>5
<1>. QED
  BY <1>2, <1>6, <1>7, <1>8, <1>9, <1>10, <1>11 DEF Channels

LEMMA ServedTransport ==
    ASSUME Inv, NEW w \in Workers, NEW c \in Clients, NEW m, NEW e, Served(w, c, m, e),
           NEW x \in Message
    PROVE  /\ Flying(x)' => Flying(x) \/ x = m
           /\ \A d \in Clients :
                 /\ UnderWay(x, d)' => UnderWay(x, d) \/ (x = m /\ d # c)
                 /\ UnderWay(x, d) => UnderWay(x, d)'
                 /\ x = m /\ d \in editing /\ d # c => UnderWay(x, d)'
<1>0. Channels(w, c, m)
  BY ServedChannels
<1>1. /\ m \in Message /\ WorkerOf[c] = w /\ ToSet(posting[w]) = {}
      /\ \A d \in Clients :
            IF d \in editing /\ d # c /\ WorkerOf[d] = w
            THEN down'[d] = Append(down[d], m) /\ ToSet(down'[d]) = ToSet(down[d]) \cup {m}
            ELSE down'[d] = down[d]
      /\ queue' = queue
      /\ \A v \in Workers : v # w => posting'[v] = posting[v]
      /\ \A p \in ToSet(posting'[w]) : p.to \in Workers \ {w} /\ p.source = c /\ p.message = m
      /\ \A v \in Workers \ {w} : \E p \in ToSet(posting'[w]) : p.to = v
  BY <1>0 DEF Channels
<1>2. WorkerOf \in [Clients -> Workers]
  BY Constants
<1>3. \A v \in Workers : \A p \in ToSet(posting[v]) : p \in ToSet(posting'[v])
  BY <1>1
<1>4. \A v \in Workers : \A p \in ToSet(posting'[v]) :
         p \in ToSet(posting[v]) \/ (v = w /\ p.source = c /\ p.message = m)
  BY <1>1
<1>5. ASSUME NEW d \in Clients, x \in ToSet(down'[d])
      PROVE  x \in ToSet(down[d]) \/ (x = m /\ d # c)
  BY <1>1, <1>5
<1>6. Flying(x)' => Flying(x) \/ x = m
  <2>1. ASSUME NEW d \in Clients, x \in ToSet(down'[d]) PROVE Flying(x) \/ x = m
    BY <1>5, <2>1 DEF Flying
  <2>2. ASSUME NEW v \in Workers, NEW call \in ToSet(queue'[v]), call.message = x
        PROVE  Flying(x)
    BY <1>1, <2>2 DEF Flying
  <2>3. ASSUME NEW v \in Workers, NEW p \in ToSet(posting'[v]), p.message = x
        PROVE  Flying(x) \/ x = m
    BY <1>4, <2>3 DEF Flying
  <2>. QED
    BY <2>1, <2>2, <2>3 DEF Flying
<1>10. ASSUME NEW d \in Clients, UnderWay(x, d)'
       PROVE  UnderWay(x, d) \/ (x = m /\ d # c)
  <2>1. CASE x \in ToSet(down'[d])
    BY <1>5, <2>1 DEF UnderWay
  <2>2. CASE \E call \in ToSet(queue'[WorkerOf[d]]) : call.source # d /\ call.message = x
    BY <1>1, <2>2 DEF UnderWay
  <2>3. ASSUME NEW v \in Workers, NEW p \in ToSet(posting'[v]),
               p.to = WorkerOf[d] /\ p.source # d /\ p.message = x
        PROVE  UnderWay(x, d) \/ (x = m /\ d # c)
    BY <1>4, <2>3 DEF UnderWay
  <2>. QED
    BY <1>10, <2>1, <2>2, <2>3 DEF UnderWay
<1>7. ASSUME NEW d \in Clients, UnderWay(x, d)
      PROVE  UnderWay(x, d)'
  <2>1. x \in ToSet(down[d]) => x \in ToSet(down'[d])
    BY <1>1
  <2>. QED
    BY <2>1, <1>1, <1>3, <1>7 DEF UnderWay
<1>8. ASSUME NEW d \in editing, d \in Clients, d # c
      PROVE  UnderWay(m, d)'
  <2>1. CASE WorkerOf[d] = w
    <3>1. m \in ToSet(down'[d])
      BY <2>1, <1>1, <1>8
    <3>. QED
      BY <3>1 DEF UnderWay
  <2>2. CASE WorkerOf[d] # w
    <3>1. PICK p \in ToSet(posting'[w]) : p.to = WorkerOf[d]
      BY <2>2, <1>1, <1>2, <1>8
    <3>2. p.source # d /\ p.message = m
      BY <1>1, <1>8
    <3>. QED
      BY <3>1, <3>2 DEF UnderWay
  <2>. QED
    BY <2>1, <2>2
<1>. QED
  BY <1>6, <1>7, <1>8, <1>10

LEMMA PostNextTransport ==
    ASSUME Inv, NEW w \in Workers, PostNext(w), NEW x \in Message
    PROVE  /\ Flying(x)' => Flying(x)
           /\ \A d \in Clients : UnderWay(x, d)' <=> UnderWay(x, d)
<1>. DEFINE p == Head(posting[w])
            call == [source |-> p.source, message |-> p.message]
<1>1. /\ posting \in [Workers -> Seq(Post)] /\ queue \in [Workers -> Seq(Call)]
      /\ posting[w] \in Seq(Post)
  BY DEF Inv, Types
<1>2. /\ posting[w] # << >>
      /\ queue' = [queue EXCEPT ![p.to] = Append(@, call)]
      /\ posting' = [posting EXCEPT ![w] = Tail(@)]
      /\ down' = down
  BY DEF PostNext
<1>3. p \in Post /\ ToSet(posting[w]) = ToSet(Tail(posting[w])) \cup {p}
  BY <1>1, <1>2, TailFacts
<1>4. call \in Call /\ p.to \in Workers /\ call.source = p.source /\ call.message = p.message
  BY <1>3 DEF Post, Call
<1>. HIDE DEF call, p
<1>5. ToSet(Append(queue[p.to], call)) = ToSet(queue[p.to]) \cup {call}
  BY <1>1, <1>4, AppendFacts
<1>6. \A v \in Workers : /\ v # p.to => ToSet(queue'[v]) = ToSet(queue[v])
                         /\ v = p.to => ToSet(queue'[v]) = ToSet(queue[v]) \cup {call}
  BY <1>1, <1>2, <1>4, <1>5
<1>7. \A v \in Workers : /\ v # w => ToSet(posting[v]) = ToSet(posting'[v])
                         /\ v = w => ToSet(posting[v]) = ToSet(posting'[v]) \cup {p}
  BY <1>1, <1>2, <1>3
<1>8. WorkerOf \in [Clients -> Workers]
  BY Constants
<1>9. Flying(x)' => Flying(x)
  BY <1>2, <1>4, <1>6, <1>7 DEF Flying
<1>10. ASSUME NEW d \in Clients PROVE UnderWay(x, d)' => UnderWay(x, d)
  BY <1>2, <1>4, <1>6, <1>7, <1>8 DEF UnderWay
<1>11. ASSUME NEW d \in Clients PROVE UnderWay(x, d) => UnderWay(x, d)'
  BY <1>2, <1>4, <1>6, <1>7, <1>8 DEF UnderWay
<1>. QED
  BY <1>9, <1>10, <1>11

LEMMA DispatchTransport ==
    ASSUME Inv, NEW w \in Workers, Dispatch(w), NEW x \in Message
    PROVE  /\ Flying(x)' => Flying(x)
           /\ \A d \in Clients : UnderWay(x, d)' => UnderWay(x, d)
           /\ \A d \in editing : UnderWay(x, d) => UnderWay(x, d)'
<1>. DEFINE call == Head(queue[w])
            D == Message \cup Document
<1>1. /\ queue[w] \in Seq(Call) /\ queue \in [Workers -> Seq(Call)]
      /\ down \in [Clients -> Seq(D)]
  BY DEF Inv, Types
<1>2. /\ queue[w] # << >>
      /\ down' = Written(down, w, call.source, call.message)
      /\ queue' = [queue EXCEPT ![w] = Tail(@)]
      /\ posting' = posting
  BY DEF Dispatch
<1>3. call \in Call /\ ToSet(queue[w]) = ToSet(Tail(queue[w])) \cup {call}
  BY <1>1, <1>2, TailFacts
<1>4. call.message \in D
  BY <1>3 DEF Call
<1>. HIDE DEF D, call
<1>5. /\ \A d \in Clients : down'[d] = IF d \in editing /\ d # call.source /\ WorkerOf[d] = w
                                       THEN Append(down[d], call.message) ELSE down[d]
      /\ \A d \in Clients : ToSet(Append(down[d], call.message)) = ToSet(down[d]) \cup {call.message}
  <2>1. \A d \in Clients : ToSet(Append(down[d], call.message)) = ToSet(down[d]) \cup {call.message}
    BY <1>1, <1>4, AppendFacts
  <2>. QED
    BY <2>1, <1>2 DEF Written
<1>6. \A d \in Clients :
         /\ d \in editing /\ d # call.source /\ WorkerOf[d] = w =>
               ToSet(down'[d]) = ToSet(down[d]) \cup {call.message}
         /\ ~(d \in editing /\ d # call.source /\ WorkerOf[d] = w) =>
               ToSet(down'[d]) = ToSet(down[d])
  BY <1>5
<1>7. \A v \in Workers : /\ v # w => ToSet(queue[v]) = ToSet(queue'[v])
                         /\ v = w => ToSet(queue[v]) = ToSet(queue'[v]) \cup {call}
  BY <1>1, <1>2, <1>3
<1>8. WorkerOf \in [Clients -> Workers] /\ editing \subseteq Clients
  BY Constants DEF Inv, Types
<1>9. call \in ToSet(queue[w])
  BY <1>3
<1>12. Flying(x)' => Flying(x)
  <2>1. ASSUME NEW d \in Clients, x \in ToSet(down'[d]) PROVE Flying(x)
    <3>1. x \in ToSet(down[d]) \/ x = call.message
      BY <1>6, <2>1
    <3>. QED
      BY <3>1, <1>9 DEF Flying
  <2>2. ASSUME NEW v \in Workers, NEW y \in ToSet(queue'[v]), y.message = x
        PROVE  Flying(x)
    BY <1>7, <2>2 DEF Flying
  <2>. QED
    BY <1>2, <2>1, <2>2 DEF Flying
<1>10. ASSUME NEW d \in Clients PROVE UnderWay(x, d)' => UnderWay(x, d)
  BY <1>2, <1>6, <1>7, <1>8 DEF UnderWay
<1>11. ASSUME NEW d \in editing, UnderWay(x, d) PROVE UnderWay(x, d)'
  <2>0. d \in Clients
    BY <1>8
  <2>1. CASE x \in ToSet(down[d])
    BY <1>6, <2>0, <2>1 DEF UnderWay
  <2>2. ASSUME NEW y \in ToSet(queue[WorkerOf[d]]), y.source # d, y.message = x
        PROVE  UnderWay(x, d)'
    <3>1. CASE WorkerOf[d] = w /\ y = call
      <4>1. x \in ToSet(down'[d])
        BY <1>6, <2>0, <2>2, <3>1
      <4>. QED
        BY <4>1 DEF UnderWay
    <3>2. CASE ~(WorkerOf[d] = w /\ y = call)
      <4>1. y \in ToSet(queue'[WorkerOf[d]])
        BY <1>7, <1>8, <2>0, <3>2
      <4>. QED
        BY <4>1, <2>2 DEF UnderWay
    <3>. QED
      BY <3>1, <3>2
  <2>3. CASE \E v \in Workers : \E p \in ToSet(posting[v]) :
                p.to = WorkerOf[d] /\ p.source # d /\ p.message = x
    BY <1>2, <2>3 DEF UnderWay
  <2>. QED
    BY <1>11, <2>1, <2>2, <2>3 DEF UnderWay
<1>. QED
  BY <1>10, <1>11, <1>12

(* A client takes a message from its socket. *)
LEMMA TakenTransport ==
    ASSUME Inv, NEW c \in Clients, down[c] # << >>, down' = [down EXCEPT ![c] = Tail(@)],
           UNCHANGED <<queue, posting>>, NEW x \in Message
    PROVE  /\ Flying(x)' => Flying(x)
           /\ \A d \in Clients :
                 /\ UnderWay(x, d)' => UnderWay(x, d)
                 /\ UnderWay(x, d) => UnderWay(x, d)' \/ (d = c /\ x = Head(down[c]))
<1>. DEFINE D == Message \cup Document
<1>1. down \in [Clients -> Seq(D)] /\ down[c] \in Seq(D)
  BY DEF Inv, Types
<1>. HIDE DEF D
<1>2. ToSet(down[c]) = ToSet(Tail(down[c])) \cup {Head(down[c])}
  BY <1>1, TailFacts
<1>3. \A d \in Clients : /\ d # c => ToSet(down[d]) = ToSet(down'[d])
                         /\ d = c => ToSet(down[d]) = ToSet(down'[d]) \cup {Head(down[c])}
  BY <1>1, <1>2
<1>4. Flying(x)' => Flying(x)
  BY <1>3 DEF Flying
<1>5. ASSUME NEW d \in Clients
      PROVE  /\ UnderWay(x, d)' => UnderWay(x, d)
             /\ UnderWay(x, d) => UnderWay(x, d)' \/ (d = c /\ x = Head(down[c]))
  BY <1>3 DEF UnderWay
<1>. QED
  BY <1>4, <1>5

LEMMA AdmittedTransport ==
    ASSUME Inv, NEW w \in Workers, NEW c \in Clients, NEW m, Admitted(w, c, m), NEW x \in Message
    PROVE  /\ Flying(x)' => Flying(x)
           /\ \A d \in Clients : UnderWay(x, d)' <=> UnderWay(x, d)
<1>1. /\ down[c] = << >> /\ m \in Document /\ down' = [down EXCEPT ![c] = <<m>>]
      /\ UNCHANGED <<queue, posting>>
      /\ down \in [Clients -> Seq(Message \cup Document)]
  BY DEF Admitted, Inv, Types
<1>2. ToSet(down[c]) = {} /\ ToSet(<<m>>) = {m} /\ x # m
  <2>1. \A i : i \in DOMAIN <<m>> <=> i = 1
    OBVIOUS
  <2>. QED
    BY <2>1, <1>1, EmptyFacts, MessageFields DEF ToSet
<1>3. \A d \in Clients : x \in ToSet(down'[d]) <=> x \in ToSet(down[d])
  BY <1>1, <1>2
<1>4. Flying(x)' => Flying(x)
  BY <1>1, <1>3 DEF Flying
<1>5. ASSUME NEW d \in Clients PROVE UnderWay(x, d)' <=> UnderWay(x, d)
  BY <1>1, <1>3 DEF UnderWay
<1>. QED
  BY <1>4, <1>5

-----------------------------------------------------------------------------
(* Every step keeps every part of the invariant.  First what is shown.      *)
LEMMA SymbolsKnown ==
    ASSUME Inv, NEW r \in Replicas
    PROVE  /\ \A s \in ToSet(editor[r].text) : s \in Symbol /\ Received(editor[r], s)
           /\ \A s \in ToSet(editor[r].buf) : s \in Symbol /\ ~Received(editor[r], s)
           /\ \A c \in Clients : editor[r].vv[c] \in Int
<1>. DEFINE ed == editor[r]
<1>1. Sound(ed)
  BY DEF Inv, Replicated
<1>. HIDE DEF ed
<1>2. /\ \A x : x \in ToSet(ed.text) => \E i \in 1 .. Len(ed.text) : ed.text[i] = x
      /\ \A x : x \in ToSet(ed.buf) => \E i \in 1 .. Len(ed.buf) : ed.buf[i] = x
      /\ \A i \in 1 .. Len(ed.text) : ed.text[i] \in Symbol
      /\ \A i \in 1 .. Len(ed.buf) : ed.buf[i] \in Symbol
      /\ \A c \in Sites : ed.vv[c] \in Int
  BY <1>1, EditorFields DEF Sound
<1>3. ASSUME NEW s, s \in ToSet(ed.text) PROVE s \in Symbol
  BY <1>2, <1>3
<1>4. ASSUME NEW s, s \in ToSet(ed.buf) PROVE s \in Symbol
  BY <1>2, <1>4
<1>5. \A c \in Clients : ed.vv[c] \in Int
  BY <1>2, Constants
<1>. QED
  BY <1>1, <1>3, <1>4, <1>5 DEF Sound, ed

LEMMA ReplicatedKept ==
    ASSUME Inv, Step
    PROVE  Replicated'
<1>1. /\ \A r \in Replicas : Sound(editor[r])
      /\ Ascending(editor[Server].text) /\ editor[Server].buf = << >>
      /\ Server \in Replicas /\ Replicas = Clients \cup {Server}
  BY Constants DEF Inv, Replicated
<1>2. ASSUME NEW c \in Clients, NEW e, Edit(c, e) PROVE Replicated'
  <2>1. /\ editor'[Server] = editor[Server] /\ Sound(e)
        /\ \A r \in Replicas : editor'[r] = IF r = c THEN e ELSE editor[r]
    BY <1>2, EditFacts DEF Edit
  <2>. QED
    BY <1>1, <2>1 DEF Replicated
<1>3. ASSUME editor' = editor PROVE Replicated'
  BY <1>1, <1>3 DEF Replicated
<1>4. ASSUME NEW c \in Clients, NEW m, NEW e, Heard(c, m, e) PROVE Replicated'
  <2>1. /\ editor'[Server] = editor[Server] /\ Handled(editor[c], m, e)
        /\ \A r \in Replicas : editor'[r] = IF r = c THEN e ELSE editor[r]
    BY <1>4, HeardFacts
  <2>2. Sound(e)
    BY <2>1 DEF Handled
  <2>. QED
    BY <1>1, <2>1, <2>2 DEF Replicated
<1>5. ASSUME NEW c \in Clients, NEW m, NEW e, Entered(c, m, e) PROVE Replicated'
  <2>1. /\ editor'[Server] = editor[Server]
        /\ \A r \in Replicas : editor'[r] = IF r = c THEN e ELSE editor[r]
    BY <1>5, EnteredFacts
  <2>2. Sound(e)
    BY <1>5 DEF Entered
  <2>. QED
    BY <1>1, <2>1, <2>2 DEF Replicated
<1>6. ASSUME NEW w \in Workers, NEW c \in Clients, NEW m, NEW e, Served(w, c, m, e)
      PROVE  Replicated'
  <2>1. /\ editor'[Server] = e /\ Sound(e) /\ Ascending(e.text) /\ e.buf = << >>
        /\ \A d \in Clients : editor'[d] = editor[d]
    BY <1>6, ServedFacts
  <2>. QED
    BY <1>1, <2>1 DEF Replicated
<1>7. ASSUME NEW c \in Clients, LocalStep(c) PROVE Replicated'
  BY <1>2, <1>3, <1>7 DEF LocalStep, Typed, Deleted, Marked, Overtyped, RequestOpen
<1>8. ASSUME NEW w \in Workers, WorkerStep(w) PROVE Replicated'
  BY <1>3, <1>6, <1>8 DEF WorkerStep, Admitted, PostNext, Dispatch
<1>. QED
  BY <1>4, <1>5, <1>7, <1>8 DEF Step, RemoteStep

(* What the server has received it does not forget, what is gone stays.     *)
LEMMA ServerLearns ==
    ASSUME Inv, Step, NEW x \in Symbol
    PROVE  /\ Received(editor[Server], x) => Received(editor[Server], x)'
           /\ Gone(x) => Gone(x)'
<1>1. ASSUME editor'[Server] = editor[Server]
      PROVE  /\ Received(editor[Server], x) => Received(editor[Server], x)'
             /\ Gone(x) => Gone(x)'
  BY <1>1 DEF Received, Gone
<1>2. ASSUME NEW w \in Workers, NEW c \in Clients, NEW m, NEW e, Served(w, c, m, e)
      PROVE  /\ Received(editor[Server], x) => Received(editor[Server], x)'
             /\ Gone(x) => Gone(x)'
  <2>. DEFINE old == editor[Server]
              s == m.symbol
  <2>1. /\ editor'[Server] = e
        /\ m.type \in {"insert", "erase", "format"}
        /\ m.type = "insert" => ~Received(old, s) /\ ToSet(e.text) = ToSet(old.text) \cup {s}
        /\ m.type = "erase" => ToSet(e.text) = ToSet(old.text) \ {s}
        /\ m.type = "format" => e = old
        /\ Received(old, x) => Received(e, x)
    BY <1>2, ServedFacts, MessageFields
  <2>2. Received(old, x) => Received(editor[Server], x)'
    BY <2>1 DEF Received
  <2>3. Received(old, x) /\ x \notin ToSet(old.text) => x \notin ToSet(e.text)
    BY <2>1
  <2>. QED
    BY <2>1, <2>2, <2>3 DEF Gone
<1>3. ASSUME NEW c \in Clients, LocalStep(c) PROVE editor'[Server] = editor[Server]
  BY <1>3, EditFacts DEF LocalStep, Typed, Deleted, Marked, Overtyped, RequestOpen
<1>4. ASSUME NEW c \in Clients, RemoteStep(c) PROVE editor'[Server] = editor[Server]
  BY <1>4, HeardFacts, EnteredFacts DEF RemoteStep
<1>5. ASSUME NEW w \in Workers, WorkerStep(w)
      PROVE  \/ editor' = editor
             \/ \E c \in Clients : \E m, e : Served(w, c, m, e)
  BY <1>5 DEF WorkerStep, Admitted, PostNext, Dispatch
<1>. QED
  BY <1>1, <1>2, <1>3, <1>4, <1>5 DEF Step

(* What a step does to the messages for a client, and of a client.          *)
LEMMA DownCases ==
    ASSUME Inv, Step, NEW d \in Clients
    PROVE  \/ down'[d] = down[d]
           \/ d \in editing /\ \E x \in Message : down'[d] = Append(down[d], x)
           \/ /\ d \in editing /\ d \in joined' /\ down[d] # << >>
              /\ down'[d] = Tail(down[d])
           \/ /\ d \in editing' \ editing /\ d \notin joined'
              /\ \E m \in Document : down'[d] = <<m>> /\ SymbolsOf(m.text) = editor[Server].text
<1>0. down \in [Clients -> Seq(Message \cup Document)] /\ joined \subseteq editing
  BY DEF Inv, Types
<1>1. ASSUME NEW c \in Clients, LocalStep(c) PROVE down' = down
  BY <1>1 DEF LocalStep, Typed, Deleted, Marked, Overtyped, Edit, RequestOpen
<1>2. ASSUME NEW c \in Clients, NEW m, NEW e, Heard(c, m, e)
      PROVE  \/ down'[d] = down[d]
             \/ /\ d \in editing /\ d \in joined' /\ down[d] # << >>
                /\ down'[d] = Tail(down[d])
  <2>1. /\ down[c] # << >> /\ c \in joined /\ joined' = joined
        /\ down' = [down EXCEPT ![c] = Tail(@)]
    BY <1>2 DEF Heard
  <2>. QED
    BY <1>0, <2>1
<1>3. ASSUME NEW c \in Clients, NEW m, NEW e, Entered(c, m, e)
      PROVE  \/ down'[d] = down[d]
             \/ /\ d \in editing /\ d \in joined' /\ down[d] # << >>
                /\ down'[d] = Tail(down[d])
  <2>1. /\ down[c] # << >> /\ c \in editing /\ c \in joined'
        /\ down' = [down EXCEPT ![c] = Tail(@)]
    BY <1>3 DEF Entered
  <2>. QED
    BY <1>0, <2>1
<1>4. ASSUME NEW w \in Workers, NEW c \in Clients, NEW m, NEW e, Served(w, c, m, e)
      PROVE  \/ down'[d] = down[d]
             \/ d \in editing /\ \E x \in Message : down'[d] = Append(down[d], x)
  <2>1. Channels(w, c, m)
    BY <1>4, ServedChannels
  <2>. QED
    BY <2>1 DEF Channels
<1>5. ASSUME NEW w \in Workers, NEW c \in Clients, NEW m, Admitted(w, c, m)
      PROVE  \/ down'[d] = down[d]
             \/ /\ d \in editing' \ editing /\ d \notin joined'
                /\ \E y \in Document : down'[d] = <<y>> /\ SymbolsOf(y.text) = editor[Server].text
  <2>1. /\ c \notin editing /\ editing' = editing \cup {c} /\ joined' = joined
        /\ m \in Document /\ SymbolsOf(m.text) = editor[Server].text
        /\ down' = [down EXCEPT ![c] = <<m>>]
    BY <1>5 DEF Admitted
  <2>2. CASE d = c
    <3>1. down'[d] = <<m>> /\ d \in editing' \ editing /\ d \notin joined'
      BY <1>0, <2>1, <2>2
    <3>. QED
      BY <3>1, <2>1
  <2>3. CASE d # c
    <3>1. down'[d] = down[d]
      BY <1>0, <2>1, <2>3
    <3>. QED
      BY <3>1
  <2>. QED
    BY <2>2, <2>3
<1>6. ASSUME NEW w \in Workers, PostNext(w) PROVE down' = down
  BY <1>6 DEF PostNext
<1>7. ASSUME NEW w \in Workers, Dispatch(w)
      PROVE  \/ down'[d] = down[d]
             \/ d \in editing /\ \E x \in Message : down'[d] = Append(down[d], x)
  <2>. DEFINE call == Head(queue[w])
  <2>1. /\ queue[w] # << >> /\ down' = Written(down, w, call.source, call.message)
        /\ queue[w] \in Seq(Call)
    BY <1>7 DEF Dispatch, Inv, Types
  <2>2. call \in Call
    BY <2>1, TailFacts
  <2>3. call.message \in Message
    BY <2>2 DEF Call
  <2>. HIDE DEF call
  <2>4. \/ down'[d] = down[d]
        \/ d \in editing /\ down'[d] = Append(down[d], call.message)
    BY <2>1 DEF Written
  <2>. QED
    BY <2>3, <2>4
<1>8. ASSUME NEW c \in Clients, RemoteStep(c)
      PROVE  \/ down'[d] = down[d]
             \/ /\ d \in editing /\ d \in joined' /\ down[d] # << >>
                /\ down'[d] = Tail(down[d])
  BY <1>2, <1>3, <1>8 DEF RemoteStep
<1>. QED
  BY <1>1, <1>4, <1>5, <1>6, <1>7, <1>8 DEF Step, WorkerStep

LEMMA UpCases ==
    ASSUME Inv, Step, NEW d \in Clients
    PROVE  \/ up'[d] = up[d]
           \/ d \in joined /\ \E x \in Message : up'[d] = Append(up[d], x)
           \/ /\ d \notin joined /\ up[d] = << >> /\ down[d] = << >>
              /\ up'[d] = <<Open>> /\ UNCHANGED <<joined, editing>>
           \/ /\ d \in joined /\ up[d] # << >> /\ up'[d] = Tail(up[d])
              /\ \E w \in Workers : \E e : Served(w, d, Head(up[d]), e)
           \/ d \notin editing /\ up'[d] = << >>
<1>0. /\ up \in [Clients -> Seq(Message \cup {Open})]
      /\ DefaultFormat \in Formats /\ \A c \in Clients : c \in Replicas
  BY Constants DEF Inv, Types
<1>1. ASSUME NEW c \in joined, c \in Clients, NEW x \in Message,
             up' = [up EXCEPT ![c] = Append(@, x)]
      PROVE  up'[d] = up[d] \/ (d \in joined /\ \E y \in Message : up'[d] = Append(up[d], y))
  BY <1>0, <1>1
<1>2. ASSUME NEW c \in Clients, NEW s, NEW e, Typed(c, s, e)
      PROVE  up'[d] = up[d] \/ (d \in joined /\ \E y \in Message : up'[d] = Append(up[d], y))
  <2>1. c \in joined /\ s \in Symbol /\ up' = [up EXCEPT ![c] = Append(@, Insert(s, DefaultFormat))]
    BY <1>2 DEF Typed, Edit
  <2>2. Insert(s, DefaultFormat) \in Message
    BY <1>0, <2>1, MessagesMade
  <2>. QED
    BY <1>1, <2>1, <2>2
<1>3. ASSUME NEW c \in Clients, NEW s, s \in ToSet(editor[c].text) PROVE s \in Symbol
  BY <1>0, <1>3, SymbolsKnown
<1>4. ASSUME NEW c \in Clients, NEW s, NEW e, Deleted(c, s, e)
      PROVE  up'[d] = up[d] \/ (d \in joined /\ \E y \in Message : up'[d] = Append(up[d], y))
  <2>1. c \in joined /\ s \in Symbol /\ up' = [up EXCEPT ![c] = Append(@, Erase(s))]
    BY <1>3, <1>4 DEF Deleted, Edit
  <2>2. Erase(s) \in Message
    BY <1>0, <2>1, MessagesMade
  <2>. QED
    BY <1>1, <2>1, <2>2
<1>5. ASSUME NEW c \in Clients, NEW s, NEW f, Marked(c, s, f)
      PROVE  up'[d] = up[d] \/ (d \in joined /\ \E y \in Message : up'[d] = Append(up[d], y))
  <2>1. /\ c \in joined /\ s \in Symbol /\ f \in Formats
        /\ up' = [up EXCEPT ![c] = Append(@, Format(s, f))]
    BY <1>3, <1>5 DEF Marked, Edit
  <2>2. Format(s, f) \in Message
    BY <1>0, <2>1, MessagesMade
  <2>. QED
    BY <1>1, <2>1, <2>2
<1>6. ASSUME NEW c \in Clients, RequestOpen(c)
      PROVE  \/ up'[d] = up[d]
             \/ /\ d \notin joined /\ up[d] = << >> /\ down[d] = << >>
                /\ up'[d] = <<Open>> /\ UNCHANGED <<joined, editing>>
  <2>1. /\ c \notin joined /\ up[c] = << >> /\ down[c] = << >> /\ UNCHANGED <<joined, editing>>
        /\ up' = [up EXCEPT ![c] = Append(up[c], Open)]
    BY <1>6 DEF RequestOpen
  <2>2. Append(up[c], Open) = <<Open>>
    BY <2>1
  <2>. QED
    BY <1>0, <2>1, <2>2
<1>7. ASSUME NEW c \in Clients, LocalStep(c)
      PROVE  \/ up'[d] = up[d]
             \/ d \in joined /\ \E x \in Message : up'[d] = Append(up[d], x)
             \/ /\ d \notin joined /\ up[d] = << >> /\ down[d] = << >>
                /\ up'[d] = <<Open>> /\ UNCHANGED <<joined, editing>>
  BY <1>2, <1>4, <1>5, <1>6, <1>7 DEF LocalStep, Overtyped
<1>8. ASSUME NEW w \in Workers, NEW c \in Clients, NEW m, NEW e, Served(w, c, m, e)
      PROVE  \/ up'[d] = up[d]
             \/ /\ d \in joined /\ up[d] # << >> /\ up'[d] = Tail(up[d])
                /\ \E v \in Workers : \E x : Served(v, d, Head(up[d]), x)
  <2>1. Channels(w, c, m)
    BY <1>8, ServedChannels
  <2>2. c \in joined
    BY <1>8, ServedFacts
  <2>3. up[c] # << >> /\ Head(up[c]) = m
    BY <1>8 DEF Served
  <2>4. up'[c] = Tail(up[c]) /\ \A b \in Clients : b # c => up'[b] = up[b]
    BY <2>1 DEF Channels
  <2>. QED
    BY <1>8, <2>2, <2>3, <2>4
<1>9. ASSUME NEW w \in Workers, NEW c \in Clients, NEW m, Admitted(w, c, m)
      PROVE  up'[d] = up[d] \/ (d \notin editing /\ up'[d] = << >>)
  BY <1>0, <1>9 DEF Admitted
<1>10. ASSUME NEW c \in Clients, RemoteStep(c) PROVE up' = up
  BY <1>10 DEF RemoteStep, Heard, Entered
<1>11. ASSUME NEW w \in Workers, PostNext(w) \/ Dispatch(w) PROVE up' = up
  BY <1>11 DEF PostNext, Dispatch
<1>. QED
  BY <1>7, <1>8, <1>9, <1>10, <1>11 DEF Step, WorkerStep

(* Who edits and who has joined.                                            *)
LEMMA JoinedCases ==
    ASSUME Inv, Step
    PROVE  /\ joined \subseteq joined' /\ editing \subseteq editing'
           /\ joined' \subseteq editing /\ editing \subseteq Clients
           /\ \A d \in joined' \ joined : /\ d \in editing /\ down[d] # << >>
                                          /\ down'[d] = Tail(down[d])
                                          /\ down[d][1] \in Document
           /\ \A d \in editing' \ editing :
                 up[d] = <<Open>> /\ up'[d] = << >> /\ d \notin joined'
                 /\ \E m \in Document : down'[d] = <<m>> /\ SymbolsOf(m.text) = editor[Server].text
<1>0. /\ up \in [Clients -> Seq(Message \cup {Open})]
      /\ down \in [Clients -> Seq(Message \cup Document)]
      /\ joined \subseteq editing /\ editing \subseteq Clients
  BY DEF Inv, Types
<1>1. CASE UNCHANGED <<joined, editing>>
  BY <1>0, <1>1
<1>2. ASSUME NEW c \in Clients, NEW m, NEW e, Entered(c, m, e)
      PROVE  /\ c \in editing /\ down[c] # << >> /\ down[c][1] \in Document
             /\ down'[c] = Tail(down[c])
             /\ joined' = joined \cup {c} /\ editing' = editing
  BY <1>0, <1>2 DEF Entered
<1>3. ASSUME NEW w \in Workers, NEW c \in Clients, NEW m, Admitted(w, c, m)
      PROVE  /\ up[c] = <<Open>> /\ up'[c] = << >> /\ down'[c] = <<m>> /\ m \in Document
             /\ SymbolsOf(m.text) = editor[Server].text
             /\ joined' = joined /\ editing' = editing \cup {c} /\ c \notin editing
  BY <1>0, <1>3 DEF Admitted
<1>4. ASSUME NEW c \in Clients, LocalStep(c) PROVE UNCHANGED <<joined, editing>>
  BY <1>4 DEF LocalStep, Typed, Deleted, Marked, Overtyped, Edit, RequestOpen
<1>5. ASSUME NEW c \in Clients, RemoteStep(c)
      PROVE  UNCHANGED <<joined, editing>> \/ \E m, e : Entered(c, m, e)
  BY <1>5 DEF RemoteStep, Heard
<1>6. ASSUME NEW w \in Workers, WorkerStep(w)
      PROVE  UNCHANGED <<joined, editing>> \/ \E c \in Clients : \E m : Admitted(w, c, m)
  BY <1>6 DEF WorkerStep, Served, PostNext, Dispatch
<1>7. ASSUME NEW c \in Clients, NEW m, NEW e, Entered(c, m, e)
      PROVE  /\ joined \subseteq joined' /\ editing \subseteq editing'
             /\ joined' \subseteq editing /\ editing' = editing
             /\ \A d \in joined' \ joined : d = c
  BY <1>0, <1>2, <1>7
<1>8. ASSUME NEW w \in Workers, NEW c \in Clients, NEW m, Admitted(w, c, m)
      PROVE  /\ joined = joined' /\ editing \subseteq editing'
             /\ \A d \in editing' \ editing : d = c
  BY <1>0, <1>3, <1>8
<1>9. CASE \E c \in Clients : \E m, e : Entered(c, m, e)
  BY <1>0, <1>2, <1>7, <1>9
<1>10. CASE \E w \in Workers : \E c \in Clients : \E m : Admitted(w, c, m)
  BY <1>0, <1>3, <1>8, <1>10
<1>. QED
  BY <1>1, <1>4, <1>5, <1>6, <1>9, <1>10 DEF Step

LEMMA CountedKept ==
    ASSUME Inv, Step, Types'
    PROVE  Counted'
<1>0. /\ counter \in [Clients -> Nat] /\ edits \in Nat
      /\ Replicas = Clients \cup {Server} /\ Server \notin Clients
      /\ \A r \in Replicas : editor[r] \in Editor
      /\ \A s \in issued : s \in Symbol
      /\ Clients = Sites
  BY Constants, TypesOf DEF Inv, Types
<1>1. /\ \A c \in Clients : counter[c] <= edits /\ editor[c].vv[c] = counter[c] - 1
      /\ \A r \in Replicas, c \in Clients : editor[r].vv[c] < counter[c]
      /\ \A s \in issued : s.n < counter[s.site]
  BY DEF Inv, Counted
<1>2. ASSUME UNCHANGED <<editor, counter, issued, edits>> PROVE Counted'
  BY <1>1, <1>2 DEF Counted
<1>3. ASSUME NEW c \in Clients, NEW e, Edit(c, e), e.vv = editor[c].vv,
             UNCHANGED <<counter, issued>>
      PROVE  Counted'
  <2>1. /\ \A r \in Replicas : editor'[r] = IF r = c THEN e ELSE editor[r]
        /\ edits' = edits + 1
    BY <1>3, EditFacts DEF Edit
  <2>2. \A r \in Replicas : editor'[r].vv = editor[r].vv
    BY <1>3, <2>1
  <2>3. \A d \in Clients : counter[d] <= edits + 1
    BY <1>0, <1>1
  <2>. QED
    BY <1>0, <1>1, <1>3, <2>1, <2>2, <2>3 DEF Counted
<1>4. ASSUME NEW c \in Clients, NEW s, NEW e, Typed(c, s, e) PROVE Counted'
  <2>1. /\ Edit(c, e) /\ s \in Symbol /\ s.site = c /\ s.n = counter[c]
        /\ e.vv = UpdateVersionVector(editor[c].vv, s)
        /\ counter' = [counter EXCEPT ![c] = @ + 1] /\ issued' = issued \cup {s}
    BY <1>4 DEF Typed
  <2>2. /\ \A r \in Replicas : editor'[r] = IF r = c THEN e ELSE editor[r]
        /\ edits' = edits + 1
    BY <2>1, EditFacts DEF Edit
  <2>3. \A d \in Clients : counter'[d] = IF d = c THEN counter[c] + 1 ELSE counter[d]
    BY <1>0, <2>1
  <2>4. \A d \in Clients : e.vv[d] = IF d = c THEN counter[c] ELSE editor[c].vv[d]
    <3>1. editor[c] \in Editor /\ \A d \in Clients : editor[c].vv[d] < counter[d]
      BY <1>0, <1>1
    <3>2. \A d \in Sites : e.vv[d] = IF d = s.site /\ s.n > editor[c].vv[d]
                                     THEN s.n ELSE editor[c].vv[d]
      BY <2>1, <3>1, VectorUpdated
    <3>3. counter[c] > editor[c].vv[c]
      BY <1>0, <1>1
    <3>. QED
      BY <1>0, <2>1, <3>2, <3>3
  <2>5. \A d \in Clients : counter'[d] <= edits'
    BY <1>0, <1>1, <2>2, <2>3
  <2>6. ASSUME NEW r \in Replicas, NEW d \in Clients
        PROVE  editor'[r].vv[d] < counter'[d] /\ (r = d => editor'[r].vv[d] = counter'[d] - 1)
    <3>1. editor[r].vv[d] < counter[d] /\ counter[d] \in Nat /\ editor[r].vv[d] \in Int
      BY <1>0, <1>1, EditorFields
    <3>2. CASE r = c
      <4>1. editor'[r].vv[d] = IF d = c THEN counter[c] ELSE editor[r].vv[d]
        BY <2>2, <2>4, <3>2
      <4>. QED
        BY <2>3, <3>1, <3>2, <4>1
    <3>3. CASE r # c
      <4>1. editor'[r].vv[d] = editor[r].vv[d]
        BY <2>2, <3>3
      <4>2. r = d => editor[r].vv[d] = counter[d] - 1
        BY <1>1
      <4>. QED
        BY <2>3, <3>1, <3>3, <4>1, <4>2
    <3>. QED
      BY <3>2, <3>3
  <2>7. ASSUME NEW x \in issued' PROVE x.n < counter'[x.site]
    <3>1. CASE x = s
      BY <1>0, <2>1, <2>3, <3>1
    <3>2. CASE x \in issued
      <4>1. x.n < counter[x.site] /\ x.n \in Nat /\ x.site \in Clients
        BY <1>0, <1>1, <3>2, SymbolFields
      <4>. QED
        BY <1>0, <2>3, <4>1
    <3>. QED
      BY <2>1, <3>1, <3>2
  <2>. QED
    BY <1>0, <2>5, <2>6, <2>7 DEF Counted
(* A replica handles an insert of a counter that has been used. *)
<1>5. ASSUME NEW q \in Replicas, NEW s \in Symbol, NEW e,
             s.n < counter[s.site], q = s.site => s.n <= editor[q].vv[s.site],
             e.vv = UpdateVersionVector(editor[q].vv, s),
             \A r \in Replicas : editor'[r] = IF r = q THEN e ELSE editor[r],
             UNCHANGED <<counter, issued, edits>>
      PROVE  Counted'
  <2>1. editor[q] \in Editor /\ s.n \in Nat /\ s.site \in Clients
    BY <1>0, SymbolFields
  <2>2. \A d \in Sites : e.vv[d] = IF d = s.site /\ s.n > editor[q].vv[d]
                                   THEN s.n ELSE editor[q].vv[d]
    BY <1>5, <2>1, VectorUpdated
  <2>3. ASSUME NEW r \in Replicas, NEW d \in Clients
        PROVE  editor'[r].vv[d] < counter[d] /\ (r = d => editor'[r].vv[d] = counter[d] - 1)
    <3>1. editor[r].vv[d] < counter[d] /\ counter[d] \in Nat /\ editor[r].vv[d] \in Int
      BY <1>0, <1>1, EditorFields
    <3>2. r = d => editor[r].vv[d] = counter[d] - 1
      BY <1>1
    <3>3. CASE r = q
      <4>1. editor'[r].vv[d] = IF d = s.site /\ s.n > editor[r].vv[d]
                               THEN s.n ELSE editor[r].vv[d]
        BY <1>0, <1>5, <2>2, <3>3
      <4>. QED
        BY <1>5, <2>1, <3>1, <3>2, <3>3, <4>1
    <3>4. CASE r # q
      BY <1>5, <3>1, <3>2, <3>4
    <3>. QED
      BY <3>3, <3>4
  <2>. QED
    BY <1>0, <1>1, <1>5, <2>3 DEF Counted
<1>6. ASSUME NEW q \in Replicas, NEW e, e.vv = editor[q].vv,
             \A r \in Replicas : editor'[r] = IF r = q THEN e ELSE editor[r],
             UNCHANGED <<counter, issued, edits>>
      PROVE  Counted'
  <2>1. \A r \in Replicas : editor'[r].vv = editor[r].vv
    BY <1>6
  <2>. QED
    BY <1>0, <1>1, <1>6, <2>1 DEF Counted
<1>7. ASSUME NEW c \in Clients, NEW m, NEW e, Heard(c, m, e) PROVE Counted'
  <2>1. /\ \A r \in Replicas : editor'[r] = IF r = c THEN e ELSE editor[r]
        /\ Handled(editor[c], m, e) /\ m \in Message /\ Flying(m)
    BY <1>7, HeardFacts
  <2>2. UNCHANGED <<counter, issued, edits>>
    BY <1>7 DEF Heard
  <2>3. m.symbol \in Symbol /\ m.type \in {"insert", "erase", "format"}
    BY <2>1, MessageFields
  <2>4. CASE m.type = "insert"
    <3>1. Received(editor[Server], m.symbol)
      BY <2>1 DEF Inv, Relayed
    <3>2. m.symbol.site \in Clients /\ m.symbol.n \in Nat
      BY <1>0, <2>3, SymbolFields
    <3>3. /\ editor[Server].vv[m.symbol.site] \in Int
          /\ counter[m.symbol.site] \in Nat
          /\ editor[Server].vv[m.symbol.site] < counter[m.symbol.site]
          /\ c = m.symbol.site => editor[c].vv[m.symbol.site] = counter[m.symbol.site] - 1
      BY <1>0, <1>1, <3>2, SymbolsKnown
    <3>4. m.symbol.n < counter[m.symbol.site]
      BY <3>1, <3>2, <3>3 DEF Received
    <3>5. c = m.symbol.site => m.symbol.n <= editor[c].vv[m.symbol.site]
      BY <3>2, <3>3, <3>4
    <3>6. e.vv = UpdateVersionVector(editor[c].vv, m.symbol)
      BY <2>1, <2>4 DEF Handled
    <3>. QED
      BY <1>0, <1>5, <2>1, <2>2, <2>3, <3>4, <3>5, <3>6
  <2>5. CASE m.type # "insert"
    <3>1. e.vv = editor[c].vv
      BY <2>1, <2>3, <2>5 DEF Handled
    <3>. QED
      BY <1>0, <1>6, <2>1, <2>2, <3>1
  <2>. QED
    BY <2>4, <2>5
<1>8. ASSUME NEW c \in Clients, NEW m, NEW e, Entered(c, m, e) PROVE Counted'
  <2>1. /\ \A r \in Replicas : editor'[r] = IF r = c THEN e ELSE editor[r]
        /\ \A x \in ToSet(e.text) : Received(editor[Server], x)
    BY <1>8, EnteredFacts
  <2>2. /\ e = EditorOf(e.text) /\ Ascending(e.text) /\ c \notin joined /\ e \in Editor
        /\ UNCHANGED <<counter, issued, edits>>
    BY <1>8 DEF Entered, Sound
  <2>3. counter[c] = 0
    BY <2>2 DEF Inv, Joining
  <2>4. \A d \in Clients : e.vv[d] = NotReceived
                           \/ \E s \in ToSet(e.text) : s.site = d /\ s.n = e.vv[d]
    BY <1>0, <2>2, AscendingIsOrdered, EditorOfText
  <2>5. \A d \in Clients : e.vv[d] \in Int /\ e.vv[d] >= -1
    BY <1>0, <2>2, EditorFields DEF NotReceived
  <2>6. ASSUME NEW d \in Clients PROVE e.vv[d] < counter[d]
    <3>1. counter[d] \in Nat /\ editor[Server].vv[d] \in Int /\ editor[Server].vv[d] < counter[d]
      BY <1>0, <1>1, SymbolsKnown
    <3>2. ASSUME NEW s \in ToSet(e.text), s.site = d, s.n = e.vv[d] PROVE e.vv[d] < counter[d]
      BY <2>1, <2>5, <3>1, <3>2 DEF Received
    <3>. QED
      BY <2>4, <3>1, <3>2 DEF NotReceived
  <2>7. e.vv[c] = counter[c] - 1
    BY <2>3, <2>5, <2>6
  <2>. QED
    BY <1>0, <1>1, <2>1, <2>2, <2>6, <2>7 DEF Counted
<1>9. ASSUME NEW w \in Workers, NEW c \in Clients, NEW m, NEW e, Served(w, c, m, e)
      PROVE  Counted'
  <2>1. /\ editor'[Server] = e /\ \A d \in Clients : editor'[d] = editor[d]
        /\ m.symbol \in Symbol
        /\ m.type = "insert" => m.symbol.site = c /\ m.symbol.n < counter[c]
        /\ m.type = "insert" => e.vv = UpdateVersionVector(editor[Server].vv, m.symbol)
        /\ m.type # "insert" => e.vv = editor[Server].vv
    BY <1>9, ServedFacts
  <2>2. UNCHANGED <<counter, issued, edits>>
    BY <1>9 DEF Served
  <2>3. \A r \in Replicas : editor'[r] = IF r = Server THEN e ELSE editor[r]
    BY <1>0, <2>1
  <2>4. CASE m.type = "insert"
    <3>1. Server # m.symbol.site
      BY <1>0, <2>1, <2>4
    <3>. QED
      BY <1>0, <1>5, <2>1, <2>2, <2>3, <2>4, <3>1
  <2>5. CASE m.type # "insert"
    BY <1>0, <1>6, <2>1, <2>2, <2>3, <2>5
  <2>. QED
    BY <2>4, <2>5
<1>10. ASSUME NEW c \in Clients, LocalStep(c) PROVE Counted'
  BY <1>2, <1>3, <1>4, <1>10 DEF LocalStep, Deleted, Marked, Overtyped, RequestOpen
<1>11. ASSUME NEW w \in Workers, WorkerStep(w) PROVE Counted'
  BY <1>2, <1>9, <1>11 DEF WorkerStep, Admitted, PostNext, Dispatch
<1>. QED
  BY <1>7, <1>8, <1>10, <1>11 DEF Step, RemoteStep

(* A client that has not joined has done nothing yet. *)
LEMMA OutsidersIdle ==
    ASSUME Inv, Step, NEW d \in Clients, d \notin joined'
    PROVE  editor'[d] = editor[d] /\ counter'[d] = counter[d]
<1>0. /\ counter \in [Clients -> Nat] /\ joined \subseteq joined'
      /\ Clients \subseteq Replicas /\ d \notin joined
  BY JoinedCases, Constants DEF Inv, Types
<1>1. ASSUME NEW c \in Clients, NEW e, Edit(c, e),
             counter' = counter \/ counter' = [counter EXCEPT ![c] = @ + 1]
      PROVE  editor'[d] = editor[d] /\ counter'[d] = counter[d]
  <2>1. c # d /\ \A r \in Replicas : editor'[r] = IF r = c THEN e ELSE editor[r]
    BY <1>0, <1>1, EditFacts
  <2>. QED
    BY <1>0, <1>1, <2>1
<1>2. ASSUME NEW c \in Clients, LocalStep(c)
      PROVE  editor'[d] = editor[d] /\ counter'[d] = counter[d]
  BY <1>1, <1>2 DEF LocalStep, Typed, Deleted, Marked, Overtyped, RequestOpen
<1>3. ASSUME NEW c \in Clients, NEW m, NEW e, Heard(c, m, e)
      PROVE  editor'[d] = editor[d] /\ counter'[d] = counter[d]
  <2>1. c # d /\ \A r \in Replicas : editor'[r] = IF r = c THEN e ELSE editor[r]
    BY <1>0, <1>3, HeardFacts
  <2>2. counter' = counter
    BY <1>3 DEF Heard
  <2>. QED
    BY <1>0, <2>1, <2>2
<1>4. ASSUME NEW c \in Clients, NEW m, NEW e, Entered(c, m, e)
      PROVE  editor'[d] = editor[d] /\ counter'[d] = counter[d]
  <2>1. \A r \in Replicas : editor'[r] = IF r = c THEN e ELSE editor[r]
    BY <1>4, EnteredFacts
  <2>2. counter' = counter /\ joined' = joined \cup {c}
    BY <1>4 DEF Entered
  <2>3. c # d
    BY <2>2
  <2>. QED
    BY <1>0, <2>1, <2>2, <2>3
<1>5. ASSUME NEW w \in Workers, NEW c \in Clients, NEW m, NEW e, Served(w, c, m, e)
      PROVE  editor'[d] = editor[d] /\ counter'[d] = counter[d]
  <2>1. editor'[d] = editor[d]
    BY <1>5, ServedFacts
  <2>. QED
    BY <1>5, <2>1 DEF Served
<1>6. ASSUME NEW w \in Workers, WorkerStep(w)
      PROVE  editor'[d] = editor[d] /\ counter'[d] = counter[d]
  BY <1>5, <1>6 DEF WorkerStep, Admitted, PostNext, Dispatch
<1>. QED
  BY <1>2, <1>3, <1>4, <1>6 DEF Step, RemoteStep

LEMMA JoiningKept ==
    ASSUME Inv, Step, Types'
    PROVE  Joining'
<1>. DEFINE S == Message \cup {Open}
            D == Message \cup Document
<1>0. /\ joined \subseteq joined' /\ editing \subseteq editing'
      /\ joined \subseteq editing /\ editing \subseteq Clients /\ editing' \subseteq Clients
      /\ joined' \subseteq editing
      /\ \A d \in Clients : up[d] \in Seq(S) /\ down[d] \in Seq(D)
      /\ \A m \in Message : m \in S /\ m \in D /\ m # Open /\ m \notin Document
  BY TypesOf, JoinedCases, MessageFields DEF Inv, Types
<1>. HIDE DEF S, D
<1>1. /\ \A c \in Clients : c \notin joined => counter[c] = 0 /\ editor[c] = EditorOf(<< >>)
      /\ \A c \in Clients : c \notin editing => down[c] = << >> /\ up[c] \in {<< >>, <<Open>>}
      /\ \A c \in editing : Open \notin ToSet(up[c])
      /\ \A c \in editing \ joined : up[c] = << >> /\ down[c] # << >> /\ down[c][1] \in Document
      /\ \A c \in Clients : \A i \in DOMAIN down[c] :
            down[c][i] \in Document => i = 1 /\ c \notin joined
  BY DEF Inv, Joining
<1>2. ASSUME NEW c \in Clients, c \notin joined'
      PROVE  counter'[c] = 0 /\ editor'[c] = EditorOf(<< >>)
  BY <1>0, <1>1, <1>2, OutsidersIdle
<1>3. ASSUME NEW c \in Clients, c \notin editing'
      PROVE  down'[c] = << >> /\ up'[c] \in {<< >>, <<Open>>}
  <2>1. c \notin editing /\ c \notin joined
    BY <1>0, <1>3
  <2>2. down'[c] = down[c]
    BY <1>3, <2>1, DownCases
  <2>3. up'[c] = up[c] \/ up'[c] = <<Open>> \/ up'[c] = << >>
    BY <2>1, UpCases
  <2>. QED
    BY <1>1, <2>1, <2>2, <2>3
<1>4. ASSUME NEW c \in editing' PROVE Open \notin ToSet(up'[c])
  <2>0. c \in Clients
    BY <1>0
  <2>1. CASE c \in editing' \ editing
    BY <2>1, JoinedCases, EmptyFacts
  <2>2. CASE c \in editing
    <3>1. Open \notin ToSet(up[c])
      BY <1>1, <2>2
    <3>2. ASSUME NEW x \in Message, up'[c] = Append(up[c], x) PROVE Open \notin ToSet(up'[c])
      <4>1. ToSet(up'[c]) = ToSet(up[c]) \cup {x}
        BY <1>0, <2>0, <3>2, AppendFacts
      <4>. QED
        BY <1>0, <3>1, <4>1
    <3>3. ASSUME up[c] # << >>, up'[c] = Tail(up[c]) PROVE Open \notin ToSet(up'[c])
      <4>1. ToSet(up[c]) = ToSet(up'[c]) \cup {Head(up[c])}
        BY <1>0, <2>0, <3>3, TailFacts
      <4>. QED
        BY <3>1, <4>1
    <3>4. ~(c \notin joined /\ up[c] = << >> /\ down[c] = << >>)
      BY <1>1, <2>2
    <3>. QED
      BY <2>0, <2>2, <3>1, <3>2, <3>3, <3>4, UpCases
  <2>. QED
    BY <2>1, <2>2
<1>5. ASSUME NEW c \in editing' \ joined'
      PROVE  up'[c] = << >> /\ down'[c] # << >> /\ down'[c][1] \in Document
  <2>0. c \in Clients /\ c \notin joined
    BY <1>0
  <2>1. CASE c \notin editing
    <3>1. PICK m \in Document : up'[c] = << >> /\ down'[c] = <<m>>
      BY <2>1, JoinedCases
    <3>. QED
      BY <3>1
  <2>2. CASE c \in editing
    <3>1. up[c] = << >> /\ down[c] # << >> /\ down[c][1] \in Document
      BY <1>1, <2>0, <2>2
    <3>2. up'[c] = << >>
      BY <2>0, <2>2, <3>1, UpCases
    <3>3. ASSUME NEW x \in Message, down'[c] = Append(down[c], x)
          PROVE  down'[c] # << >> /\ down'[c][1] = down[c][1]
      <4>1. x \in D /\ down[c] \in Seq(D)
        BY <1>0, <2>0
      <4>2. /\ Len(down[c]) \in Nat \ {0} /\ Len(down[c]) + 1 \in DOMAIN down'[c]
            /\ \A i \in 1 .. Len(down[c]) : down'[c][i] = down[c][i]
        BY <3>1, <3>3, <4>1, AppendFacts, TailFacts
      <4>. QED
        BY <4>2, EmptyFacts
    <3>4. down'[c] = down[c] \/ \E x \in Message : down'[c] = Append(down[c], x)
      BY <2>0, <2>2, <1>5, DownCases
    <3>. QED
      BY <3>1, <3>2, <3>3, <3>4
  <2>. QED
    BY <2>1, <2>2
<1>6. ASSUME NEW c \in Clients, NEW i \in DOMAIN down'[c], down'[c][i] \in Document
      PROVE  i = 1 /\ c \notin joined'
  <2>0. down[c] \in Seq(D) /\ Len(down[c]) \in Nat /\ DOMAIN down[c] = 1 .. Len(down[c])
    BY <1>0, SeqFacts
  <2>1. CASE down[c] # << >> /\ down'[c] = Tail(down[c])
    <3>1. /\ i \in 1 .. (Len(down[c]) - 1) /\ i + 1 \in DOMAIN down[c]
          /\ down'[c][i] = down[c][i + 1]
      BY <2>0, <2>1, TailFacts
    <3>2. i + 1 = 1
      BY <1>1, <1>6, <3>1
    <3>. QED
      BY <3>1, <3>2, <2>0
  <2>2. CASE c \in joined' \ joined
    BY <2>1, <2>2, JoinedCases
  <2>3. CASE (c \in joined <=> c \in joined') /\ down'[c] = down[c]
    BY <1>1, <1>6, <2>3
  <2>4. ASSUME c \in joined <=> c \in joined', NEW x \in Message, down'[c] = Append(down[c], x)
        PROVE  i = 1 /\ c \notin joined'
    <3>1. x \in D /\ x \notin Document
      BY <1>0
    <3>2. /\ DOMAIN down'[c] = 1 .. (Len(down[c]) + 1) /\ down'[c][Len(down[c]) + 1] = x
          /\ \A j \in 1 .. Len(down[c]) : down'[c][j] = down[c][j]
      BY <2>0, <2>4, <3>1, AppendFacts
    <3>3. i # Len(down[c]) + 1
      BY <1>6, <3>1, <3>2
    <3>4. i \in DOMAIN down[c] /\ down'[c][i] = down[c][i]
      BY <2>0, <3>2, <3>3
    <3>. QED
      BY <1>1, <1>6, <2>4, <3>4
  <2>5. ASSUME c \notin joined', NEW m \in Document, down'[c] = <<m>>
        PROVE  i = 1 /\ c \notin joined'
    BY <2>5
  <2>. QED
    BY <1>0, <2>1, <2>2, <2>3, <2>4, <2>5, DownCases
<1>. QED
  BY <1>2, <1>3, <1>4, <1>5, <1>6 DEF Joining

LEMMA SnapshotsKept ==
    ASSUME Inv, Step, Types'
    PROVE  Snapshots'
<1>. DEFINE D == Message \cup Document
<1>1. SUFFICES ASSUME NEW c \in Clients, NEW m \in ToSet(down'[c]), m \in Document
               PROVE  /\ Ascending(SymbolsOf(m.text))
                      /\ \A s \in ToSet(SymbolsOf(m.text)) : Received(editor[Server], s)'
  BY DEF Snapshots, Received
<1>2. /\ down[c] \in Seq(D) /\ SymbolsOf(m.text) \in Seq(Symbol)
      /\ \A x \in Message : x \in D /\ x \notin Document
  BY <1>1, TypesOf, DocumentFields, MessageFields DEF Inv
<1>. HIDE DEF D
<1>3. \A s \in ToSet(SymbolsOf(m.text)) : s \in Symbol
  BY <1>2, SeqFacts
<1>4. ASSUME m \in ToSet(down[c])
      PROVE  /\ Ascending(SymbolsOf(m.text))
             /\ \A s \in ToSet(SymbolsOf(m.text)) : Received(editor[Server], s)'
  <2>1. /\ Ascending(SymbolsOf(m.text))
        /\ \A s \in ToSet(SymbolsOf(m.text)) : Received(editor[Server], s)
    BY <1>1, <1>4 DEF Inv, Snapshots
  <2>. QED
    BY <1>3, <2>1, ServerLearns
<1>5. ASSUME SymbolsOf(m.text) = editor[Server].text
      PROVE  /\ Ascending(SymbolsOf(m.text))
             /\ \A s \in ToSet(SymbolsOf(m.text)) : Received(editor[Server], s)'
  <2>1. Ascending(editor[Server].text) /\ Server \in Replicas
    BY Constants DEF Inv, Replicated
  <2>2. \A s \in ToSet(SymbolsOf(m.text)) : s \in Symbol /\ Received(editor[Server], s)
    BY <1>5, <2>1, SymbolsKnown
  <2>. QED
    BY <1>5, <2>1, <2>2, ServerLearns
<1>6. ASSUME NEW x \in Message, down'[c] = Append(down[c], x) PROVE m \in ToSet(down[c])
  <2>1. ToSet(down'[c]) = ToSet(down[c]) \cup {x}
    BY <1>2, <1>6, AppendFacts
  <2>. QED
    BY <1>1, <1>2, <2>1
<1>7. ASSUME down[c] # << >>, down'[c] = Tail(down[c]) PROVE m \in ToSet(down[c])
  BY <1>1, <1>2, <1>7, TailFacts
<1>8. ASSUME NEW y \in Document, down'[c] = <<y>>, SymbolsOf(y.text) = editor[Server].text
      PROVE  SymbolsOf(m.text) = editor[Server].text
  <2>1. \A z : z \in ToSet(<<y>>) => z = y
    BY DEF ToSet
  <2>. QED
    BY <1>1, <1>8, <2>1
<1>. QED
  BY <1>1, <1>4, <1>5, <1>6, <1>7, <1>8, DownCases

-----------------------------------------------------------------------------
(* What clients ask for.                                                    *)
LEMMA RequestElements ==
    ASSUME NEW q \in Seq(Message \cup {Open})
    PROVE  /\ Len(q) \in Nat /\ DOMAIN q = 1 .. Len(q)
           /\ \A i \in DOMAIN q : q[i].type \in {"insert", "erase", "format"} =>
                 q[i] \in Message /\ q[i].symbol \in Symbol /\ q[i].symbol.n \in Nat
<1>. DEFINE S == Message \cup {Open}
<1>1. Len(q) \in Nat /\ DOMAIN q = 1 .. Len(q) /\ \A i \in 1 .. Len(q) : q[i] \in S
  <2>. HIDE DEF S
  <2>0. q \in Seq(S)
    BY DEF S
  <2>. QED
    BY <2>0, SeqFacts
<1>2. \A x \in S : x.type \in {"insert", "erase", "format"} => x \in Message
  BY OpenIsOpen
<1>3. \A x \in Message : x.symbol \in Symbol
  BY MessageFields
<1>4. \A s \in Symbol : s.n \in Nat
  BY SymbolFields
<1>. QED
  BY <1>1, <1>2, <1>3, <1>4

LEMMA RequestInsert ==
    ASSUME NEW c, NEW q \in Seq(Message \cup {Open}), NEW k \in Nat, NEW ed,
           RequestsOf(c, q, k, ed), NEW s \in Symbol, s.site = c, s.n = k, ~Received(ed, s),
           NEW f \in Formats
    PROVE  RequestsOf(c, Append(q, Insert(s, f)), k + 1, ed)
<1>. DEFINE x == Insert(s, f)
            u == Append(q, x)
            n == Len(q)
            S == Message \cup {Open}
<1>1. x \in S /\ x.type = "insert" /\ x.symbol = s
  BY MessagesMade
<1>2. /\ n \in Nat /\ DOMAIN q = 1 .. n /\ DOMAIN u = 1 .. (n + 1) /\ u[n + 1] = x
      /\ \A i \in 1 .. n : u[i] = q[i]
  <2>. HIDE DEF x, S
  <2>0. q \in Seq(S)
    BY DEF S
  <2>. QED
    BY <1>1, <2>0, AppendFacts
<1>3. \A i \in DOMAIN q : q[i].type \in {"insert", "erase", "format"} => q[i].symbol.n \in Nat
  BY RequestElements
<1>. HIDE DEF x, u, n
<1>4. ASSUME NEW i \in 1 .. n, u[i].type = "insert"
      PROVE  /\ u[i].symbol.site = c /\ u[i].symbol.n < k + 1
             /\ ~Received(ed, u[i].symbol)
             /\ \A j \in DOMAIN u : j < i /\ u[j].type = "insert" => u[j].symbol.n < u[i].symbol.n
  BY <1>2, <1>3, <1>4 DEF RequestsOf
<1>5. ASSUME NEW i \in 1 .. n, u[i].type \in {"erase", "format"}
      PROVE  \/ Received(ed, u[i].symbol)
             \/ \E j \in DOMAIN u : j < i /\ u[j].type = "insert" /\ u[j].symbol = u[i].symbol
  <2>1. CASE Received(ed, q[i].symbol)
    BY <1>2, <2>1
  <2>2. ASSUME NEW j \in DOMAIN q, j < i, q[j].type = "insert", q[j].symbol = q[i].symbol
        PROVE  \E h \in DOMAIN u : h < i /\ u[h].type = "insert" /\ u[h].symbol = u[i].symbol
    <3>1. j \in DOMAIN u /\ u[j] = q[j] /\ u[i] = q[i]
      BY <1>2
    <3>. QED
      BY <2>2, <3>1
  <2>. QED
    BY <1>2, <1>5, <2>1, <2>2 DEF RequestsOf
<1>6. /\ u[n + 1].symbol.site = c /\ u[n + 1].symbol.n < k + 1
      /\ ~Received(ed, u[n + 1].symbol)
      /\ \A j \in DOMAIN u : j < n + 1 /\ u[j].type = "insert" => u[j].symbol.n < u[n + 1].symbol.n
  BY <1>1, <1>2 DEF RequestsOf
<1>7. u[n + 1].type = "insert"
  BY <1>1, <1>2
<1>8. \A i \in DOMAIN u : i = n + 1 \/ i \in 1 .. n
  BY <1>2
<1>9. RequestsOf(c, u, k + 1, ed)
  BY <1>4, <1>5, <1>6, <1>7, <1>8 DEF RequestsOf
<1>. QED
  BY <1>9 DEF u, x

LEMMA RequestOther ==
    ASSUME NEW c, NEW q \in Seq(Message \cup {Open}), NEW k \in Nat, NEW ed,
           RequestsOf(c, q, k, ed), NEW x \in Message, x.type # "insert",
           \/ Received(ed, x.symbol)
           \/ \E j \in DOMAIN q : q[j].type = "insert" /\ q[j].symbol = x.symbol
    PROVE  RequestsOf(c, Append(q, x), k, ed)
<1>. DEFINE u == Append(q, x)
            n == Len(q)
            S == Message \cup {Open}
<1>2. /\ n \in Nat /\ DOMAIN q = 1 .. n /\ DOMAIN u = 1 .. (n + 1) /\ u[n + 1] = x
      /\ \A i \in 1 .. n : u[i] = q[i]
  <2>0. q \in Seq(S) /\ x \in S
    OBVIOUS
  <2>. HIDE DEF S
  <2>. QED
    BY <2>0, AppendFacts
<1>. HIDE DEF u, n
<1>4. ASSUME NEW i \in 1 .. n, u[i].type = "insert"
      PROVE  /\ u[i].symbol.site = c /\ u[i].symbol.n < k
             /\ ~Received(ed, u[i].symbol)
             /\ \A j \in DOMAIN u : j < i /\ u[j].type = "insert" => u[j].symbol.n < u[i].symbol.n
  BY <1>2, <1>4 DEF RequestsOf
<1>5. ASSUME NEW i \in 1 .. n, u[i].type \in {"erase", "format"}
      PROVE  \/ Received(ed, u[i].symbol)
             \/ \E j \in DOMAIN u : j < i /\ u[j].type = "insert" /\ u[j].symbol = u[i].symbol
  <2>1. CASE Received(ed, q[i].symbol)
    BY <1>2, <2>1
  <2>2. ASSUME NEW j \in DOMAIN q, j < i, q[j].type = "insert", q[j].symbol = q[i].symbol
        PROVE  \E h \in DOMAIN u : h < i /\ u[h].type = "insert" /\ u[h].symbol = u[i].symbol
    <3>1. j \in DOMAIN u /\ u[j] = q[j] /\ u[i] = q[i]
      BY <1>2
    <3>. QED
      BY <2>2, <3>1
  <2>. QED
    BY <1>2, <1>5, <2>1, <2>2 DEF RequestsOf
<1>6. \/ Received(ed, u[n + 1].symbol)
      \/ \E j \in DOMAIN u : j < n + 1 /\ u[j].type = "insert" /\ u[j].symbol = u[n + 1].symbol
  <2>1. ASSUME NEW j \in DOMAIN q, q[j].type = "insert", q[j].symbol = x.symbol
        PROVE  \E h \in DOMAIN u : h < n + 1 /\ u[h].type = "insert" /\ u[h].symbol = x.symbol
    <3>1. j \in DOMAIN u /\ u[j] = q[j] /\ j < n + 1
      BY <1>2
    <3>. QED
      BY <2>1, <3>1
  <2>. QED
    BY <1>2, <2>1
<1>7. u[n + 1].type # "insert"
  BY <1>2
<1>8. \A i \in DOMAIN u : i = n + 1 \/ i \in 1 .. n
  BY <1>2
<1>9. RequestsOf(c, u, k, ed)
  BY <1>4, <1>5, <1>6, <1>7, <1>8 DEF RequestsOf
<1>. QED
  BY <1>9 DEF u

LEMMA RequestServed ==
    ASSUME NEW c, NEW q \in Seq(Message \cup {Open}), q # << >>, NEW k \in Nat, NEW ed,
           RequestsOf(c, q, k, ed), NEW e, NEW m \in Message, m = q[1],
           \A x \in Symbol : Received(ed, x) => Received(e, x),
           \A x \in Symbol : Received(e, x) /\ ~Received(ed, x) =>
                 m.type = "insert" /\ x.n <= m.symbol.n,
           Received(e, m.symbol)
    PROVE  RequestsOf(c, Tail(q), k, e)
<1>. DEFINE u == Tail(q)
            n == Len(q)
            S == Message \cup {Open}
<1>2. /\ n \in Nat \ {0} /\ DOMAIN q = 1 .. n /\ DOMAIN u = 1 .. (n - 1) /\ 1 \in DOMAIN q
      /\ \A i \in 1 .. (n - 1) : u[i] = q[i + 1]
  <2>0. q \in Seq(S)
    OBVIOUS
  <2>. HIDE DEF S
  <2>. QED
    BY <2>0, TailFacts
<1>3. \A i \in DOMAIN q : q[i].type \in {"insert", "erase", "format"} =>
         q[i].symbol \in Symbol /\ q[i].symbol.n \in Nat
  BY RequestElements
<1>. HIDE DEF u, n
<1>4. ASSUME NEW i \in DOMAIN u, u[i].type = "insert"
      PROVE  /\ u[i].symbol.site = c /\ u[i].symbol.n < k
             /\ ~Received(e, u[i].symbol)
             /\ \A j \in DOMAIN u : j < i /\ u[j].type = "insert" => u[j].symbol.n < u[i].symbol.n
  <2>1. i + 1 \in DOMAIN q /\ u[i] = q[i + 1] /\ 1 < i + 1
    BY <1>2
  <2>2. u[i].symbol.site = c /\ u[i].symbol.n < k /\ ~Received(ed, u[i].symbol)
    BY <1>4, <2>1 DEF RequestsOf
  <2>3. ~Received(e, u[i].symbol)
    <3>1. m.type = "insert" => m.symbol.n < u[i].symbol.n
      BY <1>2, <1>4, <2>1 DEF RequestsOf
    <3>2. u[i].symbol \in Symbol /\ u[i].symbol.n \in Nat
          /\ (m.type = "insert" => m.symbol.n \in Nat)
      BY <1>2, <1>3, <1>4, <2>1
    <3>. QED
      BY <2>2, <3>1, <3>2
  <2>4. ASSUME NEW j \in DOMAIN u, j < i, u[j].type = "insert"
        PROVE  u[j].symbol.n < u[i].symbol.n
    <3>1. j + 1 \in DOMAIN q /\ u[j] = q[j + 1] /\ j + 1 < i + 1
      BY <1>2, <2>4
    <3>. QED
      BY <1>4, <2>1, <2>4, <3>1 DEF RequestsOf
  <2>. QED
    BY <2>2, <2>3, <2>4
<1>5. ASSUME NEW i \in DOMAIN u, u[i].type \in {"erase", "format"}
      PROVE  \/ Received(e, u[i].symbol)
             \/ \E j \in DOMAIN u : j < i /\ u[j].type = "insert" /\ u[j].symbol = u[i].symbol
  <2>1. i + 1 \in DOMAIN q /\ u[i] = q[i + 1] /\ u[i].symbol \in Symbol
    BY <1>2, <1>3, <1>5
  <2>2. ASSUME NEW j \in DOMAIN q, j < i + 1, q[j].type = "insert", q[j].symbol = u[i].symbol
        PROVE  \/ Received(e, u[i].symbol)
               \/ \E h \in DOMAIN u : h < i /\ u[h].type = "insert" /\ u[h].symbol = u[i].symbol
    <3>1. CASE j = 1
      BY <2>2, <3>1
    <3>2. CASE j # 1
      <4>1. j - 1 \in DOMAIN u /\ u[j - 1] = q[j] /\ j - 1 < i
        BY <1>2, <2>2, <3>2
      <4>. QED
        BY <2>2, <4>1
    <3>. QED
      BY <3>1, <3>2
  <2>3. CASE Received(ed, u[i].symbol)
    BY <2>1, <2>3
  <2>. QED
    BY <1>5, <2>1, <2>2, <2>3 DEF RequestsOf
<1>6. RequestsOf(c, u, k, e)
  BY <1>4, <1>5 DEF RequestsOf
<1>. QED
  BY <1>6 DEF u

LEMMA RequestsKept ==
    ASSUME Inv, Step
    PROVE  Requests'
<1>0. /\ up \in [Clients -> Seq(Message \cup {Open})] /\ counter \in [Clients -> Nat]
      /\ DefaultFormat \in Formats /\ \A c \in Clients : c \in Replicas
      /\ \A c \in Clients : up[c] \in Seq(Message \cup {Open}) /\ counter[c] \in Nat
  BY Constants DEF Inv, Types
<1>1. \A c \in Clients : RequestsOf(c, up[c], counter[c], editor[Server])
  BY DEF Inv, Requests
<1>2. ASSUME UNCHANGED <<up, counter>>, editor'[Server] = editor[Server]
      PROVE  Requests'
  BY <1>1, <1>2 DEF Requests
<1>3. ASSUME NEW c \in Clients, NEW s, NEW e, Typed(c, s, e) PROVE Requests'
  <2>1. /\ Edit(c, e) /\ s \in Symbol /\ s.site = c /\ s.n = counter[c]
        /\ up' = [up EXCEPT ![c] = Append(@, Insert(s, DefaultFormat))]
        /\ counter' = [counter EXCEPT ![c] = @ + 1]
    BY <1>3 DEF Typed
  <2>2. editor'[Server] = editor[Server]
    BY <2>1, EditFacts
  <2>3. ~Received(editor[Server], s)
    <3>1. editor[Server].vv[c] < counter[c] /\ editor[Server].vv[c] \in Int
      BY SymbolsKnown, Constants DEF Inv, Counted
    <3>. QED
      BY <1>0, <2>1, <3>1 DEF Received
  <2>4. RequestsOf(c, Append(up[c], Insert(s, DefaultFormat)), counter[c] + 1, editor[Server])
    BY <1>0, <1>1, <2>1, <2>3, RequestInsert
  <2>5. \A d \in Clients : RequestsOf(d, up'[d], counter'[d], editor[Server])
    BY <1>0, <1>1, <2>1, <2>4
  <2>. QED
    BY <2>2, <2>5 DEF Requests
<1>4. ASSUME NEW c \in Clients, NEW s, s \in ToSet(editor[c].text),
             NEW x \in Message, x.type # "insert", x.symbol = s,
             up' = [up EXCEPT ![c] = Append(@, x)], counter' = counter,
             editor'[Server] = editor[Server]
      PROVE  Requests'
  <2>1. \/ Received(editor[Server], s)
        \/ \E j \in DOMAIN up[c] : up[c][j].type = "insert" /\ up[c][j].symbol = s
    <3>1. Received(editor[Server], s) \/ Sending(c, s)
      BY <1>4 DEF Inv, Known
    <3>2. ASSUME NEW f \in Formats, Insert(s, f) \in ToSet(up[c])
          PROVE  \E j \in DOMAIN up[c] : up[c][j].type = "insert" /\ up[c][j].symbol = s
      <4>1. Insert(s, f).type = "insert" /\ Insert(s, f).symbol = s
        BY DEF Insert
      <4>. QED
        BY <3>2, <4>1 DEF ToSet
    <3>. QED
      BY <3>1, <3>2 DEF Sending
  <2>2. RequestsOf(c, Append(up[c], x), counter[c], editor[Server])
    BY <1>0, <1>1, <1>4, <2>1, RequestOther
  <2>3. \A d \in Clients : RequestsOf(d, up'[d], counter'[d], editor[Server])
    BY <1>0, <1>1, <1>4, <2>2
  <2>. QED
    BY <1>4, <2>3 DEF Requests
<1>5. ASSUME NEW c \in Clients, NEW s, NEW e, Deleted(c, s, e) PROVE Requests'
  <2>1. /\ s \in ToSet(editor[c].text) /\ up' = [up EXCEPT ![c] = Append(@, Erase(s))]
        /\ counter' = counter /\ Edit(c, e)
    BY <1>5 DEF Deleted
  <2>2. s \in Symbol /\ editor'[Server] = editor[Server]
    BY <1>0, <2>1, SymbolsKnown, EditFacts
  <2>3. Erase(s) \in Message /\ Erase(s).type = "erase" /\ Erase(s).symbol = s
    BY <1>0, <2>2, MessagesMade
  <2>. QED
    BY <1>4, <2>1, <2>2, <2>3
<1>6. ASSUME NEW c \in Clients, NEW s, NEW f, Marked(c, s, f) PROVE Requests'
  <2>1. /\ s \in ToSet(editor[c].text) /\ up' = [up EXCEPT ![c] = Append(@, Format(s, f))]
        /\ counter' = counter /\ Edit(c, editor[c]) /\ f \in Formats
    BY <1>6 DEF Marked
  <2>2. s \in Symbol /\ editor'[Server] = editor[Server]
    BY <1>0, <2>1, SymbolsKnown, EditFacts
  <2>3. Format(s, f) \in Message /\ Format(s, f).type = "format" /\ Format(s, f).symbol = s
    BY <2>1, <2>2, MessagesMade
  <2>. QED
    BY <1>4, <2>1, <2>2, <2>3
<1>7. ASSUME NEW c \in Clients, RequestOpen(c) PROVE Requests'
  <2>1. /\ up[c] = << >> /\ up' = [up EXCEPT ![c] = Append(up[c], Open)]
        /\ UNCHANGED <<editor, counter>>
    BY <1>7 DEF RequestOpen
  <2>2. Append(up[c], Open) = <<Open>>
    BY <2>1
  <2>3. \A i \in DOMAIN <<Open>> : <<Open>>[i].type = "open"
    BY OpenIsOpen
  <2>4. RequestsOf(c, <<Open>>, counter[c], editor[Server])
    BY <2>3 DEF RequestsOf
  <2>5. \A d \in Clients : up'[d] = IF d = c THEN <<Open>> ELSE up[d]
    BY <1>0, <2>1, <2>2
  <2>6. \A d \in Clients : RequestsOf(d, up'[d], counter'[d], editor[Server])
    BY <1>1, <2>1, <2>4, <2>5
  <2>. QED
    BY <2>1, <2>6 DEF Requests
<1>8. ASSUME NEW w \in Workers, NEW c \in Clients, NEW m, Admitted(w, c, m) PROVE Requests'
  <2>1. up' = [up EXCEPT ![c] = << >>] /\ UNCHANGED <<editor, counter>>
    BY <1>8 DEF Admitted
  <2>2. RequestsOf(c, << >>, counter[c], editor[Server])
    BY EmptyFacts DEF RequestsOf
  <2>3. \A d \in Clients : RequestsOf(d, up'[d], counter'[d], editor[Server])
    BY <1>0, <1>1, <2>1, <2>2
  <2>. QED
    BY <2>1, <2>3 DEF Requests
<1>9. ASSUME NEW w \in Workers, NEW c \in Clients, NEW m, NEW e, Served(w, c, m, e)
      PROVE  Requests'
  <2>1. /\ editor'[Server] = e
        /\ m \in Message /\ up[c] # << >> /\ up[c][1] = m
        /\ Received(e, m.symbol)
        /\ \A x \in Symbol : Received(editor[Server], x) => Received(e, x)
        /\ \A x \in Symbol : Received(e, x) /\ ~Received(editor[Server], x) =>
              m.type = "insert" /\ x.site = c /\ x.n <= m.symbol.n
    BY <1>9, ServedFacts
  <2>2. Channels(w, c, m) /\ counter' = counter
    BY <1>9, ServedChannels DEF Served
  <2>3. up'[c] = Tail(up[c]) /\ \A d \in Clients : d # c => up'[d] = up[d]
    BY <2>2 DEF Channels
  <2>4. RequestsOf(c, Tail(up[c]), counter[c], e)
    BY <1>0, <1>1, <2>1, RequestServed
  <2>5. ASSUME NEW d \in Clients, d # c PROVE RequestsOf(d, up[d], counter[d], e)
    <3>0. RequestsOf(d, up[d], counter[d], editor[Server])
      BY <1>1
    <3>1. \A i \in DOMAIN up[d] : up[d][i].type \in {"insert", "erase", "format"} =>
             up[d][i].symbol \in Symbol
      BY <1>0, RequestElements
    <3>. QED
      BY <2>1, <2>5, <3>0, <3>1 DEF RequestsOf
  <2>6. \A d \in Clients : RequestsOf(d, up'[d], counter'[d], e)
    BY <2>2, <2>3, <2>4, <2>5
  <2>. QED
    BY <2>1, <2>6 DEF Requests
<1>10. ASSUME NEW c \in Clients, LocalStep(c) PROVE Requests'
  <2>1. ASSUME Overtyped(c) PROVE Requests'
    BY <1>2, <2>1, EditFacts DEF Overtyped
  <2>. QED
    BY <1>3, <1>5, <1>6, <1>7, <1>10, <2>1 DEF LocalStep
<1>11. ASSUME NEW c \in Clients, RemoteStep(c) PROVE Requests'
  <2>1. editor'[Server] = editor[Server]
    BY <1>11, HeardFacts, EnteredFacts DEF RemoteStep
  <2>. QED
    BY <1>2, <1>11, <2>1 DEF RemoteStep, Heard, Entered
<1>12. ASSUME NEW w \in Workers, WorkerStep(w) PROVE Requests'
  BY <1>2, <1>8, <1>9, <1>12 DEF WorkerStep, PostNext, Dispatch
<1>. QED
  BY <1>10, <1>11, <1>12 DEF Step

-----------------------------------------------------------------------------
(* Where the messages under way come from and go to.                        *)
LEMMA FlyingCases ==
    ASSUME Inv, Step, NEW x \in Message
    PROVE  /\ Flying(x)' => \/ Flying(x)
                            \/ \E w \in Workers, c \in Clients : \E e : Served(w, c, x, e)
           /\ \A d \in Clients : UnderWay(x, d)' =>
                 \/ UnderWay(x, d)
                 \/ \E w \in Workers, c \in Clients : \E e : c # d /\ Served(w, c, x, e)
           /\ \A d \in editing : UnderWay(x, d) => UnderWay(x, d)' \/ \E e : Heard(d, x, e)
<1>. DEFINE P == /\ Flying(x)' => \/ Flying(x)
                                  \/ \E w \in Workers, c \in Clients : \E e : Served(w, c, x, e)
                 /\ \A d \in Clients : UnderWay(x, d)' =>
                       \/ UnderWay(x, d)
                       \/ \E w \in Workers, c \in Clients : \E e : c # d /\ Served(w, c, x, e)
                 /\ \A d \in editing : UnderWay(x, d) => UnderWay(x, d)' \/ \E e : Heard(d, x, e)
<1>0. editing \subseteq Clients
  BY DEF Inv, Types
<1>1. ASSUME Flying(x)' => Flying(x), \A d \in Clients : UnderWay(x, d)' => UnderWay(x, d),
             \A d \in editing : UnderWay(x, d) => UnderWay(x, d)'
      PROVE  P
  BY <1>1
<1>2. ASSUME UNCHANGED <<down, queue, posting>> PROVE P
  <2>1. Flying(x)' => Flying(x)
    BY <1>2 DEF Flying
  <2>2. \A d \in Clients : UnderWay(x, d)' <=> UnderWay(x, d)
    BY <1>2 DEF UnderWay
  <2>. HIDE DEF P
  <2>. QED
    BY <1>0, <1>1, <2>1, <2>2
<1>3. ASSUME NEW c \in Clients, LocalStep(c) PROVE P
  <2>1. UNCHANGED <<down, queue, posting>>
    BY <1>3 DEF LocalStep, Typed, Deleted, Marked, Overtyped, Edit, RequestOpen
  <2>. QED
    BY <1>2, <2>1
<1>4. ASSUME NEW c \in Clients, NEW m, NEW e, Heard(c, m, e) PROVE P
  <2>1. /\ down[c] # << >> /\ down' = [down EXCEPT ![c] = Tail(@)] /\ Head(down[c]) = m
        /\ UNCHANGED <<queue, posting>>
    BY <1>4 DEF Heard
  <2>2. /\ Flying(x)' => Flying(x)
        /\ \A d \in Clients :
              /\ UnderWay(x, d)' => UnderWay(x, d)
              /\ UnderWay(x, d) => UnderWay(x, d)' \/ (d = c /\ x = m)
    BY <2>1, TakenTransport
  <2>3. \A d \in editing : UnderWay(x, d) => UnderWay(x, d)' \/ Heard(d, x, e)
    BY <1>0, <1>4, <2>2
  <2>. QED
    BY <2>2, <2>3
<1>5. ASSUME NEW c \in Clients, NEW m, NEW e, Entered(c, m, e) PROVE P
  <2>1. /\ down[c] # << >> /\ down' = [down EXCEPT ![c] = Tail(@)] /\ Head(down[c]) = m
        /\ m \in Document /\ UNCHANGED <<queue, posting>>
    BY <1>5 DEF Entered
  <2>2. x # m
    BY <2>1, MessageFields
  <2>3. /\ Flying(x)' => Flying(x)
        /\ \A d \in Clients :
              /\ UnderWay(x, d)' => UnderWay(x, d)
              /\ UnderWay(x, d) => UnderWay(x, d)'
    BY <2>1, <2>2, TakenTransport
  <2>. HIDE DEF P
  <2>. QED
    BY <1>0, <1>1, <2>3
<1>6. ASSUME NEW w \in Workers, NEW c \in Clients, NEW m, NEW e, Served(w, c, m, e) PROVE P
  <2>1. /\ Flying(x)' => Flying(x) \/ x = m
        /\ \A d \in Clients :
              /\ UnderWay(x, d)' => UnderWay(x, d) \/ (x = m /\ d # c)
              /\ UnderWay(x, d) => UnderWay(x, d)'
    BY <1>6, ServedTransport
  <2>2. x = m => Served(w, c, x, e)
    BY <1>6
  <2>3. Flying(x)' => \/ Flying(x)
                      \/ \E v \in Workers, b \in Clients : \E y : Served(v, b, x, y)
    BY <2>1, <2>2
  <2>4. \A d \in Clients : UnderWay(x, d)' =>
           \/ UnderWay(x, d)
           \/ \E v \in Workers, b \in Clients : \E y : b # d /\ Served(v, b, x, y)
    BY <2>1, <2>2
  <2>. QED
    BY <1>0, <2>1, <2>3, <2>4
<1>7. ASSUME NEW w \in Workers, NEW c \in Clients, NEW m, Admitted(w, c, m) PROVE P
  <2>1. /\ Flying(x)' => Flying(x)
        /\ \A d \in Clients : UnderWay(x, d)' <=> UnderWay(x, d)
    BY <1>7, AdmittedTransport
  <2>. HIDE DEF P
  <2>. QED
    BY <1>0, <1>1, <2>1
<1>8. ASSUME NEW w \in Workers, PostNext(w) PROVE P
  <2>1. /\ Flying(x)' => Flying(x)
        /\ \A d \in Clients : UnderWay(x, d)' <=> UnderWay(x, d)
    BY <1>8, PostNextTransport
  <2>. HIDE DEF P
  <2>. QED
    BY <1>0, <1>1, <2>1
<1>9. ASSUME NEW w \in Workers, Dispatch(w) PROVE P
  <2>1. /\ Flying(x)' => Flying(x)
        /\ \A d \in Clients : UnderWay(x, d)' => UnderWay(x, d)
        /\ \A d \in editing : UnderWay(x, d) => UnderWay(x, d)'
    BY <1>9, DispatchTransport
  <2>. HIDE DEF P
  <2>. QED
    BY <1>1, <2>1
<1>. HIDE DEF P
<1>10. P
  BY <1>3, <1>4, <1>5, <1>6, <1>7, <1>8, <1>9 DEF Step, RemoteStep, WorkerStep
<1>. QED
  BY <1>10 DEF P

(* What the server shows comes from inserts that it serves. *)
LEMMA ServerShows ==
    ASSUME Inv, Step, NEW x \in ToSet(editor'[Server].text)
    PROVE  \/ x \in ToSet(editor[Server].text)
           \/ \E w \in Workers, c \in Clients : \E m, e :
                 Served(w, c, m, e) /\ m.type = "insert" /\ m.symbol = x
<1>1. ASSUME NEW w \in Workers, NEW c \in Clients, NEW m, NEW e, Served(w, c, m, e)
      PROVE  x \in ToSet(editor[Server].text) \/ (m.type = "insert" /\ m.symbol = x)
  <2>1. /\ editor'[Server] = e
        /\ m.type \in {"insert", "erase", "format"}
        /\ m.type = "insert" => ToSet(e.text) = ToSet(editor[Server].text) \cup {m.symbol}
        /\ m.type = "erase" => ToSet(e.text) = ToSet(editor[Server].text) \ {m.symbol}
        /\ m.type = "format" => e = editor[Server]
    BY <1>1, ServedFacts, MessageFields
  <2>. QED
    BY <2>1
<1>2. ASSUME NEW c \in Clients, LocalStep(c) PROVE editor'[Server] = editor[Server]
  BY <1>2, EditFacts DEF LocalStep, Typed, Deleted, Marked, Overtyped, RequestOpen
<1>3. ASSUME NEW c \in Clients, RemoteStep(c) PROVE editor'[Server] = editor[Server]
  BY <1>3, HeardFacts, EnteredFacts DEF RemoteStep
<1>4. ASSUME NEW w \in Workers, WorkerStep(w)
      PROVE  \/ editor' = editor
             \/ \E c \in Clients : \E m, e : Served(w, c, m, e)
  BY <1>4 DEF WorkerStep, Admitted, PostNext, Dispatch
<1>. QED
  BY <1>1, <1>2, <1>3, <1>4 DEF Step

(* What a client is sending stays until it is served. *)
LEMMA SentOrServed ==
    ASSUME Inv, Step, NEW d \in Clients, NEW x \in Message, x \in ToSet(up[d])
    PROVE  \/ x \in ToSet(up'[d])
           \/ \E w \in Workers : \E e : Served(w, d, x, e) /\ up[d] # << >> /\ x = up[d][1]
<1>0. /\ up \in [Clients -> Seq(Message \cup {Open})] /\ up[d] \in Seq(Message \cup {Open})
      /\ x # Open
  BY TypesOf, MessageFields DEF Inv, Types
<1>. DEFINE S == Message \cup {Open}
<1>1. ASSUME NEW y \in S, up'[d] = Append(up[d], y) PROVE x \in ToSet(up'[d])
  <2>0. up[d] \in Seq(S)
    BY <1>0
  <2>. HIDE DEF S
  <2>1. ToSet(up'[d]) = ToSet(up[d]) \cup {y}
    BY <1>1, <2>0, AppendFacts
  <2>. QED
    BY <2>1
<1>2. ASSUME up[d] \in {<< >>, <<Open>>} PROVE FALSE
  <2>1. \A y : y \in ToSet(<<Open>>) => y = Open
    BY DEF ToSet
  <2>. QED
    BY <1>0, <1>2, <2>1, EmptyFacts
<1>3. ASSUME up[d] # << >>, up'[d] = Tail(up[d])
      PROVE  x \in ToSet(up'[d]) \/ (x = Head(up[d]) /\ x = up[d][1])
  <2>0. up[d] \in Seq(S)
    BY <1>0
  <2>. HIDE DEF S
  <2>1. ToSet(up[d]) = ToSet(up'[d]) \cup {Head(up[d])} /\ Head(up[d]) = up[d][1]
    BY <1>3, <2>0, TailFacts
  <2>. QED
    BY <2>1
<1>4. d \in editing /\ up[d] # << >>
  BY <1>2 DEF Inv, Joining
<1>. QED
  BY <1>1, <1>3, <1>4, UpCases

(* A symbol that is being sent is not known to the server, and is still     *)
(* being sent after a step or has been served.                              *)
LEMMA SendingFacts ==
    ASSUME Inv, NEW c \in Clients, NEW s \in Symbol, Sending(c, s)
    PROVE  /\ ~Received(editor[Server], s) /\ s.site = c /\ c \in joined
           /\ Step => Sending(c, s)' \/ Received(editor[Server], s)'
<1>1. PICK f \in Formats : Insert(s, f) \in ToSet(up[c])
  BY DEF Sending
<1>2. /\ Insert(s, f) \in Message /\ Insert(s, f).type = "insert" /\ Insert(s, f).symbol = s
      /\ Insert(s, f) # Open
  BY MessagesMade, MessageFields
<1>3. \E i \in DOMAIN up[c] : up[c][i] = Insert(s, f)
  BY <1>1 DEF ToSet
<1>4. ~Received(editor[Server], s) /\ s.site = c
  BY <1>2, <1>3 DEF Inv, Requests, RequestsOf
<1>5. up[c] \notin {<< >>, <<Open>>}
  <2>1. \A y : y \in ToSet(<<Open>>) => y = Open
    BY DEF ToSet
  <2>. QED
    BY <1>1, <1>2, <2>1, EmptyFacts
<1>6. c \in joined
  <2>1. c \in editing
    BY <1>5 DEF Inv, Joining
  <2>. QED
    BY <1>5, <2>1 DEF Inv, Joining
<1>7. ASSUME NEW w \in Workers, NEW e, Served(w, c, Insert(s, f), e)
      PROVE  Received(editor[Server], s)'
  <2>1. editor'[Server] = e /\ Received(e, Insert(s, f).symbol)
    BY <1>7, ServedFacts
  <2>. QED
    BY <1>2, <2>1 DEF Received
<1>8. ASSUME Step PROVE Sending(c, s)' \/ Received(editor[Server], s)'
  <2>1. CASE Insert(s, f) \in ToSet(up'[c])
    BY <2>1 DEF Sending
  <2>2. CASE Insert(s, f) \notin ToSet(up'[c])
    BY <1>1, <1>2, <1>7, <1>8, <2>2, SentOrServed
  <2>. QED
    BY <2>1, <2>2
<1>. QED
  BY <1>4, <1>6, <1>8

LEMMA KnownKept ==
    ASSUME Inv, Step
    PROVE  Known'
<1>0. /\ up \in [Clients -> Seq(Message \cup {Open})] /\ Clients \subseteq Replicas
      /\ DefaultFormat \in Formats /\ editor \in [Replicas -> Editor]
  BY Constants DEF Inv, Types
<1>1. ASSUME NEW c \in Clients, NEW s \in ToSet(editor[c].text)
      PROVE  Received(editor[Server], s)' \/ Sending(c, s)'
  <2>1. s \in Symbol
    BY <1>0, SymbolsKnown
  <2>2. Received(editor[Server], s) \/ Sending(c, s)
    BY DEF Inv, Known
  <2>. QED
    BY <2>1, <2>2, SendingFacts, ServerLearns
<1>2. SUFFICES ASSUME NEW c \in Clients, NEW s \in ToSet(editor'[c].text),
                      s \notin ToSet(editor[c].text)
               PROVE  Received(editor[Server], s)' \/ Sending(c, s)'
  BY <1>1 DEF Known
<1>3. ASSUME NEW d \in Clients, NEW x, NEW e, Typed(d, x, e) PROVE Sending(c, s)'
  <2>1. /\ Edit(d, e) /\ ToSet(e.text) = ToSet(editor[d].text) \cup {x} /\ x \in Symbol
        /\ up' = [up EXCEPT ![d] = Append(@, Insert(x, DefaultFormat))]
    BY <1>3 DEF Typed
  <2>2. \A r \in Replicas : editor'[r] = IF r = d THEN e ELSE editor[r]
    BY <2>1, EditFacts
  <2>3. c = d /\ s = x
    BY <1>0, <1>2, <2>1, <2>2
  <2>. DEFINE y == Insert(x, DefaultFormat)
              S == Message \cup {Open}
  <2>4. y \in S /\ up[d] \in Seq(S) /\ up'[d] = Append(up[d], y)
    BY <1>0, <2>1, MessagesMade
  <2>. HIDE DEF y, S
  <2>5. y \in ToSet(up'[d])
    BY <2>4, AppendFacts
  <2>. QED
    BY <1>0, <2>3, <2>5 DEF Sending, y
<1>4. ASSUME NEW d \in Clients, NEW x, NEW e, Deleted(d, x, e) PROVE FALSE
  <2>1. Edit(d, e) /\ ToSet(e.text) \subseteq ToSet(editor[d].text)
    BY <1>4 DEF Deleted
  <2>2. \A r \in Replicas : editor'[r] = IF r = d THEN e ELSE editor[r]
    BY <2>1, EditFacts
  <2>. QED
    BY <1>0, <1>2, <2>1, <2>2
<1>5. ASSUME NEW d \in Clients, Edit(d, editor[d]) PROVE FALSE
  <2>1. \A r \in Replicas : editor'[r] = IF r = d THEN editor[d] ELSE editor[r]
    BY <1>5, EditFacts
  <2>. QED
    BY <1>0, <1>2, <2>1
<1>6. ASSUME NEW d \in Clients, NEW m, NEW e, Heard(d, m, e)
      PROVE  Received(editor[Server], s)'
  <2>1. /\ \A r \in Replicas : editor'[r] = IF r = d THEN e ELSE editor[r]
        /\ Handled(editor[d], m, e) /\ m \in Message /\ Flying(m)
        /\ editor'[Server] = editor[Server]
    BY <1>6, HeardFacts
  <2>2. s \in ToSet(e.text) /\ s \notin ToSet(editor[d].text)
    BY <1>0, <1>2, <2>1
  <2>3. m.type \in {"insert", "erase", "format"}
    BY <2>1, MessageFields
  <2>4. s = m.symbol
    BY <2>1, <2>2, <2>3 DEF Handled
  <2>5. Received(editor[Server], s)
    BY <2>1, <2>4 DEF Inv, Relayed
  <2>. QED
    BY <2>1, <2>5 DEF Received
<1>7. ASSUME NEW d \in Clients, NEW m, NEW e, Entered(d, m, e)
      PROVE  Received(editor[Server], s)'
  <2>1. /\ \A r \in Replicas : editor'[r] = IF r = d THEN e ELSE editor[r]
        /\ \A x \in ToSet(e.text) : Received(editor[Server], x)
        /\ editor'[Server] = editor[Server]
    BY <1>7, EnteredFacts
  <2>2. s \in ToSet(e.text)
    BY <1>0, <1>2, <2>1
  <2>. QED
    BY <2>1, <2>2 DEF Received
<1>8. ASSUME NEW w \in Workers, NEW d \in Clients, NEW m, NEW e, Served(w, d, m, e) PROVE FALSE
  BY <1>2, <1>8, ServedFacts
<1>9. editor'[c] # editor[c]
  BY <1>2
<1>10. ASSUME NEW d \in Clients, LocalStep(d) PROVE Sending(c, s)'
  BY <1>3, <1>4, <1>5, <1>9, <1>10 DEF LocalStep, Marked, Overtyped, RequestOpen
<1>11. ASSUME NEW w \in Workers, WorkerStep(w) PROVE FALSE
  BY <1>8, <1>9, <1>11 DEF WorkerStep, Admitted, PostNext, Dispatch
<1>. QED
  BY <1>6, <1>7, <1>10, <1>11 DEF Step, RemoteStep

LEMMA RelayedKept ==
    ASSUME Inv, Step
    PROVE  Relayed'
<1>1. SUFFICES ASSUME NEW m \in Message, Flying(m)'
               PROVE  Received(editor[Server], m.symbol)'
  BY DEF Relayed
<1>2. m.symbol \in Symbol
  BY MessageFields
<1>3. CASE Flying(m)
  BY <1>2, <1>3, ServerLearns DEF Inv, Relayed
<1>4. ASSUME NEW w \in Workers, NEW c \in Clients, NEW e, Served(w, c, m, e)
      PROVE  Received(editor[Server], m.symbol)'
  <2>1. editor'[Server] = e /\ Received(e, m.symbol)
    BY <1>4, ServedFacts
  <2>. QED
    BY <2>1 DEF Received
<1>. QED
  BY <1>1, <1>3, <1>4, FlyingCases

LEMMA DeadKept ==
    ASSUME Inv, Step
    PROVE  Dead'
<1>0. Clients \subseteq Replicas
  BY Constants
<1>1. ASSUME NEW s \in Symbol, Flying(Erase(s))' PROVE Gone(s)'
  <2>1. Erase(s) \in Message /\ Erase(s).type = "erase" /\ Erase(s).symbol = s
    BY MessagesMade, Constants
  <2>2. CASE Flying(Erase(s))
    BY <2>2, ServerLearns DEF Inv, Dead
  <2>3. ASSUME NEW w \in Workers, NEW c \in Clients, NEW e, Served(w, c, Erase(s), e)
        PROVE  Gone(s)'
    <3>1. /\ editor'[Server] = e /\ Received(e, s)
          /\ ToSet(e.text) = ToSet(editor[Server].text) \ {s}
      BY <2>1, <2>3, ServedFacts
    <3>. QED
      BY <3>1 DEF Gone, Received
  <2>. QED
    BY <1>1, <2>1, <2>2, <2>3, FlyingCases
<1>2. ASSUME NEW c \in Clients, NEW s \in ToSet(editor[c].buf) PROVE Gone(s)'
  <2>1. s \in Symbol /\ Gone(s)
    BY <1>0, SymbolsKnown DEF Inv, Dead
  <2>. QED
    BY <2>1, ServerLearns
<1>3. SUFFICES ASSUME NEW c \in Clients, NEW s \in ToSet(editor'[c].buf),
                      s \notin ToSet(editor[c].buf)
               PROVE  Gone(s)'
  BY <1>1, <1>2 DEF Dead
<1>4. ASSUME NEW d \in Clients, NEW e, Edit(d, e), e.buf = editor[d].buf PROVE FALSE
  <2>1. \A r \in Replicas : editor'[r] = IF r = d THEN e ELSE editor[r]
    BY <1>4, EditFacts
  <2>. QED
    BY <1>0, <1>3, <1>4, <2>1
<1>5. ASSUME NEW d \in Clients, NEW m, NEW e, Heard(d, m, e) PROVE Gone(s)'
  <2>1. /\ \A r \in Replicas : editor'[r] = IF r = d THEN e ELSE editor[r]
        /\ Handled(editor[d], m, e) /\ m \in Message /\ Flying(m)
    BY <1>5, HeardFacts
  <2>2. s \in ToSet(e.buf) /\ s \notin ToSet(editor[d].buf)
    BY <1>0, <1>3, <2>1
  <2>3. m.type \in {"insert", "erase", "format"} /\ m.symbol \in Symbol
        /\ (m.type = "erase" => m = Erase(m.symbol))
    BY <2>1, MessageFields
  <2>4. m.type = "erase" /\ s = m.symbol
    BY <2>1, <2>2, <2>3 DEF Handled
  <2>5. s \in Symbol /\ Gone(s)
    BY <2>1, <2>3, <2>4 DEF Inv, Dead
  <2>. QED
    BY <2>5, ServerLearns
<1>6. ASSUME NEW d \in Clients, NEW m, NEW e, Entered(d, m, e) PROVE FALSE
  <2>1. \A r \in Replicas : editor'[r] = IF r = d THEN e ELSE editor[r]
    BY <1>6, EnteredFacts
  <2>2. e.buf = << >>
    BY <1>6 DEF Entered, EditorOf
  <2>. QED
    BY <1>0, <1>3, <2>1, <2>2, EmptyFacts
<1>7. ASSUME NEW w \in Workers, NEW d \in Clients, NEW m, NEW e, Served(w, d, m, e) PROVE FALSE
  BY <1>3, <1>7, ServedFacts
<1>8. editor'[c] # editor[c]
  BY <1>3
<1>9. ASSUME NEW d \in Clients, LocalStep(d) PROVE FALSE
  BY <1>4, <1>8, <1>9 DEF LocalStep, Typed, Deleted, Marked, Overtyped, RequestOpen
<1>10. ASSUME NEW w \in Workers, WorkerStep(w) PROVE FALSE
  BY <1>7, <1>8, <1>10 DEF WorkerStep, Admitted, PostNext, Dispatch
<1>. QED
  BY <1>5, <1>6, <1>9, <1>10 DEF Step, RemoteStep

(* What a client shows, it keeps, unless its user or a message erases it.   *)
LEMMA ShownOrErased ==
    ASSUME Inv, Step, NEW c \in joined, NEW s \in ToSet(editor[c].text)
    PROVE  \/ s \in ToSet(editor'[c].text)
           \/ Erase(s) \in ToSet(up'[c])
           \/ Flying(Erase(s)) /\ s \in Symbol
<1>0. /\ c \in Clients /\ c \in Replicas /\ s \in Symbol
      /\ up \in [Clients -> Seq(Message \cup {Open})]
  <2>1. c \in Clients /\ c \in Replicas
    BY Constants DEF Inv, Types
  <2>. QED
    BY <2>1, SymbolsKnown DEF Inv, Types
<1>1. ASSUME NEW d \in Clients, NEW x, NEW e, Typed(d, x, e) PROVE s \in ToSet(editor'[c].text)
  <2>1. Edit(d, e) /\ ToSet(e.text) = ToSet(editor[d].text) \cup {x}
    BY <1>1 DEF Typed
  <2>2. \A r \in Replicas : editor'[r] = IF r = d THEN e ELSE editor[r]
    BY <2>1, EditFacts
  <2>. QED
    BY <1>0, <2>1, <2>2
<1>2. ASSUME NEW d \in Clients, NEW x, NEW e, Deleted(d, x, e)
      PROVE  s \in ToSet(editor'[c].text) \/ Erase(s) \in ToSet(up'[c])
  <2>1. /\ Edit(d, e) /\ ToSet(editor[d].text) \ {x} \subseteq ToSet(e.text)
        /\ up' = [up EXCEPT ![d] = Append(@, Erase(x))]
    BY <1>2 DEF Deleted
  <2>2. \A r \in Replicas : editor'[r] = IF r = d THEN e ELSE editor[r]
    BY <2>1, EditFacts
  <2>3. CASE c # d \/ s # x
    BY <1>0, <2>1, <2>2, <2>3
  <2>4. CASE c = d /\ s = x
    <3>. DEFINE S == Message \cup {Open}
                y == Erase(x)
    <3>1. y \in S /\ up[c] \in Seq(S) /\ up'[c] = Append(up[c], y)
      BY <1>0, <2>1, <2>4, MessagesMade, Constants
    <3>. HIDE DEF S, y
    <3>2. y \in ToSet(up'[c])
      BY <3>1, AppendFacts
    <3>. QED
      BY <2>4, <3>2 DEF y
  <2>. QED
    BY <2>3, <2>4
<1>3. ASSUME NEW d \in Clients, Edit(d, editor[d]) PROVE s \in ToSet(editor'[c].text)
  <2>1. \A r \in Replicas : editor'[r] = IF r = d THEN editor[d] ELSE editor[r]
    BY <1>3, EditFacts
  <2>. QED
    BY <1>0, <2>1
<1>4. ASSUME NEW d \in Clients, NEW m, NEW e, Heard(d, m, e)
      PROVE  s \in ToSet(editor'[c].text) \/ Flying(Erase(s))
  <2>1. /\ \A r \in Replicas : editor'[r] = IF r = d THEN e ELSE editor[r]
        /\ Handled(editor[d], m, e) /\ m \in Message /\ Flying(m)
    BY <1>4, HeardFacts
  <2>2. m.type \in {"insert", "erase", "format"} /\ (m.type = "erase" => m = Erase(m.symbol))
    BY <2>1, MessageFields
  <2>3. CASE c # d
    BY <1>0, <2>1, <2>3
  <2>4. CASE c = d
    <3>1. s \in ToSet(e.text) \/ (m.type = "erase" /\ s = m.symbol)
      BY <2>1, <2>2, <2>4 DEF Handled
    <3>. QED
      BY <1>0, <2>1, <2>2, <2>4, <3>1
  <2>. QED
    BY <2>3, <2>4
<1>5. ASSUME NEW d \in Clients, NEW m, NEW e, Entered(d, m, e) PROVE s \in ToSet(editor'[c].text)
  <2>1. \A r \in Replicas : editor'[r] = IF r = d THEN e ELSE editor[r]
    BY <1>5, EnteredFacts
  <2>2. c # d
    BY <1>5 DEF Entered
  <2>. QED
    BY <1>0, <2>1, <2>2
<1>6. ASSUME NEW w \in Workers, NEW d \in Clients, NEW m, NEW e, Served(w, d, m, e)
      PROVE  s \in ToSet(editor'[c].text)
  <2>1. editor'[c] = editor[c]
    BY <1>0, <1>6, ServedFacts
  <2>. QED
    BY <2>1
<1>7. ASSUME NEW d \in Clients, LocalStep(d)
      PROVE  s \in ToSet(editor'[c].text) \/ Erase(s) \in ToSet(up'[c])
  BY <1>1, <1>2, <1>3, <1>7 DEF LocalStep, Marked, Overtyped, RequestOpen
<1>8. ASSUME NEW w \in Workers, WorkerStep(w) PROVE s \in ToSet(editor'[c].text)
  BY <1>6, <1>8 DEF WorkerStep, Admitted, PostNext, Dispatch
<1>. QED
  BY <1>0, <1>4, <1>5, <1>7, <1>8 DEF Step, RemoteStep

(* A client sends what it did not send before. *)
LEMMA SentNow ==
    ASSUME Inv, Step, NEW c \in Clients, NEW y \in Message, y \in ToSet(up'[c]),
           y \notin ToSet(up[c])
    PROVE  \/ \E s, e : Typed(c, s, e) /\ y = Insert(s, DefaultFormat)
           \/ \E s, e : Deleted(c, s, e) /\ y = Erase(s)
           \/ \E s, f : Marked(c, s, f) /\ y = Format(s, f)
<1>. DEFINE S == Message \cup {Open}
<1>0. /\ up \in [Clients -> Seq(S)] /\ Clients \subseteq Replicas /\ y # Open
      /\ DefaultFormat \in Formats
  BY Constants, MessageFields DEF Inv, Types
<1>1. ASSUME NEW d \in Clients, NEW x \in S, up' = [up EXCEPT ![d] = Append(@, x)]
      PROVE  d = c /\ y = x
  <2>. HIDE DEF S
  <2>1. CASE d # c
    <3>1. up'[c] = up[c]
      BY <1>0, <1>1, <2>1
    <3>. QED
      BY <3>1
  <2>2. CASE d = c
    <3>1. up'[c] = Append(up[c], x)
      BY <1>0, <1>1, <2>2
    <3>2. ToSet(up'[c]) = ToSet(up[c]) \cup {x}
      BY <1>0, <1>1, <3>1, AppendFacts
    <3>. QED
      BY <2>2, <3>2
  <2>. QED
    BY <2>1, <2>2
<1>2. ASSUME NEW d \in Clients, NEW s, NEW e, Typed(d, s, e)
      PROVE  d = c /\ y = Insert(s, DefaultFormat)
  <2>1. s \in Symbol /\ up' = [up EXCEPT ![d] = Append(@, Insert(s, DefaultFormat))]
    BY <1>2 DEF Typed
  <2>2. Insert(s, DefaultFormat) \in S
    BY <1>0, <2>1, MessagesMade
  <2>. QED
    BY <1>1, <2>1, <2>2
<1>3. ASSUME NEW d \in Clients, NEW s \in ToSet(editor[d].text) PROVE s \in Symbol
  BY <1>0, SymbolsKnown
<1>4. ASSUME NEW d \in Clients, NEW s, NEW e, Deleted(d, s, e) PROVE d = c /\ y = Erase(s)
  <2>1. s \in Symbol /\ up' = [up EXCEPT ![d] = Append(@, Erase(s))]
    BY <1>3, <1>4 DEF Deleted
  <2>2. Erase(s) \in S
    BY <1>0, <2>1, MessagesMade
  <2>. QED
    BY <1>1, <2>1, <2>2
<1>5. ASSUME NEW d \in Clients, NEW s, NEW f, Marked(d, s, f) PROVE d = c /\ y = Format(s, f)
  <2>1. s \in Symbol /\ f \in Formats /\ up' = [up EXCEPT ![d] = Append(@, Format(s, f))]
    BY <1>3, <1>5 DEF Marked
  <2>2. Format(s, f) \in S
    BY <2>1, MessagesMade
  <2>. QED
    BY <1>1, <2>1, <2>2
<1>6. ASSUME NEW d \in Clients, Overtyped(d) \/ RequestOpen(d) PROVE FALSE
  <2>1. CASE Overtyped(d)
    BY <2>1 DEF Overtyped
  <2>2. CASE RequestOpen(d)
    BY <1>0, <1>1, <2>2 DEF RequestOpen
  <2>. QED
    BY <1>6, <2>1, <2>2
<1>7. ASSUME NEW d \in Clients, RemoteStep(d) PROVE FALSE
  BY <1>7 DEF RemoteStep, Heard, Entered
<1>8. ASSUME NEW w \in Workers, NEW d \in Clients, NEW m, NEW e, Served(w, d, m, e) PROVE FALSE
  <2>1. Channels(w, d, m)
    BY <1>8, ServedChannels
  <2>. QED
    BY <2>1 DEF Channels
<1>9. ASSUME NEW w \in Workers, NEW d \in Clients, NEW m, Admitted(w, d, m) PROVE FALSE
  <2>1. up'[c] = << >> \/ up'[c] = up[c]
    BY <1>0, <1>9 DEF Admitted
  <2>. QED
    BY <2>1, EmptyFacts
<1>10. ASSUME NEW w \in Workers, PostNext(w) \/ Dispatch(w) PROVE FALSE
  BY <1>10 DEF PostNext, Dispatch
<1>11. ASSUME NEW d \in Clients, LocalStep(d)
       PROVE  \/ \E s, e : Typed(c, s, e) /\ y = Insert(s, DefaultFormat)
              \/ \E s, e : Deleted(c, s, e) /\ y = Erase(s)
              \/ \E s, f : Marked(c, s, f) /\ y = Format(s, f)
  BY <1>2, <1>4, <1>5, <1>6, <1>11 DEF LocalStep
<1>. QED
  BY <1>7, <1>8, <1>9, <1>10, <1>11 DEF Step, WorkerStep

LEMMA OwnKept ==
    ASSUME Inv, Step
    PROVE  Own'
<1>1. SUFFICES ASSUME NEW c \in Clients, NEW s \in Symbol, Sending(c, s)'
               PROVE  s \in ToSet(editor'[c].text) \/ Erase(s) \in ToSet(up'[c])
  BY DEF Own
<1>2. PICK f \in Formats : Insert(s, f) \in ToSet(up'[c])
  BY <1>1 DEF Sending
<1>3. /\ Insert(s, f) \in Message /\ Insert(s, f).type = "insert" /\ Insert(s, f).symbol = s
      /\ Erase(s) \in Message /\ Erase(s).type = "erase" /\ Erase(s).symbol = s
  BY MessagesMade
<1>4. CASE Insert(s, f) \notin ToSet(up[c])
  <2>1. \A x : Insert(s, f) # Erase(x) /\ \A g : Insert(s, f) # Format(x, g)
    BY DEF Insert, Erase, Format
  <2>2. PICK x, e : Typed(c, x, e) /\ Insert(s, f) = Insert(x, DefaultFormat)
    BY <1>2, <1>3, <1>4, <2>1, SentNow
  <2>3. x = s
    BY <1>3, <2>2 DEF Insert
  <2>4. Edit(c, e) /\ s \in ToSet(e.text)
    BY <2>2, <2>3 DEF Typed
  <2>5. editor'[c] = e
    BY <2>4, EditFacts, Constants
  <2>. QED
    BY <2>4, <2>5
<1>5. CASE Insert(s, f) \in ToSet(up[c])
  <2>1. Sending(c, s)
    BY <1>5 DEF Sending
  <2>2. ~Received(editor[Server], s) /\ c \in joined
    BY <2>1, SendingFacts
  <2>3. ~Flying(Erase(s))
    BY <2>2 DEF Inv, Dead, Gone
  <2>4. s \in ToSet(editor[c].text) \/ Erase(s) \in ToSet(up[c])
    BY <2>1 DEF Inv, Own
  <2>5. CASE s \in ToSet(editor[c].text)
    BY <2>2, <2>3, <2>5, ShownOrErased
  <2>6. ASSUME NEW w \in Workers, NEW e, Served(w, c, Erase(s), e) PROVE FALSE
    BY <1>3, <2>2, <2>6, ServedFacts
  <2>7. CASE Erase(s) \in ToSet(up[c])
    BY <1>3, <2>6, <2>7, SentOrServed
  <2>. QED
    BY <2>4, <2>5, <2>7
<1>. QED
  BY <1>4, <1>5

(* The copy of a client that has not opened its snapshot stays; then it is  *)
(* the editor's.                                                            *)
LEMMA CopyKept ==
    ASSUME Inv, Step, NEW d \in editing
    PROVE  /\ d \notin joined => Copy(d)' = Copy(d)
           /\ d \in joined => Copy(d) = editor[d] /\ Copy(d)' = editor'[d]
<1>0. /\ d \in Clients /\ joined \subseteq joined' /\ d \in Replicas
      /\ down[d] \in Seq(Message \cup Document)
  BY JoinedCases, TypesOf, Constants DEF Inv, Types
<1>1. CASE d \in joined
  BY <1>0, <1>1 DEF Copy
<1>2. CASE d \notin joined'
  <2>1. down[d] # << >> /\ d \notin joined
    BY <1>0, <1>2 DEF Inv, Joining
  <2>2. ASSUME NEW x \in Message, down'[d] = Append(down[d], x) PROVE down'[d][1] = down[d][1]
    <3>. DEFINE D == Message \cup Document
    <3>1. x \in D /\ down[d] \in Seq(D)
      BY <1>0
    <3>. HIDE DEF D
    <3>2. 1 \in 1 .. Len(down[d]) /\ \A i \in 1 .. Len(down[d]) : down'[d][i] = down[d][i]
      BY <2>1, <2>2, <3>1, AppendFacts, TailFacts
    <3>. QED
      BY <3>2
  <2>3. down'[d][1] = down[d][1]
    BY <1>0, <1>2, <2>1, <2>2, DownCases
  <2>. QED
    BY <1>2, <2>1, <2>3 DEF Copy
<1>3. CASE d \in joined' \ joined
  <2>1. ASSUME NEW c \in Clients, LocalStep(c) PROVE joined' = joined
    BY <2>1 DEF LocalStep, Typed, Deleted, Marked, Overtyped, Edit, RequestOpen
  <2>2. ASSUME NEW w \in Workers, WorkerStep(w) PROVE joined' = joined
    BY <2>2 DEF WorkerStep, Served, Admitted, PostNext, Dispatch
  <2>3. ASSUME NEW c \in Clients, NEW m, NEW e, Heard(c, m, e) PROVE joined' = joined
    BY <2>3 DEF Heard
  <2>4. PICK c \in Clients : \E m, e : Entered(c, m, e)
    BY <1>3, <2>1, <2>2, <2>3 DEF Step, RemoteStep
  <2>5. PICK m, e : Entered(c, m, e)
    BY <2>4
  <2>6. joined' = joined \cup {c} /\ m = down[c][1] /\ e = EditorOf(SymbolsOf(m.text))
    BY <2>5 DEF Entered
  <2>7. c = d
    BY <1>3, <2>6
  <2>8. editor'[d] = e
    BY <1>0, <2>5, <2>7, EnteredFacts
  <2>. QED
    BY <1>3, <2>6, <2>7, <2>8 DEF Copy
<1>. QED
  BY <1>0, <1>1, <1>2, <1>3

LEMMA ArrivingKept ==
    ASSUME Inv, Step, Types'
    PROVE  Arriving'
<1>0. editing \subseteq editing' /\ joined \subseteq editing /\ editing \subseteq Clients
      /\ joined \subseteq joined' /\ editing' \subseteq Clients
      /\ Server \in Replicas /\ Clients \subseteq Replicas
      /\ \A r \in Replicas : Sound(editor[r])
  <2>1. editing' \subseteq Clients
    BY DEF Types
  <2>. QED
    BY <2>1, JoinedCases, Constants DEF Inv, Types, Replicated
<1>1. SUFFICES ASSUME NEW d \in editing', NEW s \in ToSet(editor'[Server].text)
               PROVE  \/ s \in ToSet(Copy(d)'.text)
                      \/ Coming(s, d)'
                      \/ Erase(s) \in ToSet(up'[d])
  BY DEF Arriving
<1>2. CASE d \notin editing
  <2>0. \E w \in Workers : \E m : Admitted(w, d, m)
    <3>1. ASSUME NEW c \in Clients, LocalStep(c) PROVE editing' = editing
      BY <3>1 DEF LocalStep, Typed, Deleted, Marked, Overtyped, Edit, RequestOpen
    <3>2. ASSUME NEW c \in Clients, RemoteStep(c) PROVE editing' = editing
      BY <3>2 DEF RemoteStep, Heard, Entered
    <3>3. ASSUME NEW w \in Workers, WorkerStep(w)
          PROVE  editing' = editing \/ \E c \in Clients : \E m : Admitted(w, c, m)
      BY <3>3 DEF WorkerStep, Served, PostNext, Dispatch
    <3>4. PICK w \in Workers, c \in Clients : \E m : Admitted(w, c, m)
      BY <1>2, <3>1, <3>2, <3>3 DEF Step
    <3>5. c = d
      BY <1>2, <3>4 DEF Admitted
    <3>. QED
      BY <3>4, <3>5
  <2>w. PICK w \in Workers : \E m : Admitted(w, d, m)
    BY <2>0
  <2>1. PICK m : Admitted(w, d, m)
    BY <2>w
  <2>2. /\ editor' = editor /\ joined' = joined /\ SymbolsOf(m.text) = editor[Server].text
        /\ down' = [down EXCEPT ![d] = <<m>>] /\ d \notin joined
    BY <1>0, <1>2, <2>1 DEF Admitted
  <2>3. down'[d][1] = m
    BY <1>0, <2>2 DEF Inv, Types
  <2>4. Copy(d)' = EditorOf(editor[Server].text)
    BY <2>2, <2>3 DEF Copy
  <2>5. Copy(d)'.text = editor[Server].text
    BY <2>4 DEF EditorOf
  <2>. QED
    BY <2>2, <2>5
<1>3. CASE d \in editing /\ s \in ToSet(editor[Server].text)
  <2>0. d \in Clients /\ d \in Replicas /\ s \in Symbol
    BY <1>0, <1>3, SymbolsKnown
  <2>1. ~Gone(s) /\ ~Flying(Erase(s)) /\ \A c \in Clients : s \notin ToSet(editor[c].buf)
    BY <1>3, <2>0 DEF Gone, Inv, Dead
  <2>2. CASE s \in ToSet(Copy(d).text)
    <3>1. CASE d \notin joined
      BY <1>3, <2>2, <3>1, CopyKept
    <3>2. CASE d \in joined
      <4>1. Copy(d) = editor[d] /\ Copy(d)' = editor'[d]
        BY <1>3, <3>2, CopyKept
      <4>. QED
        BY <2>1, <2>2, <3>2, <4>1, ShownOrErased
    <3>. QED
      BY <3>1, <3>2
  <2>3. CASE Coming(s, d)
    <3>1. PICK f \in Formats : UnderWay(Insert(s, f), d)
      BY <2>3 DEF Coming
    <3>2. Insert(s, f) \in Message /\ Insert(s, f).type = "insert" /\ Insert(s, f).symbol = s
      BY <2>0, MessagesMade
    <3>3. CASE UnderWay(Insert(s, f), d)'
      BY <3>3 DEF Coming
    <3>4. ASSUME NEW e, Heard(d, Insert(s, f), e) PROVE s \in ToSet(Copy(d)'.text)
      <4>1. /\ d \in joined /\ Handled(editor[d], Insert(s, f), e)
            /\ \A r \in Replicas : editor'[r] = IF r = d THEN e ELSE editor[r]
        BY <2>0, <3>4, HeardFacts
      <4>2. s \in ToSet(e.text)
        BY <2>0, <2>1, <3>2, <4>1 DEF Handled
      <4>3. Copy(d)' = editor'[d]
        BY <1>3, <4>1, CopyKept
      <4>. QED
        BY <2>0, <4>1, <4>2, <4>3
    <3>. QED
      BY <1>3, <3>1, <3>2, <3>3, <3>4, FlyingCases
  <2>4. CASE Erase(s) \in ToSet(up[d])
    <3>1. Erase(s) \in Message /\ Erase(s).type = "erase" /\ Erase(s).symbol = s
      BY <2>0, MessagesMade, Constants
    <3>2. ASSUME NEW w \in Workers, NEW e, Served(w, d, Erase(s), e) PROVE FALSE
      <4>1. editor'[Server] = e /\ ToSet(e.text) = ToSet(editor[Server].text) \ {s}
        BY <2>0, <3>1, <3>2, ServedFacts
      <4>. QED
        BY <1>1, <4>1
    <3>. QED
      BY <2>0, <2>4, <3>1, <3>2, SentOrServed
  <2>. QED
    BY <1>3, <2>2, <2>3, <2>4 DEF Inv, Arriving
<1>4. CASE d \in editing /\ s \notin ToSet(editor[Server].text)
  <2>0. PICK w \in Workers, c \in Clients :
            \E m, e : Served(w, c, m, e) /\ m.type = "insert" /\ m.symbol = s
    BY <1>1, <1>4, ServerShows
  <2>1. PICK m, e : Served(w, c, m, e) /\ m.type = "insert" /\ m.symbol = s
    BY <2>0
  <2>2. /\ m \in Message /\ s \in Symbol /\ c \in joined /\ m \in ToSet(up[c])
        /\ editor'[c] = editor[c]
    BY <2>1, ServedFacts
  <2>3. m.format \in Formats /\ m = Insert(s, m.format)
    BY <2>1, <2>2, MessageFields
  <2>4. CASE d # c
    <3>1. UnderWay(m, d)'
      BY <1>0, <1>4, <2>1, <2>2, <2>4, ServedTransport
    <3>2. Insert(s, m.format) = m /\ m.format \in Formats
      BY <2>3
    <3>3. UnderWay(Insert(s, m.format), d)'
      BY <3>1, <3>2
    <3>. QED
      BY <3>2, <3>3 DEF Coming
  <2>5. CASE d = c
    <3>1. Sending(c, s)
      BY <2>2, <2>3 DEF Sending
    <3>2. s \in ToSet(editor[c].text) \/ Erase(s) \in ToSet(up[c])
      BY <2>2, <3>1 DEF Inv, Own
    <3>3. Copy(c)' = editor'[c]
      BY <1>0, <2>2, CopyKept
    <3>4. ASSUME Erase(s) \in ToSet(up[c]) PROVE Erase(s) \in ToSet(up'[c])
      <4>1. Channels(w, c, m)
        BY <2>1, ServedChannels
      <4>2. ToSet(up[c]) = ToSet(up'[c]) \cup {m}
        BY <4>1 DEF Channels
      <4>3. Erase(s) # m
        BY <2>3 DEF Insert, Erase
      <4>. QED
        BY <3>4, <4>2, <4>3
    <3>. QED
      BY <2>2, <2>5, <3>2, <3>3, <3>4
  <2>. QED
    BY <2>4, <2>5
<1>. QED
  BY <1>2, <1>3, <1>4

-----------------------------------------------------------------------------
LEMMA InvStep ==
    ASSUME Inv, [Next]_vars
    PROVE  Inv'
<1>1. CASE Next
  <2>1. Step /\ Types' /\ Aligned'
    BY <1>1, NextIsStep
  <2>. QED
    BY <2>1, ReplicatedKept, CountedKept, JoiningKept, SnapshotsKept, RequestsKept, KnownKept,
       RelayedKept, OwnKept, DeadKept, ArrivingKept DEF Inv
<1>2. CASE UNCHANGED vars
  <2>. USE <1>2 DEF vars
  <2>1. Types' /\ Replicated' /\ Counted' /\ Joining' /\ Snapshots'
    BY DEF Inv, Types, Replicated, Counted, Joining, Snapshots
  <2>2. Requests' /\ Known' /\ Own'
    BY DEF Inv, Requests, Known, Own, Sending
  <2>3. Relayed' /\ Dead' /\ Aligned'
    BY DEF Inv, Relayed, Dead, Flying, Gone, Aligned
  <2>4. Arriving'
    <3>1. \A d \in editing : Copy(d)' = Copy(d)
      BY DEF Copy
    <3>2. \A s, d : Coming(s, d)' <=> Coming(s, d)
      BY DEF Coming, UnderWay
    <3>. QED
      BY <3>1, <3>2 DEF Inv, Arriving
  <2>. QED
    BY <2>1, <2>2, <2>3, <2>4 DEF Inv
<1>. QED
  BY <1>1, <1>2

LEMMA InvInit ==
    ASSUME Init
    PROVE  Inv
<1>. DEFINE ed == EditorOf(<< >>)
<1>0. /\ ToSet(<< >>) = {} /\ DOMAIN << >> = {} /\ \A S : << >> \in Seq(S)
      /\ ed.text = << >> /\ ed.buf = << >>
  BY EmptyFacts DEF EditorOf
<1>1. Ascending(<< >>) /\ Sound(ed) /\ \A c \in Sites : ed.vv[c] = NotReceived
  <2>1. Ascending(<< >>)
    BY <1>0 DEF Ascending
  <2>. QED
    BY <1>0, <2>1, AscendingIsOrdered, EditorOfText
<1>. HIDE DEF ed
<1>2. /\ editor = [r \in Replicas |-> ed] /\ view = [r \in Replicas |-> << >>]
      /\ counter = [c \in Clients |-> 0]
      /\ joined = Clients \ Joiners /\ editing = Clients \ Joiners
      /\ up = [c \in Clients |-> << >>] /\ down = [c \in Clients |-> << >>]
      /\ queue = [w \in Workers |-> << >>] /\ posting = [w \in Workers |-> << >>]
      /\ issued = {} /\ edits = 0
  BY DEF Init, ed
<1>3. Types
  BY <1>0, <1>1, <1>2, Constants DEF Types, Sound
<1>4. Replicated
  BY <1>0, <1>1, <1>2, Constants DEF Replicated
<1>5. Counted
  BY <1>1, <1>2, Constants DEF Counted, NotReceived
<1>6. Joining
  BY <1>0, <1>2, Constants DEF Joining, ed
<1>7. Snapshots /\ Requests
  BY <1>0, <1>2 DEF Snapshots, Requests, RequestsOf
<1>8. Known /\ Own
  BY <1>0, <1>2, Constants DEF Known, Own, Sending
<1>9. \A m : ~Flying(m)
  BY <1>0, <1>2 DEF Flying
<1>10. Relayed /\ Dead
  BY <1>0, <1>2, <1>9, Constants DEF Relayed, Dead
<1>11. Arriving
  BY <1>0, <1>2, Constants DEF Arriving
<1>12. Aligned
  <2>1. \A r : AlignedAt(r, << >>, << >>)
    BY DEF AlignedAt
  <2>. QED
    BY <1>0, <1>2, <2>1 DEF Aligned
<1>. QED
  BY <1>3, <1>4, <1>5, <1>6, <1>7, <1>8, <1>10, <1>11, <1>12 DEF Inv

(* The invariant holds of every session. *)
THEOREM Invariance == Spec => []Inv
<1>1. Init => Inv
  BY InvInit
<1>2. Inv /\ [Next]_vars => Inv'
  BY InvStep
<1>. QED
  BY <1>1, <1>2, PTL DEF Spec

(* Types of the session: symbols, counters, messages and who has joined,    *)
(* as the check of a run states them.                                       *)
THEOREM TypeCorrect == Spec => []TypeOK
<1>1. Inv => TypeOK
  <2>. SUFFICES ASSUME Inv PROVE TypeOK
    OBVIOUS
  <2>1. Types /\ Counted
    BY DEF Inv
  <2>2. ASSUME NEW r \in Replicas
        PROVE  /\ editor[r].text \in Seq(Symbol) /\ editor[r].buf \in Seq(Symbol)
               /\ editor[r].vv \in [Sites -> NotReceived .. MaxEdits]
    <3>1. editor[r] \in Editor
      BY <2>1 DEF Types
    <3>2. /\ editor[r].text \in Seq(Symbol) /\ editor[r].buf \in Seq(Symbol)
          /\ editor[r].vv \in [Sites -> NotReceived .. (MaxCount - 1)]
      BY <3>1, EditorFields
    <3>3. ASSUME NEW c \in Sites PROVE editor[r].vv[c] \in NotReceived .. MaxEdits
      <4>1. /\ c \in Clients /\ counter[c] \in Nat /\ edits \in 0 .. MaxEdits /\ MaxEdits \in Nat
            /\ counter[c] <= edits /\ editor[r].vv[c] < counter[c]
        BY <2>1, Constants DEF Types, Counted
      <4>2. editor[r].vv[c] \in NotReceived .. (MaxCount - 1) /\ MaxCount \in Nat
        BY <3>2, Constants
      <4>. QED
        BY <4>1, <4>2 DEF NotReceived
    <3>. QED
      BY <3>2, <3>3
  <2>3. ASSUME NEW r \in Replicas, NEW i \in DOMAIN view[r]
        PROVE  view[r][i].of \in Symbol \cup {Replaced} /\ view[r][i].format \in Formats
    <3>1. view[r] \in Seq(Character)
      BY <2>1 DEF Types
    <3>2. view[r][i] \in Character
      BY <3>1, SeqFacts
    <3>. QED
      BY <3>2 DEF Character
  <2>4. counter \in [Clients -> 0 .. MaxEdits]
    BY <2>1, Constants DEF Types, Counted
  <2>5. ASSUME NEW c \in Clients, NEW i \in DOMAIN up[c] PROVE up[c][i] \in Message \cup {Open}
    <3>. DEFINE S == Message \cup {Open}
    <3>1. up[c] \in Seq(S)
      BY <2>1 DEF Types
    <3>. HIDE DEF S
    <3>2. up[c][i] \in S
      BY <3>1, SeqFacts
    <3>. QED
      BY <3>2 DEF S
  <2>. QED
    BY <2>1, <2>2, <2>3, <2>4, <2>5 DEF TypeOK, Types
<1>. QED
  BY <1>1, Invariance, PTL

(* What a server or a client keeps by index beside its symbols stays aligned *)
(* with them (formats_ of open_document.h:23 and the widget's characters),   *)
(* when no user types over a selected character.                             *)
THEOREM AlignedViews == Replacing = FALSE => (Spec => []ViewsAligned)
<1>1. ASSUME Replacing = FALSE PROVE Inv => ViewsAligned
  <2>. SUFFICES ASSUME Inv, NEW r \in Replicas
                PROVE  /\ Len(view[r]) = Len(editor[r].text)
                       /\ \A i \in DOMAIN view[r] : view[r][i].of = editor[r].text[i]
    BY DEF ViewsAligned
  <2>1. AlignedAt(r, view[r], editor[r].text) /\ view[r] \in Seq(Character)
    BY DEF Inv, Types, Aligned
  <2>2. DOMAIN view[r] = 1 .. Len(view[r])
    BY <2>1, SeqFacts
  <2>. QED
    BY <1>1, <2>1, <2>2 DEF AlignedAt
<1>. SUFFICES ASSUME Replacing = FALSE PROVE Spec => []ViewsAligned
  OBVIOUS
<1>2. Inv => ViewsAligned
  BY <1>1
<1>. QED
  BY <1>2, Invariance, PTL

(* The server relays the insert of a symbol before anyone can ask it to     *)
(* erase the symbol: its deletion buffer stays empty.                       *)
THEOREM NoServerBuffer == Spec => []ServerNeverBuffers
<1>1. Inv => ServerNeverBuffers
  BY DEF Inv, Replicated, ServerNeverBuffers
<1>. QED
  BY <1>1, Invariance, PTL

(* A client that joins while others edit misses no symbol, whichever worker *)
(* serves it.                                                               *)
THEOREM NobodyMisses == Spec => []NothingMissing
<1>1. Inv => NothingMissing
  <2>. SUFFICES ASSUME Inv, Quiescent, NEW c \in joined, NEW s \in ToSet(editor[Server].text)
                PROVE  s \in ToSet(editor[c].text)
    BY DEF NothingMissing
  <2>1. c \in editing /\ c \in Clients /\ Copy(c) = editor[c]
    BY DEF Inv, Types, Copy
  <2>2. /\ ToSet(up[c]) = {} /\ ToSet(down[c]) = {}
        /\ \A w \in Workers : ToSet(queue[w]) = {} /\ ToSet(posting[w]) = {}
    BY <2>1, EmptyFacts DEF Quiescent
  <2>3. WorkerOf[c] \in Workers
    BY <2>1, Constants
  <2>4. ~Coming(s, c)
    BY <2>2, <2>3 DEF Coming, UnderWay
  <2>. QED
    BY <2>1, <2>2, <2>4 DEF Inv, Arriving
<1>. QED
  BY <1>1, Invariance, PTL

-----------------------------------------------------------------------------
(* What comes to a client, in which order, and what it has by then.         *)
(* What a worker posts it has served for one of its own clients, and it     *)
(* posts it to each other worker once.                                      *)
Posted ==
    /\ \A w \in Workers : \A p \in ToSet(posting[w]) :
          /\ WorkerOf[p.source] = w /\ p.to # w
          /\ p.message.type = "insert" => p.message.symbol.site = p.source
    /\ \A w \in Workers : \A i, j \in DOMAIN posting[w] :
          posting[w][i].to = posting[w][j].to => i = j
    /\ \A w \in Workers : \A call \in ToSet(queue[w]) :
          /\ WorkerOf[call.source] # w
          /\ call.message.type = "insert" => call.message.symbol.site = call.source

(* Message x is on its way to client d before message y.                    *)
Called(m, w) == \E call \in ToSet(queue[w]) : call.message = m
ToPost(m, w) == \E v \in Workers : \E p \in ToSet(posting[v]) : p.to = w /\ p.message = m
Ahead(x, y, d) ==
    LET w == WorkerOf[d] IN
    \/ \E i, j \in DOMAIN down[d] : i < j /\ down[d][i] = x /\ down[d][j] = y
    \/ x \in ToSet(down[d]) /\ (Called(y, w) \/ ToPost(y, w))
    \/ \E i, j \in DOMAIN queue[w] : i < j /\ queue[w][i].message = x /\ queue[w][j].message = y
    \/ Called(x, w) /\ ToPost(y, w)

Alike(x, y) == x.type = "insert" /\ y.type = "insert" /\ x.symbol.site = y.symbol.site

(* Inserts of one site are relayed in the order of their counters.          *)
InOrder ==
    \A d \in Clients : \A x, y \in Message :
        Ahead(x, y, d) /\ Alike(x, y) => x.symbol.n < y.symbol.n

(* The server is the first to learn what others have typed.                 *)
Learned ==
    \A d \in editing, c \in Clients : c # d => Copy(d).vv[c] <= editor[Server].vv[c]

(* The clients that never hear of an operation twice or too early: those    *)
(* that were there from the start, and everybody if there is one worker.    *)
Steady == {d \in Clients : d \notin Joiners \/ NWorkers = 1}

Present == Clients \ Joiners \subseteq joined

(* They get the symbols of others, none that they have received.            *)
Fresh ==
    \A d \in editing \cap Steady, s \in Symbol : Coming(s, d) =>
        s.site # d /\ ~Received(Copy(d), s)

Distinct == \A d \in Steady : Ascending(editor[d].text)

(* A symbol that is gone from the server is gone from a client, or its      *)
(* erase is there, or comes.                                                *)
Going ==
    \A d \in editing \cap Steady, s \in Symbol : Gone(s) =>
        \/ UnderWay(Erase(s), d)
        \/ s \in ToSet(Copy(d).buf)
        \/ s \notin ToSet(Copy(d).text) /\ ~Coming(s, d)

(* A client does not show what it is erasing.                               *)
Erasing ==
    \A d \in Steady, s \in Symbol : Erase(s) \in ToSet(up[d]) =>
        Received(editor[d], s) /\ s \notin ToSet(editor[d].text)

SteadyInv ==
    Posted /\ InOrder /\ Learned /\ Present /\ Fresh /\ Distinct /\ Going /\ Erasing

-----------------------------------------------------------------------------
(* What a step does to the messages that are on their way.                  *)
LEMMA TransportCases ==
    ASSUME Inv, Step
    PROVE  \/ UNCHANGED <<down, queue, posting>>
           \/ /\ UNCHANGED <<queue, posting>>
              /\ \E c \in Clients : down[c] # << >> /\ down' = [down EXCEPT ![c] = Tail(@)]
           \/ /\ UNCHANGED <<queue, posting>>
              /\ \E c \in Clients : \E m \in Document : down' = [down EXCEPT ![c] = <<m>>]
           \/ \E w \in Workers, c \in Clients : \E m, e : Served(w, c, m, e)
           \/ \E w \in Workers : PostNext(w) \/ Dispatch(w)
<1>1. ASSUME NEW c \in Clients, LocalStep(c) PROVE UNCHANGED <<down, queue, posting>>
  BY <1>1 DEF LocalStep, Typed, Deleted, Marked, Overtyped, Edit, RequestOpen
<1>2. ASSUME NEW c \in Clients, RemoteStep(c)
      PROVE  /\ UNCHANGED <<queue, posting>>
             /\ down[c] # << >> /\ down' = [down EXCEPT ![c] = Tail(@)]
  BY <1>2 DEF RemoteStep, Heard, Entered
<1>3. ASSUME NEW w \in Workers, NEW c \in Clients, NEW m, Admitted(w, c, m)
      PROVE  /\ UNCHANGED <<queue, posting>>
             /\ m \in Document /\ down' = [down EXCEPT ![c] = <<m>>]
  BY <1>3 DEF Admitted
<1>. QED
  BY <1>1, <1>2, <1>3 DEF Step, WorkerStep

LEMMA PostedKept ==
    ASSUME Inv, Posted, Step
    PROVE  Posted'
<1>0. /\ queue \in [Workers -> Seq(Call)] /\ posting \in [Workers -> Seq(Post)]
      /\ WorkerOf \in [Clients -> Workers]
  BY Constants DEF Inv, Types
<1>1. CASE UNCHANGED <<queue, posting>>
  BY <1>1 DEF Posted
<1>2. ASSUME NEW w \in Workers, NEW c \in Clients, NEW m, NEW e, Served(w, c, m, e)
      PROVE  Posted'
  <2>1. /\ queue' = queue /\ WorkerOf[c] = w /\ m \in Message
        /\ \A v \in Workers : v # w => posting'[v] = posting[v]
        /\ posting'[w] = PostsOf(w, c, m)
        /\ \A p \in ToSet(posting'[w]) : p.to \in Workers \ {w} /\ p.source = c /\ p.message = m
    BY <1>2, ServedChannels DEF Channels
  <2>2. m.type = "insert" => m.symbol.site = c
    BY <1>2, ServedFacts
  <2>3. \A i, j \in DOMAIN posting'[w] : posting'[w][i].to = posting'[w][j].to => i = j
    BY <2>1, PostsFacts
  <2>4. ASSUME NEW v \in Workers, NEW p \in ToSet(posting'[v])
        PROVE  /\ WorkerOf[p.source] = v /\ p.to # v
               /\ p.message.type = "insert" => p.message.symbol.site = p.source
    <3>1. CASE v = w
      BY <2>1, <2>2, <2>4, <3>1
    <3>2. CASE v # w
      BY <2>1, <2>4, <3>2 DEF Posted
    <3>. QED
      BY <3>1, <3>2
  <2>5. ASSUME NEW v \in Workers
        PROVE  \A i, j \in DOMAIN posting'[v] : posting'[v][i].to = posting'[v][j].to => i = j
    <3>1. CASE v # w
      <4>1. posting'[v] = posting[v]
        BY <2>1, <3>1
      <4>. QED
        BY <4>1 DEF Posted
    <3>. QED
      BY <2>3, <3>1
  <2>. QED
    BY <2>1, <2>4, <2>5 DEF Posted
<1>3. ASSUME NEW w \in Workers, PostNext(w) PROVE Posted'
  <2>1. PICK p : p = Head(posting[w])
    OBVIOUS
  <2>2. PICK call : call = [source |-> p.source, message |-> p.message]
    OBVIOUS
  <2>3. /\ posting[w] # << >>
        /\ queue' = [queue EXCEPT ![p.to] = Append(@, call)]
        /\ posting' = [posting EXCEPT ![w] = Tail(@)]
    BY <1>3, <2>1, <2>2 DEF PostNext
  <2>4. /\ p \in Post /\ ToSet(posting[w]) = ToSet(Tail(posting[w])) \cup {p}
        /\ Len(posting[w]) \in Nat
        /\ DOMAIN posting[w] = 1 .. Len(posting[w])
        /\ DOMAIN Tail(posting[w]) = 1 .. (Len(posting[w]) - 1)
        /\ \A i \in 1 .. (Len(posting[w]) - 1) : Tail(posting[w])[i] = posting[w][i + 1]
    BY <1>0, <2>1, <2>3, TailFacts
  <2>5. call \in Call /\ p.to \in Workers /\ call.source = p.source /\ call.message = p.message
    BY <2>2, <2>4 DEF Post, Call
  <2>6. \A v \in Workers : /\ v # p.to => queue'[v] = queue[v]
                           /\ v = p.to => ToSet(queue'[v]) = ToSet(queue[v]) \cup {call}
    <3>1. ToSet(Append(queue[p.to], call)) = ToSet(queue[p.to]) \cup {call}
      BY <1>0, <2>5, AppendFacts
    <3>. QED
      BY <1>0, <2>3, <2>5, <3>1
  <2>7. \A v \in Workers : posting'[v] = IF v = w THEN Tail(posting[w]) ELSE posting[v]
    BY <1>0, <2>3
  <2>8. /\ WorkerOf[p.source] = w /\ p.to # w
        /\ p.message.type = "insert" => p.message.symbol.site = p.source
    <3>1. p \in ToSet(posting[w])
      BY <2>4
    <3>. QED
      BY <3>1 DEF Posted
  <2>9. \A v \in Workers : \A q \in ToSet(posting'[v]) :
            /\ WorkerOf[q.source] = v /\ q.to # v
            /\ q.message.type = "insert" => q.message.symbol.site = q.source
    <3>1. \A v \in Workers : \A q \in ToSet(posting'[v]) : q \in ToSet(posting[v])
      BY <2>4, <2>7
    <3>. QED
      BY <3>1 DEF Posted
  <2>10. \A v \in Workers : \A z \in ToSet(queue'[v]) :
            /\ WorkerOf[z.source] # v
            /\ z.message.type = "insert" => z.message.symbol.site = z.source
    BY <2>5, <2>6, <2>8 DEF Posted
  <2>11. ASSUME NEW v \in Workers, NEW i \in DOMAIN posting'[v], NEW j \in DOMAIN posting'[v],
                posting'[v][i].to = posting'[v][j].to
         PROVE  i = j
    <3>1. CASE v # w
      BY <2>7, <2>11, <3>1 DEF Posted
    <3>2. CASE v = w
      <4>1. i \in 1 .. (Len(posting[w]) - 1) /\ j \in 1 .. (Len(posting[w]) - 1)
        BY <2>4, <2>7, <2>11, <3>2
      <4>2. posting'[v][i] = posting[w][i + 1] /\ posting'[v][j] = posting[w][j + 1]
        BY <2>4, <2>7, <3>2, <4>1
      <4>3. i + 1 \in DOMAIN posting[w] /\ j + 1 \in DOMAIN posting[w]
        BY <2>4, <4>1
      <4>4. i + 1 = j + 1
        BY <2>11, <4>2, <4>3 DEF Posted
      <4>. QED
        BY <4>1, <4>4
    <3>. QED
      BY <3>1, <3>2
  <2>. QED
    BY <2>9, <2>10, <2>11 DEF Posted
<1>4. ASSUME NEW w \in Workers, Dispatch(w) PROVE Posted'
  <2>1. /\ posting' = posting /\ queue[w] # << >> /\ queue' = [queue EXCEPT ![w] = Tail(@)]
    BY <1>4 DEF Dispatch
  <2>2. \A v \in Workers : \A z \in ToSet(queue'[v]) : z \in ToSet(queue[v])
    <3>1. ToSet(queue[w]) = ToSet(Tail(queue[w])) \cup {Head(queue[w])}
      BY <1>0, <2>1, TailFacts
    <3>2. \A v \in Workers : queue'[v] = IF v = w THEN Tail(queue[w]) ELSE queue[v]
      BY <1>0, <2>1
    <3>. QED
      BY <3>1, <3>2
  <2>. QED
    BY <2>1, <2>2 DEF Posted
<1>. QED
  BY <1>1, <1>2, <1>3, <1>4, TransportCases

(* What is relayed has been relayed in order before; a new insert is the    *)
(* last of its site.                                                        *)
LEMMA AheadTaken ==
    ASSUME Inv, NEW c \in Clients, UNCHANGED <<queue, posting>>,
           \/ down[c] # << >> /\ down' = [down EXCEPT ![c] = Tail(@)]
           \/ \E m \in Document : down' = [down EXCEPT ![c] = <<m>>],
           NEW d \in Clients, NEW x \in Message, NEW y \in Message, Ahead(x, y, d)'
    PROVE  Ahead(x, y, d)
<1>. DEFINE D == Message \cup Document
<1>0. down \in [Clients -> Seq(D)] /\ x \notin Document
  BY MessageFields DEF Inv, Types
<1>. HIDE DEF D
<1>1. down'[d] = down[d] \/ (down[d] # << >> /\ down'[d] = Tail(down[d]))
      \/ \E m \in Document : down'[d] = <<m>>
  BY <1>0
<1>2. /\ \A w \in Workers : ToPost(y, w)' => ToPost(y, w)
      /\ Called(y, WorkerOf[d])' => Called(y, WorkerOf[d])
      /\ Called(x, WorkerOf[d])' => Called(x, WorkerOf[d])
      /\ queue'[WorkerOf[d]] = queue[WorkerOf[d]] /\ WorkerOf[d] \in Workers
  BY Constants DEF ToPost, Called
<1>3. x \in ToSet(down'[d]) => x \in ToSet(down[d])
  <2>1. CASE down[d] # << >> /\ down'[d] = Tail(down[d])
    BY <1>0, <2>1, TailFacts
  <2>2. ASSUME NEW m \in Document, down'[d] = <<m>> PROVE x \notin ToSet(down'[d])
    <3>1. ToSet(<<m>>) = {m}
      BY DEF ToSet
    <3>. QED
      BY <1>0, <2>2, <3>1
  <2>. QED
    BY <1>1, <2>1, <2>2
<1>4. ASSUME NEW i \in DOMAIN down'[d], NEW j \in DOMAIN down'[d], i < j,
             down'[d][i] = x, down'[d][j] = y
      PROVE  Ahead(x, y, d)
  <2>1. CASE down'[d] = down[d]
    BY <1>4, <2>1 DEF Ahead
  <2>2. CASE down[d] # << >> /\ down'[d] = Tail(down[d])
    <3>1. /\ Len(down[d]) \in Nat /\ DOMAIN down[d] = 1 .. Len(down[d])
          /\ DOMAIN Tail(down[d]) = 1 .. (Len(down[d]) - 1)
          /\ \A k \in 1 .. (Len(down[d]) - 1) : Tail(down[d])[k] = down[d][k + 1]
      BY <1>0, <2>2, TailFacts
    <3>2. /\ i + 1 \in DOMAIN down[d] /\ j + 1 \in DOMAIN down[d] /\ i + 1 < j + 1
          /\ down[d][i + 1] = x /\ down[d][j + 1] = y
      BY <1>4, <2>2, <3>1
    <3>. QED
      BY <3>2 DEF Ahead
  <2>3. ASSUME NEW m \in Document, down'[d] = <<m>> PROVE FALSE
    BY <1>0, <1>4, <2>3
  <2>. QED
    BY <1>1, <2>1, <2>2, <2>3
<1>. QED
  BY <1>2, <1>3, <1>4 DEF Ahead

LEMMA AheadDispatched ==
    ASSUME Inv, NEW w \in Workers, Dispatch(w),
           NEW d \in Clients, NEW x \in Message, NEW y \in Message, Ahead(x, y, d)'
    PROVE  Ahead(x, y, d)
<1>. DEFINE D == Message \cup Document
<1>0. /\ down \in [Clients -> Seq(D)] /\ queue \in [Workers -> Seq(Call)]
      /\ WorkerOf[d] \in Workers
  BY Constants DEF Inv, Types
<1>1. PICK call : call = Head(queue[w])
  OBVIOUS
<1>2. /\ queue[w] # << >>
      /\ down' = Written(down, w, call.source, call.message)
      /\ queue' = [queue EXCEPT ![w] = Tail(@)]
      /\ posting' = posting
  BY <1>1 DEF Dispatch
<1>3. /\ call \in Call /\ ToSet(queue[w]) = ToSet(Tail(queue[w])) \cup {call}
      /\ Len(queue[w]) \in Nat /\ DOMAIN queue[w] = 1 .. Len(queue[w])
      /\ DOMAIN Tail(queue[w]) = 1 .. (Len(queue[w]) - 1)
      /\ call = queue[w][1] /\ 1 \in DOMAIN queue[w]
      /\ \A k \in 1 .. (Len(queue[w]) - 1) : Tail(queue[w])[k] = queue[w][k + 1]
  BY <1>0, <1>1, <1>2, TailFacts
<1>4. call.message \in D
  BY <1>3 DEF Call
<1>. HIDE DEF D
<1>5. /\ Len(down[d]) \in Nat /\ DOMAIN down[d] = 1 .. Len(down[d])
      /\ \A m : m \in ToSet(down[d]) <=> \E i \in 1 .. Len(down[d]) : down[d][i] = m
  BY <1>0, SeqFacts
<1>6. \/ down'[d] = down[d]
      \/ WorkerOf[d] = w /\ down'[d] = Append(down[d], call.message)
  BY <1>2 DEF Written
<1>7. queue'[WorkerOf[d]] = IF WorkerOf[d] = w THEN Tail(queue[w]) ELSE queue[WorkerOf[d]]
  BY <1>0, <1>2
<1>8. \A m : Called(m, WorkerOf[d])' => Called(m, WorkerOf[d])
  BY <1>3, <1>7 DEF Called
<1>9. WorkerOf[d] = w => Called(call.message, WorkerOf[d])
  BY <1>3 DEF Called
<1>10. \A v : ToPost(y, v)' <=> ToPost(y, v)
  BY <1>2 DEF ToPost
<1>11. WorkerOf[d] = w /\ Called(y, w)' => \E j \in DOMAIN queue[w] : j > 1 /\ queue[w][j].message = y
  <2>1. SUFFICES ASSUME WorkerOf[d] = w, NEW z \in ToSet(Tail(queue[w])), z.message = y
                 PROVE  \E j \in DOMAIN queue[w] : j > 1 /\ queue[w][j].message = y
    BY <1>7 DEF Called
  <2>2. PICK k \in 1 .. (Len(queue[w]) - 1) : Tail(queue[w])[k] = z
    BY <1>3 DEF ToSet
  <2>3. k + 1 \in DOMAIN queue[w] /\ k + 1 > 1 /\ queue[w][k + 1] = z
    BY <1>3, <2>2
  <2>. QED
    BY <2>1, <2>3
<1>12. CASE \E i, j \in DOMAIN down'[d] : i < j /\ down'[d][i] = x /\ down'[d][j] = y
  <2>1. PICK i \in DOMAIN down'[d], j \in DOMAIN down'[d] :
            i < j /\ down'[d][i] = x /\ down'[d][j] = y
    BY <1>12
  <2>2. CASE down'[d] = down[d]
    BY <2>1, <2>2 DEF Ahead
  <2>3. CASE WorkerOf[d] = w /\ down'[d] = Append(down[d], call.message)
    <3>1. /\ DOMAIN down'[d] = 1 .. (Len(down[d]) + 1)
          /\ down'[d][Len(down[d]) + 1] = call.message
          /\ \A k \in 1 .. Len(down[d]) : down'[d][k] = down[d][k]
      BY <1>0, <1>4, <2>3, AppendFacts
    <3>2. i \in 1 .. Len(down[d]) /\ down[d][i] = x
      BY <1>5, <2>1, <3>1
    <3>3. CASE j \in 1 .. Len(down[d])
      <4>1. down[d][j] = y
        BY <2>1, <3>1, <3>3
      <4>. QED
        BY <1>5, <2>1, <3>2, <3>3, <4>1 DEF Ahead
    <3>4. CASE j \notin 1 .. Len(down[d])
      <4>1. y = call.message
        BY <1>5, <2>1, <3>1, <3>4
      <4>2. x \in ToSet(down[d]) /\ Called(y, WorkerOf[d])
        BY <1>5, <1>9, <2>3, <3>2, <4>1
      <4>. QED
        BY <4>2 DEF Ahead
    <3>. QED
      BY <3>3, <3>4
  <2>. QED
    BY <1>6, <2>2, <2>3
<1>13. CASE x \in ToSet(down'[d]) /\ (Called(y, WorkerOf[d])' \/ ToPost(y, WorkerOf[d])')
  <2>1. CASE x \in ToSet(down[d])
    BY <1>8, <1>10, <1>13, <2>1 DEF Ahead
  <2>2. CASE x \notin ToSet(down[d])
    <3>1. WorkerOf[d] = w /\ x = call.message
      <4>1. ToSet(Append(down[d], call.message)) = ToSet(down[d]) \cup {call.message}
        BY <1>0, <1>4, AppendFacts
      <4>. QED
        BY <1>6, <1>13, <2>2, <4>1
    <3>2. CASE Called(y, w)'
      <4>1. PICK j \in DOMAIN queue[w] : j > 1 /\ queue[w][j].message = y
        BY <1>11, <3>1, <3>2
      <4>2. 1 < j /\ 1 \in DOMAIN queue[w] /\ queue[w][1].message = x
        BY <1>3, <3>1, <4>1
      <4>. QED
        BY <3>1, <4>1, <4>2 DEF Ahead
    <3>3. CASE ToPost(y, w)'
      BY <1>9, <1>10, <3>1, <3>3 DEF Ahead
    <3>. QED
      BY <1>13, <3>1, <3>2, <3>3
  <2>. QED
    BY <2>1, <2>2
<1>14. CASE \E i, j \in DOMAIN queue'[WorkerOf[d]] :
               i < j /\ queue'[WorkerOf[d]][i].message = x /\ queue'[WorkerOf[d]][j].message = y
  <2>1. CASE WorkerOf[d] # w
    BY <1>7, <1>14, <2>1 DEF Ahead
  <2>2. CASE WorkerOf[d] = w
    <3>1. PICK i \in DOMAIN Tail(queue[w]), j \in DOMAIN Tail(queue[w]) :
              i < j /\ Tail(queue[w])[i].message = x /\ Tail(queue[w])[j].message = y
      BY <1>7, <1>14, <2>2
    <3>2. /\ i + 1 \in DOMAIN queue[w] /\ j + 1 \in DOMAIN queue[w] /\ i + 1 < j + 1
          /\ queue[w][i + 1].message = x /\ queue[w][j + 1].message = y
      BY <1>3, <3>1
    <3>. QED
      BY <2>2, <3>2 DEF Ahead
  <2>. QED
    BY <2>1, <2>2
<1>15. CASE Called(x, WorkerOf[d])' /\ ToPost(y, WorkerOf[d])'
  BY <1>8, <1>10, <1>15 DEF Ahead
<1>. QED
  BY <1>12, <1>13, <1>14, <1>15 DEF Ahead

LEMMA AheadPosted ==
    ASSUME Inv, Posted, NEW w \in Workers, PostNext(w),
           NEW d \in Clients, NEW x \in Message, NEW y \in Message,
           Ahead(x, y, d)', Alike(x, y)
    PROVE  Ahead(x, y, d)
<1>0. /\ queue \in [Workers -> Seq(Call)] /\ posting \in [Workers -> Seq(Post)]
      /\ WorkerOf[d] \in Workers /\ WorkerOf \in [Clients -> Workers]
  BY Constants DEF Inv, Types
<1>1. PICK p : p = Head(posting[w])
  OBVIOUS
<1>2. PICK call : call = [source |-> p.source, message |-> p.message]
  OBVIOUS
<1>3. /\ posting[w] # << >> /\ down' = down
      /\ queue' = [queue EXCEPT ![p.to] = Append(@, call)]
      /\ posting' = [posting EXCEPT ![w] = Tail(@)]
  BY <1>1, <1>2 DEF PostNext
<1>4. /\ p \in Post /\ ToSet(posting[w]) = ToSet(Tail(posting[w])) \cup {p}
      /\ Len(posting[w]) \in Nat
      /\ DOMAIN posting[w] = 1 .. Len(posting[w])
      /\ DOMAIN Tail(posting[w]) = 1 .. (Len(posting[w]) - 1)
      /\ p = posting[w][1] /\ 1 \in DOMAIN posting[w] /\ p \in ToSet(posting[w])
      /\ \A i \in 1 .. (Len(posting[w]) - 1) : Tail(posting[w])[i] = posting[w][i + 1]
  BY <1>0, <1>1, <1>3, TailFacts
<1>5. call \in Call /\ p.to \in Workers /\ call.source = p.source /\ call.message = p.message
  BY <1>2, <1>4 DEF Post, Call
<1>6. \A v \in Workers : posting'[v] = IF v = w THEN Tail(posting[w]) ELSE posting[v]
  BY <1>0, <1>3
<1>7. /\ \A v \in Workers : v # p.to => queue'[v] = queue[v]
      /\ queue'[p.to] = Append(queue[p.to], call)
  BY <1>0, <1>3, <1>5
<1>8. /\ \A v \in Workers : ToPost(y, v)' => ToPost(y, v)
      /\ ToPost(p.message, p.to)
  BY <1>4, <1>6 DEF ToPost
<1>9. \A m : Called(m, WorkerOf[d])' =>
          Called(m, WorkerOf[d]) \/ (WorkerOf[d] = p.to /\ m = p.message)
  <2>1. ToSet(Append(queue[p.to], call)) = ToSet(queue[p.to]) \cup {call}
    BY <1>0, <1>5, AppendFacts
  <2>. QED
    BY <1>0, <1>5, <1>7, <2>1 DEF Called
(* Its worker posts the message to no one twice, and no other worker posts  *)
(* inserts of its site.                                                     *)
<1>10. CASE WorkerOf[d] = p.to /\ x = p.message /\ ToPost(y, WorkerOf[d])'
  <2>1. PICK v \in Workers : \E q \in ToSet(posting'[v]) : q.to = p.to /\ q.message = y
    BY <1>10 DEF ToPost
  <2>2. PICK q \in ToSet(posting'[v]) : q.to = p.to /\ q.message = y
    BY <2>1
  <2>3. q \in ToSet(posting[v])
    BY <1>4, <1>6, <2>2
  <2>4. /\ WorkerOf[q.source] = v /\ y.symbol.site = q.source
        /\ WorkerOf[p.source] = w /\ x.symbol.site = p.source
    BY <1>4, <1>10, <2>2, <2>3 DEF Posted, Alike
  <2>5. v = w
    BY <2>4 DEF Alike
  <2>6. PICK k \in 1 .. (Len(posting[w]) - 1) : Tail(posting[w])[k] = q
    BY <1>4, <1>6, <2>2, <2>5 DEF ToSet
  <2>7. k + 1 \in DOMAIN posting[w] /\ posting[w][k + 1] = q /\ k + 1 # 1
    BY <1>4, <2>6
  <2>8. k + 1 = 1
    BY <1>4, <2>2, <2>7 DEF Posted
  <2>. QED
    BY <2>7, <2>8
<1>11. CASE \E i, j \in DOMAIN down'[d] : i < j /\ down'[d][i] = x /\ down'[d][j] = y
  BY <1>3, <1>11 DEF Ahead
<1>12. CASE x \in ToSet(down'[d]) /\ (Called(y, WorkerOf[d])' \/ ToPost(y, WorkerOf[d])')
  BY <1>0, <1>3, <1>8, <1>9, <1>12 DEF Ahead
<1>13. CASE \E i, j \in DOMAIN queue'[WorkerOf[d]] :
               i < j /\ queue'[WorkerOf[d]][i].message = x /\ queue'[WorkerOf[d]][j].message = y
  <2>1. CASE WorkerOf[d] # p.to
    BY <1>0, <1>7, <1>13, <2>1 DEF Ahead
  <2>2. CASE WorkerOf[d] = p.to
    <3>1. PICK q : q = queue[p.to]
      OBVIOUS
    <3>2. /\ q \in Seq(Call) /\ queue'[p.to] = Append(q, call)
      BY <1>0, <1>5, <1>7, <3>1
    <3>3. /\ Len(q) \in Nat /\ DOMAIN q = 1 .. Len(q)
          /\ DOMAIN queue'[p.to] = 1 .. (Len(q) + 1)
          /\ queue'[p.to][Len(q) + 1] = call
          /\ \A i \in 1 .. Len(q) : queue'[p.to][i] = q[i]
      BY <1>5, <3>2, AppendFacts
    <3>4. PICK i \in 1 .. (Len(q) + 1), j \in 1 .. (Len(q) + 1) :
              i < j /\ queue'[p.to][i].message = x /\ queue'[p.to][j].message = y
      BY <1>13, <2>2, <3>3
    <3>5. i \in 1 .. Len(q) /\ q[i].message = x
      BY <3>3, <3>4
    <3>6. CASE j \in 1 .. Len(q)
      <4>1. q[j].message = y
        BY <3>3, <3>4, <3>6
      <4>. QED
        BY <2>2, <3>1, <3>3, <3>4, <3>5, <3>6, <4>1 DEF Ahead
    <3>7. CASE j \notin 1 .. Len(q)
      <4>1. y = p.message
        BY <1>5, <3>3, <3>4, <3>7
      <4>2. q[i] \in ToSet(q)
        BY <3>2, <3>5, SeqFacts
      <4>3. Called(x, WorkerOf[d])
        BY <2>2, <3>1, <3>5, <4>2 DEF Called
      <4>. QED
        BY <1>8, <2>2, <4>1, <4>3 DEF Ahead
    <3>. QED
      BY <3>6, <3>7
  <2>. QED
    BY <2>1, <2>2
<1>14. CASE Called(x, WorkerOf[d])' /\ ToPost(y, WorkerOf[d])'
  BY <1>0, <1>8, <1>9, <1>10, <1>14 DEF Ahead
<1>. QED
  BY <1>11, <1>12, <1>13, <1>14 DEF Ahead

LEMMA AheadServed ==
    ASSUME Inv, Posted, NEW w \in Workers, NEW c \in Clients, NEW m, NEW e, Served(w, c, m, e),
           NEW d \in Clients, NEW x \in Message, NEW y \in Message,
           Ahead(x, y, d)', Alike(x, y)
    PROVE  Ahead(x, y, d) \/ (y = m /\ Flying(x))
<1>. DEFINE D == Message \cup Document
<1>0. /\ down \in [Clients -> Seq(D)] /\ posting \in [Workers -> Seq(Post)]
      /\ WorkerOf[d] \in Workers /\ WorkerOf \in [Clients -> Workers]
  BY Constants DEF Inv, Types
<1>1. /\ m \in Message /\ WorkerOf[c] = w /\ ToSet(posting[w]) = {}
      /\ IF d \in editing /\ d # c /\ WorkerOf[d] = w
         THEN down'[d] = Append(down[d], m) /\ ToSet(down'[d]) = ToSet(down[d]) \cup {m}
         ELSE down'[d] = down[d]
      /\ queue' = queue
      /\ \A v \in Workers : v # w => posting'[v] = posting[v]
      /\ \A p \in ToSet(posting'[w]) : p.to \in Workers \ {w} /\ p.source = c /\ p.message = m
  BY ServedChannels DEF Channels
<1>2. m.type = "insert" => m.symbol.site = c
  BY ServedFacts
<1>3. m \in D
  BY <1>1
<1>. HIDE DEF D
<1>4. /\ \A z : Called(z, WorkerOf[d])' <=> Called(z, WorkerOf[d])
      /\ ToPost(y, WorkerOf[d])' => ToPost(y, WorkerOf[d]) \/ (y = m /\ WorkerOf[d] # w)
  <2>1. ASSUME NEW v \in Workers, NEW p \in ToSet(posting'[v]),
               p.to = WorkerOf[d], p.message = y
        PROVE  ToPost(y, WorkerOf[d]) \/ (y = m /\ WorkerOf[d] # w)
    <3>1. CASE v = w
      BY <1>1, <2>1, <3>1
    <3>2. CASE v # w
      BY <1>1, <2>1, <3>2 DEF ToPost
    <3>. QED
      BY <3>1, <3>2
  <2>. QED
    BY <1>1, <2>1 DEF Called, ToPost
<1>5. /\ x \in ToSet(down[d]) => Flying(x)
      /\ Called(x, WorkerOf[d]) => Flying(x)
  BY <1>0 DEF Flying, Called
<1>6. x \in ToSet(down'[d]) => x \in ToSet(down[d]) \/ (x = m /\ WorkerOf[d] = w)
  BY <1>1
(* What others post or have posted to worker w is not of client c.          *)
<1>7. ASSUME x = m, WorkerOf[d] = w, Called(y, w) \/ ToPost(y, w)
      PROVE  FALSE
  <2>1. y.type = "insert" /\ y.symbol.site = c
    BY <1>2, <1>7 DEF Alike
  <2>2. CASE Called(y, w)
    BY <1>1, <2>1, <2>2 DEF Called, Posted
  <2>3. CASE ToPost(y, w)
    BY <1>1, <2>1, <2>3 DEF ToPost, Posted
  <2>. QED
    BY <1>7, <2>2, <2>3
<1>8. CASE \E i, j \in DOMAIN down'[d] : i < j /\ down'[d][i] = x /\ down'[d][j] = y
  <2>1. CASE down'[d] = down[d]
    BY <1>8, <2>1 DEF Ahead
  <2>2. CASE down'[d] = Append(down[d], m)
    <3>1. /\ Len(down[d]) \in Nat /\ DOMAIN down[d] = 1 .. Len(down[d])
          /\ DOMAIN down'[d] = 1 .. (Len(down[d]) + 1)
          /\ down'[d][Len(down[d]) + 1] = m
          /\ \A k \in 1 .. Len(down[d]) : down'[d][k] = down[d][k]
      BY <1>0, <1>3, <2>2, AppendFacts
    <3>2. PICK i \in 1 .. (Len(down[d]) + 1), j \in 1 .. (Len(down[d]) + 1) :
              i < j /\ down'[d][i] = x /\ down'[d][j] = y
      BY <1>8, <3>1
    <3>3. i \in 1 .. Len(down[d]) /\ down[d][i] = x
      BY <3>1, <3>2
    <3>4. CASE j \in 1 .. Len(down[d])
      <4>1. down[d][j] = y
        BY <3>1, <3>2, <3>4
      <4>. QED
        BY <3>1, <3>2, <3>3, <3>4, <4>1 DEF Ahead
    <3>5. CASE j \notin 1 .. Len(down[d])
      <4>1. y = m
        BY <3>1, <3>2, <3>5
      <4>2. x \in ToSet(down[d])
        BY <1>0, <3>3, SeqFacts
      <4>. QED
        BY <1>5, <4>1, <4>2
    <3>. QED
      BY <3>4, <3>5
  <2>. QED
    BY <1>1, <2>1, <2>2
<1>9. CASE x \in ToSet(down'[d]) /\ (Called(y, WorkerOf[d])' \/ ToPost(y, WorkerOf[d])')
  BY <1>4, <1>5, <1>6, <1>7, <1>9 DEF Ahead
<1>10. CASE \E i, j \in DOMAIN queue'[WorkerOf[d]] :
               i < j /\ queue'[WorkerOf[d]][i].message = x /\ queue'[WorkerOf[d]][j].message = y
  BY <1>1, <1>10 DEF Ahead
<1>11. CASE Called(x, WorkerOf[d])' /\ ToPost(y, WorkerOf[d])'
  BY <1>4, <1>5, <1>11 DEF Ahead
<1>. QED
  BY <1>8, <1>9, <1>10, <1>11 DEF Ahead

LEMMA InOrderKept ==
    ASSUME Inv, Posted, InOrder, Step
    PROVE  InOrder'
<1>1. SUFFICES ASSUME NEW d \in Clients, NEW x \in Message, NEW y \in Message,
                      Ahead(x, y, d)', Alike(x, y)
               PROVE  x.symbol.n < y.symbol.n
  BY DEF InOrder, Alike
<1>2. Ahead(x, y, d) => x.symbol.n < y.symbol.n
  BY <1>1 DEF InOrder
<1>3. CASE UNCHANGED <<down, queue, posting>>
  <2>1. Ahead(x, y, d)
    BY <1>1, <1>3 DEF Ahead, Called, ToPost
  <2>. QED
    BY <1>2, <2>1
<1>4. ASSUME NEW w \in Workers, NEW c \in Clients, NEW e, Served(w, c, y, e), Flying(x)
      PROVE  x.symbol.n < y.symbol.n
  <2>1. y.symbol \in Symbol /\ x.symbol \in Symbol
    BY MessageFields
  <2>2. ~Received(editor[Server], y.symbol) /\ Received(editor[Server], x.symbol)
    BY <1>1, <1>4, ServedFacts DEF Inv, Relayed, Alike
  <2>3. x.symbol.n \in Int /\ y.symbol.n \in Int /\ editor[Server].vv[y.symbol.site] \in Int
    BY <2>1, SymbolFields, SymbolsKnown, Constants
  <2>. QED
    BY <1>1, <2>2, <2>3 DEF Received, Alike
<1>5. ASSUME NEW w \in Workers, NEW c \in Clients, NEW m, NEW e, Served(w, c, m, e)
      PROVE  x.symbol.n < y.symbol.n
  BY <1>1, <1>2, <1>4, <1>5, AheadServed
<1>6. ASSUME NEW w \in Workers, PostNext(w) \/ Dispatch(w)
      PROVE  x.symbol.n < y.symbol.n
  BY <1>1, <1>2, <1>6, AheadPosted, AheadDispatched
<1>7. ASSUME UNCHANGED <<queue, posting>>, NEW c \in Clients,
             \/ down[c] # << >> /\ down' = [down EXCEPT ![c] = Tail(@)]
             \/ \E m \in Document : down' = [down EXCEPT ![c] = <<m>>]
      PROVE  x.symbol.n < y.symbol.n
  BY <1>1, <1>2, <1>7, AheadTaken
<1>. QED
  BY <1>3, <1>5, <1>6, <1>7, TransportCases

-----------------------------------------------------------------------------
(* How what a client shows, or will show, changes.                          *)
LEMMA CopyCases ==
    ASSUME Inv, Step, NEW d \in editing
    PROVE  \/ Copy(d)' = Copy(d)
           \/ /\ d \in joined /\ Copy(d) = editor[d]
              /\ \/ \E s, e : Typed(d, s, e) /\ Copy(d)' = e
                 \/ \E s, e : Deleted(d, s, e) /\ Copy(d)' = e
                 \/ \E m, e : Heard(d, m, e) /\ Copy(d)' = e
<1>0. /\ d \in Clients /\ d \in Replicas
      /\ d \notin joined => Copy(d)' = Copy(d)
      /\ d \in joined => Copy(d) = editor[d] /\ Copy(d)' = editor'[d]
  BY CopyKept, Constants DEF Inv, Types
<1>1. SUFFICES ASSUME d \in joined, editor'[d] # editor[d]
               PROVE  \/ \E s, e : Typed(d, s, e) /\ editor'[d] = e
                      \/ \E s, e : Deleted(d, s, e) /\ editor'[d] = e
                      \/ \E m, e : Heard(d, m, e) /\ editor'[d] = e
  BY <1>0
<1>2. ASSUME NEW c \in Clients, NEW e, Edit(c, e) PROVE c = d /\ editor'[d] = e
  <2>1. \A r \in Replicas : editor'[r] = IF r = c THEN e ELSE editor[r]
    BY <1>2, EditFacts
  <2>. QED
    BY <1>0, <1>1, <2>1
<1>3. ASSUME NEW c \in Clients, LocalStep(c)
      PROVE  \/ \E s, e : Typed(d, s, e) /\ editor'[d] = e
             \/ \E s, e : Deleted(d, s, e) /\ editor'[d] = e
  <2>1. ASSUME NEW s, NEW e, Typed(c, s, e) PROVE Typed(d, s, e) /\ editor'[d] = e
    BY <1>2, <2>1 DEF Typed
  <2>2. ASSUME NEW s, NEW e, Deleted(c, s, e) PROVE Deleted(d, s, e) /\ editor'[d] = e
    BY <1>2, <2>2 DEF Deleted
  <2>3. ASSUME Edit(c, editor[c]) PROVE FALSE
    BY <1>1, <1>2, <2>3
  <2>4. ASSUME RequestOpen(c) PROVE FALSE
    BY <1>1, <2>4 DEF RequestOpen
  <2>. QED
    BY <1>3, <2>1, <2>2, <2>3, <2>4 DEF LocalStep, Marked, Overtyped
<1>4. ASSUME NEW c \in Clients, NEW m, NEW e, Heard(c, m, e)
      PROVE  Heard(d, m, e) /\ editor'[d] = e
  <2>1. \A r \in Replicas : editor'[r] = IF r = c THEN e ELSE editor[r]
    BY <1>4, HeardFacts
  <2>2. c = d
    BY <1>0, <1>1, <2>1
  <2>. QED
    BY <1>0, <1>4, <2>1, <2>2
<1>5. ASSUME NEW c \in Clients, NEW m, NEW e, Entered(c, m, e) PROVE FALSE
  <2>1. \A r \in Replicas : editor'[r] = IF r = c THEN e ELSE editor[r]
    BY <1>5, EnteredFacts
  <2>2. c # d
    BY <1>1, <1>5 DEF Entered
  <2>. QED
    BY <1>0, <1>1, <2>1, <2>2
<1>6. ASSUME NEW w \in Workers, WorkerStep(w) PROVE FALSE
  <2>1. ASSUME NEW c \in Clients, NEW m, NEW e, Served(w, c, m, e) PROVE FALSE
    BY <1>0, <1>1, <2>1, ServedFacts
  <2>. QED
    BY <1>1, <1>6, <2>1 DEF WorkerStep, Admitted, PostNext, Dispatch
<1>. QED
  BY <1>3, <1>4, <1>5, <1>6 DEF Step, RemoteStep

LEMMA NewCopy ==
    ASSUME Inv, Step, NEW d \in editing', d \notin editing
    PROVE  /\ \E w \in Workers : \E m : Admitted(w, d, m)
           /\ Copy(d)' = EditorOf(editor[Server].text)
           /\ d \in Clients /\ editor' = editor
<1>0. down \in [Clients -> Seq(Message \cup Document)]
  BY DEF Inv, Types
<1>1. ASSUME NEW c \in Clients, LocalStep(c) PROVE editing' = editing
  BY <1>1 DEF LocalStep, Typed, Deleted, Marked, Overtyped, Edit, RequestOpen
<1>2. ASSUME NEW c \in Clients, RemoteStep(c) PROVE editing' = editing
  BY <1>2 DEF RemoteStep, Heard, Entered
<1>3. ASSUME NEW w \in Workers, WorkerStep(w)
      PROVE  editing' = editing \/ \E c \in Clients : \E m : Admitted(w, c, m)
  BY <1>3 DEF WorkerStep, Served, PostNext, Dispatch
<1>4. PICK w \in Workers, c \in Clients : \E m : Admitted(w, c, m)
  BY <1>1, <1>2, <1>3 DEF Step
<1>5. PICK m : Admitted(w, c, m)
  BY <1>4
<1>6. /\ editor' = editor /\ joined' = joined /\ SymbolsOf(m.text) = editor[Server].text
      /\ down' = [down EXCEPT ![c] = <<m>>] /\ editing' = editing \cup {c}
  BY <1>5 DEF Admitted
<1>7. c = d
  BY <1>6
<1>8. d \notin joined
  BY DEF Inv, Types
<1>9. down'[d] = <<m>>
  BY <1>0, <1>6, <1>7
<1>. QED
  BY <1>4, <1>6, <1>7, <1>8, <1>9 DEF Copy

(* What a client shows, or will, is in order; nobody forgets.               *)
LEMMA CopyFacts ==
    ASSUME Inv, NEW d \in editing
    PROVE  /\ d \in Clients /\ Sound(Copy(d))
           /\ \A c \in Clients : Copy(d).vv[c] \in Int
           /\ \A s \in ToSet(Copy(d).text) : s \in Symbol /\ Received(Copy(d), s)
           /\ \A s \in ToSet(Copy(d).buf) : ~Received(Copy(d), s)
           /\ d \notin joined => Ascending(Copy(d).text)
<1>0. d \in Clients /\ d \in Replicas /\ Clients = Sites
  BY Constants DEF Inv, Types
<1>1. CASE d \in joined
  <2>1. Copy(d) = editor[d]
    BY <1>1 DEF Copy
  <2>. QED
    BY <1>0, <1>1, <2>1, SymbolsKnown DEF Inv, Replicated, Sound
<1>2. CASE d \notin joined
  <2>1. PICK m : m = down[d][1]
    OBVIOUS
  <2>2. m \in Document /\ Copy(d) = EditorOf(SymbolsOf(m.text)) /\ m \in ToSet(down[d])
    <3>1. down[d] \in Seq(Message \cup Document) /\ down[d] # << >> /\ m \in Document
      BY <1>0, <1>2, <2>1, TypesOf DEF Inv, Joining
    <3>2. m \in ToSet(down[d])
      <4>. DEFINE D == Message \cup Document
      <4>1. down[d] \in Seq(D)
        BY <3>1
      <4>. HIDE DEF D
      <4>. QED
        BY <2>1, <3>1, <4>1, TailFacts
    <3>. QED
      BY <1>2, <2>1, <3>1, <3>2 DEF Copy
  <2>3. PICK t : t = SymbolsOf(m.text)
    OBVIOUS
  <2>4. Ascending(t) /\ Ordered(t)
    BY <1>0, <2>2, <2>3, AscendingIsOrdered DEF Inv, Snapshots
  <2>5. Copy(d) = EditorOf(t)
    BY <2>2, <2>3
  <2>6. Sound(Copy(d)) /\ Copy(d).text = t
    BY <2>4, <2>5, EditorOfText
  <2>7. Copy(d) \in Editor
    BY <2>6 DEF Sound
  <2>8. \A s \in ToSet(t) : s \in Symbol
    BY <2>4, TextFacts DEF Ordered
  <2>9. \A c \in Clients : Copy(d).vv[c] \in Int
    BY <1>0, <2>7, EditorFields
  <2>. QED
    BY <1>0, <2>4, <2>6, <2>8, <2>9 DEF Sound
<1>. QED
  BY <1>1, <1>2

LEMMA ServerGrows ==
    ASSUME Inv, Step, NEW c \in Clients
    PROVE  /\ editor[Server].vv[c] \in Int /\ editor'[Server].vv[c] \in Int
           /\ editor[Server].vv[c] <= editor'[Server].vv[c]
<1>0. /\ editor[Server] \in Editor /\ c \in Sites /\ Server \in Replicas
      /\ editor[Server].vv[c] \in Int
  BY TypesOf, Constants, SymbolsKnown DEF Inv
<1>1. CASE editor'[Server] = editor[Server]
  BY <1>0, <1>1
<1>2. ASSUME NEW w \in Workers, NEW b \in Clients, NEW m, NEW e, Served(w, b, m, e)
      PROVE  /\ editor'[Server].vv[c] \in Int
             /\ editor[Server].vv[c] <= editor'[Server].vv[c]
  <2>1. /\ editor'[Server] = e /\ m.symbol \in Symbol
        /\ e.vv = editor[Server].vv \/ e.vv = UpdateVersionVector(editor[Server].vv, m.symbol)
    BY <1>2, ServedFacts
  <2>2. CASE e.vv = editor[Server].vv
    BY <1>0, <2>1, <2>2
  <2>3. CASE e.vv = UpdateVersionVector(editor[Server].vv, m.symbol)
    <3>1. PICK vv : vv = e.vv
      OBVIOUS
    <3>2. vv[c] \in Int /\ vv[c] >= editor[Server].vv[c]
      <4>1. /\ vv \in [Sites -> NotReceived .. (MaxCount - 1)]
            /\ \A z \in Sites : vv[z] >= editor[Server].vv[z]
        BY <1>0, <2>1, <2>3, <3>1, VectorUpdated
      <4>. QED
        BY <1>0, <4>1 DEF NotReceived
    <3>. QED
      BY <1>0, <2>1, <3>1, <3>2
  <2>. QED
    BY <2>1, <2>2, <2>3
<1>3. ASSUME NEW b \in Clients, LocalStep(b) PROVE editor'[Server] = editor[Server]
  <2>1. ASSUME NEW e, Edit(b, e) PROVE editor'[Server] = editor[Server]
    BY <2>1, EditFacts
  <2>. QED
    BY <1>3, <2>1 DEF LocalStep, Typed, Deleted, Marked, Overtyped, RequestOpen
<1>4. ASSUME NEW b \in Clients, RemoteStep(b) PROVE editor'[Server] = editor[Server]
  BY <1>4, HeardFacts, EnteredFacts DEF RemoteStep
<1>5. ASSUME NEW w \in Workers, WorkerStep(w)
      PROVE  editor'[Server] = editor[Server]
             \/ \E b \in Clients : \E m, e : Served(w, b, m, e)
  BY <1>5 DEF WorkerStep, Admitted, PostNext, Dispatch
<1>. QED
  BY <1>0, <1>1, <1>2, <1>3, <1>4, <1>5 DEF Step

LEMMA LearnedKept ==
    ASSUME Inv, Learned, Step
    PROVE  Learned'
<1>0. Clients = Sites /\ Server \in Replicas
  BY Constants
<1>1. SUFFICES ASSUME NEW d \in editing', NEW c \in Clients, c # d
               PROVE  Copy(d)'.vv[c] <= editor'[Server].vv[c]
  BY DEF Learned
<1>2. /\ editor[Server].vv[c] \in Int /\ editor'[Server].vv[c] \in Int
      /\ editor[Server].vv[c] <= editor'[Server].vv[c]
  BY ServerGrows
<1>3. CASE d \notin editing
  <2>1. Copy(d)' = EditorOf(editor[Server].text) /\ editor' = editor
    BY <1>3, NewCopy
  <2>2. PICK t : t = editor[Server].text
    OBVIOUS
  <2>3. Ordered(t)
    BY <2>2, AscendingIsOrdered DEF Inv, Replicated
  <2>4. PICK e : e = EditorOf(t)
    OBVIOUS
  <2>5. e.vv[c] = NotReceived \/ \E s \in ToSet(t) : s.site = c /\ s.n = e.vv[c]
    BY <1>0, <2>3, <2>4, EditorOfText
  <2>6. \A s \in ToSet(t) : Received(editor[Server], s)
    BY <1>0, <2>2, SymbolsKnown
  <2>7. editor[Server].vv[c] >= NotReceived
    <3>1. editor[Server] \in Editor
      BY TypesOf DEF Inv
    <3>2. editor[Server].vv \in [Sites -> NotReceived .. (MaxCount - 1)]
      BY <3>1, EditorFields
    <3>3. editor[Server].vv[c] \in NotReceived .. (MaxCount - 1)
      BY <1>0, <3>2
    <3>. QED
      BY <3>3, Constants DEF NotReceived
  <2>8. e.vv[c] <= editor[Server].vv[c]
    BY <1>2, <2>5, <2>6, <2>7 DEF Received, NotReceived
  <2>. QED
    BY <2>1, <2>2, <2>4, <2>8
<1>4. CASE d \in editing
  <2>0. /\ Copy(d).vv[c] <= editor[Server].vv[c] /\ Copy(d).vv[c] \in Int
        /\ d \in Clients
    BY <1>1, <1>4, CopyFacts DEF Learned
  <2>1. CASE Copy(d)' = Copy(d)
    BY <1>2, <2>0, <2>1
  <2>2. ASSUME d \in joined, Copy(d) = editor[d], NEW s, NEW e, Typed(d, s, e), Copy(d)' = e
        PROVE  e.vv[c] <= editor'[Server].vv[c]
    <3>1. s \in Symbol /\ s.site = d /\ e.vv = UpdateVersionVector(editor[d].vv, s)
      BY <2>2 DEF Typed
    <3>2. editor[d] \in Editor
      BY <2>0, TypesOf DEF Inv
    <3>3. PICK vv : vv = e.vv
      OBVIOUS
    <3>4. vv[c] = editor[d].vv[c]
      BY <1>0, <1>1, <3>1, <3>2, <3>3, VectorUpdated
    <3>. QED
      BY <1>2, <2>0, <2>2, <3>3, <3>4
  <2>3. ASSUME Copy(d) = editor[d], NEW s, NEW e, Deleted(d, s, e), Copy(d)' = e
        PROVE  e.vv[c] <= editor'[Server].vv[c]
    <3>1. e.vv = editor[d].vv
      BY <2>3 DEF Deleted
    <3>. QED
      BY <1>2, <2>0, <2>3, <3>1
  <2>4. ASSUME Copy(d) = editor[d], NEW m, NEW e, Heard(d, m, e), Copy(d)' = e
        PROVE  e.vv[c] <= editor'[Server].vv[c]
    <3>1. Handled(editor[d], m, e) /\ m \in Message /\ Flying(m)
      BY <2>0, <2>4, HeardFacts
    <3>2. m.symbol \in Symbol /\ m.type \in {"insert", "erase", "format"}
      BY <3>1, MessageFields
    <3>3. CASE m.type # "insert"
      <4>1. e.vv = editor[d].vv
        BY <3>1, <3>2, <3>3 DEF Handled
      <4>. QED
        BY <1>2, <2>0, <2>4, <4>1
    <3>4. CASE m.type = "insert"
      <4>1. PICK s : s = m.symbol
        OBVIOUS
      <4>2. e.vv = UpdateVersionVector(editor[d].vv, s) /\ s \in Symbol
        BY <3>1, <3>2, <3>4, <4>1 DEF Handled
      <4>3. editor[d] \in Editor
        BY <2>0, TypesOf DEF Inv
      <4>4. PICK vv : vv = e.vv
        OBVIOUS
      <4>5. vv[c] = IF c = s.site /\ s.n > editor[d].vv[c] THEN s.n ELSE editor[d].vv[c]
        BY <1>0, <4>2, <4>3, <4>4, VectorUpdated
      <4>6. editor[Server].vv[s.site] >= s.n
        BY <3>1, <4>1 DEF Inv, Relayed, Received
      <4>7. s.n \in Int
        BY <4>2, SymbolFields
      <4>. QED
        BY <1>2, <2>0, <2>4, <4>4, <4>5, <4>6, <4>7
    <3>. QED
      BY <3>3, <3>4
  <2>. QED
    BY <1>4, <2>1, <2>2, <2>3, <2>4, CopyCases
<1>. QED
  BY <1>3, <1>4

(* A client that joins through the only worker joins when nothing is posted.*)
LEMMA NothingOnItsWay ==
    ASSUME Inv, Posted, Present, NEW d \in Steady, d \notin editing, NEW x \in Message
    PROVE  ~UnderWay(x, d)
<1>1. /\ d \in Clients /\ joined \subseteq editing
      /\ WorkerOf \in [Clients -> Workers] /\ queue \in [Workers -> Seq(Call)]
      /\ posting \in [Workers -> Seq(Post)]
  BY Constants DEF Steady, Inv, Types
<1>2. NWorkers = 1 /\ Workers = {1}
  BY <1>1 DEF Steady, Present, Workers
<1>3. down[d] = << >>
  BY <1>1 DEF Inv, Joining
<1>4. \A w \in Workers : ToSet(queue[w]) = {}
  <2>1. ASSUME NEW w \in Workers, NEW call \in ToSet(queue[w]) PROVE FALSE
    <3>1. call \in Call
      BY <1>1, SeqFacts
    <3>2. call.source \in Clients /\ WorkerOf[call.source] # w
      BY <3>1 DEF Call, Posted
    <3>. QED
      BY <1>1, <1>2, <3>2
  <2>. QED
    BY <2>1
<1>5. \A w \in Workers : ToSet(posting[w]) = {}
  <2>1. ASSUME NEW w \in Workers, NEW p \in ToSet(posting[w]) PROVE FALSE
    <3>1. p \in Post
      BY <1>1, SeqFacts
    <3>2. p.to \in Workers /\ p.to # w
      BY <3>1 DEF Post, Posted
    <3>. QED
      BY <1>2, <3>2
  <2>. QED
    BY <2>1
<1>. QED
  BY <1>1, <1>3, <1>4, <1>5, EmptyFacts DEF UnderWay

LEMMA HeardIsAhead ==
    ASSUME Inv, NEW d \in Clients, NEW m, NEW e, Heard(d, m, e), NEW x \in Message, UnderWay(x, d)'
    PROVE  Ahead(m, x, d) /\ m \in ToSet(down[d])
<1>. DEFINE D == Message \cup Document
<1>1. down \in [Clients -> Seq(D)]
  BY DEF Inv, Types
<1>2. /\ down[d] # << >> /\ m = Head(down[d])
      /\ down' = [down EXCEPT ![d] = Tail(@)]
      /\ queue' = queue /\ posting' = posting
  BY DEF Heard
<1>. HIDE DEF D
<1>3. /\ Len(down[d]) \in Nat /\ DOMAIN down[d] = 1 .. Len(down[d])
      /\ DOMAIN Tail(down[d]) = 1 .. (Len(down[d]) - 1)
      /\ m = down[d][1] /\ 1 \in DOMAIN down[d] /\ m \in ToSet(down[d])
      /\ \A i \in 1 .. (Len(down[d]) - 1) : Tail(down[d])[i] = down[d][i + 1]
      /\ down'[d] = Tail(down[d])
  BY <1>1, <1>2, TailFacts
<1>4. CASE x \in ToSet(down'[d])
  <2>1. PICK k \in 1 .. (Len(down[d]) - 1) : Tail(down[d])[k] = x
    BY <1>3, <1>4 DEF ToSet
  <2>2. k + 1 \in DOMAIN down[d] /\ 1 < k + 1 /\ down[d][k + 1] = x
    BY <1>3, <2>1
  <2>. QED
    BY <1>3, <2>2 DEF Ahead
<1>5. CASE \E call \in ToSet(queue'[WorkerOf[d]]) : call.source # d /\ call.message = x
  BY <1>2, <1>3, <1>5 DEF Ahead, Called
<1>6. CASE \E w \in Workers : \E p \in ToSet(posting'[w]) :
               p.to = WorkerOf[d] /\ p.source # d /\ p.message = x
  BY <1>2, <1>3, <1>6 DEF Ahead, ToPost
<1>. QED
  BY <1>4, <1>5, <1>6 DEF UnderWay

LEMMA FreshKept ==
    ASSUME Inv, Posted, InOrder, Learned, Present, Fresh, Step
    PROVE  Fresh'
<1>0. Clients = Sites
  BY Constants
<1>1. SUFFICES ASSUME NEW d \in editing', d \in Steady, NEW s \in Symbol, NEW f \in Formats,
                      UnderWay(Insert(s, f), d)'
               PROVE  s.site # d /\ ~Received(Copy(d)', s)
  BY DEF Fresh, Coming, Received
<1>2. PICK x : x = Insert(s, f)
  OBVIOUS
<1>3. x \in Message /\ x.type = "insert" /\ x.symbol = s
  BY <1>2, MessagesMade
<1>4. d \in Clients /\ s.site \in Clients /\ s.n \in Int /\ s.site \in Sites
  BY <1>0, <1>1, SymbolFields DEF Steady
<1>5. CASE d \notin editing
  <2>1. PICK w \in Workers : \E m : Admitted(w, d, m)
    BY <1>1, <1>5, NewCopy
  <2>2. PICK m : Admitted(w, d, m)
    BY <2>1
  <2>3. UnderWay(x, d)
    BY <1>1, <1>2, <1>3, <1>4, <2>2, AdmittedTransport
  <2>. QED
    BY <1>1, <1>3, <1>5, <2>3, NothingOnItsWay
<1>6. ASSUME d \in editing, NEW w \in Workers, NEW c \in Clients, NEW e,
             c # d, Served(w, c, x, e)
      PROVE  s.site # d /\ ~Received(Copy(d)', s)
  <2>1. s.site = c /\ ~Received(editor[Server], s) /\ editor'[d] = editor[d]
    BY <1>3, <1>4, <1>6, ServedFacts
  <2>2. Copy(d)' = Copy(d)
    BY <1>6, <2>1, CopyKept
  <2>3. Copy(d).vv[c] <= editor[Server].vv[c] /\ Copy(d).vv[c] \in Int
        /\ editor[Server].vv[c] \in Int
    BY <1>6, CopyFacts, ServerGrows DEF Learned
  <2>. QED
    BY <1>4, <1>6, <2>1, <2>2, <2>3 DEF Received
<1>7. CASE d \in editing /\ UnderWay(x, d)
  <2>1. s.site # d /\ ~Received(Copy(d), s)
    BY <1>1, <1>2, <1>7 DEF Fresh, Coming
  <2>2. CASE Copy(d)' = Copy(d)
    BY <2>1, <2>2
  <2>3. ASSUME Copy(d) = editor[d], NEW z, NEW e, Typed(d, z, e), Copy(d)' = e
        PROVE  ~Received(e, s)
    <3>1. z \in Symbol /\ z.site = d /\ e.vv = UpdateVersionVector(editor[d].vv, z)
      BY <2>3 DEF Typed
    <3>2. editor[d] \in Editor
      BY <1>4, TypesOf DEF Inv
    <3>3. PICK vv : vv = e.vv
      OBVIOUS
    <3>4. vv[s.site] = editor[d].vv[s.site]
      BY <1>4, <2>1, <3>1, <3>2, <3>3, VectorUpdated
    <3>. QED
      BY <2>1, <2>3, <3>3, <3>4 DEF Received
  <2>4. ASSUME Copy(d) = editor[d], NEW z, NEW e, Deleted(d, z, e)
        PROVE  ~Received(e, s)
    BY <2>1, <2>4 DEF Deleted, Received
  <2>5. ASSUME Copy(d) = editor[d], NEW m, NEW e, Heard(d, m, e)
        PROVE  ~Received(e, s)
    <3>1. Handled(editor[d], m, e) /\ m \in Message
      BY <1>4, <2>5, HeardFacts
    <3>2. m.symbol \in Symbol /\ m.type \in {"insert", "erase", "format"}
      BY <3>1, MessageFields
    <3>3. CASE m.type # "insert"
      <4>1. e.vv = editor[d].vv
        BY <3>1, <3>2, <3>3 DEF Handled
      <4>. QED
        BY <2>1, <2>5, <4>1 DEF Received
    <3>4. CASE m.type = "insert"
      <4>1. PICK y : y = m.symbol
        OBVIOUS
      <4>2. e.vv = UpdateVersionVector(editor[d].vv, y) /\ y \in Symbol
        BY <3>1, <3>2, <3>4, <4>1 DEF Handled
      <4>3. editor[d] \in Editor
        BY <1>4, TypesOf DEF Inv
      <4>4. PICK vv : vv = e.vv
        OBVIOUS
      <4>5. vv[s.site] = IF s.site = y.site /\ y.n > editor[d].vv[s.site]
                         THEN y.n ELSE editor[d].vv[s.site]
        BY <1>4, <4>2, <4>3, <4>4, VectorUpdated
      <4>6. y.site = s.site => y.n < s.n
        <5>1. Ahead(m, x, d)
          BY <1>1, <1>2, <1>3, <1>4, <2>5, HeardIsAhead
        <5>2. y.site = s.site => Alike(m, x)
          BY <1>3, <3>4, <4>1 DEF Alike
        <5>. QED
          BY <1>3, <1>4, <3>1, <4>1, <5>1, <5>2 DEF InOrder
      <4>7. y.n \in Int /\ editor[d].vv[s.site] \in Int
        <5>1. editor[d].vv[s.site] \in Int
          BY <1>4, <4>3, EditorFields
        <5>. QED
          BY <4>2, <5>1, SymbolFields
      <4>. QED
        BY <1>4, <2>1, <2>5, <4>4, <4>5, <4>6, <4>7 DEF Received
    <3>. QED
      BY <3>3, <3>4
  <2>. QED
    BY <1>7, <2>1, <2>2, <2>3, <2>4, <2>5, CopyCases
<1>8. CASE d \in editing /\ ~UnderWay(x, d)
  BY <1>1, <1>2, <1>3, <1>4, <1>6, <1>8, FlyingCases
<1>. QED
  BY <1>5, <1>7, <1>8

(* An insert that comes to a client is of a symbol that it has not had.     *)
LEMMA HeardIsFresh ==
    ASSUME Inv, Fresh, NEW d \in Steady, NEW m, NEW e, Heard(d, m, e), m.type = "insert"
    PROVE  /\ Coming(m.symbol, d) /\ m.symbol.site # d
           /\ ~Received(editor[d], m.symbol) /\ m.symbol \notin ToSet(editor[d].text)
<1>1. /\ d \in Clients /\ d \in joined /\ d \in editing /\ m \in Message
      /\ m \in ToSet(down[d])
  BY HeardFacts DEF Steady
<1>2. m.symbol \in Symbol /\ m.format \in Formats /\ m = Insert(m.symbol, m.format)
  BY <1>1, MessageFields
<1>3. UnderWay(m, d)
  BY <1>1 DEF UnderWay
<1>4. Coming(m.symbol, d)
  BY <1>2, <1>3 DEF Coming
<1>5. Copy(d) = editor[d]
  BY <1>1 DEF Copy
<1>6. d \in Replicas
  BY <1>1, Constants
<1>. QED
  BY <1>1, <1>2, <1>4, <1>5, <1>6, SymbolsKnown DEF Fresh

LEMMA PresentKept ==
    ASSUME Inv, Present, Step
    PROVE  Present'
  BY JoinedCases DEF Present

LEMMA DistinctKept ==
    ASSUME Inv, Fresh, Distinct, Step
    PROVE  Distinct'
<1>1. SUFFICES ASSUME NEW d \in Steady, editor'[d] # editor[d]
               PROVE  Ascending(editor'[d].text)
  BY DEF Distinct
<1>2. d \in Clients /\ Ascending(editor[d].text)
  BY DEF Steady, Distinct
<1>3. d \in joined' /\ d \in editing
  BY <1>1, <1>2, OutsidersIdle, JoinedCases
<1>4. CASE d \notin joined
  <2>1. PICK e : e = Copy(d)
    OBVIOUS
  <2>2. Copy(d)' = editor'[d]
    BY <1>3 DEF Copy
  <2>3. Copy(d)' = Copy(d)
    BY <1>3, <1>4, CopyKept
  <2>. QED
    BY <1>3, <1>4, <2>2, <2>3, CopyFacts
<1>5. CASE d \in joined
  <2>1. Copy(d)' = editor'[d] /\ Copy(d) = editor[d]
    BY <1>3, <1>5, CopyKept
  <2>2. ASSUME NEW s, NEW e, Typed(d, s, e) \/ Deleted(d, s, e) PROVE Ascending(e.text)
    BY <1>2, <2>2 DEF Typed, Deleted
  <2>3. ASSUME NEW m, NEW e, Heard(d, m, e) PROVE Ascending(e.text)
    <3>1. Handled(editor[d], m, e) /\ m \in Message
      BY <1>2, <2>3, HeardFacts
    <3>2. m.type \in {"insert", "erase", "format"}
      BY <3>1, MessageFields
    <3>3. m.type = "insert" => ~Received(editor[d], m.symbol)
      BY <2>3, HeardIsFresh
    <3>. QED
      BY <1>2, <3>1, <3>2, <3>3 DEF Handled
  <2>. QED
    BY <1>1, <1>3, <2>1, <2>2, <2>3, CopyCases
<1>. QED
  BY <1>4, <1>5

(* A client that has had a symbol has had it for good, and does not show it *)
(* again once it does not.                                                  *)
LEMMA NotShownAgain ==
    ASSUME Inv, Fresh, Step, NEW d \in Steady, d \in joined, NEW s \in Symbol,
           Received(editor[d], s)
    PROVE  /\ Received(editor'[d], s)
           /\ s \notin ToSet(editor[d].text) => s \notin ToSet(editor'[d].text)
<1>0. /\ d \in Clients /\ d \in editing /\ d \in Replicas /\ d \in Sites
      /\ editor[d] \in Editor /\ editor[d].vv[d] \in Int /\ s.n \in Int
  <2>1. d \in Clients /\ d \in editing /\ d \in Replicas /\ d \in Sites
    BY Constants DEF Steady, Inv, Types
  <2>. QED
    BY <2>1, TypesOf, SymbolsKnown, SymbolFields DEF Inv
<1>1. Copy(d)' = editor'[d] /\ Copy(d) = editor[d]
  BY <1>0, CopyKept
<1>2. ASSUME NEW z, NEW e, Typed(d, z, e)
      PROVE  Received(e, s) /\ (s \notin ToSet(editor[d].text) => s \notin ToSet(e.text))
  <2>1. /\ z \in Symbol /\ z.site = d /\ z.n = counter[d]
        /\ e.vv = UpdateVersionVector(editor[d].vv, z)
        /\ ToSet(e.text) = ToSet(editor[d].text) \cup {z}
    BY <1>2 DEF Typed
  <2>2. Received(e, s)
    BY <1>0, <2>1, ReceivedMore
  <2>3. editor[d].vv[d] < z.n
    BY <1>0, <2>1 DEF Inv, Counted
  <2>4. z # s
    BY <1>0, <2>1, <2>3 DEF Received
  <2>. QED
    BY <2>1, <2>2, <2>4
<1>3. ASSUME NEW z, NEW e, Deleted(d, z, e)
      PROVE  Received(e, s) /\ (s \notin ToSet(editor[d].text) => s \notin ToSet(e.text))
  BY <1>3 DEF Deleted, Received
<1>4. ASSUME NEW m, NEW e, Heard(d, m, e)
      PROVE  Received(e, s) /\ (s \notin ToSet(editor[d].text) => s \notin ToSet(e.text))
  <2>1. Handled(editor[d], m, e) /\ m \in Message
    BY <1>0, <1>4, HeardFacts
  <2>2. m.type \in {"insert", "erase", "format"} /\ m.symbol \in Symbol
    BY <2>1, MessageFields
  <2>3. CASE m.type = "insert"
    <3>1. e.vv = UpdateVersionVector(editor[d].vv, m.symbol)
      BY <2>1, <2>3 DEF Handled
    <3>2. Received(e, s)
      BY <1>0, <2>2, <3>1, ReceivedMore
    <3>3. ~Received(editor[d], m.symbol)
      BY <1>4, <2>3, HeardIsFresh
    <3>4. m.symbol # s
      BY <3>3
    <3>. QED
      BY <2>1, <2>3, <3>2, <3>4 DEF Handled
  <2>4. CASE m.type # "insert"
    BY <2>1, <2>2, <2>4 DEF Handled, Received
  <2>. QED
    BY <2>3, <2>4
<1>5. CASE editor'[d] = editor[d]
  BY <1>5
<1>. QED
  BY <1>0, <1>1, <1>2, <1>3, <1>4, <1>5, CopyCases

LEMMA ErasingKept ==
    ASSUME Inv, Fresh, Distinct, Erasing, Step
    PROVE  Erasing'
<1>1. SUFFICES ASSUME NEW d \in Steady, NEW s \in Symbol, Erase(s) \in ToSet(up'[d])
               PROVE  Received(editor'[d], s) /\ s \notin ToSet(editor'[d].text)
  BY DEF Erasing, Received
<1>0. d \in Clients /\ d \in Replicas /\ Erase(s) \in Message /\ Erase(s).type = "erase"
      /\ DefaultFormat \in Formats /\ Erase(s).symbol = s
  BY Constants, MessagesMade DEF Steady
<1>2. CASE Erase(s) \in ToSet(up[d])
  <2>1. Received(editor[d], s) /\ s \notin ToSet(editor[d].text)
    BY <1>2 DEF Erasing
  <2>2. d \in joined
    <3>1. Erase(s) # Open
      BY <1>0, MessageFields
    <3>2. ToSet(<<Open>>) = {Open}
      BY DEF ToSet
    <3>3. up[d] # << >> /\ up[d] # <<Open>>
      BY <1>2, <3>1, <3>2, EmptyFacts
    <3>. QED
      BY <1>0, <3>3 DEF Inv, Joining
  <2>. QED
    BY <2>1, <2>2, NotShownAgain
<1>3. CASE Erase(s) \notin ToSet(up[d])
  <2>1. ASSUME NEW z, NEW e, Deleted(d, z, e), Erase(s) = Erase(z)
        PROVE  Received(editor'[d], s) /\ s \notin ToSet(editor'[d].text)
    <3>1. /\ Edit(d, e) /\ z \in ToSet(editor[d].text) /\ e.vv = editor[d].vv
          /\ Ascending(editor[d].text) => z \notin ToSet(e.text)
      BY <2>1 DEF Deleted
    <3>2. z = s
      BY <2>1 DEF Erase
    <3>3. editor'[d] = e
      BY <1>0, <3>1, EditFacts
    <3>4. Received(editor[d], s)
      BY <1>0, <3>1, <3>2, SymbolsKnown
    <3>. QED
      BY <3>1, <3>2, <3>3, <3>4 DEF Distinct, Received
  <2>2. ASSUME NEW z, NEW e, Typed(d, z, e) PROVE Erase(s) # Insert(z, DefaultFormat)
    <3>1. z \in Symbol
      BY <2>2 DEF Typed
    <3>. QED
      BY <1>0, <3>1, MessagesMade
  <2>3. ASSUME NEW z, NEW f, Marked(d, z, f) PROVE Erase(s) # Format(z, f)
    <3>1. z \in Symbol /\ f \in Formats
      BY <1>0, <2>3, SymbolsKnown DEF Marked
    <3>. QED
      BY <1>0, <3>1, MessagesMade
  <2>. QED
    BY <1>0, <1>1, <1>3, <2>1, <2>2, <2>3, SentNow
<1>. QED
  BY <1>2, <1>3

(* An operation that makes a symbol known at the server, and not shown      *)
(* there, erases it, unless nobody has the symbol.                          *)
LEMMA GoneNow ==
    ASSUME Inv, Step, NEW s \in Symbol, Gone(s)', ~Gone(s)
    PROVE  \E w \in Workers, c \in Clients : \E m, e :
              /\ Served(w, c, m, e)
              /\ \/ m = Erase(s)
                 \/ /\ m.type = "insert" /\ m.symbol # s
                    /\ ~Received(editor[Server], s) /\ s.site = c /\ s.n <= m.symbol.n
<1>1. editor'[Server] # editor[Server]
  BY DEF Gone, Received
<1>2. ASSUME NEW b \in Clients, LocalStep(b) PROVE FALSE
  <2>1. ASSUME NEW e, Edit(b, e) PROVE FALSE
    BY <1>1, <2>1, EditFacts
  <2>. QED
    BY <1>1, <1>2, <2>1 DEF LocalStep, Typed, Deleted, Marked, Overtyped, RequestOpen
<1>3. ASSUME NEW b \in Clients, RemoteStep(b) PROVE FALSE
  BY <1>1, <1>3, HeardFacts, EnteredFacts DEF RemoteStep
<1>4. PICK w \in Workers, c \in Clients : \E m, e : Served(w, c, m, e)
  BY <1>1, <1>2, <1>3 DEF Step, WorkerStep, Admitted, PostNext, Dispatch
<1>5. PICK m, e : Served(w, c, m, e)
  BY <1>4
<1>6. PICK old : old = editor[Server]
  OBVIOUS
<1>7. /\ editor'[Server] = e /\ m \in Message
      /\ m.type = "insert" => ToSet(e.text) = ToSet(old.text) \cup {m.symbol}
      /\ m.type # "insert" => Received(old, m.symbol) /\ e.vv = old.vv
      /\ m.type = "erase" => ToSet(e.text) = ToSet(old.text) \ {m.symbol}
      /\ m.type = "format" => e = old
      /\ Received(e, s) /\ ~Received(old, s) =>
             m.type = "insert" /\ s.site = c /\ s.n <= m.symbol.n
  BY <1>5, <1>6, ServedFacts
<1>8. m.type \in {"insert", "erase", "format"} /\ (m.type = "erase" => m = Erase(m.symbol))
  BY <1>7, MessageFields
<1>9. Received(e, s) /\ s \notin ToSet(e.text)
  BY <1>7 DEF Gone, Received
<1>10. ~Received(old, s) \/ s \in ToSet(old.text)
  BY <1>6 DEF Gone
<1>11. CASE ~Received(old, s)
  <2>1. m.type = "insert" /\ s.site = c /\ s.n <= m.symbol.n
    BY <1>7, <1>9, <1>11
  <2>2. m.symbol # s
    BY <1>7, <1>9, <2>1
  <2>. QED
    BY <1>4, <1>5, <1>6, <1>11, <2>1, <2>2
<1>12. CASE s \in ToSet(old.text)
  <2>1. m.type = "erase" /\ m.symbol = s
    BY <1>1, <1>6, <1>7, <1>8, <1>9, <1>12
  <2>. QED
    BY <1>4, <1>5, <1>8, <2>1
<1>. QED
  BY <1>10, <1>11, <1>12

(* What is gone stays away: its erase is ahead of the client, waits in its  *)
(* deletion buffer for the insert, or has been handled.                     *)
GoingFor(d, s) ==
    \/ UnderWay(Erase(s), d)
    \/ s \in ToSet(Copy(d).buf)
    \/ s \notin ToSet(Copy(d).text) /\ ~Coming(s, d)

LEMMA StaysAway ==
    ASSUME Inv, Fresh, Fresh', Distinct, Step, NEW d \in editing, d \in Steady,
           NEW s \in Symbol, Gone(s), GoingFor(d, s)
    PROVE  GoingFor(d, s)'
<1>0. /\ d \in Clients /\ d \in editing' /\ d \in Replicas
      /\ Erase(s) \in Message /\ Erase(s).type = "erase" /\ Erase(s).symbol = s
      /\ Received(editor[Server], s)
  BY JoinedCases, Constants, MessagesMade DEF Steady, Gone
<1>1. Received(Copy(d)', s) => ~Coming(s, d)'
  BY <1>0 DEF Fresh, Received
<1>2. CASE UnderWay(Erase(s), d)
  <2>1. CASE UnderWay(Erase(s), d)'
    BY <2>1 DEF GoingFor
  <2>2. ASSUME NEW e, Heard(d, Erase(s), e) PROVE GoingFor(d, s)'
    <3>1. /\ Handled(editor[d], Erase(s), e) /\ d \in joined
          /\ editor'[d] = e
      BY <1>0, <2>2, HeardFacts
    <3>2. Copy(d)' = e
      BY <3>1, CopyKept
    <3>3. /\ e.vv = editor[d].vv
          /\ \A x : x \in ToSet(e.buf) <=>
                x \in ToSet(editor[d].buf) \/ (x = s /\ ~Received(editor[d], s))
          /\ Ascending(editor[d].text) => s \notin ToSet(e.text)
      BY <1>0, <3>1 DEF Handled
    <3>4. CASE Received(editor[d], s)
      <4>1. s \notin ToSet(e.text) /\ Received(e, s)
        BY <3>3, <3>4 DEF Distinct, Received
      <4>. QED
        BY <1>1, <3>2, <4>1 DEF GoingFor
    <3>5. CASE ~Received(editor[d], s)
      BY <3>2, <3>3, <3>5 DEF GoingFor
    <3>. QED
      BY <3>4, <3>5
  <2>. QED
    BY <1>0, <1>2, <2>1, <2>2, FlyingCases
<1>3. CASE s \in ToSet(Copy(d).buf)
  <2>1. CASE s \in ToSet(Copy(d)'.buf)
    BY <2>1 DEF GoingFor
  <2>2. CASE Copy(d)' = Copy(d)
    BY <1>3, <2>2 DEF GoingFor
  <2>3. ASSUME Copy(d) = editor[d], NEW z, NEW e, Typed(d, z, e) \/ Deleted(d, z, e),
               Copy(d)' = e
        PROVE  s \in ToSet(e.buf)
    BY <1>3, <2>3 DEF Typed, Deleted
  <2>4. ASSUME Copy(d) = editor[d], NEW m, NEW e, Heard(d, m, e), Copy(d)' = e,
               s \notin ToSet(e.buf)
        PROVE  GoingFor(d, s)'
    <3>1. Handled(editor[d], m, e) /\ m \in Message
      BY <1>0, <2>4, HeardFacts
    <3>2. m.type \in {"insert", "erase", "format"}
      BY <3>1, MessageFields
    <3>3. s \in ToSet(editor[d].buf)
      BY <1>3, <2>4
    <3>4. m.type = "insert" /\ Received(e, s)
      BY <2>4, <3>1, <3>2, <3>3 DEF Handled
    <3>5. s \notin ToSet(editor[d].text)
      BY <1>0, <3>3, SymbolsKnown
    <3>6. s \notin ToSet(e.text)
      BY <3>1, <3>3, <3>4, <3>5 DEF Handled
    <3>. QED
      BY <1>1, <2>4, <3>4, <3>6 DEF GoingFor
  <2>. QED
    BY <2>1, <2>2, <2>3, <2>4, CopyCases
<1>4. CASE s \notin ToSet(Copy(d).text) /\ ~Coming(s, d)
  <2>1. ~Coming(s, d)'
    <3>1. SUFFICES ASSUME NEW f \in Formats, UnderWay(Insert(s, f), d)'
                   PROVE  FALSE
      BY DEF Coming
    <3>2. PICK x : x = Insert(s, f)
      OBVIOUS
    <3>3. x \in Message /\ x.type = "insert" /\ x.symbol = s
      BY <3>2, MessagesMade
    <3>4. ~UnderWay(x, d)
      BY <1>4, <3>2 DEF Coming
    <3>5. ASSUME NEW w \in Workers, NEW c \in Clients, NEW e, Served(w, c, x, e) PROVE FALSE
      BY <1>0, <3>3, <3>5, ServedFacts
    <3>. QED
      BY <1>0, <3>1, <3>2, <3>3, <3>4, <3>5, FlyingCases
  <2>2. CASE Copy(d)' = Copy(d)
    BY <1>4, <2>1, <2>2 DEF GoingFor
  <2>3. ASSUME Copy(d) = editor[d], NEW z, NEW e, Typed(d, z, e), Copy(d)' = e
        PROVE  GoingFor(d, s)'
    <3>1. z.site = d /\ z.n = counter[d] /\ ToSet(e.text) = ToSet(editor[d].text) \cup {z}
          /\ z \in Symbol
      BY <2>3 DEF Typed
    <3>2. editor[Server].vv[d] < counter[d] /\ editor[Server].vv[d] \in Int /\ counter[d] \in Nat
      BY <1>0, SymbolsKnown, Constants, TypesOf DEF Inv, Counted
    <3>3. z # s
      BY <1>0, <3>1, <3>2 DEF Received
    <3>. QED
      BY <1>4, <2>1, <2>3, <3>1, <3>3 DEF GoingFor
  <2>4. ASSUME Copy(d) = editor[d], NEW z, NEW e, Deleted(d, z, e), Copy(d)' = e
        PROVE  GoingFor(d, s)'
    BY <1>4, <2>1, <2>4 DEF GoingFor, Deleted
  <2>5. ASSUME Copy(d) = editor[d], NEW m, NEW e, Heard(d, m, e), Copy(d)' = e
        PROVE  GoingFor(d, s)'
    <3>1. Handled(editor[d], m, e) /\ m \in Message
      BY <1>0, <2>5, HeardFacts
    <3>2. m.type \in {"insert", "erase", "format"}
      BY <3>1, MessageFields
    <3>3. m.type = "insert" => m.symbol # s
      BY <1>4, <2>5, HeardIsFresh
    <3>4. s \notin ToSet(e.text)
      BY <1>4, <2>5, <3>1, <3>2, <3>3 DEF Handled
    <3>. QED
      BY <2>1, <2>5, <3>4 DEF GoingFor
  <2>. QED
    BY <2>2, <2>3, <2>4, <2>5, CopyCases
<1>. QED
  BY <1>2, <1>3, <1>4 DEF GoingFor

(* A client shows only what the server has received or it is sending itself.*)
LEMMA ShownIsKnown ==
    ASSUME Inv, NEW d \in editing, NEW s \in ToSet(Copy(d).text)
    PROVE  Received(editor[Server], s) \/ Sending(d, s)
<1>0. d \in Clients /\ down[d] \in Seq(Message \cup Document)
  BY TypesOf DEF Inv, Types
<1>1. CASE d \in joined
  BY <1>0, <1>1 DEF Copy, Inv, Known
<1>2. CASE d \notin joined
  <2>1. PICK m : m = down[d][1]
    OBVIOUS
  <2>2. m \in Document /\ down[d] # << >> /\ Copy(d) = EditorOf(SymbolsOf(m.text))
    BY <1>0, <1>2, <2>1 DEF Inv, Joining, Copy
  <2>3. m \in ToSet(down[d])
    <3>. DEFINE D == Message \cup Document
    <3>1. down[d] \in Seq(D)
      BY <1>0
    <3>. HIDE DEF D
    <3>. QED
      BY <2>1, <2>2, <3>1, TailFacts
  <2>4. Copy(d).text = SymbolsOf(m.text)
    BY <2>2 DEF EditorOf
  <2>. QED
    BY <1>0, <2>2, <2>3, <2>4 DEF Inv, Snapshots
<1>. QED
  BY <1>1, <1>2

LEMMA GoingKept ==
    ASSUME Inv, Posted, Present, Fresh, Fresh', Distinct, Going, Erasing, Step
    PROVE  Going'
<1>1. SUFFICES ASSUME NEW d \in editing', d \in Steady, NEW s \in Symbol, Gone(s)'
               PROVE  GoingFor(d, s)'
  BY DEF Going, GoingFor
<1>2. CASE d \notin editing
  <2>1. /\ \E w \in Workers : \E m : Admitted(w, d, m)
        /\ Copy(d)' = EditorOf(editor[Server].text)
        /\ d \in Clients /\ editor' = editor
    BY <1>1, <1>2, NewCopy
  <2>2. PICK w \in Workers : \E m : Admitted(w, d, m)
    BY <2>1
  <2>3. PICK m : Admitted(w, d, m)
    BY <2>2
  <2>4. s \notin ToSet(Copy(d)'.text)
    BY <1>1, <2>1 DEF Gone, Received, EditorOf
  <2>5. ASSUME NEW f \in Formats, UnderWay(Insert(s, f), d)' PROVE FALSE
    <3>1. PICK x : x = Insert(s, f)
      OBVIOUS
    <3>2. x \in Message
      BY <3>1, MessagesMade
    <3>3. UnderWay(x, d)
      BY <2>1, <2>3, <2>5, <3>1, <3>2, AdmittedTransport
    <3>. QED
      BY <1>1, <1>2, <3>2, <3>3, NothingOnItsWay
  <2>. QED
    BY <2>4, <2>5 DEF GoingFor, Coming
<1>3. CASE d \in editing /\ Gone(s)
  BY <1>1, <1>3, StaysAway DEF Going, GoingFor
<1>4. CASE d \in editing /\ ~Gone(s)
  <2>0. d \in Clients /\ d \in Replicas
    BY <1>1, Constants DEF Steady
  <2>1. PICK w \in Workers, c \in Clients : \E m, e :
              /\ Served(w, c, m, e)
              /\ \/ m = Erase(s)
                 \/ /\ m.type = "insert" /\ m.symbol # s
                    /\ ~Received(editor[Server], s) /\ s.site = c /\ s.n <= m.symbol.n
    BY <1>1, <1>4, GoneNow
  <2>2. PICK m, e :
              /\ Served(w, c, m, e)
              /\ \/ m = Erase(s)
                 \/ /\ m.type = "insert" /\ m.symbol # s
                    /\ ~Received(editor[Server], s) /\ s.site = c /\ s.n <= m.symbol.n
    BY <2>1
  <2>3. editor'[d] = editor[d] /\ m \in Message /\ m \in ToSet(up[c]) /\ c \in joined
        /\ up[c][1] = m /\ 1 \in DOMAIN up[c]
    BY <2>0, <2>2, ServedFacts
  <2>4. Copy(d)' = Copy(d)
    BY <1>4, <2>3, CopyKept
  <2>5. CASE m = Erase(s) /\ d # c
    <3>1. UnderWay(m, d)'
      BY <1>4, <2>0, <2>2, <2>3, <2>5, ServedTransport
    <3>. QED
      BY <2>5, <3>1 DEF GoingFor
  <2>6. CASE m = Erase(s) /\ d = c
    <3>1. Received(editor[d], s) /\ s \notin ToSet(editor[d].text)
      BY <1>1, <2>3, <2>6 DEF Erasing
    <3>2. Copy(d) = editor[d]
      BY <2>3, <2>6 DEF Copy
    <3>3. ~Coming(s, d)'
      <4>1. Received(Copy(d)', s)
        BY <2>4, <3>1, <3>2
      <4>. QED
        BY <1>1, <4>1 DEF Fresh, Received
    <3>. QED
      BY <2>4, <3>1, <3>2, <3>3 DEF GoingFor
  <2>7. CASE /\ m.type = "insert" /\ m.symbol # s
             /\ ~Received(editor[Server], s) /\ s.site = c /\ s.n <= m.symbol.n
    <3>1. ~Sending(d, s)
      <4>1. SUFFICES ASSUME NEW f \in Formats, Insert(s, f) \in ToSet(up[d])
                     PROVE  FALSE
        BY DEF Sending
      <4>2. d = c
        <5>1. Sending(d, s)
          BY <4>1 DEF Sending
        <5>. QED
          BY <2>0, <2>7, <5>1, SendingFacts
      <4>3. PICK j \in DOMAIN up[c] : up[c][j] = Insert(s, f)
        BY <4>1, <4>2 DEF ToSet
      <4>4. Insert(s, f).type = "insert" /\ Insert(s, f).symbol = s
        BY DEF Insert
      <4>5. j # 1
        BY <2>3, <2>7, <4>3, <4>4
      <4>6. j \in Nat /\ j >= 1
        <5>1. up[c] \in Seq(Message \cup {Open})
          BY TypesOf DEF Inv
        <5>2. DOMAIN up[c] = 1 .. Len(up[c]) /\ Len(up[c]) \in Nat
          BY <5>1, RequestElements
        <5>. QED
          BY <5>2
      <4>7. 1 < j
        BY <4>5, <4>6
      <4>8. m.symbol.n < s.n
        BY <2>3, <2>7, <4>3, <4>4, <4>7 DEF Inv, Requests, RequestsOf
      <4>9. m.symbol \in Symbol
        BY <2>3, MessageFields
      <4>10. m.symbol.n \in Int /\ s.n \in Int
        BY <4>9, SymbolFields
      <4>. QED
        BY <2>7, <4>8, <4>10
    <3>2. s \notin ToSet(Copy(d).text)
      BY <1>4, <2>7, <3>1, ShownIsKnown
    <3>3. ASSUME NEW f \in Formats, UnderWay(Insert(s, f), d)' PROVE FALSE
      <4>1. PICK x : x = Insert(s, f)
        OBVIOUS
      <4>2. x \in Message /\ x.symbol = s
        BY <4>1, MessagesMade
      <4>3. UnderWay(x, d)
        BY <2>0, <2>2, <2>7, <3>3, <4>1, <4>2, ServedTransport
      <4>4. Flying(x)
        <5>1. WorkerOf \in [Clients -> Workers]
          BY Constants
        <5>. QED
          BY <2>0, <4>3, <5>1 DEF UnderWay, Flying
      <4>. QED
        BY <2>7, <4>2, <4>4 DEF Inv, Relayed
    <3>. QED
      BY <2>4, <3>2, <3>3 DEF GoingFor, Coming
  <2>. QED
    BY <2>2, <2>5, <2>6, <2>7
<1>. QED
  BY <1>2, <1>3, <1>4

LEMMA SteadyStep ==
    ASSUME Inv, SteadyInv, [Next]_vars
    PROVE  SteadyInv'
<1>1. CASE UNCHANGED vars
  <2>. USE <1>1 DEF vars
  <2>0. \A d : Copy(d)' = Copy(d)
    BY DEF Copy
  <2>1. Posted' /\ Present' /\ Distinct'
    BY DEF SteadyInv, Posted, Present, Distinct
  <2>2. InOrder'
    BY DEF SteadyInv, InOrder, Ahead, Called, ToPost
  <2>3. Learned'
    BY <2>0 DEF SteadyInv, Learned
  <2>4. \A x, d : UnderWay(x, d)' <=> UnderWay(x, d)
    BY DEF UnderWay
  <2>5. \A s, d : Coming(s, d)' <=> Coming(s, d)
    BY <2>4 DEF Coming
  <2>6. Fresh'
    BY <2>0, <2>5 DEF SteadyInv, Fresh, Received
  <2>7. Going'
    BY <2>0, <2>4, <2>5 DEF SteadyInv, Going, Gone, Received
  <2>8. Erasing'
    BY DEF SteadyInv, Erasing, Received
  <2>. QED
    BY <2>1, <2>2, <2>3, <2>6, <2>7, <2>8 DEF SteadyInv
<1>2. CASE Next
  <2>1. Step
    BY <1>2, NextIsStep
  <2>2. Posted' /\ InOrder' /\ Learned' /\ Present' /\ Fresh'
    BY <2>1, PostedKept, InOrderKept, LearnedKept, PresentKept, FreshKept DEF SteadyInv
  <2>3. Distinct' /\ Going' /\ Erasing'
    BY <2>1, <2>2, DistinctKept, GoingKept, ErasingKept DEF SteadyInv
  <2>. QED
    BY <2>2, <2>3 DEF SteadyInv
<1>. QED
  BY <1>1, <1>2

LEMMA SteadyInit ==
    ASSUME Init
    PROVE  SteadyInv
<1>0. Inv /\ WorkerOf \in [Clients -> Workers] /\ Clients \subseteq Replicas /\ Server \in Replicas
  BY InvInit, Constants
<1>1. /\ \A c \in Clients : /\ down[c] = << >> /\ up[c] = << >> /\ counter[c] = 0
                            /\ editor[c] = editor[Server] /\ editor[c].text = << >>
      /\ \A w \in Workers : queue[w] = << >> /\ posting[w] = << >>
      /\ joined = Clients \ Joiners /\ editing = joined
  BY <1>0 DEF Init, EditorOf
<1>2. \A x \in Message : \A d \in Clients : ~UnderWay(x, d) /\ ~Flying(x)
  BY <1>0, <1>1, EmptyFacts DEF UnderWay, Flying
<1>3. Posted /\ Present
  BY <1>1, EmptyFacts DEF Posted, Present
<1>4. InOrder
  BY <1>0, <1>1, EmptyFacts DEF InOrder, Ahead, Called, ToPost
<1>5. \A d \in editing : Copy(d) = editor[d] /\ d \in Clients
  BY <1>1 DEF Copy
<1>6. Learned
  <2>1. ASSUME NEW d \in editing, NEW c \in Clients
        PROVE  Copy(d).vv[c] <= editor[Server].vv[c]
    <3>1. Copy(d).vv[c] = editor[Server].vv[c]
      BY <1>1, <1>5
    <3>2. editor[Server].vv[c] \in Int
      BY <1>0, SymbolsKnown
    <3>. QED
      BY <3>1, <3>2
  <2>. QED
    BY <2>1 DEF Learned
<1>7. Fresh
  BY <1>2, <1>5, MessagesMade DEF Fresh, Coming
<1>8. Ascending(<< >>)
  BY EmptyFacts DEF Ascending
<1>9. Distinct
  BY <1>1, <1>8 DEF Distinct, Steady
<1>10. \A s \in Symbol : ~Gone(s)
  <2>1. ASSUME NEW s \in Symbol, Received(editor[Server], s) PROVE FALSE
    <3>1. s.site \in Clients /\ s.n \in Nat
      BY SymbolFields, Constants
    <3>2. editor[Server].vv[s.site] < counter[s.site] /\ editor[Server].vv[s.site] \in Int
      BY <1>0, <3>1, SymbolsKnown DEF Inv, Counted
    <3>. QED
      BY <1>1, <2>1, <3>1, <3>2 DEF Received
  <2>. QED
    BY <2>1 DEF Gone
<1>11. Going
  BY <1>10 DEF Going
<1>12. Erasing
  BY <1>1, EmptyFacts DEF Erasing, Steady
<1>. QED
  BY <1>3, <1>4, <1>6, <1>7, <1>9, <1>11, <1>12 DEF SteadyInv

(* The invariant of the clients that hear of everything once and in order.  *)
THEOREM SteadyInvariance == Spec => []SteadyInv
<1>1. Init => Inv /\ SteadyInv
  BY InvInit, SteadyInit
<1>2. Inv /\ SteadyInv /\ [Next]_vars => (Inv /\ SteadyInv)'
  BY InvStep, SteadyStep
<1>. QED
  BY <1>1, <1>2, PTL DEF Spec

(* Convergence: when all messages have been handled, a steady client shows  *)
(* exactly the server's text.                                               *)
LEMMA SteadyAgree ==
    ASSUME Inv, SteadyInv, NothingMissing, Quiescent, NEW c \in joined, c \in Steady
    PROVE  editor[c].text = editor[Server].text
<1>0. c \in Clients /\ c \in editing /\ c \in Replicas /\ WorkerOf[c] \in Workers
  BY Constants DEF Inv, Types
<1>1. Copy(c) = editor[c]
  BY DEF Copy
<1>2. Ascending(editor[c].text) /\ Ascending(editor[Server].text)
  BY DEF SteadyInv, Distinct, Inv, Replicated
<1>3. ToSet(editor[Server].text) \subseteq ToSet(editor[c].text)
  BY DEF NothingMissing
<1>4. ASSUME NEW s \in ToSet(editor[c].text) PROVE s \in ToSet(editor[Server].text)
  <2>1. s \in Symbol /\ Received(editor[c], s)
    BY <1>0, SymbolsKnown
  <2>2. ~Sending(c, s)
    BY <1>0, EmptyFacts DEF Quiescent, Sending
  <2>3. Received(editor[Server], s)
    BY <1>0, <2>2 DEF Inv, Known
  <2>4. ~UnderWay(Erase(s), c)
    BY <1>0, EmptyFacts DEF Quiescent, UnderWay
  <2>5. s \notin ToSet(editor[c].buf)
    BY <1>0, <2>1, SymbolsKnown
  <2>6. ~Gone(s)
    BY <1>0, <1>1, <2>1, <2>4, <2>5 DEF SteadyInv, Going
  <2>. QED
    BY <2>3, <2>6 DEF Gone
<1>5. ToSet(editor[Server].text) = ToSet(editor[c].text)
  BY <1>3, <1>4
<1>. QED
  BY <1>2, <1>5, AscendingTextsEqual

(* "Coherence guaranteed", for every number of clients, workers and edits:  *)
(* whoever had the document open from the start, and everybody if there is  *)
(* only one worker, ends with the server's text.                            *)
THEOREM SteadyCoherence ==
    Spec => [](Quiescent => \A c \in joined : c \notin Joiners \/ NWorkers = 1
                                => editor[c].text = editor[Server].text)
<1>. DEFINE Same == Quiescent => \A c \in joined : c \notin Joiners \/ NWorkers = 1
                                     => editor[c].text = editor[Server].text
<1>1. Inv /\ SteadyInv /\ NothingMissing => Same
  <2>1. Inv => joined \subseteq Clients
    BY DEF Inv, Types
  <2>. QED
    BY <2>1, SteadyAgree DEF Steady
<1>. HIDE DEF Same
<1>2. Spec => []Same
  BY <1>1, Invariance, SteadyInvariance, NobodyMisses, PTL
<1>. QED
  BY <1>2 DEF Same

(* "Coherence guaranteed" of the README: whatever was typed and erased      *)
(* meanwhile and however the workers interleaved, when every message has    *)
(* been handled every editor shows the server's text, when everybody was    *)
(* there from the start or one worker serves them all.                      *)
THEOREM Coherence == Joiners = {} \/ NWorkers = 1 => (Spec => []Coherent)
<1>1. SUFFICES ASSUME Joiners = {} \/ NWorkers = 1 PROVE Spec => []Coherent
  OBVIOUS
<1>2. Inv /\ SteadyInv /\ NothingMissing => Coherent
  <2>1. Inv => joined \subseteq Clients
    BY DEF Inv, Types
  <2>. QED
    BY <1>1, <2>1, SteadyAgree DEF Steady, Coherent
<1>. QED
  BY <1>2, Invariance, SteadyInvariance, NobodyMisses, PTL

(* No replica shows a symbol twice: remote_insert never takes a symbol that *)
(* is in symbols_ already, although it does not look.                       *)
THEOREM NoSymbolTwice == Joiners = {} \/ NWorkers = 1 => (Spec => []NoDuplicates)
<1>1. SUFFICES ASSUME Joiners = {} \/ NWorkers = 1 PROVE Spec => []NoDuplicates
  OBVIOUS
<1>2. Inv /\ SteadyInv => NoDuplicates
  <2>1. SUFFICES ASSUME Inv, SteadyInv, NEW r \in Replicas PROVE IsInjective(editor[r].text)
    BY DEF NoDuplicates
  <2>2. Ascending(editor[r].text)
    <3>1. CASE r = Server
      BY <2>1, <3>1 DEF Inv, Replicated
    <3>2. CASE r # Server
      <4>1. r \in Steady
        BY <1>1, <2>1, <3>2 DEF Steady, Replicas
      <4>. QED
        BY <2>1, <4>1 DEF SteadyInv, Distinct
    <3>. QED
      BY <3>1, <3>2
  <2>. QED
    BY <2>2, AscendingIsOrdered
<1>. QED
  BY <1>2, Invariance, SteadyInvariance, PTL

(* A symbol that a replica has received and no longer shows never comes     *)
(* back to it.                                                              *)
LEMMA NeverBack ==
    ASSUME Inv, SteadyInv, Next, NEW r \in Replicas, r = Server \/ r \in Steady,
           NEW s \in issued, Received(editor[r], s), s \notin ToSet(editor[r].text)
    PROVE  s \notin ToSet(editor'[r].text)
<1>0. Step /\ s \in Symbol
  BY NextIsStep DEF Inv, Types
<1>1. CASE r = Server
  <2>1. Gone(s)
    BY <1>1 DEF Gone
  <2>2. Gone(s)'
    BY <1>0, <2>1, ServerLearns
  <2>. QED
    BY <1>1, <2>2 DEF Gone
<1>2. CASE r \in Steady /\ r \in joined
  BY <1>0, <1>2, NotShownAgain DEF SteadyInv
<1>3. CASE r \in Steady /\ r \notin joined
  <2>1. r \in Clients /\ counter[r] = 0 /\ editor[r] = EditorOf(<< >>)
    BY <1>3 DEF Steady, Inv, Joining
  <2>2. s.site \in Sites /\ s.n \in Nat
    BY <1>0, SymbolFields
  <2>3. PICK t : t = << >>
    OBVIOUS
  <2>4. Ordered(t) /\ ToSet(t) = {}
    BY <2>3, EmptyFacts DEF Ordered
  <2>5. EditorOf(t).vv[s.site] = NotReceived
    BY <2>2, <2>4, EditorOfText
  <2>. QED
    BY <2>1, <2>2, <2>3, <2>5 DEF Received, NotReceived
<1>. QED
  BY <1>1, <1>2, <1>3

(* What is erased stays erased, at the server and in every editor, whatever *)
(* old messages still arrive (version_vector_ and deletion_buffer_).        *)
THEOREM NothingComesBack == Joiners = {} \/ NWorkers = 1 => (Spec => NoResurrection)
<1>1. SUFFICES ASSUME Joiners = {} \/ NWorkers = 1 PROVE Spec => NoResurrection
  OBVIOUS
<1>. DEFINE Stays == \A r \in Replicas : \A s \in issued :
                Received(editor[r], s) /\ s \notin ToSet(editor[r].text)
                    => s \notin ToSet(editor'[r].text)
<1>2. Inv /\ SteadyInv /\ [Next]_vars => [Stays]_vars
  <2>1. \A r \in Replicas : r = Server \/ r \in Steady
    BY <1>1 DEF Replicas, Steady
  <2>2. ASSUME Inv, SteadyInv, Next PROVE Stays
    BY <2>1, <2>2, NeverBack
  <2>. HIDE DEF Stays
  <2>. QED
    BY <2>2
<1>. HIDE DEF Stays
<1>3. Spec => [][Stays]_vars
  BY <1>2, Invariance, SteadyInvariance, PTL DEF Spec
<1>. QED
  BY <1>3 DEF NoResurrection, Stays

-----------------------------------------------------------------------------
(* What a replica shows of a symbol, and what it will show when it has      *)
(* handled a queue: the last message that says something of the symbol      *)
(* wins.                                                                    *)
Speaks(m, s) == m.type \in {"insert", "format"} /\ m.symbol = s
LastSays(q, s, f) ==
    \E i \in DOMAIN q : /\ Speaks(q[i], s) /\ q[i].format = f
                        /\ \A j \in DOMAIN q : j > i => ~Speaks(q[j], s)
Silent(q, s) == \A i \in DOMAIN q : ~Speaks(q[i], s)
Shows(v, s, f) == \E i \in DOMAIN v : v[i].of = s /\ v[i].format = f
Will(v, q, s, f) == LastSays(q, s, f) \/ (Silent(q, s) /\ Shows(v, s, f))

(* Message m takes what is shown from v to z.                               *)
Effect(v, m, z) ==
    \A s, f : Shows(z, s, f) => IF Speaks(m, s) THEN f = m.format ELSE Shows(v, s, f)

LEMMA WillAppended ==
    ASSUME NEW S, NEW q \in Seq(S), NEW m \in S, NEW v, NEW s, NEW f,
           Will(v, Append(q, m), s, f)
    PROVE  IF Speaks(m, s) THEN f = m.format ELSE Will(v, q, s, f)
<1>. DEFINE u == Append(q, m)
<1>1. /\ Len(q) \in Nat /\ DOMAIN q = 1 .. Len(q) /\ DOMAIN u = 1 .. (Len(q) + 1)
      /\ u[Len(q) + 1] = m /\ \A i \in 1 .. Len(q) : u[i] = q[i]
  BY AppendFacts
<1>2. Will(v, u, s, f)
  OBVIOUS
<1>. HIDE DEF u
<1>3. CASE Speaks(m, s)
  <2>1. ~Silent(u, s)
    BY <1>1, <1>3 DEF Silent
  <2>2. PICK i \in DOMAIN u : /\ Speaks(u[i], s) /\ u[i].format = f
                              /\ \A j \in DOMAIN u : j > i => ~Speaks(u[j], s)
    BY <1>2, <2>1 DEF Will, LastSays
  <2>3. i = Len(q) + 1
    BY <1>1, <1>3, <2>2
  <2>. QED
    BY <1>1, <1>3, <2>2, <2>3
<1>4. CASE ~Speaks(m, s)
  <2>1. CASE Silent(u, s) /\ Shows(v, s, f)
    BY <1>1, <1>4, <2>1 DEF Will, Silent
  <2>2. CASE LastSays(u, s, f)
    <3>1. PICK i \in DOMAIN u : /\ Speaks(u[i], s) /\ u[i].format = f
                                /\ \A j \in DOMAIN u : j > i => ~Speaks(u[j], s)
      BY <2>2 DEF LastSays
    <3>2. i \in DOMAIN q /\ u[i] = q[i]
      BY <1>1, <1>4, <3>1
    <3>3. \A j \in DOMAIN q : j > i => ~Speaks(q[j], s)
      BY <1>1, <3>1
    <3>4. LastSays(q, s, f)
      BY <3>1, <3>2, <3>3 DEF LastSays
    <3>. QED
      BY <1>4, <3>4 DEF Will
  <2>. QED
    BY <1>2, <2>1, <2>2 DEF Will
<1>. QED
  BY <1>3, <1>4

LEMMA WillTaken ==
    ASSUME NEW S, NEW q \in Seq(S), q # << >>, NEW v, NEW z, NEW s, NEW f,
           Effect(v, Head(q), z), Will(z, Tail(q), s, f)
    PROVE  Will(v, q, s, f)
<1>. DEFINE u == Tail(q)
<1>1. /\ Len(q) \in Nat \ {0} /\ DOMAIN q = 1 .. Len(q) /\ DOMAIN u = 1 .. (Len(q) - 1)
      /\ Head(q) = q[1] /\ \A i \in 1 .. (Len(q) - 1) : u[i] = q[i + 1]
  BY TailFacts
<1>2. Will(z, u, s, f) /\ Effect(v, q[1], z)
  BY <1>1
<1>. HIDE DEF u
<1>3. \A i \in DOMAIN q : i = 1 \/ (i - 1 \in DOMAIN u /\ q[i] = u[i - 1])
  BY <1>1
<1>4. CASE LastSays(u, s, f)
  <2>1. PICK i \in DOMAIN u : /\ Speaks(u[i], s) /\ u[i].format = f
                              /\ \A j \in DOMAIN u : j > i => ~Speaks(u[j], s)
    BY <1>4 DEF LastSays
  <2>2. i + 1 \in DOMAIN q /\ q[i + 1] = u[i]
    BY <1>1, <2>1
  <2>3. ASSUME NEW j \in DOMAIN q, j > i + 1 PROVE ~Speaks(q[j], s)
    <3>1. j - 1 \in DOMAIN u /\ j - 1 > i /\ q[j] = u[j - 1]
      BY <1>1, <1>3, <2>1, <2>3
    <3>. QED
      BY <2>1, <3>1
  <2>4. LastSays(q, s, f)
    BY <2>1, <2>2, <2>3 DEF LastSays
  <2>. QED
    BY <2>4 DEF Will
<1>5. CASE Silent(u, s) /\ Shows(z, s, f)
  <2>1. \A j \in DOMAIN q : j = 1 \/ ~Speaks(q[j], s)
    BY <1>3, <1>5 DEF Silent
  <2>2. CASE Speaks(q[1], s)
    <3>1. q[1].format = f /\ 1 \in DOMAIN q
      BY <1>1, <1>2, <1>5, <2>2 DEF Effect
    <3>2. LastSays(q, s, f)
      BY <1>1, <2>1, <2>2, <3>1 DEF LastSays
    <3>. QED
      BY <3>2 DEF Will
  <2>3. CASE ~Speaks(q[1], s)
    <3>1. Shows(v, s, f)
      BY <1>2, <1>5, <2>3 DEF Effect
    <3>2. Silent(q, s)
      BY <2>1, <2>3 DEF Silent
    <3>. QED
      BY <3>1, <3>2 DEF Will
  <2>. QED
    BY <2>2, <2>3
<1>. QED
  BY <1>2, <1>4, <1>5 DEF Will

LEMMA WillSeen ==
    ASSUME NEW v, NEW m, NEW z, NEW q, NEW s, NEW f, Effect(v, m, z), Will(z, q, s, f)
    PROVE  Will(v, q, s, f) \/ (Speaks(m, s) /\ f = m.format /\ Silent(q, s))
  BY DEF Will, Effect

LEMMA EmptyWill ==
    ASSUME NEW v, NEW s, NEW f
    PROVE  Will(v, << >>, s, f) <=> Shows(v, s, f)
  BY EmptyFacts DEF Will, LastSays, Silent

-----------------------------------------------------------------------------
(* What the operations by index do to what is shown.                        *)
LEMMA InsertEffect ==
    ASSUME NEW v \in Seq(Character), NEW k \in 1 .. (Len(v) + 1), NEW s \in Symbol,
           NEW g \in Formats, \A f : ~Shows(v, s, f)
    PROVE  Effect(v, Insert(s, g), InsertAt(v, k, Char(s, g)))
<1>. DEFINE x == Char(s, g)
            z == InsertAt(v, k, x)
<1>1. x \in Character /\ x.of = s /\ x.format = g
  BY DEF Char, Character
<1>2. Speaks(Insert(s, g), s) /\ Insert(s, g).format = g
      /\ \A t : Speaks(Insert(s, g), t) => t = s
  BY DEF Speaks, Insert
<1>. HIDE DEF x
<1>3. /\ z \in Seq(Character) /\ Len(z) = Len(v) + 1 /\ z[k] = x
      /\ \A i \in 1 .. (k - 1) : z[i] = v[i]
      /\ \A i \in (k + 1) .. (Len(v) + 1) : z[i] = v[i - 1]
  BY <1>1, InsertShape
<1>. HIDE DEF z
<1>4. Len(v) \in Nat /\ DOMAIN v = 1 .. Len(v) /\ DOMAIN z = 1 .. (Len(v) + 1)
  BY <1>3, SeqFacts
<1>5. ASSUME NEW t, NEW f, Shows(z, t, f)
      PROVE  IF t = s THEN f = g ELSE Shows(v, t, f)
  <2>1. PICK i \in 1 .. (Len(v) + 1) : z[i].of = t /\ z[i].format = f
    BY <1>4, <1>5 DEF Shows
  <2>2. CASE i = k
    BY <1>1, <1>3, <2>1, <2>2
  <2>3. CASE i # k
    <3>1. \E j \in 1 .. Len(v) : z[i] = v[j]
      <4>1. CASE i < k
        <5>1. i \in 1 .. Len(v) /\ z[i] = v[i]
          BY <1>3, <1>4, <4>1
        <5>. QED
          BY <5>1
      <4>2. CASE i > k
        <5>1. i - 1 \in 1 .. Len(v) /\ z[i] = v[i - 1]
          BY <1>3, <1>4, <4>2
        <5>. QED
          BY <5>1
      <4>. QED
        BY <4>1, <4>2, <2>3, <1>4
    <3>2. Shows(v, t, f)
      BY <1>4, <2>1, <3>1 DEF Shows
    <3>. QED
      BY <3>2
  <2>. QED
    BY <2>2, <2>3
<1>. QED
  BY <1>2, <1>5 DEF Effect, z, x

LEMMA RemoveEffect ==
    ASSUME NEW v \in Seq(Character), NEW k \in 1 .. Len(v), NEW m, m.type = "erase"
    PROVE  Effect(v, m, RemoveAt(v, k))
<1>. DEFINE z == RemoveAt(v, k)
<1>1. /\ z \in Seq(Character) /\ Len(z) = Len(v) - 1
      /\ \A i \in 1 .. (k - 1) : z[i] = v[i]
      /\ \A i \in k .. (Len(v) - 1) : z[i] = v[i + 1]
  BY RemoveShape
<1>. HIDE DEF z
<1>2. Len(v) \in Nat /\ DOMAIN v = 1 .. Len(v) /\ DOMAIN z = 1 .. (Len(v) - 1)
  BY <1>1, SeqFacts
<1>3. ASSUME NEW t, NEW f, Shows(z, t, f) PROVE Shows(v, t, f)
  <2>1. PICK i \in 1 .. (Len(v) - 1) : z[i].of = t /\ z[i].format = f
    BY <1>2, <1>3 DEF Shows
  <2>2. \E j \in 1 .. Len(v) : z[i] = v[j]
    <3>1. CASE i < k
      <4>1. i \in 1 .. Len(v) /\ z[i] = v[i]
        BY <1>1, <1>2, <3>1
      <4>. QED
        BY <4>1
    <3>2. CASE ~(i < k)
      <4>1. i + 1 \in 1 .. Len(v) /\ z[i] = v[i + 1]
        BY <1>1, <1>2, <3>2
      <4>. QED
        BY <4>1
    <3>. QED
      BY <3>1, <3>2
  <2>. QED
    BY <1>2, <2>1, <2>2 DEF Shows
<1>. QED
  BY <1>3 DEF Effect, Speaks, z

LEMMA FormatEffect ==
    ASSUME NEW v \in Seq(Character), NEW i \in 1 .. Len(v), NEW s \in Symbol, NEW g \in Formats,
           v[i].of = s, \A j \in 1 .. Len(v) : v[j].of = s => j = i,
           NEW z, z = [v EXCEPT ![i] = [v[i] EXCEPT !.format = g]]
    PROVE  Effect(v, Format(s, g), z)
<1>. DEFINE x == [v[i] EXCEPT !.format = g]
<1>1. x \in Character /\ x.of = s /\ x.format = g
  <2>1. v[i] \in Character
    BY SeqFacts
  <2>. QED
    BY <2>1 DEF Character
<1>2. Speaks(Format(s, g), s) /\ Format(s, g).format = g
      /\ \A t : Speaks(Format(s, g), t) => t = s
  BY DEF Speaks, Format
<1>. HIDE DEF x
<1>3. z = [v EXCEPT ![i] = x]
  BY DEF x
<1>4. /\ z \in Seq(Character) /\ Len(z) = Len(v)
      /\ \A j \in 1 .. Len(v) : z[j] = IF j = i THEN x ELSE v[j]
  BY <1>1, <1>3, ExceptSeq
<1>5. Len(v) \in Nat /\ DOMAIN v = 1 .. Len(v) /\ DOMAIN z = 1 .. Len(v)
  BY <1>4, SeqFacts
<1>6. ASSUME NEW t, NEW f, Shows(z, t, f)
      PROVE  IF t = s THEN f = g ELSE Shows(v, t, f)
  <2>1. PICK j \in 1 .. Len(v) : z[j].of = t /\ z[j].format = f
    BY <1>5, <1>6 DEF Shows
  <2>2. CASE j = i
    BY <1>1, <1>4, <2>1, <2>2
  <2>3. CASE j # i
    <3>1. v[j].of = t /\ v[j].format = f
      BY <1>4, <2>1, <2>3
    <3>2. Shows(v, t, f) /\ t # s
      BY <1>5, <2>3, <3>1 DEF Shows
    <3>. QED
      BY <3>2
  <2>. QED
    BY <2>2, <2>3
<1>. QED
  BY <1>2, <1>6 DEF Effect

(* A view beside its text shows the text's symbols, each once if it is      *)
(* ascending.                                                               *)
Faithful(v, t) ==
    /\ v \in Seq(Character) /\ Len(v) \in Nat /\ Len(v) = Len(t) /\ DOMAIN v = 1 .. Len(v)
    /\ \A i \in 1 .. Len(v) : v[i].of = t[i] /\ v[i] = Char(t[i], v[i].format)
    /\ \A i, j \in 1 .. Len(v) : v[i].of = v[j].of => i = j
    /\ \A s, f : Shows(v, s, f) => s \in ToSet(t) /\ s \in Symbol /\ f \in Formats
    /\ \A s, f, g : Shows(v, s, f) /\ Shows(v, s, g) => f = g

LEMMA ViewFacts ==
    ASSUME NEW r, NEW v \in Seq(Character), NEW t, Ascending(t), AlignedAt(r, v, t),
           Replacing = FALSE
    PROVE  Faithful(v, t)
<1>1. /\ Len(v) \in Nat /\ Len(v) = Len(t) /\ DOMAIN v = 1 .. Len(v) /\ t \in Seq(Symbol)
      /\ \A i \in 1 .. Len(v) : v[i] \in Character /\ v[i].of = t[i]
  BY SeqFacts DEF AlignedAt, Ascending
<1>2. /\ \A i \in 1 .. Len(v) : t[i] \in Symbol /\ t[i] \in ToSet(t)
  BY <1>1, TextFacts
<1>3. \A i \in 1 .. Len(v) : v[i] = Char(t[i], v[i].format) /\ v[i].format \in Formats
  BY <1>1 DEF Character, Char
<1>4. ASSUME NEW i \in 1 .. Len(v), NEW j \in 1 .. Len(v), v[i].of = v[j].of PROVE i = j
  <2>1. t[i] = t[j]
    BY <1>1, <1>4
  <2>2. \A k, l \in 1 .. Len(v) : k < l => SymbolLess(t[k], t[l])
    BY <1>1 DEF Ascending
  <2>3. ~SymbolLess(t[i], t[i])
    BY <1>2, OrderIsTotal
  <2>4. ~(i < j) /\ ~(j < i)
    BY <2>1, <2>2, <2>3
  <2>. QED
    BY <2>4, <1>1
<1>5. \A s, f : Shows(v, s, f) => s \in ToSet(t) /\ s \in Symbol /\ f \in Formats
  BY <1>1, <1>2, <1>3 DEF Shows
<1>6. \A s, f, g : Shows(v, s, f) /\ Shows(v, s, g) => f = g
  BY <1>1, <1>4 DEF Shows
<1>. QED
  BY <1>1, <1>3, <1>4, <1>5, <1>6 DEF Faithful

(* A handled message changes what is shown of its own symbol only.          *)
LEMMA AppliedEffect ==
    ASSUME Types, Aligned, Replacing = FALSE, NEW r \in Replicas, Sound(editor[r]),
           Ascending(editor[r].text), NEW m \in Message, Apply(r, m),
           m.type = "insert" => m.symbol \notin ToSet(editor[r].text)
    PROVE  /\ Effect(view[r], m, view'[r])
           /\ \A q \in Replicas : q # r => view'[q] = view[q]
<1>. DEFINE s == m.symbol
            ed == editor[r]
            v == view[r]
<1>1. /\ s \in Symbol /\ m.type \in {"insert", "erase", "format"}
      /\ m.type # "erase" => m.format \in Formats
      /\ m.type = "insert" => m = Insert(s, m.format)
      /\ m.type = "format" => m = Format(s, m.format)
  BY MessageFields
<1>2. /\ view \in [Replicas -> Seq(Character)] /\ v \in Seq(Character)
      /\ AlignedAt(r, v, ed.text) /\ Ascending(ed.text) /\ ed.text \in Seq(Symbol)
  BY DEF Types, Aligned, Ascending
<1>3. /\ Len(v) \in Nat /\ Len(v) = Len(ed.text)
      /\ \A i \in 1 .. Len(v) : v[i].of = ed.text[i]
      /\ \A i, j \in 1 .. Len(v) : v[i].of = v[j].of => i = j
      /\ \A t, f : Shows(v, t, f) => t \in ToSet(ed.text)
  <2>. HIDE DEF v, ed
  <2>1. Faithful(v, ed.text)
    BY <1>2, ViewFacts
  <2>. QED
    BY <2>1 DEF Faithful
<1>4. CASE m.type = "insert"
  <2>0. PICK done : done = RemoteInsert(ed, s)
    OBVIOUS
  <2>. DEFINE z == InsertAt(v, done.index, Char(s, m.format))
  <2>1. view' = IF done.index = NoIndex THEN view ELSE [view EXCEPT ![r] = z]
    BY <2>0, <1>4, <1>2 DEF Apply, ApplyInsert
  <2>2. done.index = NoIndex \/ done.index \in 1 .. (Len(ed.text) + 1)
    <3>. HIDE DEF ed, s
    <3>1. Sound(ed) /\ s \in Symbol
      BY <1>1 DEF ed
    <3>2. InsertOutcome(ed, s, done)
      BY <2>0, <3>1, AfterInsert
    <3>. QED
      BY <3>2 DEF InsertOutcome
  <2>3. \A f : ~Shows(v, s, f)
    BY <1>3, <1>4
  <2>4. CASE done.index = NoIndex
    <3>1. view' = view
      BY <2>1, <2>4
    <3>2. \A t, f : Shows(v, t, f) => ~Speaks(m, t)
      BY <2>3 DEF Speaks
    <3>3. Effect(v, m, v)
      BY <3>2 DEF Effect
    <3>. QED
      BY <3>1, <3>3
  <2>5. CASE done.index # NoIndex
    <3>1. done.index \in 1 .. (Len(v) + 1)
      BY <2>2, <2>5, <1>3
    <3>2. Effect(v, m, z)
      <4>1. m = Insert(s, m.format) /\ m.format \in Formats /\ s \in Symbol /\ v \in Seq(Character)
        BY <1>1, <1>2, <1>4
      <4>. HIDE DEF v, s
      <4>2. Effect(v, Insert(s, m.format), z)
        BY <3>1, <2>3, <4>1, InsertEffect
      <4>. QED
        BY <4>1, <4>2
    <3>3. view' = [view EXCEPT ![r] = z]
      BY <2>1, <2>5
    <3>. HIDE DEF z
    <3>. QED
      BY <3>2, <3>3, <1>2
  <2>. QED
    BY <2>4, <2>5
<1>5. CASE m.type = "erase"
  <2>0. PICK done : done = RemoteErase(ed, s)
    OBVIOUS
  <2>. DEFINE z == RemoveAt(v, done.index)
  <2>1. view' = IF done.index = NoIndex THEN view ELSE [view EXCEPT ![r] = z]
    BY <2>0, <1>5, <1>2 DEF Apply, ApplyErase
  <2>2. done.index = NoIndex \/ done.index \in 1 .. Len(ed.text)
    <3>. HIDE DEF ed, s
    <3>1. Sound(ed) /\ s \in Symbol
      BY <1>1 DEF ed
    <3>2. EraseOutcome(ed, s, done)
      BY <2>0, <3>1, AfterErase
    <3>. QED
      BY <3>2 DEF EraseOutcome
  <2>3. CASE done.index = NoIndex
    <3>1. view' = view
      BY <2>1, <2>3
    <3>2. Effect(v, m, v)
      BY <1>5 DEF Effect, Speaks
    <3>. QED
      BY <3>1, <3>2
  <2>4. CASE done.index # NoIndex
    <3>1. done.index \in 1 .. Len(v)
      BY <2>2, <2>4, <1>3
    <3>2. Effect(v, m, z)
      <4>1. v \in Seq(Character)
        BY <1>2
      <4>. HIDE DEF v
      <4>. QED
        BY <3>1, <4>1, <1>5, RemoveEffect
    <3>3. view' = [view EXCEPT ![r] = z]
      BY <2>1, <2>4
    <3>. HIDE DEF z
    <3>. QED
      BY <3>2, <3>3, <1>2
  <2>. QED
    BY <2>3, <2>4
<1>6. CASE m.type = "format"
  <2>0. PICK i : i = FindSymbol(ed, s)
    OBVIOUS
  <2>. DEFINE z == [v EXCEPT ![i] = [v[i] EXCEPT !.format = m.format]]
  <2>1. view' = IF i = NoIndex THEN view ELSE [view EXCEPT ![r] = z]
    BY <2>0, <1>6, <1>2 DEF Apply, ApplyFormat
  <2>2. Ordered(ed.text)
    BY DEF Sound
  <2>3. /\ s \in ToSet(ed.text) => i \in 1 .. Len(ed.text) /\ ed.text[i] = s
        /\ s \notin ToSet(ed.text) => i = NoIndex
    BY <2>0, <2>2, <1>1, FindSymbolFinds
  <2>4. CASE s \notin ToSet(ed.text)
    <3>1. view' = view
      BY <2>1, <2>3, <2>4
    <3>2. \A t, f : Shows(v, t, f) => ~Speaks(m, t)
      BY <1>3, <2>4 DEF Speaks
    <3>3. Effect(v, m, v)
      BY <3>2 DEF Effect
    <3>. QED
      BY <3>1, <3>3
  <2>5. CASE s \in ToSet(ed.text)
    <3>1. i \in 1 .. Len(v) /\ v[i].of = s
      BY <2>3, <2>5, <1>3
    <3>2. Effect(v, m, z)
      <4>1. m = Format(s, m.format) /\ m.format \in Formats /\ s \in Symbol /\ v \in Seq(Character)
        BY <1>1, <1>2, <1>6
      <4>2. \A j \in 1 .. Len(v) : v[j].of = s => j = i
        BY <3>1, <1>3
      <4>3. v[i].of = s
        BY <3>1
      <4>. HIDE DEF v, s
      <4>4. Effect(v, Format(s, m.format), z)
        BY <3>1, <4>1, <4>2, <4>3, FormatEffect
      <4>. QED
        BY <4>1, <4>4
    <3>3. view' = [view EXCEPT ![r] = z]
      BY <2>1, <2>3, <2>5, <1>3 DEF NoIndex
    <3>. HIDE DEF z
    <3>. QED
      BY <3>2, <3>3, <1>2
  <2>. QED
    BY <2>4, <2>5
<1>. QED
  BY <1>1, <1>4, <1>5, <1>6

-----------------------------------------------------------------------------
(* One worker, at most one user who changes formats, nobody types over a    *)
(* selection: what is shown at the server and at a client, and what is on   *)
(* the way between the two.                                                 *)
Plain ==
    /\ NWorkers = 1 /\ Replacing = FALSE
    /\ \A c, d \in Formatters : c = d

(* What client d shows, or will when it has opened its snapshot.            *)
Sight(d) == IF d \in joined THEN view[d] ELSE down[d][1].text

LEMMA PlainFacts ==
    ASSUME Inv, SteadyInv, Plain
    PROVE  /\ \A r \in Replicas : Ascending(editor[r].text) /\ Faithful(view[r], editor[r].text)
           /\ Workers = {1} /\ \A c \in Clients : WorkerOf[c] = 1 /\ c \in Steady
           /\ \A w \in Workers : posting[w] = << >> /\ queue[w] = << >>
<1>1. Workers = {1} /\ \A c \in Clients : WorkerOf[c] = 1 /\ c \in Steady
  BY Constants DEF Plain, Workers, Steady
<1>2. ASSUME NEW r \in Replicas
      PROVE  Ascending(editor[r].text) /\ Faithful(view[r], editor[r].text)
  <2>1. Ascending(editor[r].text)
    BY <1>1, Constants DEF Inv, Replicated, SteadyInv, Distinct
  <2>2. view[r] \in Seq(Character) /\ AlignedAt(r, view[r], editor[r].text)
    BY TypesOf DEF Inv, Aligned
  <2>. QED
    BY <2>1, <2>2, ViewFacts DEF Plain
<1>3. ASSUME NEW w \in Workers PROVE posting[w] = << >> /\ queue[w] = << >>
  <2>1. posting[w] \in Seq(Post) /\ queue[w] \in Seq(Call)
    BY TypesOf DEF Inv
  <2>2. CASE posting[w] # << >>
    <3>1. Head(posting[w]) \in ToSet(posting[w]) /\ Head(posting[w]) \in Post
      BY <2>1, <2>2, TailFacts
    <3>2. Head(posting[w]).to # w /\ Head(posting[w]).to \in Workers
      BY <3>1 DEF SteadyInv, Posted, Post
    <3>. QED
      BY <3>2, <1>1
  <2>3. CASE queue[w] # << >>
    <3>1. Head(queue[w]) \in ToSet(queue[w]) /\ Head(queue[w]) \in Call
      BY <2>1, <2>3, TailFacts
    <3>2. WorkerOf[Head(queue[w]).source] # w /\ Head(queue[w]).source \in Clients
      BY <3>1 DEF SteadyInv, Posted, Call
    <3>. QED
      BY <3>2, <1>1
  <2>. QED
    BY <2>2, <2>3
<1>. QED
  BY <1>1, <1>2, <1>3

LEMMA NewSymbol ==
    ASSUME Inv, NEW c \in Clients, NEW s \in Symbol, s.site = c, s.n = counter[c],
           NEW r \in Replicas
    PROVE  ~Received(editor[r], s) /\ s \notin ToSet(editor[r].text)
<1>1. editor[r].vv[c] < counter[c] /\ editor[r].vv[c] \in Int /\ counter[c] \in Int
  BY SymbolsKnown, TypesOf DEF Inv, Counted
<1>2. ~Received(editor[r], s)
  BY <1>1 DEF Received
<1>. QED
  BY <1>2, SymbolsKnown

(* A message that the user of client c causes.                              *)
Causes(c, m) ==
    /\ c \in joined /\ m \in Message
    /\ Effect(view[c], m, view'[c])
    /\ \A r \in Replicas : r # c => view'[r] = view[r]
    /\ up' = [up EXCEPT ![c] = Append(@, m)]
    /\ m.type = "insert" => m.symbol.site = c /\ m.symbol.n = counter[c]
    /\ m.type # "insert" => m.symbol \in ToSet(editor[c].text)
    /\ m.type = "format" => c \in Formatters
    /\ UNCHANGED <<joined, editing, down>>

LEMMA EditedUp ==
    ASSUME Inv, NEW c \in Clients, NEW m \in Message, Edited(c, <<m>>)
    PROVE  /\ up' = [up EXCEPT ![c] = Append(@, m)]
           /\ UNCHANGED <<joined, editing, down>>
<1>. DEFINE S == Message \cup {Open}
<1>1. up[c] \in Seq(S) /\ m \in S
  BY TypesOf DEF Inv
<1>. HIDE DEF S
<1>2. up[c] \o <<m>> = Append(up[c], m)
  BY <1>1, AppendFacts
<1>. QED
  BY <1>2 DEF Edited

LEMMA TypeCharCauses ==
    ASSUME Inv, SteadyInv, Plain, NEW c \in joined, NEW i \in 1 .. (Len(editor[c].text) + 1),
           TypeChar(c, i)
    PROVE  \E m : Causes(c, m)
<1>1. c \in Clients /\ c \in Replicas /\ view \in [Replicas -> Seq(Character)]
  BY Constants, TypesOf DEF Inv, Types
<1>2. PICK p \in FreePositions(editor[c], i) :
        LET s == [pos |-> p, site |-> c, n |-> counter[c]]
        IN  /\ editor' = [editor EXCEPT ![c] = LocalInsert(@, i, s)]
            /\ view' = [view EXCEPT ![c] = InsertAt(@, i, Char(s, DefaultFormat))]
            /\ issued' = issued \cup {s}
            /\ Edited(c, <<Insert(s, DefaultFormat)>>)
  BY DEF TypeChar
<1>. DEFINE s == [pos |-> p, site |-> c, n |-> counter[c]]
            m == Insert(s, DefaultFormat)
            v == view[c]
            z == InsertAt(v, i, Char(s, DefaultFormat))
<1>3. view' = [view EXCEPT ![c] = z] /\ issued' = issued \cup {s} /\ Edited(c, <<m>>)
  BY <1>1, <1>2
<1>4. s.site = c /\ s.n = counter[c]
  OBVIOUS
<1>5. s \in Symbol
  <2>1. Types'
    BY TypeCharStep
  <2>2. issued' \subseteq Symbol
    BY <2>1 DEF Types
  <2>. QED
    BY <2>2, <1>3
<1>. HIDE DEF s
<1>6. s \notin ToSet(editor[c].text)
  BY <1>1, <1>4, <1>5, NewSymbol
<1>7. /\ v \in Seq(Character) /\ Len(v) = Len(editor[c].text)
      /\ \A f : ~Shows(v, s, f)
  <2>1. Faithful(v, editor[c].text)
    BY <1>1, PlainFacts
  <2>. QED
    BY <2>1, <1>6 DEF Faithful
<1>8. DefaultFormat \in Formats
  BY Constants
<1>9. Effect(v, m, z)
  <2>1. i \in 1 .. (Len(v) + 1)
    BY <1>7
  <2>. HIDE DEF v
  <2>. QED
    BY <2>1, <1>5, <1>7, <1>8, InsertEffect
<1>10. m \in Message /\ m.type = "insert" /\ m.symbol = s
  BY <1>5, <1>8, MessagesMade
<1>. HIDE DEF z, m
<1>11. view'[c] = z /\ \A r \in Replicas : r # c => view'[r] = view[r]
  BY <1>1, <1>3
<1>12. up' = [up EXCEPT ![c] = Append(@, m)] /\ UNCHANGED <<joined, editing, down>>
  BY <1>1, <1>3, <1>10, EditedUp
<1>13. Causes(c, m)
  BY <1>4, <1>9, <1>10, <1>11, <1>12 DEF Causes
<1>. QED
  BY <1>13

LEMMA DeleteCharCauses ==
    ASSUME Inv, SteadyInv, Plain, NEW c \in joined, NEW i \in DOMAIN editor[c].text,
           DeleteChar(c, i)
    PROVE  \E m : Causes(c, m)
<1>. DEFINE s == editor[c].text[i]
            m == Erase(s)
            v == view[c]
            z == RemoveAt(v, i)
<1>1. c \in Clients /\ c \in Replicas /\ view \in [Replicas -> Seq(Character)]
  BY Constants, TypesOf DEF Inv, Types
<1>2. view' = [view EXCEPT ![c] = z] /\ Edited(c, <<m>>)
  BY <1>1 DEF DeleteChar
<1>3. i \in 1 .. Len(editor[c].text) /\ s \in Symbol /\ s \in ToSet(editor[c].text)
  <2>1. editor[c] \in Editor
    BY <1>1, TypesOf DEF Inv
  <2>. QED
    BY <2>1, EditorFields
<1>. HIDE DEF s
<1>4. v \in Seq(Character) /\ Len(v) = Len(editor[c].text)
  <2>1. Faithful(v, editor[c].text)
    BY <1>1, PlainFacts
  <2>. QED
    BY <2>1 DEF Faithful
<1>5. m \in Message /\ m.type = "erase" /\ m.symbol = s
  BY <1>3, Constants, MessagesMade
<1>. HIDE DEF m
<1>6. Effect(v, m, z)
  <2>1. i \in 1 .. Len(v)
    BY <1>3, <1>4
  <2>. HIDE DEF v
  <2>. QED
    BY <2>1, <1>4, <1>5, RemoveEffect
<1>. HIDE DEF z
<1>7. view'[c] = z /\ \A r \in Replicas : r # c => view'[r] = view[r]
  BY <1>1, <1>2
<1>8. up' = [up EXCEPT ![c] = Append(@, m)] /\ UNCHANGED <<joined, editing, down>>
  BY <1>1, <1>2, <1>5, EditedUp
<1>9. Causes(c, m)
  BY <1>3, <1>5, <1>6, <1>7, <1>8 DEF Causes
<1>. QED
  BY <1>9

LEMMA ChangeFormatCauses ==
    ASSUME Inv, SteadyInv, Plain, NEW c \in joined, NEW i \in DOMAIN editor[c].text,
           NEW f \in Formats, ChangeFormat(c, i, f)
    PROVE  \E m : Causes(c, m)
<1>. DEFINE s == editor[c].text[i]
            m == Format(s, f)
            v == view[c]
            z == [v EXCEPT ![i] = [v[i] EXCEPT !.format = f]]
<1>1. c \in Clients /\ c \in Replicas /\ view \in [Replicas -> Seq(Character)]
  BY Constants, TypesOf DEF Inv, Types
<1>2. view' = [view EXCEPT ![c] = z] /\ Edited(c, <<m>>) /\ c \in Formatters
  BY <1>1 DEF ChangeFormat
<1>3. i \in 1 .. Len(editor[c].text) /\ s \in Symbol /\ s \in ToSet(editor[c].text)
  <2>1. editor[c] \in Editor
    BY <1>1, TypesOf DEF Inv
  <2>. QED
    BY <2>1, EditorFields
<1>4. /\ v \in Seq(Character) /\ i \in 1 .. Len(v) /\ v[i].of = s
      /\ \A j \in 1 .. Len(v) : v[j].of = s => j = i
  <2>1. Faithful(v, editor[c].text)
    BY <1>1, PlainFacts
  <2>2. i \in 1 .. Len(v) /\ v[i].of = s
    BY <2>1, <1>3 DEF Faithful
  <2>. QED
    BY <2>1, <2>2 DEF Faithful
<1>. HIDE DEF s
<1>5. m \in Message /\ m.type = "format" /\ m.symbol = s
  BY <1>3, Constants, MessagesMade
<1>6. Effect(v, m, z)
  <2>. HIDE DEF v
  <2>. QED
    BY <1>3, <1>4, FormatEffect
<1>. HIDE DEF m, z
<1>7. view'[c] = z /\ \A r \in Replicas : r # c => view'[r] = view[r]
  BY <1>1, <1>2
<1>8. up' = [up EXCEPT ![c] = Append(@, m)] /\ UNCHANGED <<joined, editing, down>>
  BY <1>1, <1>2, <1>5, EditedUp
<1>9. Causes(c, m)
  BY <1>2, <1>3, <1>5, <1>6, <1>7, <1>8 DEF Causes
<1>. QED
  BY <1>9

LEMMA LocalEditCauses ==
    ASSUME Inv, SteadyInv, Plain, NEW c \in Clients, LocalEdit(c)
    PROVE  \E m : Causes(c, m)
<1>1. c \in joined
  BY DEF LocalEdit
<1>2. ASSUME NEW i \in DOMAIN editor[c].text PROVE ~ReplaceChar(c, i)
  BY DEF ReplaceChar, Plain
<1>. QED
  BY <1>1, <1>2, TypeCharCauses, DeleteCharCauses, ChangeFormatCauses DEF LocalEdit

(* What a step does to what is between the server and client d: the client  *)
(* writes, the server handles its message, the server relays a message of   *)
(* client c, the client takes what comes, the client is admitted.           *)
Rests(d) ==
    /\ d \in editing /\ Sight(d)' = Sight(d) /\ view'[Server] = view[Server]
    /\ up'[d] = up[d] /\ down'[d] = down[d]
Writes(d, m) ==
    /\ d \in joined /\ d \in editing /\ m \in Message
    /\ Effect(Sight(d), m, Sight(d)') /\ view'[Server] = view[Server]
    /\ up'[d] = Append(up[d], m) /\ down'[d] = down[d]
    /\ m.type = "insert" => m.symbol.site = d /\ m.symbol.n = counter[d]
    /\ m.type # "insert" => m.symbol \in ToSet(editor[d].text)
    /\ m.type = "format" => d \in Formatters
Reaches(d, m) ==
    /\ d \in editing /\ up[d] # << >> /\ Head(up[d]) = m /\ m \in Message
    /\ Sight(d)' = Sight(d) /\ Effect(view[Server], m, view'[Server])
    /\ up'[d] = Tail(up[d]) /\ down'[d] = down[d]
    /\ m.type = "insert" => m.symbol.site = d
Relays(d, c, m) ==
    /\ d \in editing /\ c \in editing \ {d} /\ m \in Message /\ m \in ToSet(up[c])
    /\ Sight(d)' = Sight(d) /\ Effect(view[Server], m, view'[Server])
    /\ up'[d] = up[d] /\ down'[d] = Append(down[d], m)
    /\ m.type = "insert" => m.symbol.site = c /\ ~Received(editor[Server], m.symbol)
    /\ m.type # "insert" => Received(editor[Server], m.symbol)
Takes(d) ==
    /\ d \in editing /\ down[d] # << >>
    /\ Effect(Sight(d), Head(down[d]), Sight(d)') /\ view'[Server] = view[Server]
    /\ up'[d] = up[d] /\ down'[d] = Tail(down[d])
Comes(d, m) ==
    /\ d \notin editing /\ m \in Document
    /\ Sight(d)' = m.text /\ view'[Server] = view[Server]
    /\ \A s, f : Shows(m.text, s, f) => Shows(view[Server], s, f)
    /\ up'[d] = << >> /\ down'[d] = <<m>>

SightStep(d) ==
    \/ Rests(d) \/ Takes(d)
    \/ \E m : Writes(d, m) \/ Reaches(d, m) \/ Comes(d, m)
    \/ \E c, m : Relays(d, c, m)

LEMMA LocalSights ==
    ASSUME Inv, SteadyInv, Plain, NEW c \in Clients, LocalEdit(c), NEW d \in editing'
    PROVE  SightStep(d)
<1>1. PICK m : Causes(c, m)
  BY LocalEditCauses
<1>2. /\ up \in [Clients -> Seq(Message \cup {Open})] /\ Clients \subseteq Replicas
      /\ joined \subseteq editing /\ editing \subseteq Clients /\ Server \in Replicas
      /\ c # Server
  BY Constants DEF Inv, Types
<1>3. /\ d \in Clients /\ d \in editing /\ c \in joined /\ c \in editing
      /\ down' = down /\ view'[Server] = view[Server]
      /\ \A x \in Clients : x # c => view'[x] = view[x] /\ up'[x] = up[x]
      /\ up'[c] = Append(up[c], m) /\ joined' = joined
  BY <1>1, <1>2 DEF Causes
<1>4. Sight(d)' = IF d \in joined THEN view'[d] ELSE down[d][1].text
  BY <1>3 DEF Sight
<1>5. CASE d # c
  <2>1. Sight(d)' = Sight(d)
    BY <1>3, <1>4, <1>5 DEF Sight
  <2>2. Rests(d)
    BY <1>3, <1>5, <2>1 DEF Rests
  <2>. QED
    BY <2>2 DEF SightStep
<1>6. CASE d = c
  <2>1. Sight(d)' = view'[c] /\ Sight(d) = view[c]
    BY <1>3, <1>4, <1>6 DEF Sight
  <2>2. Writes(d, m)
    BY <1>1, <1>3, <1>6, <2>1 DEF Writes, Causes
  <2>. QED
    BY <2>2 DEF SightStep
<1>. QED
  BY <1>5, <1>6

LEMMA OpenedSights ==
    ASSUME Inv, NEW c \in Clients, RequestOpen(c), NEW d \in editing'
    PROVE  SightStep(d)
<1>1. /\ up \in [Clients -> Seq(Message \cup {Open})] /\ editing \subseteq Clients
      /\ up' = [up EXCEPT ![c] = Append(@, Open)]
      /\ UNCHANGED <<view, joined, editing, down>>
      /\ c \notin joined /\ up[c] = << >> /\ down[c] = << >>
  BY DEF Inv, Types, RequestOpen
<1>2. c \notin editing
  BY <1>1 DEF Inv, Joining
<1>3. d # c /\ up'[d] = up[d] /\ d \in editing
  BY <1>1, <1>2
<1>4. Sight(d)' = Sight(d)
  BY <1>1 DEF Sight
<1>. QED
  BY <1>1, <1>3, <1>4 DEF Rests, SightStep

LEMMA ServedSights ==
    ASSUME Inv, SteadyInv, Plain, NEW w \in Workers, NEW c \in Clients, ServeEdit(w, c),
           NEW d \in editing'
    PROVE  SightStep(d)
<1>1. PICK m, e : Served(w, c, m, e)
  BY ServeEditStep
<1>2. /\ m \in Message /\ c \in joined /\ c \in editing /\ m \in ToSet(up[c])
      /\ m.type = "insert" => m.symbol.site = c /\ ~Received(editor[Server], m.symbol)
      /\ m.type # "insert" => Received(editor[Server], m.symbol)
  BY <1>1, ServedFacts
<1>3. /\ up[c] # << >> /\ Head(up[c]) = m /\ UNCHANGED <<joined, editing>>
  BY <1>1 DEF Served
<1>4. /\ Effect(view[Server], m, view'[Server])
      /\ \A q \in Replicas : q # Server => view'[q] = view[q]
  <2>1. Apply(Server, m)
    BY <1>3 DEF ServeEdit
  <2>2. /\ Types /\ Aligned /\ Server \in Replicas /\ Sound(editor[Server])
        /\ Ascending(editor[Server].text)
    BY Constants DEF Inv, Replicated
  <2>3. m.type = "insert" => m.symbol \notin ToSet(editor[Server].text)
    BY <1>2, <2>2, SymbolsKnown
  <2>. QED
    BY <1>2, <2>1, <2>2, <2>3, AppliedEffect DEF Plain
<1>5. /\ \A x \in Clients : IF x \in editing /\ x # c
                            THEN down'[x] = Append(down[x], m) ELSE down'[x] = down[x]
      /\ \A x \in Clients : x # c => up'[x] = up[x]
      /\ up'[c] = Tail(up[c])
  <2>1. Channels(w, c, m)
    BY <1>1, ServedChannels
  <2>2. \A x \in Clients : WorkerOf[x] = w
    BY PlainFacts
  <2>. QED
    BY <2>1, <2>2 DEF Channels
<1>6. d \in Clients /\ d \in editing /\ \A x \in Clients : view'[x] = view[x]
  BY <1>3, <1>4, Constants DEF Inv, Types
<1>7. CASE d = c
  <2>1. Sight(d)' = Sight(d)
    BY <1>2, <1>3, <1>6, <1>7 DEF Sight
  <2>2. Reaches(d, m)
    BY <1>2, <1>3, <1>4, <1>5, <1>6, <1>7, <2>1 DEF Reaches
  <2>. QED
    BY <2>2 DEF SightStep
<1>8. CASE d # c
  <2>1. down'[d] = Append(down[d], m)
    BY <1>5, <1>6, <1>8
  <2>2. Sight(d)' = Sight(d)
    <3>1. CASE d \in joined
      BY <1>3, <1>6, <3>1 DEF Sight
    <3>2. CASE d \notin joined
      <4>. DEFINE D == Message \cup Document
      <4>1. down[d] \in Seq(D) /\ m \in D /\ down[d] # << >>
        BY <1>2, <1>6, <3>2, TypesOf DEF Inv, Joining
      <4>. HIDE DEF D
      <4>2. down'[d][1] = down[d][1]
        <5>1. 1 \in 1 .. Len(down[d])
          BY <4>1, TailFacts
        <5>. QED
          BY <2>1, <4>1, <5>1, AppendFacts
      <4>. QED
        BY <1>3, <3>2, <4>2 DEF Sight
    <3>. QED
      BY <3>1, <3>2
  <2>3. Relays(d, c, m)
    BY <1>2, <1>4, <1>5, <1>6, <1>8, <2>1, <2>2 DEF Relays
  <2>. QED
    BY <2>3 DEF SightStep
<1>. QED
  BY <1>7, <1>8

LEMMA AdmittedSights ==
    ASSUME Inv, SteadyInv, Plain, NEW w \in Workers, NEW c \in Clients, ServeOpen(w, c),
           NEW d \in editing'
    PROVE  SightStep(d)
<1>. DEFINE t == editor[Server].text
            v == view[Server]
            x == [i \in DOMAIN t |-> Char(t[i], v[i].format)]
            y == DocumentOf(x)
<1>1. PICK m : Admitted(w, c, m)
  BY ServeOpenStep
<1>2. /\ down' = [down EXCEPT ![c] = Append(@, y)] /\ UNCHANGED <<view, joined>>
      /\ editing' = editing \cup {c}
  BY DEF ServeOpen
<1>3. /\ c \notin editing /\ down[c] = << >> /\ m \in Document
      /\ down' = [down EXCEPT ![c] = <<m>>] /\ up' = [up EXCEPT ![c] = << >>]
  BY <1>1 DEF Admitted
<1>4. /\ up \in [Clients -> Seq(Message \cup {Open})]
      /\ down \in [Clients -> Seq(Message \cup Document)]
      /\ joined \subseteq editing /\ editing \subseteq Clients
  BY DEF Inv, Types
<1>5. m = y
  <2>. HIDE DEF y
  <2>1. down'[c] = Append(<< >>, y) /\ down'[c] = <<m>>
    BY <1>2, <1>3, <1>4
  <2>2. Append(<< >>, y) = <<y>>
    OBVIOUS
  <2>. QED
    BY <2>1, <2>2
<1>6. m.text = x
  <2>. HIDE DEF x
  <2>. QED
    BY <1>5 DEF DocumentOf
<1>7. Faithful(v, t) /\ t \in Seq(Symbol)
  BY PlainFacts, Constants, TypesOf, EditorFields DEF Inv
<1>. HIDE DEF v, t
<1>8. \A s, f : Shows(x, s, f) => Shows(v, s, f)
  <2>1. DOMAIN x = DOMAIN v /\ \A i \in DOMAIN v : x[i] = v[i]
    <3>1. DOMAIN t = 1 .. Len(t)
      BY <1>7
    <3>2. DOMAIN v = DOMAIN t /\ \A i \in DOMAIN t : Char(t[i], v[i].format) = v[i]
      BY <1>7, <3>1 DEF Faithful
    <3>. QED
      BY <3>2
  <2>. HIDE DEF x
  <2>. QED
    BY <2>1 DEF Shows
<1>. HIDE DEF x, y
<1>9. view' = view /\ joined' = joined
  BY <1>2
<1>10. CASE d = c
  <2>1. up'[d] = << >> /\ down'[d] = <<m>> /\ d \notin joined
    BY <1>3, <1>4, <1>10
  <2>2. Sight(d)' = m.text
    <3>1. down'[d][1] = m /\ d \notin joined'
      BY <1>9, <2>1
    <3>. QED
      BY <3>1 DEF Sight
  <2>3. Comes(d, m)
    BY <1>2, <1>3, <1>6, <1>8, <1>10, <2>1, <2>2 DEF Comes, v
  <2>. QED
    BY <2>3 DEF SightStep
<1>11. CASE d # c
  <2>1. up'[d] = up[d] /\ down'[d] = down[d] /\ d \in editing
    BY <1>2, <1>3, <1>4, <1>11
  <2>2. Sight(d)' = Sight(d)
    BY <1>9, <2>1 DEF Sight
  <2>3. Rests(d)
    BY <1>9, <2>1, <2>2 DEF Rests
  <2>. QED
    BY <2>3 DEF SightStep
<1>. QED
  BY <1>10, <1>11

LEMMA HeardSights ==
    ASSUME Inv, SteadyInv, Plain, NEW c \in Clients, ReceiveEdit(c), NEW d \in editing'
    PROVE  SightStep(d)
<1>1. PICK m, e : Heard(c, m, e)
  BY ReceiveEditStep
<1>2. /\ c \in joined /\ c \in editing /\ m \in Message
      /\ \A x \in Clients : down'[x] = IF x = c THEN Tail(down[c]) ELSE down[x]
  BY <1>1, HeardFacts
<1>3. down[c] # << >> /\ Head(down[c]) = m /\ UNCHANGED <<joined, editing, up>>
  BY <1>1 DEF Heard
<1>4. /\ Effect(view[c], m, view'[c])
      /\ \A q \in Replicas : q # c => view'[q] = view[q]
  <2>1. Apply(c, m)
    BY <1>3 DEF ReceiveEdit
  <2>2. c \in Replicas /\ c \in Steady /\ Ascending(editor[c].text)
    BY PlainFacts, Constants
  <2>3. Types /\ Aligned /\ Sound(editor[c])
    BY <2>2 DEF Inv, Replicated
  <2>4. m.type = "insert" => m.symbol \notin ToSet(editor[c].text)
    BY <1>1, <2>2, HeardIsFresh DEF SteadyInv
  <2>. QED
    BY <1>2, <2>1, <2>2, <2>3, <2>4, AppliedEffect DEF Plain
<1>5. /\ d \in Clients /\ d \in editing /\ view'[Server] = view[Server]
      /\ \A x \in Clients : x # c => view'[x] = view[x]
  BY <1>3, <1>4, Constants DEF Inv, Types
<1>6. CASE d = c
  <2>1. Sight(d)' = view'[c] /\ Sight(d) = view[c]
    BY <1>2, <1>3, <1>6 DEF Sight
  <2>2. Takes(d)
    BY <1>2, <1>3, <1>4, <1>5, <1>6, <2>1 DEF Takes
  <2>. QED
    BY <2>2 DEF SightStep
<1>7. CASE d # c
  <2>1. down'[d] = down[d] /\ up'[d] = up[d] /\ view'[d] = view[d]
    BY <1>2, <1>3, <1>5, <1>7
  <2>2. Sight(d)' = Sight(d)
    BY <1>3, <2>1 DEF Sight
  <2>3. Rests(d)
    BY <1>5, <2>1, <2>2 DEF Rests
  <2>. QED
    BY <2>3 DEF SightStep
<1>. QED
  BY <1>6, <1>7

LEMMA EnteredSights ==
    ASSUME Inv, NEW c \in Clients, ReceiveDocument(c), NEW d \in editing'
    PROVE  SightStep(d)
<1>1. PICK m, e : Entered(c, m, e)
  BY ReceiveDocumentStep
<1>2. /\ down[c] # << >> /\ Head(down[c]) = m /\ m = down[c][1] /\ m \in Document
      /\ c \in editing \ joined /\ joined' = joined \cup {c} /\ UNCHANGED <<editing, up>>
      /\ view \in [Replicas -> Seq(Character)]
  BY <1>1 DEF Entered, Inv, Types
<1>3. \A x \in Clients : down'[x] = IF x = c THEN Tail(down[c]) ELSE down[x]
  BY <1>1, EnteredFacts
<1>4. view' = [view EXCEPT ![c] = m.text]
  BY <1>2 DEF ReceiveDocument
<1>5. /\ d \in Clients /\ d \in editing /\ view'[Server] = view[Server]
      /\ view'[c] = m.text /\ \A x \in Clients : x # c => view'[x] = view[x]
  BY <1>2, <1>4, Constants DEF Inv, Types
<1>6. CASE d = c
  <2>1. Sight(d)' = m.text /\ Sight(d) = m.text
    BY <1>2, <1>5, <1>6 DEF Sight
  <2>2. \A s : ~Speaks(m, s)
    BY <1>2, DocumentFields DEF Speaks
  <2>3. Effect(m.text, m, m.text)
    BY <2>2 DEF Effect
  <2>4. Takes(d)
    BY <1>2, <1>3, <1>5, <1>6, <2>1, <2>3 DEF Takes
  <2>. QED
    BY <2>4 DEF SightStep
<1>7. CASE d # c
  <2>1. down'[d] = down[d] /\ up'[d] = up[d] /\ view'[d] = view[d]
        /\ (d \in joined' <=> d \in joined)
    BY <1>2, <1>3, <1>5, <1>7
  <2>2. Sight(d)' = Sight(d)
    BY <2>1 DEF Sight
  <2>3. Rests(d)
    BY <1>5, <2>1, <2>2 DEF Rests
  <2>. QED
    BY <2>3 DEF SightStep
<1>. QED
  BY <1>6, <1>7

LEMMA SightSteps ==
    ASSUME Inv, SteadyInv, Plain, Next, NEW d \in editing'
    PROVE  d \in Clients /\ SightStep(d)
<1>1. d \in Clients
  <2>1. Types'
    BY NextIsStep
  <2>. QED
    BY <2>1 DEF Types
<1>2. ASSUME NEW w \in Workers PROVE ~PostNext(w) /\ ~Dispatch(w)
  BY PlainFacts DEF PostNext, Dispatch
<1>. QED
  BY <1>1, <1>2, LocalSights, OpenedSights, ServedSights, AdmittedSights, HeardSights,
     EnteredSights DEF Next, Serve, Receive

-----------------------------------------------------------------------------
(* What the server shows of a symbol and what client d will show when it    *)
(* has taken what comes are the same, unless the user of d changes formats; *)
(* then what d shows and what the server will show are the same.  The other *)
(* direction needs what the first knows of symbols that are on their way.   *)
Reading(d) == d \notin Formatters => \A s \in Symbol, f, g \in Formats :
    Shows(view[Server], s, f) /\ Will(Sight(d), down[d], s, g) => f = g
Writing(d) == d \in Formatters => \A s \in Symbol, f, g \in Formats :
    Shows(Sight(d), s, g) /\ Will(view[Server], up[d], s, f) => f = g
Fetching(d) == d \in Formatters => \A m \in ToSet(down[d]) : m.type = "insert" =>
    \A f \in Formats : Will(view[Server], up[d], m.symbol, f) => f = m.format
Bringing(d) == d \notin Formatters => \A m \in ToSet(up[d]) : m.type = "insert" =>
    \A f \in Formats : Will(Sight(d), down[d], m.symbol, f) => f = m.format
Formatting(d) ==
    /\ \A m \in ToSet(up[d]) : m.type = "format" => d \in Formatters
    /\ \A m \in ToSet(down[d]) : m.type = "format" => d \notin Formatters
ViewInv ==
    \A d \in editing : Reading(d) /\ Writing(d) /\ Fetching(d) /\ Bringing(d) /\ Formatting(d)

LEMMA SightFacts ==
    ASSUME Inv, SteadyInv, Plain, NEW d \in editing
    PROVE  /\ \A m \in ToSet(down[d]) : \A s : Speaks(m, s) => Received(editor[Server], s)
           /\ \A m \in ToSet(down[d]) : m.type = "insert" =>
                 Received(editor[Server], m.symbol) /\ ~Received(Copy(d), m.symbol)
           /\ \A m \in ToSet(up[d]) : m.type = "insert" =>
                 /\ m.symbol \in Symbol /\ m.symbol.site = d /\ m.symbol.n < counter[d]
                 /\ ~Received(editor[Server], m.symbol)
           /\ \A m \in ToSet(up[d]) : \A s : Speaks(m, s) =>
                 s.site = d \/ Received(editor[Server], s)
           /\ \A s, f : Shows(Sight(d), s, f) => s \in ToSet(Copy(d).text)
           /\ \A s, f : Shows(Sight(d), s, f) => s.site = d \/ Received(editor[Server], s)
           /\ \A s, f : Shows(view[Server], s, f) => Received(editor[Server], s)
<1>. DEFINE D == Message \cup Document
            S == Message \cup {Open}
<1>1. /\ d \in Clients /\ down[d] \in Seq(D) /\ up[d] \in Seq(S) /\ d \in Steady
      /\ Server \in Replicas /\ d \in Replicas
  BY PlainFacts, TypesOf, Constants DEF Inv, Types
<1>. HIDE DEF D, S
<1>2. \A m \in ToSet(down[d]) : m \in D
  BY <1>1, SeqFacts
<1>3. /\ \A m \in ToSet(up[d]) : m \in S
      /\ \A m \in ToSet(up[d]) : \E i \in DOMAIN up[d] : up[d][i] = m
  <2>1. \A m \in ToSet(up[d]) : m \in S
    BY <1>1, SeqFacts
  <2>2. \A m \in ToSet(up[d]) : \E i \in DOMAIN up[d] : up[d][i] = m
    BY DEF ToSet
  <2>. QED
    BY <2>1, <2>2
<1>4. ASSUME NEW m \in ToSet(down[d]), m.type \in {"insert", "format"}
      PROVE  m \in Message /\ m.symbol \in Symbol /\ Received(editor[Server], m.symbol)
  <2>1. m \in Message
    BY <1>2, <1>4, DocumentFields DEF D
  <2>2. Flying(m)
    BY <1>1 DEF Flying
  <2>. QED
    BY <2>1, <2>2, MessageFields DEF Inv, Relayed
<1>5. ASSUME NEW m \in ToSet(down[d]), m.type = "insert" PROVE ~Received(Copy(d), m.symbol)
  <2>1. m \in Message /\ m.symbol \in Symbol /\ m = Insert(m.symbol, m.format)
        /\ m.format \in Formats
    BY <1>4, <1>5, MessageFields
  <2>2. Coming(m.symbol, d)
    BY <2>1 DEF Coming, UnderWay
  <2>. QED
    BY <1>1, <2>1, <2>2 DEF SteadyInv, Fresh
<1>6. ASSUME NEW m \in ToSet(up[d]), m.type = "insert"
      PROVE  /\ m.symbol \in Symbol /\ m.symbol.site = d /\ m.symbol.n < counter[d]
             /\ ~Received(editor[Server], m.symbol)
  <2>1. m \in Message
    BY <1>3, <1>6, OpenIsOpen DEF S
  <2>. QED
    BY <1>1, <1>3, <1>6, <2>1, MessageFields DEF Inv, Requests, RequestsOf
<1>7. ASSUME NEW m \in ToSet(up[d]), m.type = "format"
      PROVE  m.symbol.site = d \/ Received(editor[Server], m.symbol)
  <2>1. PICK i \in DOMAIN up[d] : up[d][i] = m
    BY <1>3
  <2>2. \/ Received(editor[Server], m.symbol)
        \/ \E j \in DOMAIN up[d] : up[d][j].type = "insert" /\ up[d][j].symbol = m.symbol
    BY <1>1, <1>7, <2>1 DEF Inv, Requests, RequestsOf
  <2>. QED
    BY <1>1, <2>2 DEF Inv, Requests, RequestsOf
<1>8. ASSUME NEW s, NEW f, Shows(Sight(d), s, f) PROVE s \in ToSet(Copy(d).text)
  <2>1. CASE d \in joined
    <3>1. Faithful(view[d], editor[d].text)
      BY <1>1, PlainFacts
    <3>. QED
      BY <1>8, <2>1, <3>1 DEF Faithful, Sight, Copy
  <2>2. CASE d \notin joined
    <3>. DEFINE m == down[d][1]
    <3>1. m \in Document
      BY <2>2 DEF Inv, Joining
    <3>2. Sight(d) = m.text /\ Copy(d).text = SymbolsOf(m.text)
      BY <2>2 DEF Sight, Copy, EditorOf
    <3>. HIDE DEF m
    <3>3. PICK i \in DOMAIN m.text : m.text[i].of = s
      BY <1>8, <3>2 DEF Shows
    <3>4. DOMAIN SymbolsOf(m.text) = DOMAIN m.text /\ SymbolsOf(m.text)[i] = s
      BY <3>3 DEF SymbolsOf
    <3>. QED
      BY <3>2, <3>4 DEF ToSet
  <2>. QED
    BY <2>1, <2>2
<1>9. ASSUME NEW s, NEW f, Shows(Sight(d), s, f) PROVE s.site = d \/ Received(editor[Server], s)
  <2>1. Received(editor[Server], s) \/ Sending(d, s)
    BY <1>8, <1>9, ShownIsKnown
  <2>2. CASE Sending(d, s)
    <3>1. PICK g \in Formats : Insert(s, g) \in ToSet(up[d])
      BY <2>2 DEF Sending
    <3>2. Insert(s, g).type = "insert" /\ Insert(s, g).symbol = s
      BY DEF Insert
    <3>. QED
      BY <1>6, <3>1, <3>2
  <2>. QED
    BY <2>1, <2>2
<1>10. ASSUME NEW s, NEW f, Shows(view[Server], s, f) PROVE Received(editor[Server], s)
  <2>1. Faithful(view[Server], editor[Server].text)
    BY <1>1, PlainFacts
  <2>2. s \in ToSet(editor[Server].text)
    BY <1>10, <2>1 DEF Faithful
  <2>. QED
    BY <1>1, <2>2, SymbolsKnown
<1>. QED
  BY <1>4, <1>5, <1>6, <1>7, <1>8, <1>9, <1>10 DEF Speaks

LEMMA WillWhence ==
    ASSUME NEW v, NEW q, NEW s, NEW f, Will(v, q, s, f)
    PROVE  (\E m \in ToSet(q) : Speaks(m, s)) \/ Shows(v, s, f)
  BY DEF Will, LastSays, ToSet

(* What is in the two channels after a step, and what either side will      *)
(* show then.                                                               *)
LEMMA ChannelFacts ==
    ASSUME Inv, NEW d \in Clients
    PROVE  /\ \A m, v, s, f : /\ Writes(d, m) /\ Will(v, up'[d], s, f)
                              => IF Speaks(m, s) THEN f = m.format ELSE Will(v, up[d], s, f)
           /\ \A m : Writes(d, m) => ToSet(up'[d]) = ToSet(up[d]) \cup {m}
           /\ \A c, m, v, s, f : /\ Relays(d, c, m) /\ Will(v, down'[d], s, f)
                                 => IF Speaks(m, s) THEN f = m.format ELSE Will(v, down[d], s, f)
           /\ \A c, m : Relays(d, c, m) => ToSet(down'[d]) = ToSet(down[d]) \cup {m}
           /\ \A m, s, f : /\ Reaches(d, m) /\ Will(view'[Server], up'[d], s, f)
                           => Will(view[Server], up[d], s, f)
           /\ \A m : Reaches(d, m) => m \in ToSet(up[d]) /\ ToSet(up'[d]) \subseteq ToSet(up[d])
           /\ \A s, f : Takes(d) /\ Will(Sight(d)', down'[d], s, f) => Will(Sight(d), down[d], s, f)
           /\ Takes(d) => /\ Head(down[d]) \in ToSet(down[d])
                          /\ ToSet(down'[d]) \subseteq ToSet(down[d])
           /\ \A m, s, f : Comes(d, m) /\ Will(Sight(d)', down'[d], s, f) => Shows(view[Server], s, f)
           /\ \A m : Comes(d, m) => ToSet(down'[d]) = {m} /\ ToSet(up'[d]) = {}
<1>. DEFINE D == Message \cup Document
            S == Message \cup {Open}
<1>1. down[d] \in Seq(D) /\ up[d] \in Seq(S)
  BY TypesOf DEF Inv
<1>2. \A m \in Message : m \in D /\ m \in S
  OBVIOUS
<1>. HIDE DEF D, S
<1>3. ASSUME NEW m, Writes(d, m)
      PROVE  /\ ToSet(up'[d]) = ToSet(up[d]) \cup {m}
             /\ \A v, s, f : Will(v, up'[d], s, f)
                             => IF Speaks(m, s) THEN f = m.format ELSE Will(v, up[d], s, f)
  <2>1. m \in S /\ up'[d] = Append(up[d], m)
    BY <1>2, <1>3 DEF Writes
  <2>2. ToSet(Append(up[d], m)) = ToSet(up[d]) \cup {m}
    BY <1>1, <2>1, AppendFacts
  <2>3. \A v, s, f : Will(v, Append(up[d], m), s, f)
                     => IF Speaks(m, s) THEN f = m.format ELSE Will(v, up[d], s, f)
    BY <1>1, <2>1, WillAppended
  <2>. QED
    BY <2>1, <2>2, <2>3
<1>4. ASSUME NEW c, NEW m, Relays(d, c, m)
      PROVE  /\ ToSet(down'[d]) = ToSet(down[d]) \cup {m}
             /\ \A v, s, f : Will(v, down'[d], s, f)
                             => IF Speaks(m, s) THEN f = m.format ELSE Will(v, down[d], s, f)
  <2>1. m \in D /\ down'[d] = Append(down[d], m)
    BY <1>2, <1>4 DEF Relays
  <2>2. ToSet(Append(down[d], m)) = ToSet(down[d]) \cup {m}
    BY <1>1, <2>1, AppendFacts
  <2>3. \A v, s, f : Will(v, Append(down[d], m), s, f)
                     => IF Speaks(m, s) THEN f = m.format ELSE Will(v, down[d], s, f)
    BY <1>1, <2>1, WillAppended
  <2>. QED
    BY <2>1, <2>2, <2>3
<1>5. ASSUME NEW m, Reaches(d, m)
      PROVE  /\ m \in ToSet(up[d]) /\ ToSet(up'[d]) \subseteq ToSet(up[d])
             /\ \A s, f : Will(view'[Server], up'[d], s, f) => Will(view[Server], up[d], s, f)
  <2>1. up[d] # << >> /\ Head(up[d]) = m /\ up'[d] = Tail(up[d])
        /\ Effect(view[Server], m, view'[Server])
    BY <1>5 DEF Reaches
  <2>2. ToSet(up[d]) = ToSet(Tail(up[d])) \cup {Head(up[d])}
    BY <1>1, <2>1, TailFacts
  <2>3. \A s, f : Will(view'[Server], Tail(up[d]), s, f) => Will(view[Server], up[d], s, f)
    BY <1>1, <2>1, WillTaken
  <2>. QED
    BY <2>1, <2>2, <2>3
<1>6. ASSUME Takes(d)
      PROVE  /\ Head(down[d]) \in ToSet(down[d]) /\ ToSet(down'[d]) \subseteq ToSet(down[d])
             /\ \A s, f : Will(Sight(d)', down'[d], s, f) => Will(Sight(d), down[d], s, f)
  <2>1. down[d] # << >> /\ down'[d] = Tail(down[d])
        /\ Effect(Sight(d), Head(down[d]), Sight(d)')
    BY <1>6 DEF Takes
  <2>2. ToSet(down[d]) = ToSet(Tail(down[d])) \cup {Head(down[d])}
    BY <1>1, <2>1, TailFacts
  <2>3. PICK z : z = Sight(d)'
    OBVIOUS
  <2>4. \A s, f : Will(z, Tail(down[d]), s, f) => Will(Sight(d), down[d], s, f)
    BY <1>1, <2>1, <2>3, WillTaken
  <2>. QED
    BY <2>1, <2>2, <2>3, <2>4
<1>7. ASSUME NEW m, Comes(d, m)
      PROVE  /\ ToSet(down'[d]) = {m} /\ ToSet(up'[d]) = {}
             /\ \A s, f : Will(Sight(d)', down'[d], s, f) => Shows(view[Server], s, f)
  <2>1. /\ m \in Document /\ up'[d] = << >> /\ down'[d] = <<m>> /\ Sight(d)' = m.text
        /\ \A s, f : Shows(m.text, s, f) => Shows(view[Server], s, f)
    BY <1>7 DEF Comes
  <2>2. DOMAIN <<m>> = {1} /\ <<m>>[1] = m
    OBVIOUS
  <2>3. ToSet(<<m>>) = {m}
    BY <2>2 DEF ToSet
  <2>4. \A s : ~Speaks(m, s)
    BY <2>1, DocumentFields DEF Speaks
  <2>5. ASSUME NEW s, NEW f, Will(Sight(d)', down'[d], s, f) PROVE Shows(view[Server], s, f)
    <3>1. Shows(m.text, s, f)
      BY <2>1, <2>3, <2>4, <2>5, WillWhence
    <3>. QED
      BY <2>1, <3>1
  <2>. QED
    BY <2>1, <2>3, <2>5, EmptyFacts
<1>. QED
  BY <1>3, <1>4, <1>5, <1>6, <1>7

LEMMA ReadingKept ==
    ASSUME Inv, SteadyInv, Plain, ViewInv, NEW d \in Clients, SightStep(d)
    PROVE  Reading(d)'
<1>. SUFFICES ASSUME d \notin Formatters, NEW s \in Symbol, NEW f \in Formats, NEW g \in Formats,
                     Shows(view'[Server], s, f), Will(Sight(d)', down'[d], s, g)
              PROVE  f = g
  BY DEF Reading
<1>0. d \in editing => \/ ~Shows(view[Server], s, f) \/ ~Will(Sight(d), down[d], s, g)
                       \/ f = g
  BY DEF ViewInv, Reading
<1>1. CASE Rests(d)
  BY <1>0, <1>1 DEF Rests
<1>2. CASE Takes(d)
  BY <1>0, <1>2, ChannelFacts DEF Takes
<1>3. ASSUME NEW m, Writes(d, m) PROVE f = g
  <2>1. /\ d \in editing /\ m \in Message /\ Effect(Sight(d), m, Sight(d)')
        /\ view'[Server] = view[Server] /\ down'[d] = down[d]
        /\ m.type = "insert" => m.symbol.site = d /\ m.symbol.n = counter[d]
        /\ m.type # "format"
    BY <1>3 DEF Writes
  <2>2. CASE Will(Sight(d), down[d], s, g)
    BY <1>0, <2>1, <2>2
  <2>3. CASE Speaks(m, s)
    <3>1. m.type = "insert" /\ m.symbol = s
      BY <2>1, <2>3 DEF Speaks
    <3>2. ~Received(editor[Server], s)
      BY <2>1, <3>1, NewSymbol, Constants
    <3>. QED
      BY <2>1, <3>2, SightFacts
  <2>4. Will(Sight(d), down[d], s, g) \/ Speaks(m, s)
    <3>1. PICK z : z = Sight(d)'
      OBVIOUS
    <3>2. Effect(Sight(d), m, z) /\ Will(z, down[d], s, g)
      BY <2>1, <3>1
    <3>. QED
      BY <3>2, WillSeen
  <2>. QED
    BY <2>2, <2>3, <2>4
<1>4. ASSUME NEW m, Reaches(d, m) PROVE f = g
  <2>1. /\ d \in editing /\ Sight(d)' = Sight(d) /\ down'[d] = down[d]
        /\ Effect(view[Server], m, view'[Server]) /\ m \in ToSet(up[d])
    BY <1>4, ChannelFacts DEF Reaches
  <2>2. IF Speaks(m, s) THEN f = m.format ELSE Shows(view[Server], s, f)
    BY <2>1 DEF Effect
  <2>3. CASE Speaks(m, s)
    <3>1. m.type = "insert" /\ m.symbol = s
      BY <2>1, <2>3 DEF Speaks, ViewInv, Formatting
    <3>. QED
      BY <2>1, <2>2, <2>3, <3>1 DEF ViewInv, Bringing
  <2>. QED
    BY <1>0, <2>1, <2>2, <2>3
<1>5. ASSUME NEW c, NEW m, Relays(d, c, m) PROVE f = g
  <2>1. /\ d \in editing /\ Sight(d)' = Sight(d)
        /\ Effect(view[Server], m, view'[Server])
    BY <1>5 DEF Relays
  <2>2. IF Speaks(m, s) THEN f = m.format ELSE Shows(view[Server], s, f)
    BY <2>1 DEF Effect
  <2>3. IF Speaks(m, s) THEN g = m.format ELSE Will(Sight(d), down[d], s, g)
    <3>1. Will(Sight(d), down'[d], s, g)
      BY <2>1
    <3>. QED
      BY <3>1, <1>5, ChannelFacts
  <2>. QED
    BY <1>0, <2>1, <2>2, <2>3
<1>6. ASSUME NEW m, Comes(d, m) PROVE f = g
  <2>1. Shows(view[Server], s, f) /\ Shows(view[Server], s, g)
    BY <1>6, ChannelFacts DEF Comes
  <2>. QED
    BY <2>1, PlainFacts, Constants DEF Faithful
<1>. QED
  BY <1>1, <1>2, <1>3, <1>4, <1>5, <1>6 DEF SightStep

LEMMA WritingKept ==
    ASSUME Inv, SteadyInv, Plain, ViewInv, NEW d \in Clients, SightStep(d)
    PROVE  Writing(d)'
<1>. SUFFICES ASSUME d \in Formatters, NEW s \in Symbol, NEW f \in Formats, NEW g \in Formats,
                     Shows(Sight(d)', s, g), Will(view'[Server], up'[d], s, f)
              PROVE  f = g
  BY DEF Writing
<1>0. d \in editing => \/ ~Shows(Sight(d), s, g) \/ ~Will(view[Server], up[d], s, f)
                       \/ f = g
  BY DEF ViewInv, Writing
<1>1. CASE Rests(d)
  BY <1>0, <1>1 DEF Rests
<1>2. CASE Takes(d)
  <2>. DEFINE m == Head(down[d])
  <2>1. /\ d \in editing /\ Effect(Sight(d), m, Sight(d)') /\ m \in ToSet(down[d])
        /\ up'[d] = up[d] /\ view'[Server] = view[Server]
    BY <1>2, ChannelFacts DEF Takes
  <2>. HIDE DEF m
  <2>2. IF Speaks(m, s) THEN g = m.format ELSE Shows(Sight(d), s, g)
    BY <2>1 DEF Effect
  <2>3. CASE Speaks(m, s)
    <3>1. m.type = "insert" /\ m.symbol = s
      BY <2>1, <2>3 DEF Speaks, ViewInv, Formatting
    <3>2. Will(view[Server], up[d], m.symbol, f)
      BY <2>1, <3>1
    <3>. QED
      BY <2>1, <2>2, <2>3, <3>1, <3>2 DEF ViewInv, Fetching
  <2>. QED
    BY <1>0, <2>1, <2>2, <2>3
<1>3. ASSUME NEW m, Writes(d, m) PROVE f = g
  <2>1. d \in editing /\ Effect(Sight(d), m, Sight(d)') /\ view'[Server] = view[Server]
    BY <1>3 DEF Writes
  <2>2. IF Speaks(m, s) THEN g = m.format ELSE Shows(Sight(d), s, g)
    BY <2>1 DEF Effect
  <2>3. IF Speaks(m, s) THEN f = m.format ELSE Will(view[Server], up[d], s, f)
    <3>1. Will(view[Server], up'[d], s, f)
      BY <2>1
    <3>. QED
      BY <3>1, <1>3, ChannelFacts
  <2>. QED
    BY <1>0, <2>1, <2>2, <2>3
<1>4. ASSUME NEW m, Reaches(d, m) PROVE f = g
  <2>1. d \in editing /\ Sight(d)' = Sight(d) /\ Will(view[Server], up[d], s, f)
    BY <1>4, ChannelFacts DEF Reaches
  <2>. QED
    BY <1>0, <2>1
<1>5. ASSUME NEW c, NEW m, Relays(d, c, m) PROVE f = g
  <2>1. /\ d \in editing /\ c \in editing \ {d} /\ m \in ToSet(up[c])
        /\ Sight(d)' = Sight(d) /\ up'[d] = up[d]
        /\ Effect(view[Server], m, view'[Server])
        /\ m.type = "insert" => m.symbol.site = c /\ ~Received(editor[Server], m.symbol)
    BY <1>5 DEF Relays
  <2>2. Will(view[Server], up[d], s, f) \/ Speaks(m, s)
    BY <2>1, WillSeen
  <2>3. CASE Speaks(m, s)
    <3>1. m.type # "format"
      BY <2>1 DEF ViewInv, Formatting, Plain
    <3>2. m.type = "insert" /\ m.symbol = s
      BY <2>3, <3>1 DEF Speaks
    <3>3. s.site = c /\ ~Received(editor[Server], s)
      BY <2>1, <3>2
    <3>4. s.site = d \/ Received(editor[Server], s)
      BY <2>1, SightFacts
    <3>. QED
      BY <2>1, <3>3, <3>4
  <2>. QED
    BY <1>0, <2>1, <2>2, <2>3
<1>6. ASSUME NEW m, Comes(d, m) PROVE f = g
  <2>1. /\ up'[d] = << >> /\ view'[Server] = view[Server] /\ Sight(d)' = m.text
        /\ \A t, h : Shows(m.text, t, h) => Shows(view[Server], t, h)
    BY <1>6 DEF Comes
  <2>2. Shows(view[Server], s, f)
    BY <2>1, EmptyWill
  <2>3. Shows(view[Server], s, g)
    BY <2>1
  <2>. QED
    BY <2>2, <2>3, PlainFacts, Constants DEF Faithful
<1>. QED
  BY <1>1, <1>2, <1>3, <1>4, <1>5, <1>6 DEF SightStep

LEMMA FetchingKept ==
    ASSUME Inv, SteadyInv, Plain, ViewInv, NEW d \in Clients, SightStep(d)
    PROVE  Fetching(d)'
<1>. SUFFICES ASSUME d \in Formatters, NEW x \in ToSet(down'[d]), x.type = "insert",
                     NEW f \in Formats, Will(view'[Server], up'[d], x.symbol, f)
              PROVE  f = x.format
  BY DEF Fetching
<1>0. d \in editing /\ x \in ToSet(down[d]) =>
        \/ ~Will(view[Server], up[d], x.symbol, f) \/ f = x.format
  BY DEF ViewInv, Fetching
<1>1. CASE Rests(d)
  BY <1>0, <1>1 DEF Rests
<1>2. CASE Takes(d)
  BY <1>0, <1>2, ChannelFacts DEF Takes
<1>3. ASSUME NEW m, Writes(d, m) PROVE f = x.format
  <2>1. /\ d \in editing /\ d \in joined /\ m \in Message
        /\ view'[Server] = view[Server] /\ down'[d] = down[d]
        /\ m.type = "insert" => m.symbol.site = d /\ m.symbol.n = counter[d]
        /\ m.type # "insert" => m.symbol \in ToSet(editor[d].text)
    BY <1>3 DEF Writes
  <2>2. IF Speaks(m, x.symbol) THEN f = m.format ELSE Will(view[Server], up[d], x.symbol, f)
    <3>1. Will(view[Server], up'[d], x.symbol, f)
      BY <2>1
    <3>. QED
      BY <3>1, <1>3, ChannelFacts
  <2>3. Received(editor[Server], x.symbol) /\ ~Received(editor[d], x.symbol)
    <3>1. Copy(d) = editor[d]
      BY <2>1 DEF Copy
    <3>. QED
      BY <2>1, <3>1, SightFacts
  <2>4. m.symbol # x.symbol
    <3>1. CASE m.type = "insert"
      <4>1. m.symbol \in Symbol /\ Server \in Replicas
        BY <2>1, MessageFields, Constants
      <4>2. ~Received(editor[Server], m.symbol)
        BY <2>1, <3>1, <4>1, NewSymbol
      <4>. QED
        BY <2>3, <4>2
    <3>2. CASE m.type # "insert"
      <4>1. d \in Replicas
        BY Constants
      <4>2. Received(editor[d], m.symbol)
        BY <2>1, <3>2, <4>1, SymbolsKnown
      <4>. QED
        BY <2>3, <4>2
    <3>. QED
      BY <3>1, <3>2
  <2>. QED
    BY <1>0, <2>1, <2>2, <2>4 DEF Speaks
<1>4. ASSUME NEW m, Reaches(d, m) PROVE f = x.format
  <2>1. d \in editing /\ down'[d] = down[d] /\ Will(view[Server], up[d], x.symbol, f)
    BY <1>4, ChannelFacts DEF Reaches
  <2>. QED
    BY <1>0, <2>1
<1>5. ASSUME NEW c, NEW m, Relays(d, c, m) PROVE f = x.format
  <2>1. /\ d \in editing /\ c \in editing \ {d} /\ m \in ToSet(up[c])
        /\ up'[d] = up[d] /\ Effect(view[Server], m, view'[Server])
        /\ m.type = "insert" => m.symbol.site = c /\ ~Received(editor[Server], m.symbol)
        /\ ToSet(down'[d]) = ToSet(down[d]) \cup {m}
    BY <1>5, ChannelFacts DEF Relays
  <2>2. \/ Will(view[Server], up[d], x.symbol, f)
        \/ Speaks(m, x.symbol) /\ f = m.format
    BY <2>1, WillSeen
  <2>3. m.type # "format"
    BY <2>1 DEF ViewInv, Formatting, Plain
  <2>4. CASE x = m
    <3>1. x.symbol.site = c /\ ~Received(editor[Server], x.symbol)
      BY <2>1, <2>4
    <3>2. \A y \in ToSet(up[d]) : ~Speaks(y, x.symbol)
      BY <2>1, <3>1, SightFacts
    <3>3. ~Shows(view[Server], x.symbol, f)
      BY <2>1, <3>1, SightFacts
    <3>4. ~Will(view[Server], up[d], x.symbol, f)
      BY <3>2, <3>3, WillWhence
    <3>. QED
      BY <2>2, <2>4, <3>4
  <2>5. CASE x \in ToSet(down[d])
    <3>1. Received(editor[Server], x.symbol)
      BY <2>1, <2>5, SightFacts
    <3>2. ~Speaks(m, x.symbol)
      BY <2>1, <2>3, <3>1 DEF Speaks
    <3>. QED
      BY <1>0, <2>1, <2>2, <2>5, <3>2
  <2>. QED
    BY <2>1, <2>4, <2>5
<1>6. ASSUME NEW m, Comes(d, m) PROVE FALSE
  <2>1. ToSet(down'[d]) = {m}
    BY <1>6, ChannelFacts
  <2>2. x = m
    BY <2>1
  <2>3. m \in Document
    BY <1>6 DEF Comes
  <2>. QED
    BY <2>2, <2>3, DocumentFields
<1>. QED
  BY <1>1, <1>2, <1>3, <1>4, <1>5, <1>6 DEF SightStep

LEMMA BringingKept ==
    ASSUME Inv, SteadyInv, Plain, ViewInv, NEW d \in Clients, SightStep(d)
    PROVE  Bringing(d)'
<1>. SUFFICES ASSUME d \notin Formatters, NEW x \in ToSet(up'[d]), x.type = "insert",
                     NEW f \in Formats, Will(Sight(d)', down'[d], x.symbol, f)
              PROVE  f = x.format
  BY DEF Bringing
<1>0. d \in editing /\ x \in ToSet(up[d]) =>
        \/ ~Will(Sight(d), down[d], x.symbol, f) \/ f = x.format
  BY DEF ViewInv, Bringing
<1>1. CASE Rests(d)
  BY <1>0, <1>1 DEF Rests
<1>2. CASE Takes(d)
  BY <1>0, <1>2, ChannelFacts DEF Takes
<1>3. ASSUME NEW m, Writes(d, m) PROVE f = x.format
  <2>1. /\ d \in editing /\ d \in joined /\ m \in Message /\ m.type # "format"
        /\ Effect(Sight(d), m, Sight(d)') /\ down'[d] = down[d]
        /\ m.type = "insert" => m.symbol.site = d /\ m.symbol.n = counter[d]
        /\ ToSet(up'[d]) = ToSet(up[d]) \cup {m}
    BY <1>3, ChannelFacts DEF Writes
  <2>2. \/ Will(Sight(d), down[d], x.symbol, f)
        \/ Speaks(m, x.symbol) /\ f = m.format
    <3>1. PICK z : z = Sight(d)'
      OBVIOUS
    <3>2. Effect(Sight(d), m, z) /\ Will(z, down[d], x.symbol, f)
      BY <2>1, <3>1
    <3>. QED
      BY <3>2, WillSeen
  <2>3. CASE x = m
    <3>1. x.symbol \in Symbol /\ Server \in Replicas /\ d \in Replicas
      BY <2>1, <2>3, MessageFields, Constants
    <3>2. /\ ~Received(editor[Server], x.symbol)
          /\ x.symbol \notin ToSet(editor[d].text)
      BY <2>1, <2>3, <3>1, NewSymbol
    <3>3. \A y \in ToSet(down[d]) : ~Speaks(y, x.symbol)
      BY <2>1, <3>2, SightFacts
    <3>4. ~Shows(Sight(d), x.symbol, f)
      <4>1. Copy(d) = editor[d]
        BY <2>1 DEF Copy
      <4>. QED
        BY <2>1, <3>2, <4>1, SightFacts
    <3>5. ~Will(Sight(d), down[d], x.symbol, f)
      BY <3>3, <3>4, WillWhence
    <3>. QED
      BY <2>2, <2>3, <3>5
  <2>4. CASE x \in ToSet(up[d])
    <3>1. x.symbol.n < counter[d] /\ x.symbol \in Symbol
      BY <2>1, <2>4, SightFacts
    <3>2. x.symbol.n # counter[d]
      BY <3>1, SymbolFields, TypesOf DEF Inv
    <3>3. ~Speaks(m, x.symbol)
      BY <2>1, <3>2 DEF Speaks
    <3>. QED
      BY <1>0, <2>1, <2>2, <2>4, <3>3
  <2>. QED
    BY <2>1, <2>3, <2>4
<1>4. ASSUME NEW m, Reaches(d, m) PROVE f = x.format
  <2>1. d \in editing /\ down'[d] = down[d] /\ Sight(d)' = Sight(d) /\ x \in ToSet(up[d])
    BY <1>4, ChannelFacts DEF Reaches
  <2>. QED
    BY <1>0, <2>1
<1>5. ASSUME NEW c, NEW m, Relays(d, c, m) PROVE f = x.format
  <2>1. /\ d \in editing /\ c \in editing \ {d} /\ up'[d] = up[d] /\ Sight(d)' = Sight(d)
        /\ m.type = "insert" => m.symbol.site = c
        /\ m.type # "insert" => Received(editor[Server], m.symbol)
    BY <1>5 DEF Relays
  <2>2. IF Speaks(m, x.symbol) THEN f = m.format ELSE Will(Sight(d), down[d], x.symbol, f)
    <3>1. Will(Sight(d), down'[d], x.symbol, f)
      BY <2>1
    <3>. QED
      BY <3>1, <1>5, ChannelFacts
  <2>3. x.symbol.site = d /\ ~Received(editor[Server], x.symbol)
    BY <2>1, SightFacts
  <2>4. ~Speaks(m, x.symbol)
    BY <2>1, <2>3 DEF Speaks
  <2>. QED
    BY <1>0, <2>1, <2>2, <2>4
<1>6. ASSUME NEW m, Comes(d, m) PROVE FALSE
  BY <1>6, ChannelFacts
<1>. QED
  BY <1>1, <1>2, <1>3, <1>4, <1>5, <1>6 DEF SightStep

LEMMA FormattingKept ==
    ASSUME Inv, SteadyInv, Plain, ViewInv, NEW d \in Clients, SightStep(d)
    PROVE  Formatting(d)'
<1>1. d \in editing => Formatting(d)
  BY DEF ViewInv
<1>2. ASSUME NEW x \in ToSet(up'[d]), x.type = "format" PROVE d \in Formatters
  <2>1. CASE Rests(d)
    BY <1>1, <1>2, <2>1 DEF Rests, Formatting
  <2>2. CASE Takes(d)
    BY <1>1, <1>2, <2>2 DEF Takes, Formatting
  <2>3. ASSUME NEW m, Writes(d, m) PROVE d \in Formatters
    <3>1. d \in editing /\ ToSet(up'[d]) = ToSet(up[d]) \cup {m}
          /\ (m.type = "format" => d \in Formatters)
      BY <2>3, ChannelFacts DEF Writes
    <3>. QED
      BY <1>1, <1>2, <3>1 DEF Formatting
  <2>4. ASSUME NEW m, Reaches(d, m) PROVE d \in Formatters
    <3>1. d \in editing /\ x \in ToSet(up[d])
      BY <1>2, <2>4, ChannelFacts DEF Reaches
    <3>. QED
      BY <1>1, <1>2, <3>1 DEF Formatting
  <2>5. ASSUME NEW c, NEW m, Relays(d, c, m) PROVE d \in Formatters
    BY <1>1, <1>2, <2>5 DEF Relays, Formatting
  <2>6. ASSUME NEW m, Comes(d, m) PROVE FALSE
    BY <1>2, <2>6, ChannelFacts
  <2>. QED
    BY <2>1, <2>2, <2>3, <2>4, <2>5, <2>6 DEF SightStep
<1>3. ASSUME NEW x \in ToSet(down'[d]), x.type = "format" PROVE d \notin Formatters
  <2>1. CASE Rests(d)
    BY <1>1, <1>3, <2>1 DEF Rests, Formatting
  <2>2. CASE Takes(d)
    <3>1. d \in editing /\ x \in ToSet(down[d])
      BY <1>3, <2>2, ChannelFacts DEF Takes
    <3>. QED
      BY <1>1, <1>3, <3>1 DEF Formatting
  <2>3. ASSUME NEW m, Writes(d, m) PROVE d \notin Formatters
    BY <1>1, <1>3, <2>3 DEF Writes, Formatting
  <2>4. ASSUME NEW m, Reaches(d, m) PROVE d \notin Formatters
    BY <1>1, <1>3, <2>4 DEF Reaches, Formatting
  <2>5. ASSUME NEW c, NEW m, Relays(d, c, m) PROVE d \notin Formatters
    <3>1. /\ d \in editing /\ c \in editing \ {d} /\ m \in ToSet(up[c])
          /\ ToSet(down'[d]) = ToSet(down[d]) \cup {m}
      BY <2>5, ChannelFacts DEF Relays
    <3>2. m.type = "format" => c \in Formatters
      BY <3>1 DEF ViewInv, Formatting
    <3>. QED
      BY <1>1, <1>3, <3>1, <3>2 DEF Formatting, Plain
  <2>6. ASSUME NEW m, Comes(d, m) PROVE FALSE
    <3>1. x = m /\ m \in Document
      BY <1>3, <2>6, ChannelFacts DEF Comes
    <3>. QED
      BY <1>3, <3>1, DocumentFields
  <2>. QED
    BY <2>1, <2>2, <2>3, <2>4, <2>5, <2>6 DEF SightStep
<1>. QED
  BY <1>2, <1>3 DEF Formatting

LEMMA ViewStep ==
    ASSUME Inv, SteadyInv, Plain, ViewInv, [Next]_vars
    PROVE  ViewInv'
<1>1. CASE Next
  BY <1>1, SightSteps, ReadingKept, WritingKept, FetchingKept, BringingKept, FormattingKept
     DEF ViewInv
<1>2. CASE UNCHANGED vars
  <2>1. \A d : Sight(d)' = Sight(d)
    BY <1>2 DEF Sight, vars
  <2>. QED
    BY <1>2, <2>1 DEF ViewInv, Reading, Writing, Fetching, Bringing, Formatting, vars
<1>. QED
  BY <1>1, <1>2

LEMMA ViewInit ==
    ASSUME Init
    PROVE  ViewInv
<1>1. /\ editing = joined /\ joined \subseteq Clients
      /\ view = [r \in Replicas |-> << >>]
      /\ up = [c \in Clients |-> << >>] /\ down = [c \in Clients |-> << >>]
  BY DEF Init
<1>2. ASSUME NEW d \in editing
      PROVE  /\ ToSet(up[d]) = {} /\ ToSet(down[d]) = {} /\ Sight(d) = << >>
             /\ view[Server] = << >>
  BY <1>1, <1>2, EmptyFacts, Constants DEF Sight
<1>3. \A s, f : ~Shows(<< >>, s, f)
  BY EmptyFacts DEF Shows
<1>. QED
  BY <1>2, <1>3 DEF ViewInv, Reading, Writing, Fetching, Bringing, Formatting

(* What is shown at each end agrees with what is coming from it, in every   *)
(* reachable state of a session with one worker, one user at most who       *)
(* changes formats and nobody who types over a selection.                   *)
THEOREM ViewInvariance == Plain => (Spec => []ViewInv)
<1>. SUFFICES ASSUME Plain PROVE Spec => []ViewInv
  OBVIOUS
<1>1. Init => ViewInv
  BY ViewInit
<1>2. Inv /\ SteadyInv /\ ViewInv /\ [Next]_vars => ViewInv'
  BY ViewStep
<1>. QED
  BY <1>1, <1>2, Invariance, SteadyInvariance, PTL DEF Spec

(* When nothing is under way all the users see the server's characters and  *)
(* formats, while others type, erase, join and one of them changes formats. *)
(* With two users who change formats, or two workers, it is not so          *)
(* (EditFormats.cfg, EditFormatsOvertaken.cfg), nor when a selected         *)
(* character is typed over (EditReplace.cfg).                               *)
THEOREM FormatsAgree ==
    NWorkers = 1 /\ Replacing = FALSE /\ (\A c, d \in Formatters : c = d)
        => (Spec => []ViewsCoherent)
<1>. SUFFICES ASSUME Plain PROVE Spec => []ViewsCoherent
  BY DEF Plain
<1>1. Inv /\ SteadyInv /\ ViewInv /\ Coherent => ViewsCoherent
  <2>. SUFFICES ASSUME Inv, SteadyInv, ViewInv, Coherent, Quiescent, NEW c \in joined
                PROVE  view[c] = view[Server]
    BY DEF ViewsCoherent
  <2>. DEFINE t == editor[Server].text
              u == view[c]
              v == view[Server]
  <2>1. /\ c \in Clients /\ c \in editing /\ Sight(c) = u
        /\ c \in Replicas /\ Server \in Replicas
    BY Constants DEF Inv, Types, Sight
  <2>2. up[c] = << >> /\ down[c] = << >> /\ editor[c].text = t
    BY <2>1 DEF Quiescent, Coherent
  <2>3. Faithful(u, t) /\ Faithful(v, t)
    <3>1. Faithful(view[c], editor[c].text) /\ Faithful(view[Server], editor[Server].text)
      BY <2>1, PlainFacts
    <3>. QED
      BY <2>2, <3>1
  <2>4. \A s \in Symbol, f, g \in Formats : Shows(u, s, g) /\ Shows(v, s, f) => f = g
    BY <2>1, <2>2, EmptyWill DEF ViewInv, Reading, Writing
  <2>. HIDE DEF t, u, v
  <2>5. ASSUME NEW i \in 1 .. Len(u) PROVE u[i] = v[i]
    <3>1. /\ i \in 1 .. Len(v) /\ u[i].of = t[i] /\ v[i].of = t[i]
          /\ u[i] = Char(t[i], u[i].format) /\ v[i] = Char(t[i], v[i].format)
      BY <2>3 DEF Faithful
    <3>2. Shows(u, t[i], u[i].format) /\ Shows(v, t[i], v[i].format)
      BY <2>3, <3>1 DEF Faithful, Shows
    <3>3. t[i] \in Symbol /\ u[i].format \in Formats /\ v[i].format \in Formats
      BY <2>3, <3>2 DEF Faithful
    <3>4. u[i].format = v[i].format
      BY <2>4, <3>2, <3>3
    <3>. QED
      BY <3>1, <3>4
  <2>6. u \in Seq(Character) /\ v \in Seq(Character) /\ Len(u) = Len(v)
    BY <2>3 DEF Faithful
  <2>7. u = v
    BY <2>5, <2>6
  <2>. QED
    BY <2>7 DEF u, v
<1>2. Spec => []Coherent
  BY Coherence DEF Plain
<1>. QED
  BY <1>1, <1>2, ViewInvariance, Invariance, SteadyInvariance, PTL

-----------------------------------------------------------------------------
(* What is known of the symbols issued, if everybody is there from the      *)
(* start: nobody speaks of others, and each is with the server or on its    *)
(* way to it, and then with a client or on its way to that.                 *)
Issued ==
    /\ \A r \in Replicas : ToSet(editor[r].text) \cup ToSet(editor[r].buf) \subseteq issued
    /\ \A m \in Message : Flying(m) => m.symbol \in issued
    /\ \A c \in Clients : \A m \in ToSet(up[c]) : m \in Message => m.symbol \in issued

Sent == \A s \in issued : Received(editor[Server], s) \/ Sending(s.site, s)

Told ==
    \A d \in Clients, s \in issued : s.site # d /\ Received(editor[Server], s) =>
        Received(editor[d], s) \/ Coming(s, d)

LearnInv == Issued /\ Sent /\ Told

(* The steps that change what is shown or known, if nobody joins. *)
LEMMA SettledSteps ==
    ASSUME Joiners = {}, Inv, Present, Step
    PROVE  \/ \E c \in Clients : \E s, e : Typed(c, s, e) \/ Deleted(c, s, e)
           \/ \E c \in Clients : \E m, e : Heard(c, m, e)
           \/ \E w \in Workers, c \in Clients : \E m, e : Served(w, c, m, e)
           \/ editor' = editor /\ issued' = issued
<1>1. \A c \in Clients : c \in joined /\ c \in editing
  BY DEF Present, Inv, Types
<1>2. editor \in [Replicas -> Editor] /\ Clients \subseteq Replicas
  BY Constants DEF Inv, Types
<1>3. ASSUME NEW c \in Clients, LocalStep(c)
      PROVE  \/ \E s, e : Typed(c, s, e) \/ Deleted(c, s, e)
             \/ editor' = editor /\ issued' = issued
  <2>1. ASSUME NEW s, NEW f, Marked(c, s, f) PROVE editor' = editor /\ issued' = issued
    BY <1>2, <2>1 DEF Marked, Edit
  <2>2. ASSUME Overtyped(c) PROVE editor' = editor /\ issued' = issued
    BY <1>2, <2>2 DEF Overtyped, Edit
  <2>3. ~RequestOpen(c)
    BY <1>1 DEF RequestOpen
  <2>. QED
    BY <1>3, <2>1, <2>2, <2>3 DEF LocalStep
<1>4. ASSUME NEW c \in Clients, RemoteStep(c) PROVE \E m, e : Heard(c, m, e)
  <2>1. ~\E m, e : Entered(c, m, e)
    BY <1>1 DEF Entered
  <2>. QED
    BY <1>4, <2>1 DEF RemoteStep
<1>5. ASSUME NEW w \in Workers, WorkerStep(w)
      PROVE  \/ \E c \in Clients : \E m, e : Served(w, c, m, e)
             \/ editor' = editor /\ issued' = issued
  <2>1. ~\E c \in Clients : \E m : Admitted(w, c, m)
    BY <1>1 DEF Admitted
  <2>. QED
    BY <1>5, <2>1 DEF WorkerStep, PostNext, Dispatch
<1>. QED
  BY <1>3, <1>4, <1>5 DEF Step

(* What each replica and the set of issued symbols become. *)
LEMMA TypedFacts ==
    ASSUME Inv, Issued, NEW c \in Clients, NEW s, NEW e, Typed(c, s, e)
    PROVE  /\ c \in Replicas /\ Sound(editor[c]) /\ Sound(e)
           /\ editor' = [editor EXCEPT ![c] = e] /\ issued' = issued \cup {s}
           /\ s \in Symbol /\ s \notin issued
           /\ \A r \in Replicas : ~Received(editor[r], s)
           /\ \A x \in issued : Received(e, x) <=> Received(editor[c], x)
           /\ Received(e, s)
<1>1. /\ editor' = [editor EXCEPT ![c] = e] /\ issued' = issued \cup {s}
      /\ s \in Symbol /\ s.site = c /\ s.n = counter[c] /\ Sound(e)
      /\ e.vv = UpdateVersionVector(editor[c].vv, s)
  BY DEF Typed, Edit
<1>2. /\ c \in Replicas /\ Sound(editor[c]) /\ editor[c] \in Editor /\ Clients = Sites
      /\ issued \subseteq Symbol /\ counter[c] \in Nat /\ c \in Sites
  BY Constants DEF Inv, Replicated, Types, Sound
<1>3. /\ \A r \in Replicas : editor[r].vv[c] < counter[c] /\ editor[r].vv[c] \in Int
      /\ \A x \in issued : x.n < counter[x.site]
      /\ editor[c].vv[c] = counter[c] - 1
  BY SymbolsKnown DEF Inv, Counted
<1>4. \A r \in Replicas : ~Received(editor[r], s)
  BY <1>1, <1>2, <1>3 DEF Received
<1>5. s \notin issued
  BY <1>1, <1>2, <1>3
<1>6. ASSUME NEW x \in issued PROVE Received(e, x) <=> Received(editor[c], x)
  <2>1. x \in Symbol /\ x.n \in Nat /\ x.site \in Sites
    BY <1>2, SymbolFields
  <2>2. Received(editor[c], x) => Received(e, x)
    BY <1>1, <1>2, <2>1, ReceivedMore
  <2>3. CASE x.site = c
    BY <1>2, <1>3, <2>1, <2>2, <2>3 DEF Received
  <2>4. CASE x.site # c
    BY <1>1, <1>2, <2>1, <2>2, <2>4, ReceivedMore
  <2>. QED
    BY <2>3, <2>4
<1>7. Received(e, s)
  BY <1>1, <1>2, ReceivedMore
<1>. QED
  BY <1>1, <1>2, <1>4, <1>5, <1>6, <1>7

(* A replica's text and buffer stay within what has been issued.            *)
LEMMA WithinIssued ==
    ASSUME Joiners = {}, Inv, Present, Issued, Step, NEW r \in Replicas
    PROVE  issued \subseteq issued'
           /\ ToSet(editor'[r].text) \cup ToSet(editor'[r].buf) \subseteq issued'
<1>1. /\ editor \in [Replicas -> Editor]
      /\ ToSet(editor[r].text) \subseteq issued /\ ToSet(editor[r].buf) \subseteq issued
  BY DEF Inv, Types, Issued
<1>2. ASSUME NEW c \in Clients, NEW s, NEW e, Typed(c, s, e) \/ Deleted(c, s, e)
      PROVE  issued \subseteq issued'
             /\ ToSet(editor'[r].text) \subseteq issued' /\ ToSet(editor'[r].buf) \subseteq issued'
  <2>1. /\ editor' = [editor EXCEPT ![c] = e] /\ issued \subseteq issued'
        /\ e.buf = editor[c].buf
        /\ ToSet(e.text) \subseteq ToSet(editor[c].text) \cup {s}
        /\ s \in issued' \/ ToSet(e.text) \subseteq ToSet(editor[c].text)
    BY <1>2 DEF Typed, Deleted, Edit
  <2>. QED
    BY <1>1, <2>1
<1>3. ASSUME NEW q \in Replicas, NEW m \in Message, NEW e, m.symbol \in issued, issued' = issued,
             editor'[r] = IF r = q THEN e ELSE editor[r], Handled(editor[q], m, e)
      PROVE  issued \subseteq issued'
             /\ ToSet(editor'[r].text) \subseteq issued' /\ ToSet(editor'[r].buf) \subseteq issued'
  <2>1. m.type \in {"insert", "erase", "format"}
    BY <1>3, MessageFields
  <2>2. CASE m.type = "insert"
    BY <1>1, <1>3, <2>2 DEF Handled
  <2>3. CASE m.type = "erase"
    BY <1>1, <1>3, <2>3 DEF Handled
  <2>4. CASE m.type = "format"
    BY <1>1, <1>3, <2>4 DEF Handled
  <2>. QED
    BY <2>1, <2>2, <2>3, <2>4
<1>4. ASSUME NEW c \in Clients, NEW m, NEW e, Heard(c, m, e)
      PROVE  issued \subseteq issued'
             /\ ToSet(editor'[r].text) \subseteq issued' /\ ToSet(editor'[r].buf) \subseteq issued'
  <2>1. /\ c \in Replicas /\ Handled(editor[c], m, e) /\ m \in Message /\ Flying(m)
        /\ editor'[r] = IF r = c THEN e ELSE editor[r]
    BY <1>4, HeardFacts, Constants
  <2>2. m.symbol \in issued /\ issued' = issued
    BY <1>4, <2>1 DEF Heard, Issued
  <2>. QED
    BY <1>3, <2>1, <2>2
<1>5. ASSUME NEW w \in Workers, NEW c \in Clients, NEW m, NEW e, Served(w, c, m, e)
      PROVE  issued \subseteq issued'
             /\ ToSet(editor'[r].text) \subseteq issued' /\ ToSet(editor'[r].buf) \subseteq issued'
  <2>1. m \in Message /\ m \in ToSet(up[c]) /\ Server \in Replicas
    BY <1>5, ServedFacts, Constants
  <2>2. Handled(editor[Server], m, e) /\ editor' = [editor EXCEPT ![Server] = e]
    BY <1>5 DEF Served, AtReplica
  <2>3. m.symbol \in issued /\ issued' = issued
    BY <1>5, <2>1 DEF Served, Issued
  <2>. QED
    BY <1>1, <1>3, <2>1, <2>2, <2>3
<1>6. CASE editor' = editor /\ issued' = issued
  BY <1>1, <1>6
<1>. QED
  BY <1>2, <1>4, <1>5, <1>6, SettledSteps

LEMMA IssuedKept ==
    ASSUME Joiners = {}, Inv, Present, Issued, Step
    PROVE  Issued'
<1>1. /\ \A r \in Replicas : ToSet(editor[r].text) \cup ToSet(editor[r].buf) \subseteq issued
      /\ \A r \in Replicas : ToSet(editor'[r].text) \cup ToSet(editor'[r].buf) \subseteq issued'
      /\ issued \subseteq issued' /\ Clients \subseteq Replicas
  BY WithinIssued, Constants DEF Issued
<1>2. ASSUME NEW c \in Clients, NEW m \in Message, m \in ToSet(up'[c]) PROVE m.symbol \in issued'
  <2>1. CASE m \in ToSet(up[c])
    BY <1>1, <1>2, <2>1 DEF Issued
  <2>2. ASSUME NEW s, NEW e, Typed(c, s, e), m = Insert(s, DefaultFormat)
        PROVE  m.symbol \in issued'
    BY <2>2 DEF Typed, Insert
  <2>3. ASSUME NEW s, NEW e, Deleted(c, s, e), m = Erase(s)
        PROVE  m.symbol \in issued'
    <3>1. s \in ToSet(editor[c].text) /\ m.symbol = s
      BY <2>3 DEF Deleted, Erase
    <3>. QED
      BY <1>1, <3>1
  <2>4. ASSUME NEW s, NEW f, Marked(c, s, f), m = Format(s, f)
        PROVE  m.symbol \in issued'
    <3>1. s \in ToSet(editor[c].text) /\ m.symbol = s
      BY <2>4 DEF Marked, Format
    <3>. QED
      BY <1>1, <3>1
  <2>. QED
    BY <1>2, <2>1, <2>2, <2>3, <2>4, SentNow
<1>3. ASSUME NEW m \in Message, Flying(m)' PROVE m.symbol \in issued'
  <2>1. CASE Flying(m)
    BY <1>1, <2>1 DEF Issued
  <2>2. ASSUME NEW w \in Workers, NEW c \in Clients, NEW e, Served(w, c, m, e)
        PROVE  m.symbol \in issued'
    <3>1. m \in ToSet(up[c])
      BY <2>2, ServedFacts
    <3>. QED
      BY <1>1, <3>1 DEF Issued
  <2>. QED
    BY <1>3, <2>1, <2>2, FlyingCases
<1>. QED
  BY <1>1, <1>2, <1>3 DEF Issued

LEMMA SentKept ==
    ASSUME Joiners = {}, Inv, Present, Issued, Sent, Step
    PROVE  Sent'
<1>1. SUFFICES ASSUME NEW s \in issued'
               PROVE  Received(editor'[Server], s) \/ Sending(s.site, s)'
  BY DEF Sent, Received
<1>2. CASE s \in issued
  <2>1. s \in Symbol /\ s.site \in Clients
    BY <1>2, SymbolFields, Constants DEF Inv, Types
  <2>2. CASE Received(editor[Server], s)
    <3>1. Received(editor[Server], s)'
      BY <2>1, <2>2, ServerLearns
    <3>. QED
      BY <3>1 DEF Received
  <2>3. CASE Sending(s.site, s)
    <3>1. Sending(s.site, s)' \/ Received(editor[Server], s)'
      BY <2>1, <2>3, SendingFacts
    <3>. QED
      BY <3>1 DEF Received
  <2>. QED
    BY <1>2, <2>2, <2>3 DEF Sent
<1>3. CASE s \notin issued
  <2>1. PICK c \in Clients : \E z, e : Typed(c, z, e)
    BY <1>1, <1>3, SettledSteps DEF Deleted, Heard, Served
  <2>2. PICK z : \E e : Typed(c, z, e)
    BY <2>1
  <2>3. /\ s.site = c /\ s \in Symbol
        /\ up' = [up EXCEPT ![c] = Append(@, Insert(s, DefaultFormat))]
    BY <1>1, <1>3, <2>2 DEF Typed
  <2>4. PICK m : m = Insert(s, DefaultFormat)
    OBVIOUS
  <2>5. m \in Message \cup {Open} /\ DefaultFormat \in Formats
    BY <2>3, <2>4, MessagesMade, Constants
  <2>6. up[c] \in Seq(Message \cup {Open}) /\ up \in [Clients -> Seq(Message \cup {Open})]
    BY TypesOf DEF Inv, Types
  <2>7. up'[c] = Append(up[c], m)
    BY <2>3, <2>4, <2>6
  <2>8. m \in ToSet(up'[c])
    BY <2>5, <2>6, <2>7, AppendFacts
  <2>. QED
    BY <2>3, <2>4, <2>5, <2>8 DEF Sending
<1>. QED
  BY <1>2, <1>3

(* The server learns of one symbol at a time: of the one it is told.        *)
LEMMA ServedOne ==
    ASSUME Inv, Sent, NEW w \in Workers, NEW c \in Clients, NEW m, NEW e, Served(w, c, m, e),
           NEW x \in issued, Received(e, x), ~Received(editor[Server], x)
    PROVE  m.type = "insert" /\ x = m.symbol
<1>1. x \in Symbol /\ x.n \in Nat
  BY SymbolFields DEF Inv, Types
<1>2. /\ m.type = "insert" /\ x.site = c /\ x.n <= m.symbol.n /\ m.symbol \in Symbol
      /\ 1 \in DOMAIN up[c] /\ up[c][1] = m
  BY <1>1, ServedFacts
<1>3. m.symbol.n \in Nat
  BY <1>2, SymbolFields
<1>4. Sending(c, x)
  BY <1>2 DEF Sent
<1>5. PICK f \in Formats : Insert(x, f) \in ToSet(up[c])
  BY <1>4 DEF Sending
<1>6. PICK y : y = Insert(x, f)
  OBVIOUS
<1>7. y.type = "insert" /\ y.symbol = x
  BY <1>6 DEF Insert
<1>8. up[c] \in Seq(Message \cup {Open})
  BY TypesOf DEF Inv
<1>9. PICK i \in 1 .. Len(up[c]) : up[c][i] = y
  BY <1>5, <1>6, <1>8, SeqFacts
<1>10. i \in DOMAIN up[c]
  BY <1>8, <1>9, SeqFacts
<1>11. CASE i = 1
  BY <1>2, <1>7, <1>9, <1>11
<1>12. CASE i # 1
  <2>1. 1 < i
    BY <1>12
  <2>2. RequestsOf(c, up[c], counter[c], editor[Server])
    BY DEF Inv, Requests
  <2>3. m.symbol.n < x.n
    BY <1>2, <1>7, <1>9, <1>10, <2>1, <2>2 DEF RequestsOf
  <2>. QED
    BY <1>1, <1>2, <1>3, <2>3
<1>. QED
  BY <1>11, <1>12

LEMMA ToldKept ==
    ASSUME Joiners = {}, Inv, Present, Fresh, Issued, Sent, Told, Step
    PROVE  Told'
<1>1. SUFFICES ASSUME NEW d \in Clients, NEW s \in issued', s.site # d, Received(editor'[Server], s)
               PROVE  Received(editor'[d], s) \/ Coming(s, d)'
  BY DEF Told, Received
<1>2. /\ d \in joined /\ d \in editing /\ d \in Steady /\ d \in Replicas /\ Server \in Replicas
      /\ editor[d] \in Editor /\ Server # d /\ Server \notin Clients
  BY TypesOf, Constants DEF Present, Inv, Types, Steady
<1>3. editor \in [Replicas -> Editor]
  BY DEF Inv, Types
<1>4. CASE s \in issued /\ Received(editor[Server], s)
  <2>1. s \in Symbol
    BY <1>4 DEF Inv, Types
  <2>2. CASE Received(editor[d], s)
    BY <1>2, <2>1, <2>2, NotShownAgain
  <2>3. CASE Coming(s, d)
    <3>1. PICK f \in Formats : UnderWay(Insert(s, f), d)
      BY <2>3 DEF Coming
    <3>2. PICK x : x = Insert(s, f)
      OBVIOUS
    <3>3. x \in Message /\ x.type = "insert" /\ x.symbol = s
      BY <2>1, <3>2, MessagesMade
    <3>4. ASSUME NEW e, Heard(d, x, e) PROVE Received(editor'[d], s)
      <4>1. editor'[d] = e /\ Handled(editor[d], x, e)
        BY <1>2, <3>4, HeardFacts
      <4>2. e.vv = UpdateVersionVector(editor[d].vv, s)
        BY <3>3, <4>1 DEF Handled
      <4>. QED
        BY <1>2, <2>1, <4>1, <4>2, ReceivedMore
    <3>5. UnderWay(x, d)' \/ \E e : Heard(d, x, e)
      BY <1>2, <3>1, <3>2, <3>3, FlyingCases
    <3>. QED
      BY <3>2, <3>4, <3>5 DEF Coming
  <2>. QED
    BY <1>1, <1>4, <2>2, <2>3 DEF Told
<1>5. ASSUME s \in issued, ~Received(editor[Server], s)
      PROVE  Coming(s, d)'
  <2>1. editor'[Server] # editor[Server]
    BY <1>1, <1>5
  <2>2. \A c \in Clients : \A z, e : ~Typed(c, z, e) /\ ~Deleted(c, z, e)
    BY <1>2, <1>3, <2>1 DEF Typed, Deleted, Edit
  <2>3. \A c \in Clients : \A m, e : ~Heard(c, m, e)
    BY <2>1, HeardFacts
  <2>4. PICK w \in Workers, c \in Clients : \E m, e : Served(w, c, m, e)
    BY <2>1, <2>2, <2>3, SettledSteps
  <2>5. PICK m : \E e : Served(w, c, m, e)
    BY <2>4
  <2>6. PICK e : Served(w, c, m, e)
    BY <2>5
  <2>7. editor'[Server] = e /\ m \in Message
    BY <2>6, ServedFacts
  <2>8. m.type = "insert" /\ s = m.symbol
    BY <1>1, <1>5, <2>6, <2>7, ServedOne
  <2>9. s.site = c
    BY <2>6, <2>8, ServedFacts
  <2>10. UnderWay(m, d)'
    BY <1>1, <1>2, <2>6, <2>7, <2>9, ServedTransport
  <2>11. m = Insert(s, m.format) /\ m.format \in Formats
    BY <2>7, <2>8, MessageFields
  <2>. QED
    BY <2>10, <2>11 DEF Coming
<1>6. CASE s \notin issued
  <2>1. PICK c \in Clients : \E z, e : Typed(c, z, e)
    BY <1>1, <1>6, SettledSteps DEF Deleted, Heard, Served
  <2>2. PICK z : \E e : Typed(c, z, e)
    BY <2>1
  <2>3. PICK e : Typed(c, z, e)
    BY <2>2
  <2>4. /\ s = z /\ editor' = [editor EXCEPT ![c] = e] /\ ~Received(editor[Server], s)
    BY <1>1, <1>2, <1>6, <2>3, TypedFacts
  <2>. QED
    BY <1>1, <1>2, <1>3, <2>4
<1>. QED
  BY <1>4, <1>5, <1>6

(* A client learns of one symbol at a time: of the one it is told.          *)
LEMMA HeardOne ==
    ASSUME Joiners = {}, Inv, InOrder, Fresh, Told, NEW d \in Clients, NEW m, NEW e, Heard(d, m, e),
           NEW x \in issued, Received(e, x), ~Received(editor[d], x)
    PROVE  m.type = "insert" /\ x = m.symbol
<1>1. /\ x \in Symbol /\ x.n \in Nat /\ x.site \in Sites /\ Clients = Sites /\ d \in Steady
      /\ editor[d] \in Editor /\ d \in Replicas /\ Server \in Replicas
  BY SymbolFields, TypesOf, Constants DEF Inv, Types, Steady
<1>2. Handled(editor[d], m, e) /\ m \in Message /\ m \in ToSet(down[d]) /\ Flying(m)
  BY HeardFacts
<1>3. m.type = "insert"
  <2>1. m.type \in {"insert", "erase", "format"}
    BY <1>2, MessageFields
  <2>. QED
    BY <1>2, <2>1 DEF Handled, Received
<1>4. PICK s : s = m.symbol
  OBVIOUS
<1>5. s \in Symbol /\ s.n \in Nat
  BY <1>2, <1>4, MessageFields, SymbolFields
<1>6. e.vv = UpdateVersionVector(editor[d].vv, s)
  BY <1>2, <1>3, <1>4 DEF Handled
<1>7. x.site = s.site /\ x.n <= s.n
  BY <1>1, <1>5, <1>6, ReceivedMore
<1>8. s.site # d /\ Received(editor[Server], s)
  BY <1>1, <1>2, <1>3, <1>4, HeardIsFresh DEF Inv, Relayed
<1>9. editor[Server].vv[s.site] \in Int
  BY <1>1, <1>7, SymbolsKnown
<1>10. Received(editor[Server], x)
  BY <1>1, <1>5, <1>7, <1>8, <1>9 DEF Received
<1>11. Coming(x, d)
  BY <1>7, <1>8, <1>10 DEF Told
<1>12. PICK f \in Formats : UnderWay(Insert(x, f), d)
  BY <1>11 DEF Coming
<1>13. PICK y : y = Insert(x, f)
  OBVIOUS
<1>14. y \in Message /\ y.type = "insert" /\ y.symbol = x
  BY <1>1, <1>13, MessagesMade
<1>15. UnderWay(y, d)' \/ y = m
  <2>1. /\ down[d] # << >> /\ Head(down[d]) = m /\ down' = [down EXCEPT ![d] = Tail(@)]
        /\ UNCHANGED <<queue, posting>>
    BY DEF Heard
  <2>. QED
    BY <1>12, <1>13, <1>14, <2>1, TakenTransport
<1>16. ~UnderWay(y, d)'
  <2>1. SUFFICES ASSUME UnderWay(y, d)' PROVE FALSE
    OBVIOUS
  <2>2. Ahead(m, y, d)
    BY <1>14, <2>1, HeardIsAhead
  <2>3. Alike(m, y)
    BY <1>3, <1>4, <1>7, <1>14 DEF Alike
  <2>4. s.n < x.n
    BY <1>2, <1>4, <1>14, <2>2, <2>3 DEF InOrder
  <2>. QED
    BY <1>1, <1>5, <1>7, <2>4
<1>. QED
  BY <1>3, <1>14, <1>15, <1>16

LEMMA LearnStep ==
    ASSUME Joiners = {}, Inv, SteadyInv, LearnInv, [Next]_vars
    PROVE  LearnInv'
<1>1. ASSUME Next PROVE LearnInv'
  BY <1>1, NextIsStep, IssuedKept, SentKept, ToldKept DEF LearnInv, SteadyInv
<1>2. ASSUME UNCHANGED vars PROVE LearnInv'
  BY <1>2 DEF LearnInv, Issued, Sent, Told, Flying, Sending, Coming, UnderWay, Received, vars
<1>. QED
  BY <1>1, <1>2

LEMMA LearnInit ==
    ASSUME Init
    PROVE  LearnInv
<1>1. /\ issued = {} /\ Clients \subseteq Replicas
      /\ \A c \in Clients : ToSet(up[c]) = {} /\ ToSet(down[c]) = {}
      /\ \A w \in Workers : ToSet(queue[w]) = {} /\ ToSet(posting[w]) = {}
      /\ \A r \in Replicas : editor[r] = EditorOf(<< >>)
  BY EmptyFacts, Constants DEF Init
<1>2. ASSUME NEW r \in Replicas PROVE ToSet(editor[r].text) = {} /\ ToSet(editor[r].buf) = {}
  <2>1. PICK t : t = << >>
    OBVIOUS
  <2>2. Ordered(t)
    BY <2>1, EmptyFacts DEF Ordered
  <2>3. editor[r].text = << >> /\ editor[r].buf = << >>
    BY <1>1, <2>1, <2>2, EditorOfText
  <2>. QED
    BY <2>3, EmptyFacts
<1>3. \A m : ~Flying(m)
  BY <1>1 DEF Flying
<1>. QED
  BY <1>1, <1>2, <1>3 DEF LearnInv, Issued, Sent, Told

(* Every symbol issued is with each replica or still on its way to it, if   *)
(* nobody joins: sockets, queues and posts lose and invent nothing.         *)
THEOREM LearnInvariance == Joiners = {} => (Spec => []LearnInv)
<1>. SUFFICES ASSUME Joiners = {} PROVE Spec => []LearnInv
  OBVIOUS
<1>1. Init => LearnInv
  BY LearnInit
<1>2. Inv /\ SteadyInv /\ LearnInv /\ [Next]_vars => LearnInv'
  BY LearnStep
<1>. QED
  BY <1>1, <1>2, Invariance, SteadyInvariance, PTL DEF Spec

-----------------------------------------------------------------------------
(* What an editor knows of the symbols in iss: the state of a replica of    *)
(* ReplicatedText.                                                          *)
InsertsIn(iss, ed) == {s \in iss : Received(ed, s)}
ErasesIn(iss, ed) == ToSet(ed.buf) \cup (InsertsIn(iss, ed) \ ToSet(ed.text))

LEMMA MappedNow ==
    ASSUME NEW r \in Replicas
    PROVE  /\ Inserted[r] = InsertsIn(issued, editor[r]) /\ Erased[r] = ErasesIn(issued, editor[r])
           /\ Inserted'[r] = InsertsIn(issued', editor'[r])
           /\ Erased'[r] = ErasesIn(issued', editor'[r])
  BY DEF Inserted, Erased, InsertsIn, ErasesIn, Received

(* A sound editor without repetitions shows what it knows. *)
LEMMA ShowsKnown ==
    ASSUME NEW iss, NEW ed, Sound(ed), Ascending(ed.text), ToSet(ed.text) \subseteq iss
    PROVE  Abstract!Shows(ed.text, InsertsIn(iss, ed), ErasesIn(iss, ed))
<1>. DEFINE t == ed.text
            ins == InsertsIn(iss, ed)
            del == ErasesIn(iss, ed)
<1>1. ToSet(t) \subseteq ins /\ ToSet(ed.buf) \cap ins = {}
  BY DEF Sound, InsertsIn
<1>2. ins \ del = ToSet(t)
  BY <1>1 DEF ErasesIn
<1>3. t \in Seq(Symbol) /\ \A i, j \in 1 .. Len(t) : i < j => SymbolLess(t[i], t[j])
  BY DEF Ascending
<1>. HIDE DEF t, ins, del
<1>4. /\ Len(t) \in Nat /\ DOMAIN t = 1 .. Len(t)
      /\ \A i \in 1 .. Len(t) : t[i] \in ToSet(t)
  BY <1>3, SeqFacts
<1>5. t \in Seq(ToSet(t))
  <2>1. t \in [1 .. Len(t) -> ToSet(t)]
    BY <1>3, <1>4
  <2>. QED
    BY <2>1, <1>4
<1>6. Abstract!ToSet(t) = ToSet(t)
  BY DEF Abstract!ToSet, ToSet
<1>7. \A i, j \in DOMAIN t : i < j => Abstract!SymbolLess(t[i], t[j])
  BY <1>3, <1>4 DEF Abstract!SymbolLess, SymbolLess
<1>8. Abstract!Shows(t, ins, del)
  BY <1>2, <1>5, <1>6, <1>7 DEF Abstract!Shows
<1>. QED
  BY <1>8 DEF t, ins, del

(* A step of one replica, as ReplicatedText sees it. *)
LEMMA KnowsNow ==
    ASSUME NEW r \in Replicas, NEW e, editor \in [Replicas -> Editor],
           editor' = [editor EXCEPT ![r] = e],
           Sound(e), Ascending(e.text), ToSet(e.text) \subseteq issued',
           \A q \in Replicas : InsertsIn(issued', editor[q]) = InsertsIn(issued, editor[q]),
           NEW ins, NEW del, InsertsIn(issued', e) = ins, ErasesIn(issued', e) = del
    PROVE  Abstract!Knows(r, ins, del)
<1>1. /\ editor'[r] = e
      /\ \A q \in Replicas : q # r => editor'[q] = editor[q]
      /\ \A q \in Replicas : editor'[q] = IF q = r THEN e ELSE editor[q]
  OBVIOUS
<1>2. Inserted' = [Inserted EXCEPT ![r] = ins]
  <2>1. /\ Inserted' = [q \in Replicas |-> InsertsIn(issued', editor'[q])]
        /\ Inserted = [q \in Replicas |-> InsertsIn(issued, editor[q])]
    BY DEF Inserted, InsertsIn, Received
  <2>. QED
    BY <1>1, <2>1
<1>3. Erased' = [Erased EXCEPT ![r] = del]
  <2>1. /\ Erased' = [q \in Replicas |-> ErasesIn(issued', editor'[q])]
        /\ Erased = [q \in Replicas |-> ErasesIn(issued, editor[q])]
    BY DEF Erased, ErasesIn, Inserted, InsertsIn, Received
  <2>2. \A q \in Replicas : ErasesIn(issued', editor[q]) = ErasesIn(issued, editor[q])
    BY DEF ErasesIn
  <2>. QED
    BY <1>1, <2>1, <2>2
<1>. DEFINE texts == [q \in Replicas |-> editor[q].text]
<1>4. texts' = [texts EXCEPT ![r] = texts'[r]]
  BY <1>1
<1>5. texts'[r] = e.text
  BY <1>1
<1>6. Abstract!Shows(e.text, ins, del)
  BY ShowsKnown
<1>. HIDE DEF texts
<1>7. Abstract!Shows(texts'[r], ins, del)
  BY <1>5, <1>6
<1>. QED
  BY <1>2, <1>3, <1>4, <1>7 DEF Abstract!Knows, texts

(* A step after which no replica knows or shows anything else. *)
LEMMA NothingLearnt ==
    ASSUME NEW r \in Replicas, NEW e, editor \in [Replicas -> Editor],
           editor' = [editor EXCEPT ![r] = e] \/ editor' = editor, issued' = issued,
           e.text = editor[r].text, e.vv = editor[r].vv, ToSet(e.buf) = ToSet(editor[r].buf)
    PROVE  UNCHANGED Abstract!vars
<1>1. \A q \in Replicas : /\ editor'[q].text = editor[q].text
                          /\ InsertsIn(issued', editor'[q]) = InsertsIn(issued, editor[q])
                          /\ ErasesIn(issued', editor'[q]) = ErasesIn(issued, editor[q])
  <2>1. SUFFICES ASSUME NEW q \in Replicas
                 PROVE  /\ editor'[q].text = editor[q].text
                        /\ InsertsIn(issued, editor'[q]) = InsertsIn(issued, editor[q])
                        /\ ErasesIn(issued, editor'[q]) = ErasesIn(issued, editor[q])
    OBVIOUS
  <2>2. /\ editor'[q].text = editor[q].text /\ editor'[q].vv = editor[q].vv
        /\ ToSet(editor'[q].buf) = ToSet(editor[q].buf)
    OBVIOUS
  <2>. QED
    BY <2>2 DEF InsertsIn, ErasesIn, Received
<1>2. Inserted' = Inserted
  BY <1>1 DEF Inserted, InsertsIn, Received
<1>3. Erased' = Erased
  BY <1>1 DEF Erased, ErasesIn, Inserted, InsertsIn, Received
<1>. QED
  BY <1>1, <1>2, <1>3 DEF Abstract!vars

-----------------------------------------------------------------------------
(* Each step of the session is a step of ReplicatedText.                    *)
LEMMA AllSettled ==
    ASSUME Joiners = {}, Inv, SteadyInv, LearnInv, NEW r \in Replicas
    PROVE  /\ Sound(editor[r]) /\ Ascending(editor[r].text)
           /\ ToSet(editor[r].text) \subseteq InsertsIn(issued, editor[r])
           /\ ToSet(editor[r].buf) \subseteq issued
           /\ ToSet(editor[r].buf) \cap InsertsIn(issued, editor[r]) = {}
           /\ editor \in [Replicas -> Editor] /\ issued \subseteq Symbol
           /\ Joiners = {} /\ Inv /\ Posted /\ InOrder /\ Present /\ Fresh /\ Distinct
           /\ Erasing /\ Issued /\ Sent /\ Told
<1>1. /\ Sound(editor[r]) /\ editor \in [Replicas -> Editor] /\ issued \subseteq Symbol
      /\ Posted /\ InOrder /\ Present /\ Fresh /\ Distinct /\ Erasing /\ Issued /\ Sent /\ Told
  BY DEF Inv, Replicated, Types, SteadyInv, LearnInv
<1>2. Ascending(editor[r].text)
  <2>1. CASE r = Server
    BY <2>1 DEF Inv, Replicated
  <2>2. CASE r # Server
    <3>1. r \in Steady
      BY <2>2 DEF Replicas, Steady
    <3>. QED
      BY <1>1, <3>1 DEF Distinct
  <2>. QED
    BY <2>1, <2>2
<1>3. ToSet(editor[r].text) \subseteq issued /\ ToSet(editor[r].buf) \subseteq issued
  BY <1>1 DEF Issued
<1>. QED
  BY <1>1, <1>2, <1>3 DEF InsertsIn, Sound

LEMMA TypedInserts ==
    ASSUME Joiners = {}, Inv, SteadyInv, LearnInv,
           NEW c \in Clients, NEW s, NEW e, Typed(c, s, e)
    PROVE  Abstract!Insert(c, s) /\ s \in Symbol
<1>1. /\ c \in Replicas /\ Sound(e)
      /\ editor' = [editor EXCEPT ![c] = e] /\ issued' = issued \cup {s}
      /\ s \in Symbol /\ s \notin issued
      /\ \A r \in Replicas : ~Received(editor[r], s)
      /\ \A x \in issued : Received(e, x) <=> Received(editor[c], x)
      /\ Received(e, s)
  BY TypedFacts DEF LearnInv
<1>2. /\ ToSet(e.text) = ToSet(editor[c].text) \cup {s} /\ e.buf = editor[c].buf
      /\ Ascending(editor[c].text) => Ascending(e.text)
  BY DEF Typed
<1>3. /\ Ascending(editor[c].text) /\ editor \in [Replicas -> Editor]
      /\ ToSet(editor[c].text) \subseteq InsertsIn(issued, editor[c])
  BY <1>1, AllSettled
<1>4. ToSet(e.text) \subseteq issued'
  BY <1>1, <1>2, <1>3 DEF InsertsIn
<1>5. \A q \in Replicas : InsertsIn(issued', editor[q]) = InsertsIn(issued, editor[q])
  BY <1>1 DEF InsertsIn
<1>6. InsertsIn(issued', e) = Inserted[c] \cup {s}
  BY <1>1, MappedNow DEF InsertsIn
<1>7. ErasesIn(issued', e) = Erased[c]
  <2>1. s \notin Inserted[c] /\ Inserted[c] = InsertsIn(issued, editor[c])
    BY <1>1, MappedNow DEF InsertsIn
  <2>2. Erased[c] = ErasesIn(issued, editor[c])
    BY <1>1, MappedNow
  <2>. QED
    BY <1>2, <1>6, <2>1, <2>2 DEF ErasesIn
<1>8. Abstract!Knows(c, Inserted[c] \cup {s}, Erased[c])
  BY <1>1, <1>2, <1>3, <1>4, <1>5, <1>6, <1>7, KnowsNow DEF Abstract!Knows
<1>. QED
  BY <1>1, <1>8 DEF Abstract!Insert

LEMMA DeletedErases ==
    ASSUME Joiners = {}, Inv, SteadyInv, LearnInv,
           NEW c \in Clients, NEW s, NEW e, Deleted(c, s, e)
    PROVE  Abstract!Erase(c, s) /\ s \in issued
<1>1. /\ c \in Replicas /\ Sound(e) /\ editor' = [editor EXCEPT ![c] = e] /\ issued' = issued
  BY Constants DEF Deleted, Edit
<1>2. /\ Ascending(editor[c].text) /\ editor \in [Replicas -> Editor]
      /\ ToSet(editor[c].text) \subseteq InsertsIn(issued, editor[c])
      /\ ToSet(editor[c].buf) \cap InsertsIn(issued, editor[c]) = {}
  BY <1>1, AllSettled
<1>3. /\ s \in ToSet(editor[c].text) /\ e.vv = editor[c].vv /\ e.buf = editor[c].buf
      /\ Ascending(e.text) /\ ToSet(e.text) = ToSet(editor[c].text) \ {s}
  BY <1>2 DEF Deleted
<1>4. InsertsIn(issued', e) = Inserted[c] /\ Inserted[c] = InsertsIn(issued, editor[c])
  BY <1>1, <1>3, MappedNow DEF InsertsIn, Received
<1>5. Erased[c] = ErasesIn(issued, editor[c])
  BY <1>1, MappedNow
<1>6. ErasesIn(issued', e) = Erased[c] \cup {s}
  BY <1>2, <1>3, <1>4, <1>5 DEF ErasesIn
<1>7. s \in Inserted[c] \ Erased[c] /\ s \in issued
  BY <1>2, <1>3, <1>4, <1>5 DEF ErasesIn, InsertsIn
<1>8. ToSet(e.text) \subseteq issued'
  BY <1>1, <1>2, <1>3 DEF InsertsIn
<1>9. \A q \in Replicas : InsertsIn(issued', editor[q]) = InsertsIn(issued, editor[q])
  BY <1>1
<1>10. Abstract!Knows(c, Inserted[c], Erased[c] \cup {s})
  BY <1>1, <1>2, <1>3, <1>4, <1>6, <1>8, <1>9, KnowsNow DEF Abstract!Knows
<1>. QED
  BY <1>1, <1>7, <1>10 DEF Abstract!Erase

(* A replica handles an insert of a symbol that it has not had, and learns  *)
(* of no other one.                                                         *)
LEMMA InsertLearnt ==
    ASSUME Joiners = {}, Inv, SteadyInv, LearnInv, NEW r \in Replicas, NEW m \in Message,
           m.type = "insert", NEW e, Handled(editor[r], m, e), m.symbol \in issued,
           ~Received(editor[r], m.symbol),
           \A x \in issued : Received(e, x) /\ ~Received(editor[r], x) => x = m.symbol,
           editor' = [editor EXCEPT ![r] = e], issued' = issued
    PROVE  Abstract!LearnInsert(r, m.symbol)
<1>1. /\ Sound(editor[r]) /\ Ascending(editor[r].text) /\ editor \in [Replicas -> Editor]
      /\ ToSet(editor[r].text) \subseteq InsertsIn(issued, editor[r])
      /\ ToSet(editor[r].buf) \subseteq issued
      /\ ToSet(editor[r].buf) \cap InsertsIn(issued, editor[r]) = {}
      /\ issued \subseteq Symbol
  BY AllSettled
<1>2. PICK s : s = m.symbol
  OBVIOUS
<1>3. /\ Sound(e) /\ e.vv = UpdateVersionVector(editor[r].vv, s)
      /\ \A x : x \in ToSet(e.buf) <=> x \in ToSet(editor[r].buf) /\ ~Received(e, x)
      /\ s \in ToSet(editor[r].buf) => e.text = editor[r].text
      /\ s \notin ToSet(editor[r].buf) => ToSet(e.text) = ToSet(editor[r].text) \cup {s}
      /\ Ascending(e.text)
  BY <1>1, <1>2 DEF Handled
<1>4. s \in Symbol /\ s \in issued
  BY <1>1, <1>2
<1>5. \A x \in Symbol : Received(editor[r], x) => Received(e, x)
  BY <1>1, <1>3, <1>4, ReceivedMore DEF Sound
<1>6. Received(e, s)
  BY <1>1, <1>3, <1>4, ReceivedMore DEF Sound
<1>7. /\ Inserted[r] = InsertsIn(issued, editor[r]) /\ Erased[r] = ErasesIn(issued, editor[r])
      /\ s \notin Inserted[r]
  BY <1>2, MappedNow DEF InsertsIn
<1>8. InsertsIn(issued', e) = Inserted[r] \cup {s}
  BY <1>1, <1>2, <1>4, <1>5, <1>6, <1>7 DEF InsertsIn
<1>9. \A x : x \in ToSet(e.buf) <=> x \in ToSet(editor[r].buf) /\ x # s
  <2>1. \A x \in ToSet(editor[r].buf) : x \in issued /\ ~Received(editor[r], x)
    BY <1>1 DEF Sound
  <2>. QED
    BY <1>2, <1>3, <1>6, <2>1
<1>10. ErasesIn(issued', e) = Erased[r]
  <2>1. s \notin ToSet(editor[r].text)
    BY <1>1, <1>7
  <2>2. CASE s \in ToSet(editor[r].buf)
    <3>1. ToSet(e.text) = ToSet(editor[r].text)
      BY <1>3, <2>2
    <3>. QED
      BY <1>7, <1>8, <1>9, <2>1, <2>2, <3>1 DEF ErasesIn
  <2>3. CASE s \notin ToSet(editor[r].buf)
    BY <1>3, <1>7, <1>8, <1>9, <2>1, <2>3 DEF ErasesIn
  <2>. QED
    BY <2>2, <2>3
<1>11. ToSet(e.text) \subseteq issued'
  BY <1>1, <1>3, <1>4 DEF InsertsIn
<1>12. Abstract!Knows(r, Inserted[r] \cup {s}, Erased[r])
  BY <1>1, <1>3, <1>8, <1>10, <1>11, KnowsNow DEF Abstract!Knows
<1>. QED
  BY <1>2, <1>4, <1>7, <1>12 DEF Abstract!LearnInsert

(* A replica handles an erase that another one knows.                       *)
LEMMA EraseLearnt ==
    ASSUME Joiners = {}, Inv, SteadyInv, LearnInv, NEW r \in Replicas, NEW m \in Message,
           m.type = "erase", NEW e, Handled(editor[r], m, e), m.symbol \in issued,
           NEW q \in Replicas, Received(editor[q], m.symbol), m.symbol \notin ToSet(editor[q].text),
           editor' = [editor EXCEPT ![r] = e], issued' = issued
    PROVE  Abstract!LearnErase(r, m.symbol) \/ UNCHANGED Abstract!vars
<1>1. /\ Sound(editor[r]) /\ Ascending(editor[r].text) /\ editor \in [Replicas -> Editor]
      /\ ToSet(editor[r].text) \subseteq InsertsIn(issued, editor[r])
      /\ ToSet(editor[r].buf) \subseteq issued
      /\ ToSet(editor[r].buf) \cap InsertsIn(issued, editor[r]) = {}
  BY AllSettled
<1>2. PICK s : s = m.symbol
  OBVIOUS
<1>3. /\ Sound(e) /\ e.vv = editor[r].vv /\ Ascending(e.text)
      /\ ToSet(e.text) = ToSet(editor[r].text) \ {s}
      /\ \A x : x \in ToSet(e.buf) <=> x \in ToSet(editor[r].buf)
                                       \/ (x = s /\ ~Received(editor[r], s))
  BY <1>1, <1>2 DEF Handled
<1>4. s \in Erased[q]
  <2>1. s \in InsertsIn(issued, editor[q])
    BY <1>2 DEF InsertsIn
  <2>. QED
    BY <1>2, <2>1, MappedNow DEF ErasesIn
<1>5. /\ Inserted[r] = InsertsIn(issued, editor[r]) /\ Erased[r] = ErasesIn(issued, editor[r])
      /\ InsertsIn(issued', e) = Inserted[r]
  BY <1>3, MappedNow DEF InsertsIn, Received
<1>6. s \in Inserted[r] <=> Received(editor[r], s)
  BY <1>2, <1>5 DEF InsertsIn
<1>7. CASE s \in Erased[r]
  <2>1. s \notin ToSet(editor[r].text)
    BY <1>1, <1>5, <1>7 DEF ErasesIn
  <2>2. e.text = editor[r].text
    BY <1>1, <1>3, <2>1, AscendingTextsEqual
  <2>3. ToSet(e.buf) = ToSet(editor[r].buf)
    BY <1>3, <1>5, <1>6, <1>7 DEF ErasesIn
  <2>. QED
    BY <1>1, <1>3, <2>2, <2>3, NothingLearnt
<1>8. CASE s \notin Erased[r]
  <2>1. ErasesIn(issued', e) = Erased[r] \cup {s}
    BY <1>3, <1>5, <1>6, <1>8 DEF ErasesIn
  <2>2. ToSet(e.text) \subseteq issued'
    BY <1>1, <1>3 DEF InsertsIn
  <2>3. Abstract!Knows(r, Inserted[r], Erased[r] \cup {s})
    BY <1>1, <1>3, <1>5, <2>1, <2>2, KnowsNow DEF Abstract!Knows
  <2>. QED
    BY <1>2, <1>4, <1>8, <2>3 DEF Abstract!LearnErase, Abstract!Knows
<1>. QED
  BY <1>7, <1>8

LEMMA ServedLearns ==
    ASSUME Joiners = {}, Inv, SteadyInv, LearnInv,
           NEW w \in Workers, NEW c \in Clients, NEW m, NEW e, Served(w, c, m, e)
    PROVE  \/ \E s \in issued : Abstract!LearnInsert(Server, s) \/ Abstract!LearnErase(Server, s)
           \/ UNCHANGED Abstract!vars
<1>1. /\ Server \in Replicas /\ c \in Replicas /\ c \in Steady
      /\ editor \in [Replicas -> Editor]
      /\ Erasing /\ Issued /\ Sent
  BY Constants, AllSettled DEF Steady
<1>2. /\ Handled(editor[Server], m, e) /\ editor' = [editor EXCEPT ![Server] = e]
      /\ issued' = issued /\ m \in Message
  BY DEF Served, AtReplica
<1>3. m \in ToSet(up[c]) /\ (m.type = "insert" => ~Received(editor[Server], m.symbol))
  BY ServedFacts
<1>4. m.symbol \in issued
  BY <1>1, <1>2, <1>3 DEF Issued
<1>5. m.type \in {"insert", "erase", "format"} /\ m.symbol \in Symbol
      /\ (m.type = "erase" => m = Erase(m.symbol))
  BY <1>2, MessageFields
<1>6. CASE m.type = "insert"
  <2>1. \A x \in issued : Received(e, x) /\ ~Received(editor[Server], x) => x = m.symbol
    BY <1>1, ServedOne
  <2>2. Abstract!LearnInsert(Server, m.symbol)
    BY <1>1, <1>2, <1>3, <1>4, <1>6, <2>1, InsertLearnt
  <2>. QED
    BY <1>4, <2>2
<1>7. CASE m.type = "erase"
  <2>1. Received(editor[c], m.symbol) /\ m.symbol \notin ToSet(editor[c].text)
    BY <1>1, <1>3, <1>5, <1>7 DEF Erasing
  <2>2. Abstract!LearnErase(Server, m.symbol) \/ UNCHANGED Abstract!vars
    BY <1>1, <1>2, <1>4, <1>7, <2>1, EraseLearnt
  <2>. QED
    BY <1>4, <2>2
<1>8. CASE m.type = "format"
  <2>1. e = editor[Server]
    BY <1>2, <1>8 DEF Handled
  <2>. QED
    BY <1>1, <1>2, <2>1, NothingLearnt
<1>. QED
  BY <1>5, <1>6, <1>7, <1>8

LEMMA HeardLearns ==
    ASSUME Joiners = {}, Inv, SteadyInv, LearnInv,
           NEW d \in Clients, NEW m, NEW e, Heard(d, m, e)
    PROVE  \/ \E s \in issued : Abstract!LearnInsert(d, s) \/ Abstract!LearnErase(d, s)
           \/ UNCHANGED Abstract!vars
<1>1. /\ Server \in Replicas /\ d \in Replicas /\ d \in Steady
      /\ editor \in [Replicas -> Editor]
      /\ InOrder /\ Fresh /\ Issued /\ Told
  BY Constants, AllSettled DEF Steady
<1>2. editor' = [editor EXCEPT ![d] = e] /\ issued' = issued
  BY DEF Heard, AtReplica
<1>3. Handled(editor[d], m, e) /\ m \in Message /\ Flying(m)
  BY HeardFacts
<1>4. m.symbol \in issued
  BY <1>1, <1>3 DEF Issued
<1>5. m.type \in {"insert", "erase", "format"} /\ m.symbol \in Symbol
      /\ (m.type = "erase" => m = Erase(m.symbol))
  BY <1>3, MessageFields
<1>6. CASE m.type = "insert"
  <2>1. \A x \in issued : Received(e, x) /\ ~Received(editor[d], x) => x = m.symbol
    BY <1>1, HeardOne
  <2>2. ~Received(editor[d], m.symbol)
    BY <1>1, <1>6, HeardIsFresh
  <2>3. Abstract!LearnInsert(d, m.symbol)
    BY <1>1, <1>2, <1>3, <1>4, <1>6, <2>1, <2>2, InsertLearnt
  <2>. QED
    BY <1>4, <2>3
<1>7. CASE m.type = "erase"
  <2>1. Received(editor[Server], m.symbol) /\ m.symbol \notin ToSet(editor[Server].text)
    BY <1>3, <1>5, <1>7 DEF Inv, Dead, Gone
  <2>2. Abstract!LearnErase(d, m.symbol) \/ UNCHANGED Abstract!vars
    BY <1>1, <1>2, <1>3, <1>4, <1>7, <2>1, EraseLearnt
  <2>. QED
    BY <1>4, <2>2
<1>8. CASE m.type = "format"
  <2>1. e = editor[d]
    BY <1>3, <1>8 DEF Handled
  <2>. QED
    BY <1>1, <1>2, <2>1, NothingLearnt
<1>. QED
  BY <1>5, <1>6, <1>7, <1>8

LEMMA TextSimulation ==
    ASSUME Joiners = {}, Inv, SteadyInv, LearnInv, [Next]_vars
    PROVE  [Abstract!Next]_(Abstract!vars)
<1>1. Clients \subseteq Replicas /\ Server \in Replicas
  BY Constants
<1>2. ASSUME editor' = editor, issued' = issued PROVE UNCHANGED Abstract!vars
  BY <1>2 DEF Abstract!vars, Inserted, Erased, Received
<1>3. ASSUME NEW c \in Clients, NEW s, NEW e, Typed(c, s, e) PROVE Abstract!Next
  <2>1. Abstract!Insert(c, s) /\ s \in Symbol
    BY <1>3, TypedInserts
  <2>2. Abstract!Symbol = Symbol
    BY DEF Abstract!Symbol, Symbol
  <2>. QED
    BY <1>1, <2>1, <2>2 DEF Abstract!Next
<1>4. ASSUME NEW c \in Clients, NEW s, NEW e, Deleted(c, s, e) PROVE Abstract!Next
  BY <1>1, <1>4, DeletedErases DEF Abstract!Next
<1>5. ASSUME NEW c \in Clients, NEW m, NEW e, Heard(c, m, e)
      PROVE  [Abstract!Next]_(Abstract!vars)
  BY <1>1, <1>5, HeardLearns DEF Abstract!Next
<1>6. ASSUME NEW w \in Workers, NEW c \in Clients, NEW m, NEW e, Served(w, c, m, e)
      PROVE  [Abstract!Next]_(Abstract!vars)
  BY <1>1, <1>6, ServedLearns DEF Abstract!Next
<1>7. CASE Next
  <2>1. Step /\ Present
    BY <1>7, NextIsStep DEF SteadyInv
  <2>. QED
    BY <2>1, <1>2, <1>3, <1>4, <1>5, <1>6, SettledSteps
<1>8. CASE UNCHANGED vars
  BY <1>2, <1>8 DEF vars
<1>. QED
  BY <1>7, <1>8

LEMMA TextInit ==
    ASSUME Init
    PROVE  Abstract!Init
<1>1. PICK t : t = << >>
  OBVIOUS
<1>2. Ordered(t) /\ ToSet(t) = {}
  BY <1>1, EmptyFacts DEF Ordered
<1>3. \A r \in Replicas : editor[r].text = t /\ editor[r].buf = t
  BY <1>1, <1>2, EditorOfText DEF Init
<1>4. issued = {}
  BY DEF Init
<1>. QED
  BY <1>1, <1>2, <1>3, <1>4 DEF Abstract!Init, Inserted, Erased

(* Collaborative editing through sockets, worker threads, version vectors   *)
(* and deletion buffers is replicated text: every replica learns of one     *)
(* insert or erase at a time and shows, in order, what it knows.            *)
THEOREM SessionImplementsText == Joiners = {} => (Spec => Implements)
<1>. SUFFICES ASSUME Joiners = {} PROVE Spec => Implements
  OBVIOUS
<1>1. Init => Abstract!Init
  BY TextInit
<1>2. Inv /\ SteadyInv /\ LearnInv /\ [Next]_vars => [Abstract!Next]_(Abstract!vars)
  BY TextSimulation
<1>3. Spec => []LearnInv
  BY LearnInvariance
<1>. QED
  BY <1>1, <1>2, <1>3, Invariance, SteadyInvariance, PTL
     DEF Spec, Implements, Abstract!Spec
=============================================================================
