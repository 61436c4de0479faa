------------------------- MODULE Connections_proofs -------------------------
(***************************************************************************)
(* Proofs about Connections, for any number of workers and connections.    *)
(***************************************************************************)
EXTENDS Connections, FiniteSetTheorems, TLAPS

Connection == [fd : Descriptors, worker : Workers, state : States]

Types ==
    /\ conns \in Seq(Connection)
    /\ compared \in 0 .. NWorkers
    /\ count \in [Workers -> Int]
    /\ sessions \subseteq Descriptors
    /\ even \in BOOLEAN

(* A connection is being accepted while its worker is being chosen. *)
OneAccepted ==
    /\ compared = 0 => In("accepted") = {}
    /\ compared # 0 => \E i \in In("accepted") : In("accepted") = {i}

(* Sockets of a worker that are counted. *)
Counted(w) == {i \in In("open") \cup In("ended") : conns[i].worker = w}
CountsRight == \A w \in Workers : count[w] = Cardinality(Counted(w))

CInv == Types /\ OneAccepted /\ CountsRight

-----------------------------------------------------------------------------
(* A connection changes its state, and nothing else changes. *)
LEMMA ToChanges ==
    ASSUME conns \in Seq(Connection), NEW i \in DOMAIN conns, NEW st \in States, To(i, st)
    PROVE  /\ conns' \in Seq(Connection)
           /\ DOMAIN conns' = DOMAIN conns
           /\ \A j \in DOMAIN conns :
                /\ conns'[j].fd = conns[j].fd /\ conns'[j].worker = conns[j].worker
                /\ conns'[j].state = IF j = i THEN st ELSE conns[j].state
<1>. DEFINE c == [conns[i] EXCEPT !.state = st]
<1>1. conns[i] \in Connection
  OBVIOUS
<1>2. c \in Connection /\ c.fd = conns[i].fd /\ c.worker = conns[i].worker /\ c.state = st
  BY <1>1 DEF Connection
<1>3. conns' = [conns EXCEPT ![i] = c]
  BY DEF To
<1>. HIDE DEF c
<1>4. conns' \in Seq(Connection) /\ DOMAIN conns' = DOMAIN conns
  BY <1>2, <1>3
<1>. QED BY <1>2, <1>3, <1>4

LEMMA ConnectionFields ==
    ASSUME conns \in Seq(Connection), NEW i \in DOMAIN conns
    PROVE  conns[i].fd \in Descriptors /\ conns[i].worker \in Workers /\ conns[i].state \in States
<1>1. conns[i] \in Connection
  OBVIOUS
<1>. QED BY <1>1 DEF Connection

(* The number of sockets of every worker is finite. *)
LEMMA CountedFinite ==
    ASSUME conns \in Seq(Connection), NEW w
    PROVE  IsFiniteSet(Counted(w)) /\ Cardinality(Counted(w)) \in Nat
<1>1. Counted(w) \subseteq 1 .. Len(conns) /\ Len(conns) \in Nat
  BY DEF Counted, In
<1>2. IsFiniteSet(1 .. Len(conns))
  BY <1>1, FS_Interval
<1>. QED BY <1>1, <1>2, FS_Subset, FS_CardinalityType

(* A step that moves no connection in or out of the counted ones. *)
LEMMA SameCounts ==
    ASSUME CountsRight, count' = count, \A w \in Workers : Counted(w)' = Counted(w)
    PROVE  CountsRight'
BY DEF CountsRight

(* The connections in each state after one of them has changed its own. *)
LEMMA InAfter ==
    ASSUME conns \in Seq(Connection), NEW i \in DOMAIN conns, NEW st \in States, To(i, st)
    PROVE  /\ \A x \in States : In(x)' = (In(x) \ {i}) \cup (IF x = st THEN {i} ELSE {})
           /\ \A w : conns[i].state \notin {"open", "ended"} /\ st \notin {"open", "ended"}
                    => Counted(w)' = Counted(w)
           /\ \A w : conns[i].state \in {"open", "ended"} /\ st \in {"open", "ended"}
                    => Counted(w)' = Counted(w)
           /\ \A w : conns[i].state \notin {"open", "ended"} /\ st \in {"open", "ended"}
                    => /\ i \notin Counted(w)
                       /\ Counted(w)' = IF w = conns[i].worker THEN Counted(w) \cup {i}
                                        ELSE Counted(w)
           /\ \A w : conns[i].state \in {"open", "ended"} /\ st \notin {"open", "ended"}
                    => /\ i \in Counted(conns[i].worker)
                       /\ Counted(w)' = IF w = conns[i].worker THEN Counted(w) \ {i}
                                        ELSE Counted(w)
<1>1. /\ DOMAIN conns' = DOMAIN conns
      /\ \A j \in DOMAIN conns :
           /\ conns'[j].worker = conns[j].worker
           /\ conns'[j].state = IF j = i THEN st ELSE conns[j].state
  BY ToChanges
<1>2. \A x \in States : In(x)' = (In(x) \ {i}) \cup (IF x = st THEN {i} ELSE {})
  BY <1>1 DEF In
<1>3. \A w : Counted(w)' = {j \in DOMAIN conns : conns[j].worker = w
                               /\ (IF j = i THEN st ELSE conns[j].state) \in {"open", "ended"}}
  BY <1>1 DEF In, Counted
<1>4. \A w : Counted(w) = {j \in DOMAIN conns : conns[j].worker = w
                              /\ conns[j].state \in {"open", "ended"}}
  BY DEF In, Counted
<1>. QED BY <1>2, <1>3, <1>4

(* A new connection is not counted and is the one that is accepted. *)
LEMMA AcceptAdds ==
    ASSUME conns \in Seq(Connection), NEW f \in Descriptors, Accept(f)
    PROVE  \E n :
           /\ conns' \in Seq(Connection)
           /\ n \notin DOMAIN conns /\ DOMAIN conns' = DOMAIN conns \cup {n}
           /\ \A j \in DOMAIN conns : conns'[j] = conns[j]
           /\ n = Len(conns) + 1
           /\ conns'[n].fd = f /\ conns'[n].worker = 1 /\ conns'[n].state = "accepted"
           /\ In("accepted")' = In("accepted") \cup {n}
           /\ In("queued")' = In("queued")
           /\ In("open")' = In("open") /\ In("ended")' = In("ended")
           /\ \A w : Counted(w)' = Counted(w)
<1>. DEFINE n == Len(conns) + 1
            c == [fd |-> f, worker |-> 1, state |-> "accepted"]
<1>1. conns' = Append(conns, c) /\ Len(conns) \in Nat
  BY DEF Accept
<1>2. c \in Connection
  BY ConnectionsAssumption DEF Connection, Workers, States
<1>. HIDE DEF c
<1>3. /\ conns' \in Seq(Connection) /\ DOMAIN conns = 1 .. Len(conns) /\ DOMAIN conns' = 1 .. n
      /\ \A j \in DOMAIN conns : conns'[j] = conns[j]
      /\ conns'[n] = c
  BY <1>1, <1>2
<1>4. n \notin DOMAIN conns /\ DOMAIN conns' = DOMAIN conns \cup {n}
  BY <1>1, <1>3
<1>5. c.state = "accepted"
  BY DEF c
<1>6. In("accepted")' = In("accepted") \cup {n} /\ \A x \in States \ {"accepted"} : In(x)' = In(x)
  BY <1>3, <1>4, <1>5 DEF In
<1>7. \A w : Counted(w)' = Counted(w)
  BY <1>3, <1>4, <1>6 DEF Counted, In, States
<1>8. /\ In("queued")' = In("queued")
      /\ In("open")' = In("open") /\ In("ended")' = In("ended")
  BY <1>6 DEF States
<1>9. conns'[n].fd = f /\ conns'[n].worker = 1 /\ conns'[n].state = "accepted"
  BY <1>3 DEF c
<1>. QED BY <1>3, <1>4, <1>6, <1>7, <1>8, <1>9

(* Comparing changes the worker of the connection that is being accepted. *)
LEMMA CompareChanges ==
    ASSUME Types, OneAccepted, Compare
    PROVE  \E i \in In("accepted") :
             /\ In("accepted") = {i} /\ conns'[i].worker \in Workers
             /\ conns'[i].worker = IF count[compared + 1] < count[conns[i].worker] THEN compared + 1
                                   ELSE conns[i].worker
             /\ conns' \in Seq(Connection) /\ DOMAIN conns' = DOMAIN conns
             /\ conns'[i].fd = conns[i].fd /\ conns'[i].state = conns[i].state
             /\ \A j \in DOMAIN conns : j # i => conns'[j] = conns[j]
<1>1. PICK i \in In("accepted") :
         conns' = [conns EXCEPT ![i].worker = IF count[compared + 1] < count[@]
                                              THEN compared + 1 ELSE @]
  BY DEF Compare
<1>. DEFINE v == IF count[compared + 1] < count[conns[i].worker] THEN compared + 1
                 ELSE conns[i].worker
            c == [conns[i] EXCEPT !.worker = v]
<1>2. compared + 1 \in Workers /\ i \in DOMAIN conns
  BY ConnectionsAssumption DEF Compare, Workers, In
<1>3. conns[i] \in Connection
  BY <1>2 DEF Types
<1>4. v \in Workers
  BY <1>2, <1>3 DEF Connection
<1>. HIDE DEF v
<1>5. c \in Connection /\ c.fd = conns[i].fd /\ c.worker = v /\ c.state = conns[i].state
  BY <1>3, <1>4 DEF Connection
<1>6. conns' = [conns EXCEPT ![i] = c]
  BY <1>1 DEF v
<1>. HIDE DEF c
<1>7. conns' \in Seq(Connection) /\ DOMAIN conns' = DOMAIN conns
  BY <1>2, <1>5, <1>6 DEF Types
<1>8. conns'[i] = c /\ \A j \in DOMAIN conns : j # i => conns'[j] = conns[j]
  BY <1>2, <1>6 DEF Types
<1>9. In("accepted") = {i}
  BY <1>1 DEF OneAccepted, Compare
<1>10. conns'[i].worker = v /\ v = IF count[compared + 1] < count[conns[i].worker] THEN compared + 1
                                   ELSE conns[i].worker
  BY <1>5, <1>8 DEF v
<1>. QED BY <1>4, <1>5, <1>7, <1>8, <1>9, <1>10

(* Comparing leaves the connections' descriptors and states alone. *)
LEMMA CompareKeeps ==
    ASSUME Types, OneAccepted, Compare
    PROVE  /\ conns' \in Seq(Connection) /\ DOMAIN conns' = DOMAIN conns
           /\ \A j \in DOMAIN conns : conns'[j].fd = conns[j].fd /\ conns'[j].state = conns[j].state
           /\ In("accepted")' = In("accepted") /\ In("queued")' = In("queued")
           /\ In("open")' = In("open") /\ In("ended")' = In("ended")
           /\ \A w : Counted(w)' = Counted(w)
<1>1. PICK i \in In("accepted") :
         /\ conns' \in Seq(Connection) /\ DOMAIN conns' = DOMAIN conns
         /\ conns'[i].fd = conns[i].fd /\ conns'[i].state = conns[i].state
         /\ \A j \in DOMAIN conns : j # i => conns'[j] = conns[j]
  BY CompareChanges
<1>2. \A j \in DOMAIN conns : conns'[j].fd = conns[j].fd /\ conns'[j].state = conns[j].state
  BY <1>1
<1>3. i \notin In("open") \cup In("ended")
  BY DEF In
<1>4. /\ In("accepted")' = In("accepted") /\ In("queued")' = In("queued")
      /\ In("open")' = In("open") /\ In("ended")' = In("ended")
  BY <1>1, <1>2 DEF In
<1>5. \A w : Counted(w)' = Counted(w)
  BY <1>1, <1>3, <1>4 DEF Counted, In
<1>. QED BY <1>1, <1>2, <1>4, <1>5

-----------------------------------------------------------------------------
(* What a step does to the connections' states. *)
LEMMA StepKinds ==
    ASSUME Types, [Next]_vars
    PROVE  \/ \E f \in Descriptors : Accept(f)
           \/ Compare
           \/ Assign
           \/ \E i \in DOMAIN conns : \/ Start(i) \/ StartFails(i)
                                      \/ EndSocket(i) \/ CloseSession(i)
           \/ \E i \in DOMAIN conns : (Login(i) \/ Logout(i)) /\ UNCHANGED <<conns, compared, count, even>>
           \/ UNCHANGED vars
BY DEF Next, Login, Logout

LEMMA CInvStep ==
    ASSUME CInv, [Next]_vars
    PROVE  CInv'
<1>. USE ConnectionsAssumption
<1>. USE DEF CInv, Types
<1>0. Types /\ OneAccepted /\ CountsRight
  OBVIOUS
<1>1. ASSUME NEW f \in Descriptors, Accept(f) PROVE CInv'
  <2>1. Types' /\ count' = count /\ compared = 0 /\ compared' = 1
    BY <1>1, AcceptAdds DEF Accept
  <2>2. OneAccepted'
    <3>1. In("accepted") = {}
      BY <2>1 DEF OneAccepted
    <3>2. PICK n : In("accepted")' = In("accepted") \cup {n}
      BY <1>1, AcceptAdds
    <3>3. In("accepted")' = {n}
      BY <3>1, <3>2
    <3>4. compared' # 0
      BY <2>1
    <3>5. n \in In("accepted")'
      BY <3>3
    <3>. QED BY <3>3, <3>4, <3>5 DEF OneAccepted
  <2>3. CountsRight'
    BY <1>1, <2>1, AcceptAdds, SameCounts
  <2>. QED BY <2>1, <2>2, <2>3
<1>2. ASSUME Compare PROVE CInv'
  <2>1. compared' = compared + 1 /\ compared \in 1 .. (NWorkers - 1) /\ UNCHANGED <<count, sessions, even>>
    BY <1>2 DEF Compare
  <2>2. conns' \in Seq(Connection) /\ In("accepted")' = In("accepted")
    BY <1>2, CompareKeeps
  <2>3. CountsRight'
    BY <1>2, <2>1, CompareKeeps, SameCounts
  <2>. QED BY <2>1, <2>2, <2>3 DEF OneAccepted
<1>3. ASSUME Assign PROVE CInv'
  <2>1. PICK i \in In("accepted") : To(i, "queued")
    BY <1>3 DEF Assign
  <2>2. compared = NWorkers /\ compared' = 0 /\ UNCHANGED <<count, sessions, even>>
    BY <1>3 DEF Assign
  <2>3. i \in DOMAIN conns /\ conns[i].state = "accepted" /\ "queued" \in States /\ "accepted" \in States
    BY DEF In, States
  <2>4. In("accepted") = {i}
    BY <2>1, <2>2 DEF OneAccepted
  <2>5. In("accepted")' = {}
    BY <2>1, <2>3, <2>4, InAfter
  <2>6. conns' \in Seq(Connection)
    BY <2>1, <2>3, ToChanges
  <2>7. CountsRight'
    BY <2>1, <2>2, <2>3, InAfter, SameCounts
  <2>. QED BY <2>2, <2>5, <2>6, <2>7 DEF OneAccepted
<1>4. ASSUME NEW i \in DOMAIN conns, Start(i) PROVE CInv'
  <2>. DEFINE w == conns[i].worker
  <2>1. /\ To(i, "open") /\ UNCHANGED <<compared, sessions, even>>
        /\ count' = [count EXCEPT ![w] = @ + 1]
        /\ conns[i].state = "queued" /\ w \in Workers /\ "open" \in States /\ "accepted" \in States
    BY <1>4, ConnectionFields DEF Start, NextQueued, In, States
  <2>2. conns' \in Seq(Connection) /\ In("accepted")' = In("accepted") \ {i} /\ i \notin In("accepted")
    BY <2>1, ToChanges, InAfter DEF In
  <2>3. ASSUME NEW v \in Workers PROVE count'[v] = Cardinality(Counted(v)')
    <3>1. count[v] = Cardinality(Counted(v)) /\ IsFiniteSet(Counted(v)) /\ Cardinality(Counted(v)) \in Nat
      BY CountedFinite DEF CountsRight
    <3>2. i \notin Counted(v) /\ Counted(v)' = IF v = w THEN Counted(v) \cup {i} ELSE Counted(v)
      BY <2>1, InAfter
    <3>3. Cardinality(Counted(v) \cup {i}) = Cardinality(Counted(v)) + 1
      BY <3>1, <3>2, FS_AddElement
    <3>. QED BY <2>1, <3>1, <3>2, <3>3
  <2>4. Types'
    BY <2>1, <2>2
  <2>5. OneAccepted'
    BY <2>1, <2>2 DEF OneAccepted
  <2>. QED BY <2>3, <2>4, <2>5 DEF CountsRight
<1>5. ASSUME NEW i \in DOMAIN conns, CloseSession(i) PROVE CInv'
  <2>. DEFINE w == conns[i].worker
  <2>1. /\ To(i, "gone") /\ compared' = compared /\ even' = even
        /\ count' = [count EXCEPT ![w] = @ - 1] /\ sessions' \subseteq sessions
        /\ conns[i].state = "ended" /\ w \in Workers /\ "gone" \in States /\ "accepted" \in States
    BY <1>5, ConnectionFields DEF CloseSession, In, States
  <2>2. conns' \in Seq(Connection) /\ In("accepted")' = In("accepted") \ {i} /\ i \notin In("accepted")
    BY <2>1, ToChanges, InAfter DEF In
  <2>3. ASSUME NEW v \in Workers PROVE count'[v] = Cardinality(Counted(v)')
    <3>1. count[v] = Cardinality(Counted(v)) /\ IsFiniteSet(Counted(v)) /\ Cardinality(Counted(v)) \in Nat
      BY CountedFinite DEF CountsRight
    <3>2. Counted(v)' = IF v = w THEN Counted(v) \ {i} ELSE Counted(v)
      BY <2>1, InAfter
    <3>3. v = w => i \in Counted(v)
      BY <2>1, InAfter
    <3>4. v = w => Cardinality(Counted(v) \ {i}) = Cardinality(Counted(v)) - 1
      BY <3>1, <3>3, FS_RemoveElement
    <3>. QED BY <2>1, <3>1, <3>2, <3>4
  <2>4. Types'
    BY <2>1, <2>2
  <2>5. OneAccepted'
    BY <2>1, <2>2 DEF OneAccepted
  <2>. QED BY <2>3, <2>4, <2>5 DEF CountsRight
<1>6. ASSUME NEW i \in DOMAIN conns, StartFails(i) \/ EndSocket(i) PROVE CInv'
  <2>1. /\ UNCHANGED <<compared, sessions, count>> /\ even' = FALSE
        /\ "accepted" \in States /\ "failed" \in States /\ "ended" \in States
        /\ \/ To(i, "failed") /\ conns[i].state = "queued"
           \/ To(i, "ended") /\ conns[i].state = "open"
    BY <1>6 DEF StartFails, EndSocket, NextQueued, In, States
  <2>2. conns' \in Seq(Connection) /\ In("accepted")' = In("accepted") \ {i} /\ i \notin In("accepted")
    BY <2>1, ToChanges, InAfter DEF In
  <2>3. CountsRight'
    BY <2>1, InAfter, SameCounts
  <2>. QED BY <2>1, <2>2, <2>3 DEF OneAccepted
<1>7. ASSUME NEW i \in DOMAIN conns, Login(i) \/ Logout(i) PROVE CInv'
  <2>1. UNCHANGED <<conns, compared, count, even>> /\ sessions' \subseteq Descriptors
    BY <1>7, ConnectionFields DEF Login, Logout, In
  <2>. QED BY <2>1 DEF OneAccepted, CountsRight, Counted, In
<1>8. ASSUME UNCHANGED vars PROVE CInv'
  BY <1>8 DEF vars, OneAccepted, CountsRight, Counted, In
<1>. QED BY <1>1, <1>2, <1>3, <1>4, <1>5, <1>6, <1>7, <1>8, StepKinds

THEOREM Invariance == Spec => []CInv
<1>1. Init => CInv
  <2>. SUFFICES ASSUME Init PROVE CInv
    OBVIOUS
  <2>1. DOMAIN conns = {}
    BY DEF Init
  <2>2. Types /\ OneAccepted
    BY <2>1, ConnectionsAssumption DEF Init, Types, OneAccepted, In
  <2>3. \A w : Counted(w) = {}
    BY <2>1 DEF Counted, In
  <2>4. CountsRight
    BY <2>3, FS_EmptySet DEF Init, CountsRight
  <2>. QED BY <2>2, <2>4 DEF CInv
<1>2. CInv /\ [Next]_vars => CInv'
  BY CInvStep
<1>. QED BY <1>1, <1>2, PTL DEF Spec

(* The count by which workers are compared is at any time the number of      *)
(* sockets each of them has, closed ones that are still to be handled        *)
(* included.                                                                 *)
THEOREM TypeCorrect == Spec => []TypeOK
<1>1. CInv => TypeOK
  <2>. SUFFICES ASSUME CInv PROVE TypeOK
    OBVIOUS
  <2>1. Cardinality(In("accepted")) = IF compared = 0 THEN 0 ELSE 1
    BY FS_EmptySet, FS_Singleton DEF CInv, OneAccepted
  <2>. QED BY <2>1 DEF CInv, Types, TypeOK, Connection, CountsRight, Counted
<1>. QED BY <1>1, Invariance, PTL

-----------------------------------------------------------------------------
(* Connections that have their descriptor. *)
Holders == In("accepted") \cup In("queued") \cup In("open") \cup In("failed")

(* No two of them have the same one; what is in sessions_ was put there by a *)
(* connection whose session is not closed yet; and one that is no heir has   *)
(* nobody to close before it, and its session if it has logged in.           *)
HoldersDistinct == \A i, j \in Holders : conns[i].fd = conns[j].fd => i = j
SessionsBacked ==
    /\ loggedIn \subseteq In("open") \cup In("ended")
    /\ \A f \in sessions : \E m \in loggedIn : conns[m].fd = f
FirstOfDescriptor(i) ==
    ToClose(conns[i].fd) = {} /\ (i \in loggedIn => conns[i].fd \in sessions)

DInv ==
    /\ HoldersDistinct
    /\ SessionsBacked
    /\ heirs \subseteq DOMAIN conns
    /\ \A i \in Holders \ heirs : FirstOfDescriptor(i)

HolderStates == {"accepted", "queued", "open", "failed"}

LEMMA HoldersAre == Holders = {i \in DOMAIN conns : conns[i].state \in HolderStates}
BY DEF Holders, In, HolderStates

LEMMA HeldByHolders == Held = {conns[i].fd : i \in Holders}
BY DEF Held, Holders

LEMMA ToCloseAre == \A f : ToClose(f) = {i \in DOMAIN conns : conns[i].state = "ended" /\ conns[i].fd = f}
BY DEF ToClose, In

(* A step that changes the state of no connection, or of one that stays a    *)
(* holder.                                                                   *)
LEMMA SameHolders ==
    ASSUME DInv, DOMAIN conns' = DOMAIN conns,
           \A j \in DOMAIN conns :
              /\ conns'[j].fd = conns[j].fd
              /\ \/ conns'[j].state = conns[j].state
                 \/ /\ conns[j].state \in HolderStates \ {"open"}
                    /\ conns'[j].state \in HolderStates,
           UNCHANGED <<sessions, loggedIn, heirs>>
    PROVE  DInv'
<1>0. loggedIn \subseteq DOMAIN conns
  BY DEF DInv, SessionsBacked, In
<1>1. Holders' = Holders
  <2>1. Holders = {i \in DOMAIN conns : conns[i].state \in HolderStates}
    BY HoldersAre
  <2>2. Holders' = {i \in DOMAIN conns : conns'[i].state \in HolderStates}
    BY DEF Holders, In, HolderStates
  <2>. QED BY <2>1, <2>2
<1>2. \A f : ToClose(f)' = ToClose(f)
  BY DEF ToClose, In, HolderStates
<1>3. Holders \subseteq DOMAIN conns
  BY DEF Holders, In
<1>4. HoldersDistinct'
  BY <1>1, <1>3 DEF DInv, HoldersDistinct
<1>5. SessionsBacked'
  <2>1. ASSUME NEW m \in loggedIn PROVE m \in DOMAIN conns /\ conns'[m].state \in {"open", "ended"}
    BY <1>0 DEF DInv, SessionsBacked, In, HolderStates
  <2>2. loggedIn' \subseteq (In("open") \cup In("ended"))'
    BY <2>1 DEF In
  <2>. QED BY <1>0, <2>2 DEF DInv, SessionsBacked
<1>6. \A i \in Holders \ heirs : FirstOfDescriptor(i)'
  BY <1>2, <1>3 DEF DInv, FirstOfDescriptor
<1>. QED BY <1>1, <1>4, <1>5, <1>6 DEF DInv

LEMMA DStep ==
    ASSUME CInv, DInv, [Next]_vars
    PROVE  DInv'
<1>0. /\ conns \in Seq(Connection) /\ loggedIn \subseteq DOMAIN conns /\ Holders \subseteq DOMAIN conns
      /\ heirs \subseteq DOMAIN conns /\ HoldersDistinct /\ SessionsBacked
      /\ \A i \in Holders \ heirs : FirstOfDescriptor(i)
  BY DEF CInv, Types, In, Holders, DInv, SessionsBacked
<1>1. ASSUME NEW f \in Descriptors, Accept(f) PROVE DInv'
  <2>1. PICK n :
        /\ n = Len(conns) + 1
        /\ n \notin DOMAIN conns /\ DOMAIN conns' = DOMAIN conns \cup {n}
        /\ \A j \in DOMAIN conns : conns'[j] = conns[j]
        /\ conns'[n].fd = f /\ conns'[n].state = "accepted"
    BY <1>0, <1>1, AcceptAdds
  <2>2. /\ UNCHANGED <<sessions, loggedIn>>
        /\ heirs' = IF ToClose(f) = {} THEN heirs ELSE heirs \cup {n}
        /\ \A j \in Holders : conns[j].fd # f
    BY <1>1, <2>1, HeldByHolders DEF Accept
  <2>3. Holders' = Holders \cup {n} /\ \A g : ToClose(g)' = ToClose(g)
    BY <2>1 DEF Holders, ToClose, In
  <2>4. HoldersDistinct'
    BY <1>0, <2>1, <2>2, <2>3 DEF HoldersDistinct
  <2>5. SessionsBacked'
    BY <1>0, <2>1, <2>2 DEF SessionsBacked, In
  <2>6. ASSUME NEW i \in Holders' \ heirs' PROVE FirstOfDescriptor(i)'
    <3>1. CASE i = n
      BY <1>0, <2>1, <2>2, <2>3, <2>6, <3>1 DEF FirstOfDescriptor
    <3>2. CASE i # n
      BY <1>0, <2>1, <2>2, <2>3, <2>6, <3>2 DEF FirstOfDescriptor
    <3>. QED BY <3>1, <3>2
  <2>. QED BY <1>0, <2>1, <2>2, <2>4, <2>5, <2>6 DEF DInv
<1>2. ASSUME Compare PROVE DInv'
  <2>1. /\ DOMAIN conns' = DOMAIN conns
        /\ \A j \in DOMAIN conns : conns'[j].fd = conns[j].fd /\ conns'[j].state = conns[j].state
    <3>1. Types /\ OneAccepted
      BY DEF CInv
    <3>. QED BY <1>2, <3>1, CompareKeeps
  <2>. QED BY <1>2, <2>1, SameHolders DEF Compare
<1>3. ASSUME NEW i \in DOMAIN conns, NEW st \in HolderStates, To(i, st),
             conns[i].state \in HolderStates \ {"open"}, UNCHANGED <<sessions, loggedIn, heirs>>
      PROVE  DInv'
  <2>1. /\ DOMAIN conns' = DOMAIN conns
        /\ \A j \in DOMAIN conns :
             /\ conns'[j].fd = conns[j].fd
             /\ conns'[j].state = IF j = i THEN st ELSE conns[j].state
    BY <1>0, <1>3, ToChanges DEF HolderStates, States
  <2>. QED BY <1>3, <2>1, SameHolders
<1>4. ASSUME Assign PROVE DInv'
  <2>1. PICK i \in In("accepted") : To(i, "queued")
    BY <1>4 DEF Assign
  <2>. QED BY <1>3, <1>4, <2>1 DEF Assign, In, HolderStates
<1>5. ASSUME NEW i \in DOMAIN conns, Start(i) \/ StartFails(i) PROVE DInv'
  BY <1>3, <1>5 DEF Start, StartFails, NextQueued, In, HolderStates
<1>6. ASSUME NEW i \in DOMAIN conns, EndSocket(i) PROVE DInv'
  <2>1. /\ To(i, "ended") /\ conns[i].state = "open" /\ UNCHANGED <<sessions, loggedIn, heirs>>
    BY <1>6 DEF EndSocket, In
  <2>2. /\ DOMAIN conns' = DOMAIN conns
        /\ \A j \in DOMAIN conns :
             /\ conns'[j].fd = conns[j].fd
             /\ conns'[j].state = IF j = i THEN "ended" ELSE conns[j].state
    BY <1>0, <2>1, ToChanges DEF States
  <2>3. Holders' = Holders \ {i} /\ i \in Holders
    BY <2>1, <2>2 DEF Holders, In
  <2>4. \A f : f # conns[i].fd => ToClose(f)' = ToClose(f)
    BY <2>1, <2>2 DEF ToClose, In
  <2>5. HoldersDistinct'
    BY <1>0, <2>2, <2>3 DEF HoldersDistinct
  <2>6. SessionsBacked'
    BY <1>0, <2>1, <2>2 DEF SessionsBacked, In
  <2>7. ASSUME NEW j \in Holders' \ heirs' PROVE FirstOfDescriptor(j)'
    <3>1. j \in Holders \ heirs /\ conns[j].fd # conns[i].fd
      BY <1>0, <2>1, <2>3, <2>7 DEF HoldersDistinct
    <3>. QED BY <1>0, <2>1, <2>2, <2>4, <3>1 DEF FirstOfDescriptor
  <2>. QED BY <1>0, <2>1, <2>2, <2>5, <2>6, <2>7 DEF DInv
<1>7. ASSUME NEW i \in DOMAIN conns, CloseSession(i) PROVE DInv'
  <2>1. /\ To(i, "gone") /\ conns[i].state = "ended" /\ loggedIn' = loggedIn \ {i}
        /\ sessions' = sessions \ {conns[i].fd} /\ heirs' = heirs
    BY <1>7 DEF CloseSession, In
  <2>2. /\ DOMAIN conns' = DOMAIN conns
        /\ \A j \in DOMAIN conns :
             /\ conns'[j].fd = conns[j].fd
             /\ conns'[j].state = IF j = i THEN "gone" ELSE conns[j].state
    BY <1>0, <2>1, ToChanges DEF States
  <2>3. Holders' = Holders
    BY <2>1, <2>2 DEF Holders, In
  <2>4. i \in ToClose(conns[i].fd) /\ \A f : f # conns[i].fd => ToClose(f)' = ToClose(f)
    BY <2>1, <2>2 DEF ToClose, In
  <2>5. HoldersDistinct'
    BY <1>0, <2>2, <2>3 DEF HoldersDistinct
  <2>6. SessionsBacked'
    BY <1>0, <2>1, <2>2 DEF SessionsBacked, In
  <2>7. ASSUME NEW j \in Holders' \ heirs' PROVE FirstOfDescriptor(j)'
    <3>1. j \in Holders \ heirs /\ FirstOfDescriptor(j)
      BY <1>0, <2>1, <2>3, <2>7
    <3>2. conns[j].fd # conns[i].fd
      BY <2>4, <3>1 DEF FirstOfDescriptor
    <3>. QED BY <1>0, <2>1, <2>2, <2>4, <3>1, <3>2 DEF FirstOfDescriptor
  <2>. QED BY <1>0, <2>1, <2>2, <2>5, <2>6, <2>7 DEF DInv
<1>8. ASSUME NEW i \in DOMAIN conns, Login(i) \/ Logout(i) PROVE DInv'
  <2>1. conns' = conns /\ heirs' = heirs /\ conns[i].state = "open" /\ i \in Holders
    BY <1>8 DEF Login, Logout, In, Holders
  <2>2. Holders' = Holders /\ HoldersDistinct' /\ \A f : ToClose(f)' = ToClose(f)
    BY <1>0, <2>1 DEF Holders, In, ToClose, HoldersDistinct
  <2>3. \A j \in Holders : j # i => conns[j].fd # conns[i].fd
    BY <1>0, <2>1 DEF HoldersDistinct
  <2>4. CASE Login(i)
    <3>1. sessions' = sessions \cup {conns[i].fd} /\ loggedIn' = loggedIn \cup {i}
      BY <2>4 DEF Login
    <3>2. SessionsBacked'
      BY <1>0, <2>1, <3>1 DEF SessionsBacked, In
    <3>3. \A j \in Holders \ heirs : FirstOfDescriptor(j)'
      BY <1>0, <2>1, <2>2, <3>1 DEF FirstOfDescriptor
    <3>. QED BY <1>0, <2>1, <2>2, <3>2, <3>3 DEF DInv
  <2>5. CASE Logout(i)
    <3>1. sessions' = sessions \ {conns[i].fd} /\ loggedIn' = loggedIn \ {i}
      BY <2>5 DEF Logout
    <3>2. SessionsBacked'
      BY <1>0, <2>1, <3>1 DEF SessionsBacked, In
    <3>3. \A j \in Holders \ heirs : FirstOfDescriptor(j)'
      BY <1>0, <2>1, <2>2, <2>3, <3>1 DEF FirstOfDescriptor
    <3>. QED BY <1>0, <2>1, <2>2, <3>2, <3>3 DEF DInv
  <2>. QED BY <1>8, <2>4, <2>5
<1>9. ASSUME UNCHANGED vars PROVE DInv'
  BY <1>9, SameHolders DEF vars
<1>. QED BY <1>1, <1>2, <1>4, <1>5, <1>6, <1>7, <1>8, <1>9 DEF Next

(* Though a descriptor is free before its session is closed, a session is    *)
(* that of its own connection unless the connection is the heir of a         *)
(* descriptor whose session was still to be closed; and an heir is in no     *)
(* session of another one as soon as those before it have been closed.       *)
THEOREM SessionsAreOwn == Spec => []SessionsOwn
<1>1. Init => DInv
  BY DEF Init, DInv, HoldersDistinct, SessionsBacked, Holders, In
<1>2. CInv /\ DInv /\ [Next]_vars => DInv'
  BY DStep
<1>3. DInv => SessionsOwn
  <2>. SUFFICES ASSUME DInv, NEW i \in In("open")
                PROVE  /\ ToClose(conns[i].fd) = {} /\ conns[i].fd \in sessions => i \in loggedIn
                       /\ i \notin heirs => FirstOfDescriptor(i)
    BY DEF SessionsOwn, FirstOfDescriptor
  <2>1. i \in Holders
    BY DEF Holders
  <2>2. ASSUME ToClose(conns[i].fd) = {}, conns[i].fd \in sessions PROVE i \in loggedIn
    <3>1. PICK m \in loggedIn : conns[m].fd = conns[i].fd
      BY <2>2 DEF DInv, SessionsBacked
    <3>2. m \notin In("ended") /\ m \in In("open") \cup In("ended")
      BY <2>2, <3>1 DEF ToClose, DInv, SessionsBacked
    <3>3. m = i
      BY <2>1, <3>1, <3>2 DEF DInv, HoldersDistinct, Holders
    <3>. QED BY <3>3
  <2>. QED BY <2>1, <2>2 DEF DInv
<1>. QED BY <1>1, <1>2, <1>3, Invariance, PTL DEF Spec

-----------------------------------------------------------------------------
(* While connections come in one by one and none ends, the next one goes to  *)
(* a worker that has the fewest of those looked at.                          *)
BInv ==
    even =>
        /\ In("ended") = {}
        /\ \A v, w \in Workers : count[v] <= count[w] + 1
        /\ In("accepted") # {} => In("queued") = {}
        /\ \A i, j \in In("queued") : i = j
        /\ \A i \in In("queued") : \A v \in Workers : count[conns[i].worker] <= count[v]
        /\ \A i \in In("accepted") : \A v \in 1 .. compared : count[conns[i].worker] <= count[v]

LEMMA BStep ==
    ASSUME CInv, BInv, [Next]_vars
    PROVE  BInv'
<1>. USE ConnectionsAssumption
<1>0. /\ conns \in Seq(Connection) /\ compared \in 0 .. NWorkers /\ count \in [Workers -> Int]
      /\ OneAccepted /\ even \in BOOLEAN
  BY DEF CInv, Types
<1>. SUFFICES ASSUME even' PROVE BInv'
  BY DEF BInv
<1>1. ASSUME NEW f \in Descriptors, Accept(f) PROVE BInv'
  <2>1. compared = 0 /\ compared' = 1 /\ even /\ In("queued") = {} /\ count' = count
    BY <1>0, <1>1 DEF Accept
  <2>2. PICK n : /\ conns'[n].worker = 1
                 /\ In("accepted")' = In("accepted") \cup {n} /\ In("queued")' = In("queued")
                 /\ In("ended")' = In("ended")
    BY <1>0, <1>1, AcceptAdds
  <2>3. In("accepted")' = {n} /\ In("queued")' = {} /\ In("ended")' = {}
    BY <1>0, <2>1, <2>2 DEF OneAccepted, BInv
  <2>4. \A v \in 1 .. compared' : count'[conns'[n].worker] <= count'[v]
    <3>1. 1 \in Workers
      BY DEF Workers
    <3>2. \A v \in 1 .. compared' : v = 1
      BY <2>1
    <3>3. count[1] \in Int
      BY <1>0, <3>1
    <3>. QED BY <2>1, <2>2, <3>2, <3>3
  <2>5. \A v, w \in Workers : count'[v] <= count'[w] + 1
    BY <2>1 DEF BInv
  <2>. QED BY <2>3, <2>4, <2>5 DEF BInv
<1>2. ASSUME Compare PROVE BInv'
  <2>1. compared' = compared + 1 /\ compared \in 1 .. (NWorkers - 1) /\ count' = count /\ even
    BY <1>2 DEF Compare
  <2>2. PICK i \in In("accepted") :
           /\ In("accepted") = {i}
           /\ conns'[i].worker = IF count[compared + 1] < count[conns[i].worker] THEN compared + 1
                                 ELSE conns[i].worker
           /\ In("accepted")' = In("accepted") /\ In("queued")' = In("queued")
           /\ In("ended")' = In("ended")
    <3>1. Types /\ OneAccepted
      BY DEF CInv
    <3>2. \E i \in In("accepted") :
            /\ In("accepted") = {i}
            /\ conns'[i].worker = IF count[compared + 1] < count[conns[i].worker] THEN compared + 1
                                  ELSE conns[i].worker
      BY <1>2, <3>1, CompareChanges
    <3>. QED BY <1>2, <3>1, <3>2, CompareKeeps
  <2>3. In("queued") = {} /\ \A v \in 1 .. compared : count[conns[i].worker] <= count[v]
    BY <2>1, <2>2 DEF BInv
  <2>4. conns[i].worker \in Workers /\ compared + 1 \in Workers /\ 1 .. compared \subseteq Workers
    BY <1>0, <2>1, ConnectionFields DEF In, Workers
  <2>5. ASSUME NEW v \in 1 .. compared' PROVE count'[conns'[i].worker] <= count'[v]
    <3>1. v \in 1 .. compared \/ v = compared + 1
      BY <2>1
    <3>2. count[v] \in Int /\ count[compared + 1] \in Int /\ count[conns[i].worker] \in Int
      BY <1>0, <2>4, <3>1
    <3>. QED BY <2>1, <2>2, <2>3, <3>1, <3>2
  <2>6. \A v, w \in Workers : count'[v] <= count'[w] + 1
    BY <2>1 DEF BInv
  <2>7. In("ended")' = {}
    BY <2>1, <2>2 DEF BInv
  <2>. QED BY <2>2, <2>3, <2>5, <2>6, <2>7 DEF BInv
<1>3. ASSUME Assign PROVE BInv'
  <2>1. PICK i \in In("accepted") : To(i, "queued")
    BY <1>3 DEF Assign
  <2>2. compared = NWorkers /\ count' = count /\ even /\ i \in DOMAIN conns
    BY <1>3 DEF Assign, In
  <2>3. In("queued") = {} /\ \A v \in Workers : count[conns[i].worker] <= count[v]
    BY <2>2 DEF BInv, Workers
  <2>4. In("accepted") = {i}
    BY <1>0, <2>2 DEF OneAccepted
  <2>5. In("accepted")' = {} /\ In("queued")' = {i} /\ In("ended")' = {}
    BY <1>0, <2>1, <2>2, <2>3, <2>4, InAfter DEF States, BInv
  <2>6. conns'[i].worker = conns[i].worker
    BY <1>0, <2>1, <2>2, ToChanges DEF States
  <2>7. \A v, w \in Workers : count'[v] <= count'[w] + 1
    BY <2>2 DEF BInv
  <2>. QED BY <2>2, <2>3, <2>5, <2>6, <2>7 DEF BInv
<1>4. ASSUME NEW i \in DOMAIN conns, Start(i) PROVE BInv'
  <2>. DEFINE w == conns[i].worker
  <2>1. /\ To(i, "open") /\ even /\ compared' = compared /\ i \in In("queued")
        /\ count' = [count EXCEPT ![w] = @ + 1] /\ w \in Workers
    BY <1>0, <1>4, ConnectionFields DEF Start, NextQueued
  <2>2. \A v \in Workers : count[w] <= count[v] /\ count[v] <= count[w] + 1
    BY <2>1 DEF BInv
  <2>3. In("accepted") = {} /\ In("queued") = {i}
    BY <2>1 DEF BInv
  <2>4. In("accepted")' = {} /\ In("queued")' = {} /\ In("ended")' = {}
    BY <1>0, <2>1, <2>3, InAfter DEF States, BInv
  <2>5. \A u, v \in Workers : count'[u] <= count'[v] + 1
    <3>1. \A u \in Workers : count[u] \in Int /\ count'[u] = IF u = w THEN count[w] + 1 ELSE count[u]
      BY <1>0, <2>1
    <3>2. \A u, v \in Workers : count[u] <= count[v] + 1
      BY <2>1 DEF BInv
    <3>. QED BY <2>1, <2>2, <3>1, <3>2
  <2>. QED BY <2>4, <2>5 DEF BInv
<1>5. ASSUME NEW i \in DOMAIN conns, StartFails(i) \/ EndSocket(i) PROVE BInv'
  BY <1>5 DEF StartFails, EndSocket
<1>6. ASSUME NEW i \in DOMAIN conns, CloseSession(i) PROVE BInv'
  BY <1>6 DEF CloseSession, BInv
<1>7. ASSUME NEW i \in DOMAIN conns, Login(i) \/ Logout(i) PROVE BInv'
  BY <1>7 DEF Login, Logout, BInv, In
<1>8. ASSUME UNCHANGED vars PROVE BInv'
  BY <1>8 DEF vars, BInv, In
<1>. QED BY <1>1, <1>2, <1>3, <1>4, <1>5, <1>6, <1>7, <1>8 DEF Next

(* As long as no connection ends and each is counted before the next comes   *)
(* in, the sockets of any two workers differ by one at most.                 *)
THEOREM ConnectionsAreBalanced == Spec => []Balanced
<1>1. Init => BInv
  <2>. SUFFICES ASSUME Init PROVE BInv
    OBVIOUS
  <2>1. \A x : In(x) = {}
    BY DEF Init, In
  <2>2. \A w \in Workers : count[w] = 0
    BY DEF Init
  <2>. QED BY <2>1, <2>2 DEF BInv
<1>2. CInv /\ BInv /\ [Next]_vars => BInv'
  BY BStep
<1>3. BInv => Balanced
  BY DEF BInv, Balanced
<1>. QED BY <1>1, <1>2, <1>3, Invariance, PTL DEF Spec
=============================================================================
