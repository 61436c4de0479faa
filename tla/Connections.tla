---------------------------- MODULE Connections ----------------------------
(***************************************************************************)
(* How connections are given to worker threads, and how long a session,    *)
(* named by a file descriptor, is that of one connection                   *)
(* (Server::incomingConnection of src/src/server/server.cpp,               *)
(* assign_connection, start_session, close_session, login and logout of    *)
(* src/src/server/worker.cpp, sessions_ of IdentityManager).               *)
(*                                                                         *)
(* The main thread accepts one connection at a time; each worker handles   *)
(* one event at a time.  sessions_ is a set here: who a session is bound   *)
(* to is in ClientSession.                                                 *)
(*                                                                         *)
(* A socket gives its descriptor back and then emits disconnected, so the  *)
(* next connection may get the descriptor, and with it the session, while  *)
(* close_session is still to come in another worker (In("ended")).         *)
(***************************************************************************)
EXTENDS Naturals, FiniteSets, Sequences

CONSTANTS
    NWorkers,           \* n_workers
    Descriptors,        \* file descriptors of sockets
    MaxConnections      \* bound: connections accepted

ASSUME ConnectionsAssumption ==
    /\ NWorkers \in Nat \ {0}
    /\ MaxConnections \in Nat

Workers == 1 .. NWorkers

VARIABLES
    conns,          \* the connections, in the order they came in
    compared,       \* workers incomingConnection has looked at
    count,          \* number_of_connections_
    sessions,       \* keys of IdentityManager::sessions_
    loggedIn,       \* history: connections that have logged in, and not out
    heirs,          \* history: connections that came in while a session of
                    \* the same descriptor was still to be closed
    even            \* history: no connection has ended or failed, or come in
                    \* before the previous ones were counted

vars == <<conns, compared, count, sessions, loggedIn, heirs, even>>

-----------------------------------------------------------------------------
In(state) == {i \in DOMAIN conns : conns[i].state = state}
To(i, state) == conns' = [conns EXCEPT ![i].state = state]

(* Descriptors the operating system does not give to a new connection. A    *)
(* socket that could not be set up is never closed.                         *)
Held == {conns[i].fd : i \in In("accepted") \cup In("queued") \cup In("open") \cup In("failed")}

(* Closed sockets of descriptor f whose session is still to be closed.      *)
ToClose(f) == {i \in In("ended") : conns[i].fd = f}

Init ==
    /\ conns = << >>
    /\ compared = 0
    /\ count = [w \in Workers |-> 0]
    /\ sessions = {}
    /\ loggedIn = {}
    /\ heirs = {}
    /\ even = TRUE

-----------------------------------------------------------------------------
(* incomingConnection: std::min_element starts from the first worker, ...   *)
Accept(f) ==
    /\ compared = 0
    /\ f \notin Held
    /\ Len(conns) < MaxConnections
    /\ conns' = Append(conns, [fd |-> f, worker |-> 1, state |-> "accepted"])
    /\ compared' = 1
    /\ even' = (even /\ In("queued") = {})
    /\ heirs' = IF ToClose(f) = {} THEN heirs ELSE heirs \cup {Len(conns) + 1}
    /\ UNCHANGED <<count, sessions, loggedIn>>

(* Mutant: the comparison is the other way round. *)
CompareReversed ==
    /\ compared \in 1 .. (NWorkers - 1)
    /\ \E i \in In("accepted") :
         conns' = [conns EXCEPT ![i].worker = IF count[compared + 1] > count[@]
                                              THEN compared + 1 ELSE @]
    /\ compared' = compared + 1
    /\ UNCHANGED <<count, sessions, loggedIn, heirs, even>>

(* ... takes the next one if it has fewer connections, ...                  *)
(* The two counts are read one after the other; what changes in between is  *)
(* one of the cases in which nothing is promised (even).                    *)
Compare ==
    /\ compared \in 1 .. (NWorkers - 1)
    /\ \E i \in In("accepted") :
         conns' = [conns EXCEPT ![i].worker = IF count[compared + 1] < count[@]
                                              THEN compared + 1 ELSE @]
    /\ compared' = compared + 1
    /\ UNCHANGED <<count, sessions, loggedIn, heirs, even>>

(* ... and assign_connection posts start_session to the one that is left.   *)
Assign ==
    /\ compared = NWorkers
    /\ \E i \in In("accepted") : To(i, "queued")
    /\ compared' = 0
    /\ UNCHANGED <<count, sessions, loggedIn, heirs, even>>

-----------------------------------------------------------------------------
(* i's worker is not in the middle of closing a connection. *)
Free(i) == \A j \in In("ended") : conns[j].worker # conns[i].worker

NextQueued(i) ==
    /\ i \in In("queued")
    /\ \A j \in In("queued") : conns[j].worker = conns[i].worker => i <= j
    /\ Free(i)

(* start_session *)
Start(i) ==
    /\ NextQueued(i)
    /\ To(i, "open")
    /\ count' = [count EXCEPT ![conns[i].worker] = @ + 1]
    /\ UNCHANGED <<compared, sessions, loggedIn, heirs, even>>

(* Mutant: a connection that cannot be set up is counted. *)
StartFailsCounted(i) ==
    /\ NextQueued(i)
    /\ To(i, "failed")
    /\ even' = FALSE
    /\ count' = [count EXCEPT ![conns[i].worker] = @ + 1]
    /\ UNCHANGED <<compared, sessions, loggedIn, heirs>>

(* setup_server throws. *)
StartFails(i) ==
    /\ NextQueued(i)
    /\ To(i, "failed")
    /\ even' = FALSE
    /\ UNCHANGED <<compared, count, sessions, loggedIn, heirs>>

(* login or signup with the right credentials, of a session that is not     *)
(* authenticated.                                                           *)
Login(i) ==
    /\ i \in In("open")
    /\ Free(i)
    /\ conns[i].fd \notin sessions
    /\ sessions' = sessions \cup {conns[i].fd}
    /\ loggedIn' = loggedIn \cup {i}
    /\ UNCHANGED <<conns, compared, count, heirs, even>>

Logout(i) ==
    /\ i \in In("open")
    /\ Free(i)
    /\ conns[i].fd \in sessions
    /\ sessions' = sessions \ {conns[i].fd}
    /\ loggedIn' = loggedIn \ {i}
    /\ UNCHANGED <<conns, compared, count, heirs, even>>

(* The socket closes, with its descriptor; it has not emitted disconnected  *)
(* yet.                                                                     *)
EndSocket(i) ==
    /\ i \in In("open")
    /\ Free(i)
    /\ To(i, "ended")
    /\ even' = FALSE
    /\ UNCHANGED <<compared, count, sessions, loggedIn, heirs>>

(* Mutant: the session is not logged out. *)
CloseSessionOnly(i) ==
    /\ i \in In("ended")
    /\ To(i, "gone")
    /\ loggedIn' = loggedIn \ {i}
    /\ count' = [count EXCEPT ![conns[i].worker] = @ - 1]
    /\ UNCHANGED <<compared, sessions, heirs, even>>

(* close_session: the session is logged out if it is authenticated.         *)
CloseSession(i) ==
    /\ i \in In("ended")
    /\ To(i, "gone")
    /\ sessions' = sessions \ {conns[i].fd}
    /\ loggedIn' = loggedIn \ {i}
    /\ count' = [count EXCEPT ![conns[i].worker] = @ - 1]
    /\ UNCHANGED <<compared, heirs, even>>

Next ==
    \/ \E f \in Descriptors : Accept(f)
    \/ Compare
    \/ Assign
    \/ \E i \in DOMAIN conns :
         \/ Start(i) \/ StartFails(i) \/ Login(i) \/ Logout(i)
         \/ EndSocket(i) \/ CloseSession(i)

Spec == Init /\ [][Next]_vars

-----------------------------------------------------------------------------
States == {"accepted", "queued", "open", "failed", "ended", "gone"}

(* The counts are those of the sockets each worker has, and no more than    *)
(* one connection is being accepted.                                        *)
TypeOK ==
    /\ conns \in Seq([fd : Descriptors, worker : Workers, state : States])
    /\ compared \in 0 .. NWorkers
    /\ Cardinality(In("accepted")) = IF compared = 0 THEN 0 ELSE 1
    /\ \A w \in Workers :
         count[w] = Cardinality({i \in In("open") \cup In("ended") : conns[i].worker = w})
    /\ sessions \subseteq Descriptors
    /\ even \in BOOLEAN

(* A session is authenticated after its own connection has signed up or     *)
(* logged in, and not after it has logged out (identity_manager.h:4), for   *)
(* every connection but the heirs of a descriptor; and a heir is never in a *)
(* session it has not authenticated itself once the earlier ones of its     *)
(* descriptor have been closed.                                             *)
SessionsOwn ==
    \A i \in In("open") :
        /\ ToClose(conns[i].fd) = {} /\ conns[i].fd \in sessions => i \in loggedIn
        /\ i \notin heirs => ToClose(conns[i].fd) = {} /\ (i \in loggedIn => conns[i].fd \in sessions)

(* As long as no connection ends, and each comes in after the previous ones *)
(* were counted, the sockets are distributed uniformly among the threads    *)
(* (README, design choices), up to one.                                     *)
Balanced ==
    (even /\ In("queued") = {}) =>
        \A v, w \in Workers : count[v] <= count[w] + 1

(* What the code does not promise; the configurations next to this module   *)
(* show how it fails: the heir of a descriptor starts in the old session,   *)
(* and loses its own when the old one is closed.                            *)
SessionsAlwaysOwn == \A i \in In("open") : conns[i].fd \in sessions <=> i \in loggedIn
=============================================================================
