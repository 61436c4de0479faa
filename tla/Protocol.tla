------------------------------ MODULE Protocol ------------------------------
(***************************************************************************)
(* The protocol as documented: the states a session goes through and the   *)
(* requests that are legal in them (docs/plantuml/protocol.pu, the diagram *)
(* of docs/protocol.md).  Abstract specification: no sockets, no windows.  *)
(*                                                                         *)
(* DOCUMENT OPENED is a state of a document and not of the session ("more  *)
(* than one document can be opened with the same mechanism"), so opened    *)
(* documents are a set.  The diagram leaves out that a connection may end  *)
(* at any time: Hangup.                                                    *)
(***************************************************************************)
CONSTANTS
    Peers,          \* sessions
    Docs

VARIABLES
    state,          \* state of a session, as named in the diagram
    opened,         \* documents in state DOCUMENT OPENED
    operating       \* documents with an operation on its way

vars == <<state, opened, operating>>

NotAuthenticated == "NOT AUTHENTICATED"
ProfileRequested == "PROFILE REQUESTED"
IsAuthenticated == "AUTHENTICATED"
ListRequested == "DOCUMENT LIST REQUESTED"
DocumentRequested == "DOCUMENT REQUESTED"
UpdateRequested == "PROFILE UPDATE REQUESTED"

Init ==
    /\ state = [p \in Peers |-> NotAuthenticated]
    /\ opened = [p \in Peers |-> {}]
    /\ operating = [p \in Peers |-> {}]

Enter(p, from, to) ==
    /\ state[p] = from
    /\ state' = [state EXCEPT ![p] = to]

(* login, signup; profile, signup_ok or error *)
RequestProfile(p) ==
    Enter(p, NotAuthenticated, ProfileRequested) /\ UNCHANGED <<opened, operating>>
AnswerProfile(p) ==
    /\ \E to \in {IsAuthenticated, NotAuthenticated} : Enter(p, ProfileRequested, to)
    /\ UNCHANGED <<opened, operating>>

(* documents; profile; open or create *)
Request(p) ==
    /\ \E to \in {ListRequested, UpdateRequested, DocumentRequested} :
         Enter(p, IsAuthenticated, to)
    /\ UNCHANGED <<opened, operating>>

(* documents; profile_ok or error; error *)
Answer(p) ==
    /\ \E from \in {ListRequested, UpdateRequested, DocumentRequested} :
         Enter(p, from, IsAuthenticated)
    /\ UNCHANGED <<opened, operating>>

(* document *)
AnswerDocument(p, d) ==
    /\ Enter(p, DocumentRequested, IsAuthenticated)
    /\ d \notin opened[p]
    /\ opened' = [opened EXCEPT ![p] = @ \cup {d}]
    /\ UNCHANGED operating

(* close; insert, erase, cursor, format *)
Close(p, d) ==
    /\ d \in opened[p]
    /\ opened' = [opened EXCEPT ![p] = @ \ {d}]
    /\ UNCHANGED <<state, operating>>
Operate(p, d) ==
    /\ d \in opened[p]
    /\ operating' = [operating EXCEPT ![p] = @ \cup {d}]
    /\ UNCHANGED <<state, opened>>
Operated(p, d) ==
    /\ operating' = [operating EXCEPT ![p] = @ \ {d}]
    /\ UNCHANGED <<state, opened>>

(* What is on its way at a logout is still carried out. *)
Logout(p) ==
    /\ Enter(p, IsAuthenticated, NotAuthenticated)
    /\ opened' = [opened EXCEPT ![p] = {}]
    /\ UNCHANGED operating

Hangup(p) ==
    /\ state' = [state EXCEPT ![p] = NotAuthenticated]
    /\ opened' = [opened EXCEPT ![p] = {}]
    /\ operating' = [operating EXCEPT ![p] = {}]

Next == \E p \in Peers :
    \/ RequestProfile(p) \/ AnswerProfile(p) \/ Request(p) \/ Answer(p)
    \/ \E d \in Docs : AnswerDocument(p, d) \/ Close(p, d) \/ Operate(p, d) \/ Operated(p, d)
    \/ Logout(p) \/ Hangup(p)

Spec == Init /\ [][Next]_vars
=============================================================================
