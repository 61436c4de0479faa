---------------------------- MODULE Transactions ----------------------------
(***************************************************************************)
(* The database transactions behind a session's requests: signing up and   *)
(* logging in (src/src/server/identity_manager.cpp), creating a document   *)
(* and opening one by name or by its sharing link (document_manager.cpp),  *)
(* over the queries of src/src/database/database_utility_secret.cpp.       *)
(*                                                                         *)
(* Every session runs in a thread of its own.  A step is a query with the  *)
(* code around it, so that the queries of different sessions interleave.   *)
(* The database is InnoDB (database/sql/database_create.sql) and external: *)
(* a plain SELECT reads what was committed when the transaction first      *)
(* read; SELECT ... FOR UPDATE of a row that is not there locks the gap,   *)
(* which does not keep others from locking it too, but from inserting; one *)
(* of two transactions that wait for each other is rolled back.  Queries   *)
(* and commits may fail.                                                   *)
(***************************************************************************)
EXTENDS Naturals, FiniteSets

CONSTANTS
    Sessions,
    Users, NoUser,
    Docs, NoDoc,
    Owner           \* the user whose documents these are

ASSUME TransactionsAssumption ==
    /\ NoUser \notin Users
    /\ NoDoc \notin Docs
    /\ Owner \in [Docs -> Users]

VARIABLES
    users, documents,   \* committed rows of tables user and document
    sharings,           \* number of committed rows of table sharing
    session,            \* IdentityManager::sessions_
    opened,             \* documents a session has open: site_ids_
    usernames,          \* users with a site in a document in memory
    loaded,             \* documents in open_documents_
    stage,              \* the query a session's thread is about to make
    user, document,     \* parameters of the request
    profiles,           \* the profiles open_document has read
    unlucky,            \* history: sessions whose signup was not committed
    newcomers,          \* history: users who got a sharing of a document since it was
                        \* loaded or somebody began to load it
    undefined           \* the server has used an optional without value

tables == <<users, documents, sharings>>
memory == <<session, opened, usernames, loaded>>
request == <<user, document, profiles>>
history == <<unlucky, newcomers>>
vars == <<tables, memory, stage, request, history, undefined>>

Stages == {"idle", "signup insert", "signup commit", "create insert", "create commit",
           "link insert", "open", "open linked", "enter", "answer"}

(* Users a document is shared with. *)
Sharers(d) == {u \in Users : sharings[u][d] > 0}

Init ==
    /\ users = {} /\ documents = {}
    /\ sharings = [u \in Users |-> [d \in Docs |-> 0]]
    /\ session = [s \in Sessions |-> NoUser]
    /\ opened = [s \in Sessions |-> {}]
    /\ usernames = [d \in Docs |-> {}]
    /\ loaded = {}
    /\ stage = [s \in Sessions |-> "idle"]
    /\ user = [s \in Sessions |-> NoUser]
    /\ document = [s \in Sessions |-> NoDoc]
    /\ profiles = [s \in Sessions |-> {}]
    /\ unlucky = {}
    /\ newcomers = [d \in Docs |-> {}]
    /\ undefined = FALSE

-----------------------------------------------------------------------------
At(s, st) == ~undefined /\ stage[s] = st
Goto(s, st) == stage' = [stage EXCEPT ![s] = st]

(* Session s begins a request of user u on document d. *)
Begin(s, u, d) ==
    /\ At(s, "idle")
    /\ user' = [user EXCEPT ![s] = u]
    /\ document' = [document EXCEPT ![s] = d]

(* A row one session has inserted and not committed keeps others from       *)
(* locking or inserting it.                                                 *)
UserRowFree(s, u) == \A t \in Sessions \ {s} : ~(stage[t] = "signup commit" /\ user[t] = u)
DocumentRowFree(s, d) ==
    \A t \in Sessions \ {s} : ~(stage[t] = "create commit" /\ document[t] = d)

(* Another session has locked the gap of the row s wants to insert. *)
Gaps == {"signup insert", "create insert"}
OthersInGap(s) ==
    {t \in Sessions \ {s} : stage[t] = stage[s] /\ user[t] = user[s] /\ document[t] = document[s]}

(* Mutant: the session is authenticated before the profile is inserted. *)
SignupEarly(s, u) ==
    /\ Begin(s, u, NoDoc)
    /\ session[s] = NoUser
    /\ UserRowFree(s, u)
    /\ Goto(s, IF u \in users THEN "idle" ELSE "signup insert")
    /\ session' = [session EXCEPT ![s] = IF u \in users THEN @ ELSE u]
    /\ UNCHANGED <<tables, opened, usernames, loaded, profiles, history, undefined>>

(* signup(): SELECT ... FOR UPDATE; a name in use is refused. *)
Signup(s, u) ==
    /\ Begin(s, u, NoDoc)
    /\ session[s] = NoUser
    /\ UserRowFree(s, u)
    /\ Goto(s, IF u \in users THEN "idle" ELSE "signup insert")
    /\ UNCHANGED <<tables, memory, profiles, history, undefined>>

SignupInsert(s) ==
    /\ At(s, "signup insert")
    /\ OthersInGap(s) = {}
    /\ session' = [session EXCEPT ![s] = user[s]]
    /\ Goto(s, "signup commit")
    /\ UNCHANGED <<tables, opened, usernames, loaded, request, history, undefined>>

(* What commit() returns is not looked at. *)
SignupCommit(s) ==
    /\ At(s, "signup commit")
    /\ \/ users' = users \cup {user[s]} /\ UNCHANGED unlucky
       \/ unlucky' = unlucky \cup {s} /\ UNCHANGED users
    /\ Goto(s, "idle")
    /\ UNCHANGED <<documents, sharings, memory, request, newcomers, undefined>>

Login(s, u) ==
    /\ Begin(s, u, NoDoc)
    /\ session[s] = NoUser
    /\ session' = [session EXCEPT ![s] = IF u \in users THEN u ELSE @]
    /\ UNCHANGED <<tables, opened, usernames, loaded, stage, profiles, history, undefined>>

(* logout(), and close_session() when a connection ends. *)
EndSession(s) ==
    /\ At(s, "idle")
    /\ session[s] # NoUser
    /\ session' = [session EXCEPT ![s] = NoUser]
    /\ opened' = [opened EXCEPT ![s] = {}]
    /\ unlucky' = unlucky \ {s}
    /\ UNCHANGED <<tables, usernames, loaded, stage, request, newcomers, undefined>>

(* create_document(): SELECT ... FOR UPDATE; an existing name is refused. *)
Create(s, d) ==
    /\ Begin(s, session[s], d)
    /\ session[s] = Owner[d]
    /\ DocumentRowFree(s, d)
    /\ Goto(s, IF d \in documents THEN "idle" ELSE "create insert")
    /\ UNCHANGED <<tables, memory, profiles, history, undefined>>

(* Mutant: every query commits, as without transaction(). *)
CreateInsertAutocommit(s) ==
    /\ At(s, "create insert")
    /\ OthersInGap(s) = {}
    /\ user[s] \in users
    /\ documents' = documents \cup {document[s]}
    /\ Goto(s, "create commit")
    /\ UNCHANGED <<users, sharings, memory, request, history, undefined>>

(* Both rows; a foreign key wants the owner to be there. *)
CreateInsert(s) ==
    /\ At(s, "create insert")
    /\ OthersInGap(s) = {}
    /\ user[s] \in users
    /\ Goto(s, "create commit")
    /\ UNCHANGED <<tables, memory, request, history, undefined>>

Share(s) ==
    /\ sharings' = [sharings EXCEPT ![user[s]][document[s]] = @ + 1]
    /\ newcomers' = [newcomers EXCEPT ![document[s]] = @ \cup {user[s]}]

(* The document is opened whatever commit() returns. *)
CreateCommit(s) ==
    /\ At(s, "create commit")
    /\ \/ documents' = documents \cup {document[s]} /\ Share(s)
       \/ UNCHANGED <<documents, sharings, newcomers>>
    /\ Goto(s, "open")
    /\ UNCHANGED <<users, memory, request, unlucky, undefined>>

(* Mutant: a session that is not logged in may open documents. *)
OpenUnauthenticated(s, d) ==
    /\ Begin(s, session[s], d)
    /\ d \notin opened[s]
    /\ Goto(s, "open")
    /\ UNCHANGED <<tables, memory, profiles, history, undefined>>

(* open_document() by name: refused if open in this session. *)
Open(s, d) ==
    /\ Begin(s, session[s], d)
    /\ session[s] # NoUser
    /\ d \notin opened[s]
    /\ Goto(s, "open")
    /\ UNCHANGED <<tables, memory, profiles, history, undefined>>

(* open_document() by sharing link, which only a committed document has:    *)
(* what its sharings are is read once, and decides whether to insert one.   *)
Link(s, d) ==
    /\ Begin(s, session[s], d)
    /\ session[s] # NoUser
    /\ d \in documents
    /\ Goto(s, IF session[s] \in Sharers(d) THEN "open linked" ELSE "link insert")
    /\ UNCHANGED <<tables, memory, profiles, history, undefined>>

(* A foreign key wants the user to be there; no key keeps a second row out. *)
LinkInsert(s) ==
    /\ At(s, "link insert")
    /\ user[s] \in users
    /\ Share(s) \/ UNCHANGED <<sharings, newcomers>>
    /\ Goto(s, "open linked")
    /\ UNCHANGED <<users, documents, memory, request, unlucky, undefined>>

(* The document is in memory or will be. *)
InUse(d) == d \in loaded \/ \E s \in Sessions : stage[s] = "enter" /\ document[s] = d

Accessible(s) == document[s] \in documents /\ user[s] \in Sharers(document[s])

(* Mutant: the document is opened before it is known to be accessible.      *)
OpenReadNothing(s) ==
    /\ At(s, "open") \/ At(s, "open linked")
    /\ document[s] \notin opened[s]
    /\ profiles' = [profiles EXCEPT ![s] = Sharers(document[s])]
    /\ Goto(s, "enter")
    /\ UNCHANGED <<tables, memory, user, document, history, undefined>>

(* open_document() reads who may see the document.  By link, what it        *)
(* returns is taken for a value without a look (document_manager.cpp:132).  *)
OpenRead(s) ==
    /\ At(s, "open") \/ At(s, "open linked")
    /\ document[s] \notin opened[s]
    /\ IF Accessible(s)
       THEN /\ profiles' = [profiles EXCEPT ![s] = Sharers(document[s])]
            /\ newcomers' = [newcomers EXCEPT ![document[s]] =
                               IF InUse(document[s]) THEN @ ELSE {}]
            /\ Goto(s, "enter")
            /\ UNCHANGED undefined
       ELSE /\ Goto(s, "idle")
            /\ undefined' = (stage[s] = "open linked")
            /\ UNCHANGED <<profiles, newcomers>>
    /\ UNCHANGED <<tables, memory, user, document, unlucky>>

(* Mutant: a document is loaded without the users it is shared with. *)
EnterAlone(s) ==
    LET d == document[s] IN
    /\ At(s, "enter")
    /\ usernames' = [usernames EXCEPT ![d] = (IF d \in loaded THEN @ ELSE {}) \cup {user[s]}]
    /\ loaded' = loaded \cup {d}
    /\ opened' = [opened EXCEPT ![s] = @ \cup {d}]
    /\ Goto(s, "answer")
    /\ UNCHANGED <<tables, session, request, history, undefined>>

(* The manager's mutex is held: the document is loaded with a site for      *)
(* everybody it is shared with, unless it is in memory, and gets one more.  *)
Enter(s) ==
    LET d == document[s]
        present == IF d \in loaded THEN usernames[d] ELSE Sharers(d) IN
    /\ At(s, "enter")
    /\ usernames' = [usernames EXCEPT ![d] = present \cup {user[s]}]
    /\ loaded' = loaded \cup {d}
    /\ opened' = [opened EXCEPT ![s] = @ \cup {d}]
    /\ Goto(s, "answer")
    /\ UNCHANGED <<tables, session, request, history, undefined>>

(* The users of the answer are the profiles and who has a site now. *)
Answer(s) ==
    /\ At(s, "answer")
    /\ Goto(s, "idle")
    /\ UNCHANGED <<tables, memory, request, history, undefined>>

(* A query fails, a lock is waited for too long, a deadlock is broken, a    *)
(* constraint is violated, or the document is open in this session already: *)
(* DatabaseGuard rolls back and the client gets an error.                   *)
Fail(s) ==
    /\ ~undefined
    /\ stage[s] \in Gaps \cup {"link insert", "open", "open linked", "enter"}
    /\ Goto(s, "idle")
    /\ UNCHANGED <<tables, memory, request, history, undefined>>

Close(s, d) ==
    /\ At(s, "idle")
    /\ d \in opened[s]
    /\ opened' = [opened EXCEPT ![s] = @ \ {d}]
    /\ UNCHANGED <<tables, session, usernames, loaded, stage, request, history, undefined>>

(* The saver removes a document nobody has open. *)
Remove(d) ==
    /\ ~undefined
    /\ d \in loaded
    /\ \A s \in Sessions : d \notin opened[s]
    /\ loaded' = loaded \ {d}
    /\ UNCHANGED <<tables, session, opened, usernames, stage, request, history, undefined>>

(* The server ends and starts again; what was not committed is gone. *)
Crash ==
    /\ session' = [s \in Sessions |-> NoUser]
    /\ opened' = [s \in Sessions |-> {}]
    /\ usernames' = [d \in Docs |-> {}]
    /\ loaded' = {}
    /\ stage' = [s \in Sessions |-> "idle"]
    /\ unlucky' = {}
    /\ undefined' = FALSE
    /\ UNCHANGED <<tables, request, newcomers>>

-----------------------------------------------------------------------------
Requests(s) ==
    \/ \E u \in Users : Signup(s, u) \/ Login(s, u)
    \/ \E d \in Docs : Create(s, d) \/ Open(s, d) \/ Link(s, d) \/ Close(s, d)
    \/ EndSession(s)

Queries(s) ==
    \/ SignupInsert(s) \/ SignupCommit(s) \/ CreateInsert(s) \/ CreateCommit(s)
    \/ LinkInsert(s) \/ OpenRead(s) \/ Enter(s) \/ Answer(s) \/ Fail(s)

Next ==
    \/ \E s \in Sessions : Requests(s) \/ Queries(s)
    \/ \E d \in Docs : Remove(d)
    \/ Crash

Spec == Init /\ [][Next]_vars

-----------------------------------------------------------------------------
TypeOK ==
    /\ users \subseteq Users /\ documents \subseteq Docs
    /\ sharings \in [Users -> [Docs -> Nat]]
    /\ session \in [Sessions -> Users \cup {NoUser}]
    /\ opened \in [Sessions -> SUBSET Docs]
    /\ usernames \in [Docs -> SUBSET Users]
    /\ loaded \subseteq Docs
    /\ stage \in [Sessions -> Stages]
    /\ user \in [Sessions -> Users \cup {NoUser}]
    /\ document \in [Sessions -> Docs \cup {NoDoc}]
    /\ profiles \in [Sessions -> SUBSET Users]
    /\ \A s \in Sessions : stage[s] # "idle" => user[s] \in Users
    /\ \A s \in Sessions :
         stage[s] \notin {"idle", "signup insert", "signup commit"} => document[s] \in Docs
    /\ unlucky \subseteq Sessions
    /\ newcomers \in [Docs -> SUBSET Users]
    /\ undefined \in BOOLEAN

(* A session that is logged in belongs to a user of the database, crashes   *)
(* and failed queries included, unless its own signup could not be          *)
(* committed (identity_manager.cpp:43-48); and, which the code does not     *)
(* keep, always.                                                            *)
Known(s) == session[s] # NoUser /\ stage[s] # "signup commit" => session[s] \in users
SessionsHaveUsers == \A s \in Sessions \ unlucky : Known(s)
SessionsAlwaysHaveUsers == \A s \in Sessions : Known(s)

(* A document is never in the database without its owner's sharing, with    *)
(* which alone it can be found again (document_manager.cpp:27-40).          *)
CreatedIsShared == \A d \in documents : sharings[Owner[d]][d] > 0

(* Whoever has a document open has a committed sharing of it, whatever      *)
(* failed on the way (document_manager.cpp:80).                             *)
OpenersShare ==
    \A s \in Sessions : \A d \in opened[s] : d \in documents /\ session[s] \in Sharers(d)

(* Everybody who can be the author of a character when a document is saved  *)
(* is a user of the database it is shared with.                             *)
MembersShare == \A d \in loaded : usernames[d] \subseteq Sharers(d) \cap users

(* Whatever relies on a sharing finds it in the database: the owner's, to   *)
(* find the document again, that of a session in the document, and those of *)
(* its authors.                                                             *)
SharingsHold == CreatedIsShared /\ OpenersShare /\ MembersShare

(* What the server answers to an open is read in parts                      *)
(* (document_manager.cpp:93-100), and its parts speak of the same users     *)
(* except for those who came in by a sharing link since the document was    *)
(* loaded or while it was.                                                  *)
OnlyNewcomersDiffer ==
    \A s \in Sessions : stage[s] = "answer" =>
        LET d == document[s] IN
        /\ profiles[s] \subseteq usernames[d] \cup newcomers[d]
        /\ usernames[d] \subseteq profiles[s] \cup newcomers[d]

(* ... which the code does not keep in general: whoever is in the answer    *)
(* has a site (client/user.cpp:13 takes the smallest one),                  *)
UsersHaveSites ==
    \A s \in Sessions : stage[s] = "answer" => profiles[s] \subseteq usernames[document[s]]

(* whoever has a site has a profile (otherwise document_manager.cpp:99      *)
(* makes an empty one),                                                     *)
SitesHaveProfiles ==
    \A s \in Sessions : stage[s] = "answer" => usernames[document[s]] \subseteq profiles[s]

(* and nobody has two sharings of a document (docs/database.md, "Sharing",  *)
(* where user and document are the key).                                    *)
NoSharingTwice == \A u \in Users, d \in Docs : sharings[u][d] <= 1

(* The server does not use an optional that has no value. *)
Defined == ~undefined
=============================================================================
