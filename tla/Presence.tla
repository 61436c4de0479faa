------------------------------ MODULE Presence ------------------------------
(***************************************************************************)
(* Who is seen in a document: sites are opened, moved and closed while     *)
(* others open the same document through other worker threads              *)
(* (open_document, close_document, move_cursor, close_session and          *)
(* dispatch_message of src/src/server/worker.cpp, open, close and          *)
(* move_cursor of OpenDocument, the constructor and remote_open,           *)
(* remote_close and remote_cursor_move of src/src/client/editor.cpp over   *)
(* User).                                                                  *)
(*                                                                         *)
(* One document that stays in memory.  A move stands for every message     *)
(* that moves a remote cursor: cursor, insert and erase.  A worker serves  *)
(* a request, writes to its own clients and then posts to the others, as   *)
(* in EditingSession.  A user may have several clients, and may come to    *)
(* the document by its link.                                               *)
(*                                                                         *)
(* An open is five steps of its worker, each under a lock or transaction   *)
(* of its own, between which other workers serve their clients: the user   *)
(* joins, the profiles are read, the site is registered, the users of the  *)
(* sites are read, and the cursors.  So the document an editor is built    *)
(* from may not fit together (Complete).  Queries and the load succeed:    *)
(* failing ones are in Transactions and DocumentManager.                   *)
(***************************************************************************)
EXTENDS Naturals, FiniteSets, SequencesExt

CONSTANTS
    Clients,
    Users,
    UserOf,         \* who is logged in at each client
    Authors,        \* users the document was shared with when it was loaded,
                    \* in the order of their sites
    NWorkers,       \* n_workers
    WorkerOf,       \* the worker each client's connection belongs to
    Frail,          \* bound: clients whose connection may end
    MaxSites,       \* bound: times the document is opened by all the clients
    MaxMoves        \* bound: cursor moves of each client

ASSUME PresenceAssumption ==
    /\ UserOf \in [Clients -> Users]
    /\ Authors \in Seq(Users)
    /\ NWorkers \in Nat \ {0}
    /\ WorkerOf \in [Clients -> 1 .. NWorkers]
    /\ Frail \subseteq Clients
    /\ MaxSites \in Nat
    /\ MaxMoves \in [Clients -> Nat]

Workers == 1 .. NWorkers

VARIABLES
    members,    \* database: users the document is shared with
    usernames,  \* server: usernames_, the user of every site so far,
    cursors,    \* keys of cursors_,
    sites,      \* site_ids_ of each client's session,
    opening,    \* how far a worker is with the open of each client,
    editing,    \* the workers' editing_clients
    up, down,   \* messages between a client and its worker
    queue,      \* dispatch_message calls posted to each worker
    posting,    \* posts a worker still has to make for its current request
    window,     \* client: "closed", "asked" or "shown",
    mySite,     \* local_site_id_,
    known,      \* site_id_users_,
    shown,      \* remote_cursors_: a User, and a site it has a cursor of,
    online,     \* Users with online_,
    lost,       \* what the client missed when it did something undefined
    moves       \* number of moves so far

docVars == <<members, usernames, cursors, sites, opening>>
clientVars == <<window, mySite, known, shown, online, lost>>
vars == <<docVars, editing, up, down, queue, posting, clientVars, moves>>

-----------------------------------------------------------------------------
NoSite == 0             \* sites are counted from 1 here
NextSite == Len(usernames) + 1      \* next_site_id_
Nothing == "nothing"

Plain(type) == [type |-> type]
About(type, s) == [type |-> type, site |-> s]
Opened(s, u) == [type |-> "opened", site |-> s, user |-> u]
DocumentInfo(s, ps, us, cs) ==
    [type |-> "document", site |-> s, profiles |-> ps, users |-> us, cursors |-> cs]

(* A User of an editor: that of user u, or what stands for u when the       *)
(* document came without its profile, a User with an empty name.            *)
User(u) == [user |-> u, named |-> TRUE]
Nameless(u) == [user |-> u, named |-> FALSE]

Opening(at, ps, us) == [at |-> at, profiles |-> ps, users |-> us]
NotOpening == Opening("no", {}, << >>)

Init ==
    /\ members = ToSet(Authors)
    /\ usernames = Authors
    /\ cursors = {}
    /\ sites = [c \in Clients |-> NoSite]
    /\ opening = [c \in Clients |-> NotOpening]
    /\ editing = {}
    /\ up = [c \in Clients |-> << >>]
    /\ down = [c \in Clients |-> << >>]
    /\ queue = [w \in Workers |-> << >>]
    /\ posting = [w \in Workers |-> << >>]
    /\ window = [c \in Clients |-> "closed"]
    /\ mySite = [c \in Clients |-> NoSite]
    /\ known = [c \in Clients |-> << >>]
    /\ shown = [c \in Clients |-> {}]
    /\ online = [c \in Clients |-> {}]
    /\ lost = [c \in Clients |-> Nothing]
    /\ moves = [c \in Clients |-> 0]

-----------------------------------------------------------------------------
Running(c) == lost[c] = Nothing
Send(c, m) == up' = [up EXCEPT ![c] = Append(@, m)]

(* Sites given out, and asked for by messages on their way or being served. *)
Openings ==
    Len(usernames) - Len(Authors)
        + Cardinality({c \in Clients : \/ Plain("open") \in ToSet(up[c])
                                       \/ opening[c].at \in {"joined", "profiles"}})

AskToOpen(c) ==
    /\ Running(c)
    /\ window[c] = "closed"
    /\ Openings < MaxSites
    /\ window' = [window EXCEPT ![c] = "asked"]
    /\ Send(c, Plain("open"))
    /\ UNCHANGED <<docVars, editing, down, queue, posting, mySite, known, shown, online, lost, moves>>

MoveCursor(c) ==
    /\ Running(c)
    /\ window[c] = "shown"
    /\ moves[c] < MaxMoves[c]
    /\ moves' = [moves EXCEPT ![c] = @ + 1]
    /\ Send(c, Plain("move"))
    /\ UNCHANGED <<docVars, editing, down, queue, posting, clientVars>>

NoWindow(c) ==
    /\ window' = [window EXCEPT ![c] = "closed"]
    /\ mySite' = [mySite EXCEPT ![c] = NoSite]
    /\ known' = [known EXCEPT ![c] = << >>]
    /\ shown' = [shown EXCEPT ![c] = {}]
    /\ online' = [online EXCEPT ![c] = {}]

CloseWindow(c) ==
    /\ Running(c)
    /\ window[c] = "shown"
    /\ NoWindow(c)
    /\ Send(c, Plain("close"))
    /\ UNCHANGED <<docVars, editing, down, queue, posting, lost, moves>>

(* The client program or its connection ends; the server gets what was sent *)
(* before, or less of it, and the end of the connection.                    *)
Vanish(c) ==
    /\ c \in Frail
    /\ window[c] # "closed"
    /\ NoWindow(c)
    /\ lost' = [lost EXCEPT ![c] = "connection"]
    /\ down' = [down EXCEPT ![c] = << >>]
    /\ \E n \in 0 .. Len(up[c]) :
         up' = [up EXCEPT ![c] = Append(SubSeq(@, 1, n), Plain("hangup"))]
    /\ UNCHANGED <<docVars, editing, queue, posting, moves>>

-----------------------------------------------------------------------------
(* dispatch_message by worker w, its clients being those in ed. *)
Written(d, ed, w, source, m) ==
    [c \in Clients |-> IF c \in ed \ {source} /\ WorkerOf[c] = w /\ lost[c] # "connection"
                       THEN Append(d[c], m) ELSE d[c]]

(* Mutant: the other workers are not told. *)
NoPosts(w, source, m) == << >>

(* The posts of new_message to the other workers, in order. *)
Posts(w, source, m) ==
    [i \in 1 .. (NWorkers - 1) |->
        [to |-> IF i < w THEN i ELSE i + 1, source |-> source, message |-> m]]

(* A worker is in no handler. *)
Free(w) ==
    /\ posting[w] = << >>
    /\ \A c \in Clients : WorkerOf[c] = w => opening[c] = NotOpening

Serving(c, type) ==
    /\ Free(WorkerOf[c])
    /\ up[c] # << >>
    /\ Head(up[c]) = Plain(type)
    /\ up' = [up EXCEPT ![c] = Tail(@)]

(* c's worker relays message m and writes first to c: answers. *)
Relay(c, ed, answers, m) ==
    LET w == WorkerOf[c]
        answered == [down EXCEPT ![c] = IF lost[c] = "connection" THEN @ ELSE @ \o answers]
    IN  /\ down' = Written(answered, ed, w, c, m)
        /\ posting' = [posting EXCEPT ![w] = Posts(w, c, m)]

(* open_document: the sharing of a user who comes by the link is committed  *)
(* first.                                                                   *)
ServeOpen(c) ==
    /\ Serving(c, "open")
    /\ members' = members \cup {UserOf[c]}
    /\ opening' = [opening EXCEPT ![c] = Opening("joined", {}, << >>)]
    /\ UNCHANGED <<usernames, cursors, sites, editing, down, queue, posting, clientVars, moves>>

(* The transaction that checks the access. *)
ReadProfiles(c) ==
    /\ opening[c].at = "joined"
    /\ opening' = [opening EXCEPT ![c] = Opening("profiles", members, << >>)]
    /\ UNCHANGED <<members, usernames, cursors, sites, editing, up, down, queue, posting,
                   clientVars, moves>>

(* OpenDocument::open, under the manager's mutex. *)
Register(c) ==
    /\ opening[c].at = "profiles"
    /\ usernames' = Append(usernames, UserOf[c])
    /\ cursors' = cursors \cup {NextSite}
    /\ sites' = [sites EXCEPT ![c] = NextSite]
    /\ opening' = [opening EXCEPT ![c] = Opening("registered", @.profiles, << >>)]
    /\ UNCHANGED <<members, editing, up, down, queue, posting, clientVars, moves>>

(* The users of all the sites there ever were. *)
ReadUsernames(c) ==
    /\ opening[c].at = "registered"
    /\ opening' = [opening EXCEPT ![c] = Opening("usernames", @.profiles, usernames)]
    /\ UNCHANGED <<members, usernames, cursors, sites, editing, up, down, queue, posting,
                   clientVars, moves>>

(* The cursors are read; then the session is registered for the messages to *)
(* come, and the open is relayed.                                           *)
Answer(c) ==
    /\ opening[c].at = "usernames"
    /\ opening' = [opening EXCEPT ![c] = NotOpening]
    /\ editing' = editing \cup {c}
    /\ Relay(c, editing',
             <<DocumentInfo(sites[c], opening[c].profiles, opening[c].users, cursors)>>,
             Opened(sites[c], UserOf[c]))
    /\ UNCHANGED <<members, usernames, cursors, sites, up, queue, clientVars, moves>>

ServeMove(c) ==
    /\ Serving(c, "move")
    /\ cursors' = cursors \cup {sites[c]}
    /\ Relay(c, editing, << >>, About("moved", sites[c]))
    /\ UNCHANGED <<members, usernames, sites, opening, editing, queue, clientVars, moves>>

(* Mutant: the cursor is left behind. *)
LeaveCursor(c) ==
    /\ sites' = [sites EXCEPT ![c] = NoSite]
    /\ editing' = editing \ {c}
    /\ Relay(c, editing', << >>, About("closed", sites[c]))
    /\ UNCHANGED <<members, usernames, cursors, opening>>

(* Mutant: the session is closed and its worker goes on writing to it. *)
LeaveStillEditing(c) ==
    /\ cursors' = cursors \ {sites[c]}
    /\ sites' = [sites EXCEPT ![c] = NoSite]
    /\ editing' = editing
    /\ Relay(c, editing', << >>, About("closed", sites[c]))
    /\ UNCHANGED <<members, usernames, opening>>

(* close_document *)
Leave(c) ==
    /\ cursors' = cursors \ {sites[c]}
    /\ sites' = [sites EXCEPT ![c] = NoSite]
    /\ editing' = editing \ {c}
    /\ Relay(c, editing', << >>, About("closed", sites[c]))
    /\ UNCHANGED <<members, usernames, opening>>

ServeClose(c) ==
    /\ Serving(c, "close")
    /\ Leave(c)
    /\ UNCHANGED <<queue, clientVars, moves>>

(* close_session closes the documents the session has open. *)
ServeHangup(c) ==
    /\ Serving(c, "hangup")
    /\ IF sites[c] # NoSite THEN Leave(c)
       ELSE UNCHANGED <<docVars, editing, down, posting>>
    /\ UNCHANGED <<queue, clientVars, moves>>

PostNext(w) ==
    /\ posting[w] # << >>
    /\ LET p == Head(posting[w]) IN
         queue' = [queue EXCEPT ![p.to] = Append(@, [source |-> p.source, message |-> p.message])]
    /\ posting' = [posting EXCEPT ![w] = Tail(@)]
    /\ UNCHANGED <<docVars, editing, up, down, clientVars, moves>>

Dispatch(w) ==
    /\ Free(w)
    /\ queue[w] # << >>
    /\ down' = Written(down, editing, w, Head(queue[w]).source, Head(queue[w]).message)
    /\ queue' = [queue EXCEPT ![w] = Tail(@)]
    /\ UNCHANGED <<docVars, editing, up, posting, clientVars, moves>>

-----------------------------------------------------------------------------
(* The next message to client c, and what it needs: it is lost otherwise.   *)
Receive(c, type) ==
    /\ Running(c)
    /\ down[c] # << >>
    /\ Head(down[c]).type = type
    /\ down' = [down EXCEPT ![c] = Tail(@)]

(* What an editor needs of a document: every user has a site, of which its  *)
(* colour is made, and every cursor is that of a user's site.               *)
Complete(m) ==
    /\ m.profiles \subseteq ToSet(m.users)
    /\ m.cursors \subseteq DOMAIN m.users

(* The user of each site: without its name if its profile was not read.     *)
UsersOf(m) ==
    [s \in DOMAIN m.users |->
        IF m.users[s] \in m.profiles THEN User(m.users[s]) ELSE Nameless(m.users[s])]

(* The constructor of Editor: a user is online if a cursor is added for it, *)
(* and the local one always.                                                *)
NewEditor(c) ==
    /\ Receive(c, "document")
    /\ Complete(Head(down[c]))
    /\ LET m == Head(down[c])
           users == UsersOf(m)
       IN  /\ mySite' = [mySite EXCEPT ![c] = m.site]
           /\ known' = [known EXCEPT ![c] = users]
           /\ shown' = [shown EXCEPT ![c] = {<<users[s], s>> : s \in m.cursors \ {m.site}}]
           /\ online' = [online EXCEPT ![c] = {users[s] : s \in m.cursors}]
    /\ window' = [window EXCEPT ![c] = "shown"]
    /\ UNCHANGED <<docVars, editing, up, queue, posting, lost, moves>>

(* It takes the least of no sites, or the user of a site that has none.     *)
BadDocument(c) ==
    /\ Receive(c, "document")
    /\ ~Complete(Head(down[c]))
    /\ lost' = [lost EXCEPT ![c] = "document"]
    /\ UNCHANGED <<docVars, editing, up, queue, posting, window, mySite, known, shown, online, moves>>

(* There is no editor for the message. *)
NoEditor(c) ==
    /\ \E type \in {"opened", "moved", "closed"} : Receive(c, type)
    /\ window[c] # "shown"
    /\ lost' = [lost EXCEPT ![c] = "editor"]
    /\ UNCHANGED <<docVars, editing, up, queue, posting, window, mySite, known, shown, online, moves>>

(* Mutant: the new site is not mapped to its user. *)
RemoteOpenUnmapped(c) ==
    /\ Receive(c, "opened")
    /\ window[c] = "shown"
    /\ LET m == Head(down[c]) IN
         /\ shown' = [shown EXCEPT ![c] = @ \cup {<<User(m.user), m.site>>}]
         /\ online' = [online EXCEPT ![c] = @ \cup {User(m.user)}]
    /\ UNCHANGED <<docVars, editing, up, queue, posting, window, mySite, known, lost, moves>>

(* site_id_users_[s] = u; an earlier User of s keeps its cursor. *)
Mapped(users, s, u) == [x \in DOMAIN users \cup {s} |-> IF x = s THEN u ELSE users[x]]

(* remote_open *)
RemoteOpen(c) ==
    /\ Receive(c, "opened")
    /\ window[c] = "shown"
    /\ LET m == Head(down[c]) IN
         /\ known' = [known EXCEPT ![c] = Mapped(@, m.site, User(m.user))]
         /\ shown' = [shown EXCEPT ![c] = @ \cup {<<User(m.user), m.site>>}]
         /\ online' = [online EXCEPT ![c] = @ \cup {User(m.user)}]
    /\ UNCHANGED <<docVars, editing, up, queue, posting, window, mySite, lost, moves>>

(* Mutant: a user's other sites are forgotten. *)
StillOnlineIfLocal(c, u, others) == u = User(UserOf[c])

(* remove_remote_cursor: whether the User u stays online in c's editor,     *)
(* which keeps the cursors others.                                          *)
StillOnline(c, u, others) == u = User(UserOf[c]) \/ \E p \in others : p[1] = u

(* remote_close: the user is looked up, then its cursor is removed. *)
RemoteClose(c) ==
    /\ Receive(c, "closed")
    /\ window[c] = "shown"
    /\ LET s == Head(down[c]).site IN
         IF s \in DOMAIN known[c]
         THEN LET u == known[c][s]
                  others == shown[c] \ {<<u, s>>}
              IN  /\ shown' = [shown EXCEPT ![c] = others]
                  /\ online' = [online EXCEPT ![c] =
                                   IF StillOnline(c, u, others) THEN @ ELSE @ \ {u}]
                  /\ UNCHANGED lost
         ELSE /\ lost' = [lost EXCEPT ![c] = "user"]
              /\ UNCHANGED <<shown, online>>
    /\ UNCHANGED <<docVars, editing, up, queue, posting, window, mySite, known, moves>>

(* remote_cursor_move: the user, then its cursor. *)
RemoteMove(c) ==
    /\ Receive(c, "moved")
    /\ window[c] = "shown"
    /\ LET s == Head(down[c]).site IN
         lost' = IF s \notin DOMAIN known[c] THEN [lost EXCEPT ![c] = "user"]
                 ELSE IF <<known[c][s], s>> \notin shown[c] THEN [lost EXCEPT ![c] = "cursor"]
                 ELSE lost
    /\ UNCHANGED <<docVars, editing, up, queue, posting, window, mySite, known, shown, online, moves>>

-----------------------------------------------------------------------------
ClientHandles(c) ==
    \/ NewEditor(c) \/ BadDocument(c) \/ NoEditor(c)
    \/ RemoteOpen(c) \/ RemoteClose(c) \/ RemoteMove(c)
OpenStep(c) == ReadProfiles(c) \/ Register(c) \/ ReadUsernames(c) \/ Answer(c)
Serve(c) ==
    ServeOpen(c) \/ OpenStep(c) \/ ServeMove(c) \/ ServeClose(c) \/ ServeHangup(c)

Next ==
    \/ \E c \in Clients :
         \/ AskToOpen(c) \/ MoveCursor(c) \/ CloseWindow(c) \/ Vanish(c)
         \/ Serve(c) \/ ClientHandles(c)
    \/ \E w \in Workers : PostNext(w) \/ Dispatch(w)

Spec == Init /\ [][Next]_vars

-----------------------------------------------------------------------------
Site == 0 .. (Len(Authors) + MaxSites)
Stages == {"no", "joined", "profiles", "registered", "usernames"}
Named(x) == x.named

TypeOK ==
    /\ ToSet(Authors) \subseteq members /\ members \subseteq Users
    /\ usernames \in Seq(Users) /\ Len(usernames) \in Site
    /\ ToSet(usernames) \subseteq members
    /\ cursors \subseteq Site
    /\ sites \in [Clients -> Site] /\ mySite \in [Clients -> Site]
    /\ \A c \in Clients : opening[c].at \in Stages /\ opening[c].profiles \subseteq members
    /\ editing = {c \in Clients : sites[c] # NoSite /\ opening[c].at = "no"}
    /\ \A c \in Clients : \A s \in DOMAIN known[c] :
         known[c][s] \in {User(usernames[s]), Nameless(usernames[s])}
    /\ \A c \in Clients : \A p \in shown[c] : p[1].user \in Users /\ p[2] \in Site
    /\ \A c \in Clients : \A x \in online[c] : x.user \in Users
    /\ lost \in [Clients -> {Nothing, "connection", "document", "editor", "user", "cursor"}]

Quiescent ==
    /\ \A c \in Clients : up[c] = << >> /\ (Running(c) => down[c] = << >>)
    /\ \A c \in Clients : opening[c] = NotOpening
    /\ \A w \in Workers : queue[w] = << >> /\ posting[w] = << >>

(* When every message has been handled, each editor that could be built     *)
(* from its document shows a cursor under its user's name for exactly the   *)
(* other sites that have the document open, its own site is one the server  *)
(* knows, and of the users by name these sites' are online and nobody else  *)
(* (README, "Client shows number and identity of users editing a document", *)
(* "List of both online and offline users"), whoever opened, joined, closed *)
(* or vanished meanwhile, and whatever the document left out.               *)
UsersAgree ==
    Quiescent => \A c \in Clients : (Running(c) /\ window[c] = "shown") =>
        /\ mySite[c] = sites[c]
        /\ {p \in shown[c] : Named(p[1])} = {<<User(UserOf[e]), sites[e]>> : e \in editing \ {c}}
        /\ {x \in online[c] : Named(x)} = {User(UserOf[e]) : e \in editing}

(* Whoever is named in a message to an editor is known to it: a site the    *)
(* document left out opens before what it does next.                        *)
UsersKnown == \A c \in Clients : lost[c] # "user"

(* A site a session has given up never comes back, and no other has a       *)
(* cursor: nobody is seen in the document forever.                          *)
NoGhosts == cursors = {sites[c] : c \in Clients} \ {NoSite}

(* What the code does not promise; the configurations next to this module   *)
(* show how it fails.                                                       *)
(*                                                                          *)
(* An editor never moves the cursor of a site it has no cursor for.         *)
CursorsKnown == \A c \in Clients : lost[c] # "cursor"

(* Users and cursors of a document fit together. *)
DocumentsComplete == \A c \in Clients : lost[c] # "document"

(* At rest nobody is online without a name. *)
NobodyNameless ==
    Quiescent => \A c \in Clients : Running(c) => \A x \in online[c] : Named(x)
=============================================================================
