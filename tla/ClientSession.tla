--------------------------- MODULE ClientSession ---------------------------
(***************************************************************************)
(* What the windows of a client show and what the server believes of its   *)
(* session: the forms, the home and the editors (src/src/client/           *)
(* worker_ui.cpp, login_form.cpp, signup_form.cpp, home.cpp), the sockets, *)
(* and Worker::serve_request over IdentityManager and DocumentManager      *)
(* (src/src/server/worker.cpp, identity_manager.cpp, document_manager.cpp).*)
(*                                                                         *)
(* A request is served in one step, and relayed to the other clients that  *)
(* have the document open in the same step; EditingSession and Presence    *)
(* have the relays between workers.  An edit stands for insert, erase,     *)
(* cursor and format, which the client and the server dispatch alike.      *)
(* Passwords are right or wrong; a profile is a username and a face, which  *)
(* stands for the name, the surname, the email and the icon.               *)
(***************************************************************************)
EXTENDS Naturals, FiniteSets, SequencesExt

CONSTANTS
    Clients,        \* client programs; bound: one connection each at a time
    Users,          \* usernames
    NoUser,
    Names,          \* names users give to their documents
    Accounts,       \* users that have an account at the beginning
    Stored,         \* documents that exist at the beginning
    Patient,        \* clients whose user waits for the answer to a request
                    \* before opening, creating, logging out, saving a profile
    Faces, NoFace,  \* what a profile shows of a user
    OldFace,        \* the face of every user at the beginning
    Invalid,        \* faces the profile dialog refuses
    MaxRequests     \* bound: clicks of the user of each client

Document(u, n) == [owner |-> u, name |-> n]
Docs == [owner : Users, name : Names]

ASSUME SessionAssumption ==
    /\ IsFiniteSet(Docs)
    /\ NoUser \notin Users
    /\ Accounts \subseteq Users
    /\ Stored \subseteq Docs
    /\ Patient \subseteq Clients
    /\ NoFace \notin Faces
    /\ OldFace \in Faces \ Invalid
    /\ MaxRequests \in [Clients -> Nat]

VARIABLES
    screen,         \* the visible window of a client: a form or the home
    ready,          \* whether the visible form can be clicked
    me,             \* the profile the home shows
    dialog,         \* the profile dialog and the profile in it
    listed,         \* documents the home lists
    editors,        \* keys of editors_ that have a window
    broken,         \* the client has used the editor of a document it has not open
    clicks,         \* number of clicks so far
    up, down,       \* messages between a client and its worker
    session,        \* IdentityManager::sessions_
    opened,         \* documents the session has open at the server
    badClients,     \* history: clients whose request made the server throw
    stale,          \* history: clients whose user saved another profile from
                    \* another client since they logged in
    accounts,       \* database: the users,
    faces,          \* their profiles,
    documents,      \* the documents
    sharings        \* and who may open them besides the owner

windowVars == <<screen, ready, me, listed, editors>>
uiVars == <<windowVars, dialog, broken>>
dbVars == <<accounts, faces, documents, sharings>>
serverVars == <<session, opened, badClients, stale, dbVars>>
vars == <<uiVars, clicks, up, down, serverVars>>

-----------------------------------------------------------------------------
Profile(u, f) == [user |-> u, face |-> f]
NoProfile == Profile(NoUser, NoFace)
NoDialog == [state |-> "none", profile |-> NoProfile]

Login(u, right) == [type |-> "login", user |-> u, right |-> right]
Signup(p) == [type |-> "signup", profile |-> p]
Update(p) == [type |-> "profile_update", profile |-> p]
On(type, d) == [type |-> type, document |-> d]
Create(n) == [type |-> "create", name |-> n]
Plain(type) == [type |-> type]
Documents(ds) == [type |-> "documents", list |-> ds]
ProfileOf(p) == [type |-> "profile", profile |-> p]

Forms == {"login", "signup"}
Offline(c) == screen[c] = "connection"

(* Requests the server answers, and its answers. *)
Answered == {"login", "signup", "profile_update", "documents_request", "create", "open", "link"}
Answers == {"error", "profile", "signup_ok", "profile_ok", "documents", "document"}
Waiting(c) ==
    \/ \E i \in DOMAIN up[c] : up[c][i].type \in Answered
    \/ \E i \in DOMAIN down[c] : down[c][i].type \in Answers

Init ==
    /\ screen = [c \in Clients |-> "connection"]
    /\ ready = [c \in Clients |-> FALSE]
    /\ me = [c \in Clients |-> NoProfile]
    /\ dialog = [c \in Clients |-> NoDialog]
    /\ listed = [c \in Clients |-> {}]
    /\ editors = [c \in Clients |-> {}]
    /\ broken = [c \in Clients |-> FALSE]
    /\ clicks = [c \in Clients |-> 0]
    /\ up = [c \in Clients |-> << >>]
    /\ down = [c \in Clients |-> << >>]
    /\ session = [c \in Clients |-> NoUser]
    /\ opened = [c \in Clients |-> {}]
    /\ badClients = {}
    /\ stale = {}
    /\ accounts = Accounts
    /\ faces = [u \in Users |-> OldFace]
    /\ documents = Stored
    /\ sharings = {}

-----------------------------------------------------------------------------
(* The user of client c does something in a window. *)
Counted(c) ==
    /\ ~broken[c]
    /\ clicks[c] < MaxRequests[c]
    /\ clicks' = [clicks EXCEPT ![c] = @ + 1]

(* The profile dialog is modal: while it is shown no other window answers. *)
Modal(c) == dialog[c].state = "shown"

(* A click in the form or the home w. *)
Click(c, w) ==
    /\ Counted(c)
    /\ screen[c] = w
    /\ ~Modal(c)

(* A click that a patient user keeps until the last answer has come. *)
Considered(c) == c \in Patient => ~Waiting(c)

Send(c, m) == up' = [up EXCEPT ![c] = Append(@, m)]

(* show_initial_form and what its callers do: the editors are closed, the   *)
(* home is cleared and hidden, form w is shown.  A dialog that is shown     *)
(* stays: it is a window of its own.                                        *)
ShowForm(c, w) ==
    /\ screen' = [screen EXCEPT ![c] = w]
    /\ ready' = [ready EXCEPT ![c] = TRUE]
    /\ me' = [me EXCEPT ![c] = NoProfile]
    /\ listed' = [listed EXCEPT ![c] = {}]
    /\ editors' = [editors EXCEPT ![c] = {}]

(* connection_request, then the socket's connected signal.  The guard on the *)
(* channels is not the code's but a bound: one connection at a time.         *)
(* While the server still works on an old connection, a new one is that of   *)
(* another client, in its own session, of the same user or another.          *)
Connect(c) ==
    /\ Click(c, "connection")
    /\ up[c] = << >> /\ down[c] = << >>
    /\ ShowForm(c, "login")
    /\ UNCHANGED <<dialog, broken, up, down, serverVars>>

(* on_login_clicked: the form is disabled until an error comes back. *)
ClickLogin(c, u, right) ==
    /\ Click(c, "login")
    /\ ready[c]
    /\ ready' = [ready EXCEPT ![c] = FALSE]
    /\ Send(c, Login(u, right))
    /\ UNCHANGED <<screen, me, listed, editors, dialog, broken, down, serverVars>>

ClickSignup(c, u) ==
    /\ Click(c, "signup")
    /\ ready[c]
    /\ ready' = [ready EXCEPT ![c] = FALSE]
    /\ me' = [me EXCEPT ![c] = Profile(u, OldFace)]
    /\ Send(c, Signup(Profile(u, OldFace)))
    /\ UNCHANGED <<screen, listed, editors, dialog, broken, down, serverVars>>

(* show_signup_form leaves the editors and the home alone. *)
GoToSignup(c) ==
    /\ Click(c, "login")
    /\ ready[c]
    /\ screen' = [screen EXCEPT ![c] = "signup"]
    /\ UNCHANGED <<ready, me, listed, editors, dialog, broken, up, down, serverVars>>

GoToLogin(c) ==
    /\ Click(c, "signup")
    /\ ready[c]
    /\ ShowForm(c, "login")
    /\ UNCHANGED <<dialog, broken, up, down, serverVars>>

(* The clicks that send a request and change nothing in the windows. *)
Request(c, m) ==
    /\ Click(c, "home")
    /\ Send(c, m)
    /\ UNCHANGED <<uiVars, down, serverVars>>

ClickCreate(c, n) ==
    /\ Considered(c)
    /\ Request(c, Create(n))

(* Mutant: the editors that are open are not looked at. *)
ClickOpenAgain(c, d) ==
    /\ Considered(c)
    /\ d \in listed[c]
    /\ Request(c, On("open", d))

(* An item of the list; the editor is activated if there is one. *)
ClickOpen(c, d) ==
    /\ Considered(c)
    /\ d \in listed[c] \ editors[c]
    /\ Request(c, On("open", d))

(* A sharing link typed in by the user; no editor shows the same one. *)
ClickLink(c, d) ==
    /\ Considered(c)
    /\ d \in Docs \ editors[c]
    /\ Request(c, On("link", d))

(* on_profile_clicked: another dialog takes the place of the last one. *)
ClickProfile(c) ==
    /\ Considered(c)
    /\ Click(c, "home")
    /\ dialog' = [dialog EXCEPT ![c] = [state |-> "shown", profile |-> me[c]]]
    /\ UNCHANGED <<windowVars, broken, up, down, serverVars>>

(* on_save_clicked: the dialog takes the fields over before it looks at     *)
(* them, and stays.  Without connection there is no socket to write to, and *)
(* a member function of a null pointer is called.                           *)
SaveProfile(c, f) ==
    /\ Considered(c)
    /\ Modal(c)
    /\ Counted(c)
    /\ dialog' = [dialog EXCEPT ![c].profile.face = f]
    /\ IF f \in Invalid THEN UNCHANGED <<broken, up>>
       ELSE IF Offline(c) THEN broken' = [broken EXCEPT ![c] = TRUE] /\ UNCHANGED up
       ELSE Send(c, Update(Profile(dialog[c].profile.user, f))) /\ UNCHANGED broken
    /\ UNCHANGED <<windowVars, down, serverVars>>

(* reject(): the dialog is hidden and not deleted. *)
CancelProfile(c) ==
    /\ Considered(c)
    /\ Modal(c)
    /\ Counted(c)
    /\ dialog' = [dialog EXCEPT ![c].state = "hidden"]
    /\ UNCHANGED <<windowVars, broken, up, down, serverVars>>

ClickLogout(c) ==
    /\ Considered(c)
    /\ Click(c, "home")
    /\ Send(c, Plain("logout"))
    /\ ShowForm(c, "login")
    /\ UNCHANGED <<dialog, broken, down, serverVars>>

(* An editor window; it is there whatever the main window shows. *)
InEditor(c, d) ==
    /\ Counted(c)
    /\ d \in editors[c]
    /\ ~Modal(c)

Edit(c, d) ==
    /\ InEditor(c, d)
    /\ Send(c, On("edit", d))
    /\ UNCHANGED <<uiVars, down, serverVars>>

CloseEditor(c, d) ==
    /\ InEditor(c, d)
    /\ editors' = [editors EXCEPT ![c] = @ \ {d}]
    /\ Send(c, On("close", d))
    /\ UNCHANGED <<screen, ready, me, listed, dialog, broken, down, serverVars>>

(* The connection is lost: the client goes back to the connection form, the *)
(* server gets what was sent before, or less of it, and the hang-up.        *)
LoseConnection(c) ==
    /\ Counted(c)
    /\ ~Offline(c)
    /\ ShowForm(c, "connection")
    /\ \E n \in 0 .. Len(up[c]) :
         up' = [up EXCEPT ![c] = Append(SubSeq(@, 1, n), Plain("hangup"))]
    /\ down' = [down EXCEPT ![c] = << >>]
    /\ UNCHANGED <<dialog, broken, serverVars>>

-----------------------------------------------------------------------------
(* One message of that type about each of some documents.                   *)
Notices(type, ds) ==
    LET s == SetToSeq(ds) IN [i \in DOMAIN s |-> On(type, s[i])]

(* The server's sockets: answers goes to c, and a message of that type      *)
(* about each of the documents ds to every other client that has it open;   *)
(* nothing is written to a lost connection.                                 *)
Written(c, answers, type, ds) ==
    [e \in Clients |->
        IF Offline(e) THEN down[e]
        ELSE IF e = c THEN down[e] \o answers
        ELSE down[e] \o Notices(type, ds \cap opened[e])]

Reply(c, answers) == down' = Written(c, answers, "none", {})

(* The server has closed c's socket and reads no more from it. *)
HungUp(c) == Plain("disconnected") \in ToSet(down[c])

(* The head of c's messages, of one of the types. *)
Serving(c, types) ==
    /\ ~HungUp(c)
    /\ up[c] # << >>
    /\ Head(up[c]).type \in types
    /\ up' = [up EXCEPT ![c] = Tail(@)]

Authenticated(c) == session[c] # NoUser

Accessible(u) == {d \in documents : d.owner = u \/ <<u, d>> \in sharings}

(* logout(): every open document is closed and the others are told. *)
EndSession(c, answers) ==
    /\ session' = [session EXCEPT ![c] = NoUser]
    /\ opened' = [opened EXCEPT ![c] = {}]
    /\ down' = Written(c, answers, "closed", opened[c])

(* A handler throws: the client gets an error and disconnectFromHost is     *)
(* called.  Lines that are already in the socket's buffer are still served. *)
Throw(c) ==
    /\ badClients' = badClients \cup {c}
    /\ \E n \in 1 .. Len(up[c]) :
         up' = [up EXCEPT ![c] = Append(SubSeq(@, 2, n), Plain("hangup"))]
    /\ Reply(c, <<Plain("error")>>)

BadRequest(c) ==
    /\ up[c] # << >>
    /\ ~HungUp(c)
    /\ LET m == Head(up[c]) IN
         \/ m.type \in {"login", "signup"} /\ Authenticated(c)
         \/ m.type \notin {"login", "signup", "hangup"} /\ ~Authenticated(c)
         \/ m.type = "open" /\ m.document \in opened[c]
         \/ m.type \in {"close", "edit"} /\ m.document \notin opened[c]
         \/ /\ m.type = "profile_update"
            /\ m.profile.user # session[c] \/ m.profile.face \in Invalid
    /\ Throw(c)
    /\ UNCHANGED <<uiVars, clicks, session, opened, stale, dbVars>>

(* The session of c is u's now, and c has its profile. *)
Authenticate(c, u) ==
    /\ session' = [session EXCEPT ![c] = u]
    /\ stale' = stale \ {c}

(* Mutant: whether there is such a user is not looked at. *)
ServeLoginUnknown(c) ==
    /\ Serving(c, {"login"})
    /\ ~Authenticated(c)
    /\ LET u == Head(up[c]).user IN
         Authenticate(c, u) /\ Reply(c, <<ProfileOf(Profile(u, faces[u]))>>)
    /\ UNCHANGED <<uiVars, clicks, opened, badClients, dbVars>>

ServeLogin(c) ==
    /\ Serving(c, {"login"})
    /\ ~Authenticated(c)
    /\ LET m == Head(up[c]) IN
         IF m.right /\ m.user \in accounts
         THEN /\ Authenticate(c, m.user)
              /\ Reply(c, <<ProfileOf(Profile(m.user, faces[m.user]))>>)
         ELSE /\ Reply(c, <<Plain("error")>>)
              /\ UNCHANGED <<session, stale>>
    /\ UNCHANGED <<uiVars, clicks, opened, badClients, dbVars>>

ServeSignup(c) ==
    /\ Serving(c, {"signup"})
    /\ ~Authenticated(c)
    /\ LET p == Head(up[c]).profile IN
         IF p.user \notin accounts
         THEN /\ accounts' = accounts \cup {p.user}
              /\ faces' = [faces EXCEPT ![p.user] = p.face]
              /\ Authenticate(c, p.user)
              /\ Reply(c, <<Plain("signup_ok")>>)
         ELSE /\ Reply(c, <<Plain("error")>>)
              /\ UNCHANGED <<accounts, faces, session, stale>>
    /\ UNCHANGED <<uiVars, clicks, opened, badClients, documents, sharings>>

(* Mutant: the documents stay open when the session ends. *)
ServeLogoutOnly(c) ==
    /\ Serving(c, {"logout"})
    /\ Authenticated(c)
    /\ session' = [session EXCEPT ![c] = NoUser]
    /\ UNCHANGED <<uiVars, clicks, down, opened, badClients, stale, dbVars>>

ServeLogout(c) ==
    /\ Serving(c, {"logout"})
    /\ Authenticated(c)
    /\ EndSession(c, << >>)
    /\ UNCHANGED <<uiVars, clicks, badClients, stale, dbVars>>

(* close_session, on the socket's disconnected signal. *)
ServeHangup(c) ==
    /\ ~HungUp(c)
    /\ up[c] # << >>
    /\ Head(up[c]).type = "hangup"
    /\ up' = [up EXCEPT ![c] = << >>]
    /\ EndSession(c, <<Plain("disconnected")>>)
    /\ UNCHANGED <<uiVars, clicks, badClients, stale, dbVars>>

ServeProfile(c) ==
    /\ Serving(c, {"profile_update"})
    /\ Authenticated(c)
    /\ LET p == Head(up[c]).profile IN
         /\ p.user = session[c] /\ p.face \notin Invalid
         /\ faces' = [faces EXCEPT ![p.user] = p.face]
         /\ stale' = (stale \ {c}) \cup {e \in Clients \ {c} : session[e] = p.user}
    /\ Reply(c, <<Plain("profile_ok")>>)
    /\ UNCHANGED <<uiVars, clicks, session, opened, badClients, accounts, documents, sharings>>

ServeDocuments(c) ==
    /\ Serving(c, {"documents_request"})
    /\ Authenticated(c)
    /\ Reply(c, <<Documents(Accessible(session[c]))>>)
    /\ UNCHANGED <<uiVars, clicks, serverVars>>

(* The document is the session's user's, whoever the client believes to be. *)
ServeCreate(c) ==
    /\ Serving(c, {"create"})
    /\ Authenticated(c)
    /\ LET d == Document(session[c], Head(up[c]).name) IN
         IF d \notin documents
         THEN /\ documents' = documents \cup {d}
              /\ opened' = [opened EXCEPT ![c] = @ \cup {d}]
              /\ Reply(c, <<On("document", d)>>)
         ELSE /\ Reply(c, <<Plain("error")>>)
              /\ UNCHANGED <<documents, opened>>
    /\ UNCHANGED <<uiVars, clicks, session, badClients, stale, accounts, faces, sharings>>

ServeOpen(c) ==
    /\ Serving(c, {"open"})
    /\ Authenticated(c)
    /\ LET d == Head(up[c]).document IN
         /\ d \notin opened[c]
         /\ IF d \in Accessible(session[c])
            THEN /\ opened' = [opened EXCEPT ![c] = @ \cup {d}]
                 /\ down' = Written(c, <<On("document", d)>>, "opened", {d})
            ELSE /\ Reply(c, <<Plain("error")>>)
                 /\ UNCHANGED opened
    /\ UNCHANGED <<uiVars, clicks, session, badClients, stale, dbVars>>

(* The sharing is stored before the document is opened, whatever comes of   *)
(* the opening.                                                             *)
ServeLink(c) ==
    /\ ~HungUp(c)
    /\ up[c] # << >>
    /\ Head(up[c]).type = "link"
    /\ Head(up[c]).document \in documents
    /\ Authenticated(c)
    /\ LET d == Head(up[c]).document IN
         /\ sharings' = IF d \in Accessible(session[c]) THEN sharings
                        ELSE sharings \cup {<<session[c], d>>}
         /\ IF d \in opened[c] THEN Throw(c) /\ UNCHANGED opened
            ELSE /\ up' = [up EXCEPT ![c] = Tail(@)]
                 /\ opened' = [opened EXCEPT ![c] = @ \cup {d}]
                 /\ down' = Written(c, <<On("document", d)>>, "opened", {d})
                 /\ UNCHANGED badClients
    /\ UNCHANGED <<uiVars, clicks, session, stale, accounts, faces, documents>>

(* Nothing is shared by the link. *)
ServeWrongLink(c) ==
    /\ Serving(c, {"link"})
    /\ Authenticated(c)
    /\ Head(up[c]).document \notin documents
    /\ Reply(c, <<Plain("error")>>)
    /\ UNCHANGED <<uiVars, clicks, serverVars>>

ServeClose(c) ==
    /\ Serving(c, {"close"})
    /\ Authenticated(c)
    /\ LET d == Head(up[c]).document IN
         /\ d \in opened[c]
         /\ opened' = [opened EXCEPT ![c] = @ \ {d}]
         /\ down' = Written(c, << >>, "closed", {d})
    /\ UNCHANGED <<uiVars, clicks, session, badClients, stale, dbVars>>

ServeEdit(c) ==
    /\ Serving(c, {"edit"})
    /\ Authenticated(c)
    /\ LET d == Head(up[c]).document IN
         /\ d \in opened[c]
         /\ down' = Written(c, << >>, "edited", {d})
    /\ UNCHANGED <<uiVars, clicks, serverVars>>

-----------------------------------------------------------------------------
(* UiWorker::process_message *)
Receiving(c, types) ==
    /\ ~broken[c]
    /\ down[c] # << >>
    /\ Head(down[c]).type \in types
    /\ down' = [down EXCEPT ![c] = Tail(@)]

(* Mutant: the form stays disabled. *)
ReceiveErrorDisabled(c) ==
    /\ Receiving(c, {"error"})
    /\ UNCHANGED <<uiVars, clicks, up, serverVars>>

(* show_error enables the form if one is visible. *)
ReceiveError(c) ==
    /\ Receiving(c, {"error"})
    /\ ready' = [ready EXCEPT ![c] = @ \/ screen[c] \in Forms]
    /\ UNCHANGED <<screen, me, listed, editors, dialog, broken, clicks, up, serverVars>>

LoggedIn(c) ==
    /\ Receiving(c, {"profile", "signup_ok"})
    /\ screen' = [screen EXCEPT ![c] = "home"]
    /\ me' = [me EXCEPT ![c] = IF Head(down[c]).type = "profile" THEN Head(down[c]).profile ELSE @]
    /\ Send(c, Plain("documents_request"))
    /\ UNCHANGED <<ready, listed, editors, dialog, broken, clicks, serverVars>>

(* Mutant: the profile is not taken over. *)
ProfileUpdatedOnly(c) ==
    /\ Receiving(c, {"profile_ok"})
    /\ dialog' = [dialog EXCEPT ![c] = NoDialog]
    /\ UNCHANGED <<windowVars, broken, clicks, up, serverVars>>

(* The home takes over what the dialog holds now and deletes it.  If it was *)
(* deleted before, a member function of a null pointer is called.           *)
ProfileUpdated(c) ==
    /\ Receiving(c, {"profile_ok"})
    /\ IF dialog[c] = NoDialog
       THEN broken' = [broken EXCEPT ![c] = TRUE] /\ UNCHANGED <<me, dialog>>
       ELSE /\ me' = [me EXCEPT ![c] = dialog[c].profile]
            /\ dialog' = [dialog EXCEPT ![c] = NoDialog]
            /\ UNCHANGED broken
    /\ UNCHANGED <<screen, ready, listed, editors, clicks, up, serverVars>>

ShowDocuments(c) ==
    /\ Receiving(c, {"documents"})
    /\ listed' = [listed EXCEPT ![c] = Head(down[c]).list]
    /\ UNCHANGED <<screen, ready, me, editors, dialog, broken, clicks, up, serverVars>>

OpenEditor(c) ==
    /\ Receiving(c, {"document"})
    /\ listed' = [listed EXCEPT ![c] = @ \cup {Head(down[c]).document}]
    /\ editors' = [editors EXCEPT ![c] = @ \cup {Head(down[c]).document}]
    /\ UNCHANGED <<screen, ready, me, dialog, broken, clicks, up, serverVars>>

(* editors_[document] makes a null pointer if there is no editor, and a     *)
(* member function is called on it: the client does nothing defined after.  *)
RemoteOperation(c) ==
    /\ Receiving(c, {"opened", "closed", "edited"})
    /\ broken' = [broken EXCEPT ![c] = Head(down[c]).document \notin editors[c]]
    /\ UNCHANGED <<windowVars, dialog, clicks, up, serverVars>>

(* The server has closed the connection. *)
Disconnected(c) ==
    /\ Receiving(c, {"disconnected"})
    /\ ShowForm(c, "connection")
    /\ up' = [up EXCEPT ![c] = << >>]
    /\ UNCHANGED <<dialog, broken, clicks, serverVars>>

-----------------------------------------------------------------------------
UserActs(c) ==
    \/ Connect(c) \/ GoToSignup(c) \/ GoToLogin(c)
    \/ \E u \in Users : ClickLogin(c, u, TRUE) \/ ClickLogin(c, u, FALSE) \/ ClickSignup(c, u)
    \/ \E n \in Names : ClickCreate(c, n)
    \/ \E d \in Docs : \/ ClickOpen(c, d) \/ ClickLink(c, d)
                       \/ Edit(c, d) \/ CloseEditor(c, d)
    \/ ClickProfile(c) \/ CancelProfile(c) \/ \E f \in Faces : SaveProfile(c, f)
    \/ ClickLogout(c) \/ LoseConnection(c)

Serve(c) ==
    \/ BadRequest(c) \/ ServeLogin(c) \/ ServeSignup(c) \/ ServeLogout(c) \/ ServeHangup(c)
    \/ ServeProfile(c) \/ ServeDocuments(c) \/ ServeCreate(c) \/ ServeOpen(c) \/ ServeLink(c)
    \/ ServeWrongLink(c) \/ ServeClose(c) \/ ServeEdit(c)

Receive(c) ==
    \/ ReceiveError(c) \/ LoggedIn(c) \/ ProfileUpdated(c) \/ ShowDocuments(c)
    \/ OpenEditor(c) \/ RemoteOperation(c) \/ Disconnected(c)

Next == \E c \in Clients : UserActs(c) \/ Serve(c) \/ Receive(c)

Spec == Init /\ [][Next]_vars

(* Event loops handle what arrives; users need not click. *)
FairSpec == Spec /\ \A c \in Clients : WF_vars(Serve(c)) /\ WF_vars(Receive(c))

-----------------------------------------------------------------------------
Profiles == [user : Users \cup {NoUser}, face : Faces \cup {NoFace}]
DialogStates == {"none", "shown", "hidden"}

TypeOK ==
    /\ screen \in [Clients -> Forms \cup {"connection", "home"}]
    /\ ready \in [Clients -> BOOLEAN]
    /\ me \in [Clients -> Profiles]
    /\ dialog \in [Clients -> [state : DialogStates, profile : Profiles]]
    /\ listed \in [Clients -> SUBSET Docs]
    /\ editors \in [Clients -> SUBSET Docs]
    /\ broken \in [Clients -> BOOLEAN]
    /\ session \in [Clients -> accounts \cup {NoUser}]
    /\ opened \in [Clients -> SUBSET documents]
    /\ accounts \subseteq Users
    /\ documents \subseteq Docs
    /\ faces \in [Users -> Faces \ Invalid]
    /\ sharings \subseteq accounts \X documents

(* Nothing is under way between client c and the server. *)
Settled(c) == up[c] = << >> /\ down[c] = << >> /\ ~broken[c]

(* Once nothing is under way, the windows of a client are those of its      *)
(* session: the home exactly if the server has it logged in, as the same    *)
(* user, and an editor for every document it has open and no other          *)
(* (worker_ui.cpp:175, "Logging out will close them").                      *)
Agree(c) ==
    Settled(c) =>
        /\ screen[c] = "home" <=> session[c] # NoUser
        /\ screen[c] = "home" => me[c].user = session[c]
        /\ editors[c] = opened[c]

(* Once nothing is under way, the home shows the profile that is stored,    *)
(* unless the user has saved another one from another client (home.cpp:66   *)
(* takes it from the dialog and not from the server).                       *)
ShowsStored(c) ==
    Settled(c) /\ screen[c] = "home" /\ c \notin stale => me[c].face = faces[session[c]]

(* Both hold for users who wait for answers, whatever others do; and        *)
(* neither, as the code is, for users who do not.                           *)
WindowsAgree == \A c \in Patient : Agree(c) /\ ShowsStored(c)
WindowsAlwaysAgree == \A c \in Clients : Agree(c)
ProfileAlwaysShown == \A c \in Clients : ShowsStored(c)

(* The server never has to treat this project's own client as a "bad        *)
(* client" (worker.cpp:150): no sequence of clicks of a patient user makes  *)
(* a handler throw; and, which the code does not keep, none at all does.    *)
NoBadClient == badClients \cap Patient = {}
NeverBadClient == badClients = {}

(* The client never uses an editor, a dialog or a socket that is not there: *)
(* operations come only to an open editor (docs/plantuml/protocol.pu:29,    *)
(* they loop on state DOCUMENT OPENED), profile_ok only to the dialog that  *)
(* asked for it, and nothing is sent without a connection.                  *)
NoNullPointer == \A c \in Clients : ~broken[c]

(* A session has a document open at the server only while it is logged in   *)
(* as a user who may access it, whatever was logged out, lost or refused    *)
(* in between.                                                              *)
OpenedIsAccessible ==
    \A c \in Clients : opened[c] # {} =>
        session[c] # NoUser /\ opened[c] \subseteq Accessible(session[c])

(* Requests of client c the server has not taken yet. *)
Pending(c, types) == {i \in DOMAIN up[c] : up[c][i].type \in types}
PendingOn(c, type) == {up[c][i].document : i \in Pending(c, {type})}

(* The state of the documented protocol a client is in: what the last       *)
(* request asked for until the server has answered it, and before and after *)
(* what the server's session is.                                            *)
ProtocolState(c) ==
    IF Offline(c) THEN "NOT AUTHENTICATED"
    ELSE IF Pending(c, {"login", "signup"}) # {} THEN "PROFILE REQUESTED"
    ELSE IF session[c] = NoUser \/ Pending(c, {"logout"}) # {} THEN "NOT AUTHENTICATED"
    ELSE IF Pending(c, {"documents_request"}) # {} THEN "DOCUMENT LIST REQUESTED"
    ELSE IF Pending(c, {"profile_update"}) # {} THEN "PROFILE UPDATE REQUESTED"
    ELSE IF Pending(c, {"create", "open", "link"}) # {} THEN "DOCUMENT REQUESTED"
    ELSE "AUTHENTICATED"

InHome(c) == ~Offline(c) /\ Pending(c, {"logout"}) = {}

Documented == INSTANCE Protocol WITH
    Peers <- Patient,
    state <- [c \in Patient |-> ProtocolState(c)],
    opened <- [c \in Patient |-> IF InHome(c) THEN opened[c] \ PendingOn(c, "close") ELSE {}],
    operating <- [c \in Patient |-> IF Offline(c) THEN {} ELSE PendingOn(c, "edit")]

(* A patient client and its worker keep to the documented protocol, beside  *)
(* others that do not: no request leaves in a state that forbids it and no  *)
(* document is opened or left otherwise (docs/plantuml/protocol.pu).        *)
KeepsProtocol == Documented!Spec

(* A form that was disabled by a click comes back or gives way to another   *)
(* window: no answer is lost on the way.                                    *)
FormsComeBack ==
    \A c \in Clients :
        (screen[c] \in Forms /\ ~ready[c])
            ~> (ready[c] \/ screen[c] \notin Forms \/ broken[c])
=============================================================================
