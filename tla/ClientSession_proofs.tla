------------------------ MODULE ClientSession_proofs ------------------------
(***************************************************************************)
(* Proofs about ClientSession, for any clients, users and documents and    *)
(* any number of clicks: the types of windows, messages and sessions; that *)
(* a session has only documents open that its user may access; and, for    *)
(* users who wait for answers beside any others, that the windows follow   *)
(* the session, that no request makes the server throw, and that client    *)
(* and worker implement the documented protocol (Protocol).                *)
(***************************************************************************)
EXTENDS ClientSession, FiniteSetTheorems, SequenceTheorems, TLAPS

UserRequest ==
    [type : {"login"}, user : Users, right : BOOLEAN]
        \cup [type : {"signup"}, profile : [user : Users, face : Faces \ Invalid]]
        \cup [type : {"profile_update"}, profile : [user : Users \cup {NoUser}, face : Faces]]
        \cup [type : {"create"}, name : Names]
        \cup [type : {"open", "link", "edit", "close"}, document : Docs]
        \cup [type : {"documents_request", "logout", "hangup"}]

ServerMessage ==
    [type : {"error", "signup_ok", "profile_ok", "disconnected"}]
        \cup [type : {"profile"}, profile : Profiles]
        \cup [type : {"documents"}, list : SUBSET Docs]
        \cup [type : {"document", "opened", "closed", "edited"}, document : Docs]

(* What the windows of the clients are made of. *)
Windows ==
    /\ screen \in [Clients -> Forms \cup {"connection", "home"}]
    /\ ready \in [Clients -> BOOLEAN]
    /\ me \in [Clients -> Profiles]
    /\ dialog \in [Clients -> [state : DialogStates, profile : Profiles]]
    /\ listed \in [Clients -> SUBSET Docs]
    /\ editors \in [Clients -> SUBSET Docs]
    /\ broken \in [Clients -> BOOLEAN]

Channels ==
    /\ up \in [Clients -> Seq(UserRequest)]
    /\ down \in [Clients -> Seq(ServerMessage)]

(* What the server knows and stores. *)
Server ==
    /\ session \in [Clients -> accounts \cup {NoUser}]
    /\ opened \in [Clients -> SUBSET documents]
    /\ accounts \subseteq Users
    /\ documents \subseteq Docs
    /\ faces \in [Users -> Faces \ Invalid]
    /\ sharings \subseteq accounts \X documents
    /\ OpenedIsAccessible

CInv == Windows /\ Channels /\ Server

LEMMA PartsAreTypes == CInv => TypeOK /\ OpenedIsAccessible
BY DEF CInv, Windows, Server, TypeOK

LEMMA InitCInv == Init => CInv
<1>. SUFFICES ASSUME Init PROVE CInv
  OBVIOUS
<1>1. NoProfile \in Profiles
  BY DEF NoProfile, Profile, Profiles
<1>2. Windows
  BY <1>1 DEF Init, Windows, NoDialog, DialogStates
<1>3. Channels
  BY DEF Init, Channels
<1>4. Server
  BY SessionAssumption DEF Init, Server, OpenedIsAccessible
<1>. QED
  BY <1>2, <1>3, <1>4 DEF CInv

-----------------------------------------------------------------------------
(* Messages and their fields. *)
LEMMA RequestFields ==
    ASSUME NEW m \in UserRequest
    PROVE  /\ m.type = "login" => m.user \in Users
           /\ m.type = "signup" => m.profile \in [user : Users, face : Faces \ Invalid]
           /\ m.type = "profile_update" =>
                m.profile \in [user : Users \cup {NoUser}, face : Faces]
           /\ m.type = "create" => m.name \in Names
           /\ m.type \in {"open", "link", "edit", "close"} => m.document \in Docs
BY DEF UserRequest

LEMMA MessageFields ==
    ASSUME NEW m \in ServerMessage
    PROVE  /\ m.type = "profile" => m.profile \in Profiles
           /\ m.type = "documents" => m.list \in SUBSET Docs
           /\ m.type \in {"document", "opened", "closed", "edited"} => m.document \in Docs
BY DEF ServerMessage

LEMMA Sent ==
    ASSUME Channels, NEW c \in Clients, NEW m \in UserRequest, Send(c, m), UNCHANGED down
    PROVE  Channels'
<1>1. Append(up[c], m) \in Seq(UserRequest)
  BY DEF Channels
<1>. QED
  BY <1>1 DEF Channels, Send

(* What is written from a finite set is a sequence of its members. *)
LEMMA SetsToSequences ==
    ASSUME NEW S, IsFiniteSet(S)
    PROVE  SetToSeq(S) \in Seq(S)
<1>1. Cardinality(S) \in Nat /\ ExistsBijection(1 .. Cardinality(S), S)
  BY FS_CardinalityType
<1>2. PICK f \in [1 .. Cardinality(S) -> S] : IsInjective(f)
  BY <1>1 DEF ExistsBijection, Bijection, Injection
<1>3. SetToSeq(S) \in [1 .. Cardinality(S) -> S]
  BY <1>2 DEF SetToSeq
<1>. QED
  BY <1>1, <1>3

LEMMA NoticesAreMessages ==
    ASSUME NEW ds \in SUBSET Docs, NEW type,
           type \in {"opened", "closed", "edited"} \/ ds = {}
    PROVE  Notices(type, ds) \in Seq(ServerMessage)
<1>. DEFINE s == SetToSeq(ds)
<1>1. IsFiniteSet(ds)
  BY SessionAssumption, FS_Subset
<1>2. s \in Seq(ds)
  BY <1>1, SetsToSequences
<1>. HIDE DEF s
<1>3. ASSUME NEW i \in DOMAIN s PROVE On(type, s[i]) \in ServerMessage
  <2>1. s[i] \in ds
    BY <1>2
  <2>. QED
    BY <2>1 DEF On, ServerMessage
<1>4. Len(s) \in Nat /\ DOMAIN s = 1 .. Len(s)
  BY <1>2
<1>5. [i \in DOMAIN s |-> On(type, s[i])] \in [1 .. Len(s) -> ServerMessage]
  BY <1>3, <1>4
<1>6. [i \in DOMAIN s |-> On(type, s[i])] \in Seq(ServerMessage)
  BY <1>4, <1>5
<1>. QED
  BY <1>6 DEF Notices, s

LEMMA WrittenAreMessages ==
    ASSUME CInv, NEW c, NEW answers \in Seq(ServerMessage),
           NEW type, NEW ds \in SUBSET Docs,
           type \in {"opened", "closed", "edited"} \/ ds = {}
    PROVE  Written(c, answers, type, ds) \in [Clients -> Seq(ServerMessage)]
<1>. SUFFICES ASSUME NEW e \in Clients
              PROVE  Written(c, answers, type, ds)[e] \in Seq(ServerMessage)
  BY DEF Written
<1>1. down[e] \in Seq(ServerMessage)
  BY DEF CInv, Channels
<1>2. Notices(type, ds \cap opened[e]) \in Seq(ServerMessage)
  BY NoticesAreMessages
<1>3. down[e] \o answers \in Seq(ServerMessage)
  BY <1>1
<1>4. down[e] \o Notices(type, ds \cap opened[e]) \in Seq(ServerMessage)
  BY <1>1, <1>2
<1>. QED
  BY <1>1, <1>3, <1>4 DEF Written

LEMMA Replied ==
    ASSUME CInv, NEW c, NEW m \in ServerMessage, Reply(c, <<m>>)
    PROVE  down' \in [Clients -> Seq(ServerMessage)]
<1>1. <<m>> \in Seq(ServerMessage)
  OBVIOUS
<1>. QED
  BY <1>1, WrittenAreMessages DEF Reply

(* The message served is a request, and what is left are requests. *)
LEMMA Served ==
    ASSUME CInv, NEW c \in Clients, up[c] # << >>
    PROVE  /\ Head(up[c]) \in UserRequest
           /\ up' = [up EXCEPT ![c] = Tail(@)] => up' \in [Clients -> Seq(UserRequest)]
<1>1. up[c] \in Seq(UserRequest)
  BY DEF CInv, Channels
<1>2. Head(up[c]) \in UserRequest /\ Tail(up[c]) \in Seq(UserRequest)
  BY <1>1
<1>. QED
  BY <1>2 DEF CInv, Channels

LEMMA Received ==
    ASSUME CInv, NEW c \in Clients, NEW types, Receiving(c, types)
    PROVE  /\ Head(down[c]) \in ServerMessage
           /\ Head(down[c]).type \in types
           /\ down' \in [Clients -> Seq(ServerMessage)]
<1>1. down[c] \in Seq(ServerMessage) /\ down[c] # << >>
  BY DEF CInv, Channels, Receiving
<1>2. Head(down[c]) \in ServerMessage /\ Tail(down[c]) \in Seq(ServerMessage)
  BY <1>1
<1>. QED
  BY <1>2 DEF CInv, Channels, Receiving

LEMMA Thrown ==
    ASSUME CInv, NEW c \in Clients, Throw(c)
    PROVE  Channels'
<1>1. PICK n \in 1 .. Len(up[c]) :
        up' = [up EXCEPT ![c] = Append(SubSeq(@, 2, n), Plain("hangup"))]
  BY DEF Throw
<1>2. up[c] \in Seq(UserRequest)
  BY DEF CInv, Channels
<1>3. SubSeq(up[c], 2, n) \in Seq(UserRequest)
  BY <1>2, SubSeqProperties
<1>4. Plain("hangup") \in UserRequest
  BY DEF Plain, UserRequest
<1>5. Append(SubSeq(up[c], 2, n), Plain("hangup")) \in Seq(UserRequest)
  BY <1>3, <1>4
<1>6. up' \in [Clients -> Seq(UserRequest)]
  BY <1>1, <1>5 DEF CInv, Channels
<1>7. Plain("error") \in ServerMessage
  BY DEF Plain, ServerMessage
<1>8. down' \in [Clients -> Seq(ServerMessage)]
  BY <1>7, Replied DEF Throw
<1>. QED
  BY <1>6, <1>8 DEF Channels

-----------------------------------------------------------------------------
(* What users do leaves the server alone. *)
LEMMA ServerAlone ==
    ASSUME CInv, UNCHANGED serverVars
    PROVE  Server'
BY DEF CInv, Server, OpenedIsAccessible, Accessible, serverVars, dbVars

LEMMA WindowsAlone ==
    ASSUME CInv, UNCHANGED uiVars
    PROVE  Windows'
BY DEF CInv, Windows, uiVars, windowVars

LEMMA FormShown ==
    ASSUME CInv, NEW c \in Clients, NEW w \in Forms \cup {"connection"}, ShowForm(c, w),
           dialog' \in [Clients -> [state : DialogStates, profile : Profiles]],
           broken' \in [Clients -> BOOLEAN]
    PROVE  Windows'
BY DEF CInv, Windows, ShowForm, NoProfile, Profile, Profiles

LEMMA UserStep ==
    ASSUME CInv, NEW c \in Clients, UserActs(c)
    PROVE  CInv'
<1>0. Channels
  BY DEF CInv
<1>1. CASE Connect(c) \/ GoToLogin(c)
  <2>1. Windows'
    BY <1>1, FormShown DEF Connect, GoToLogin, Forms, CInv, Windows
  <2>2. Channels' /\ UNCHANGED serverVars
    BY <1>0, <1>1 DEF Connect, GoToLogin, Channels
  <2>. QED
    BY <2>1, <2>2, ServerAlone DEF CInv
<1>2. CASE GoToSignup(c)
  <2>1. Windows'
    BY <1>2 DEF GoToSignup, Forms, CInv, Windows
  <2>2. Channels' /\ UNCHANGED serverVars
    BY <1>0, <1>2 DEF GoToSignup, Channels
  <2>. QED
    BY <2>1, <2>2, ServerAlone DEF CInv
<1>3. ASSUME NEW u \in Users, NEW right \in BOOLEAN, ClickLogin(c, u, right)
      PROVE  CInv'
  <2>1. Windows'
    BY <1>3 DEF ClickLogin, CInv, Windows
  <2>2. Login(u, right) \in UserRequest
    BY DEF Login, UserRequest
  <2>3. Channels' /\ UNCHANGED serverVars
    BY <1>0, <1>3, <2>2, Sent DEF ClickLogin
  <2>. QED
    BY <2>1, <2>3, ServerAlone DEF CInv
<1>4. ASSUME NEW u \in Users, ClickSignup(c, u)
      PROVE  CInv'
  <2>1. Profile(u, OldFace) \in [user : Users, face : Faces \ Invalid]
    BY SessionAssumption DEF Profile
  <2>2. Profile(u, OldFace) \in Profiles
    BY <2>1 DEF Profiles
  <2>3. Windows'
    BY <1>4, <2>2 DEF ClickSignup, CInv, Windows
  <2>4. Signup(Profile(u, OldFace)) \in UserRequest
    BY <2>1 DEF Signup, UserRequest
  <2>5. Channels' /\ UNCHANGED serverVars
    BY <1>0, <1>4, <2>4, Sent DEF ClickSignup
  <2>. QED
    BY <2>3, <2>5, ServerAlone DEF CInv
<1>5. ASSUME NEW m \in UserRequest, Request(c, m)
      PROVE  CInv'
  <2>1. Windows'
    BY <1>5, WindowsAlone DEF Request
  <2>2. Channels' /\ UNCHANGED serverVars
    BY <1>0, <1>5, Sent DEF Request
  <2>. QED
    BY <2>1, <2>2, ServerAlone DEF CInv
<1>6. ASSUME NEW n \in Names, ClickCreate(c, n)
      PROVE  CInv'
  <2>1. Create(n) \in UserRequest
    BY DEF Create, UserRequest
  <2>. QED
    BY <1>5, <1>6, <2>1 DEF ClickCreate
<1>7. ASSUME NEW d \in Docs, ClickOpen(c, d) \/ ClickLink(c, d)
      PROVE  CInv'
  <2>1. On("open", d) \in UserRequest /\ On("link", d) \in UserRequest
    BY DEF On, UserRequest
  <2>. QED
    BY <1>5, <1>7, <2>1 DEF ClickOpen, ClickLink
<1>8. ASSUME NEW d \in Docs, Edit(c, d)
      PROVE  CInv'
  <2>1. On("edit", d) \in UserRequest
    BY DEF On, UserRequest
  <2>2. Windows'
    BY <1>8, WindowsAlone DEF Edit
  <2>3. Channels' /\ UNCHANGED serverVars
    BY <1>0, <1>8, <2>1, Sent DEF Edit
  <2>. QED
    BY <2>2, <2>3, ServerAlone DEF CInv
<1>9. ASSUME NEW d \in Docs, CloseEditor(c, d)
      PROVE  CInv'
  <2>1. On("close", d) \in UserRequest
    BY DEF On, UserRequest
  <2>2. Windows'
    BY <1>9 DEF CloseEditor, CInv, Windows
  <2>3. Channels' /\ UNCHANGED serverVars
    BY <1>0, <1>9, <2>1, Sent DEF CloseEditor
  <2>. QED
    BY <2>2, <2>3, ServerAlone DEF CInv
<1>10. CASE ClickProfile(c) \/ CancelProfile(c)
  <2>1. dialog' \in [Clients -> [state : DialogStates, profile : Profiles]]
    BY <1>10 DEF ClickProfile, CancelProfile, DialogStates, CInv, Windows
  <2>2. Windows'
    BY <1>10, <2>1 DEF ClickProfile, CancelProfile, windowVars, CInv, Windows
  <2>3. Channels' /\ UNCHANGED serverVars
    BY <1>0, <1>10 DEF ClickProfile, CancelProfile, Channels
  <2>. QED
    BY <2>2, <2>3, ServerAlone DEF CInv
<1>11. ASSUME NEW f \in Faces, SaveProfile(c, f)
       PROVE  CInv'
  <2>1. dialog' \in [Clients -> [state : DialogStates, profile : Profiles]]
    BY <1>11 DEF SaveProfile, CInv, Windows, Profiles
  <2>2. Windows'
    BY <1>11, <2>1 DEF SaveProfile, windowVars, CInv, Windows
  <2>3. dialog[c].profile.user \in Users \cup {NoUser}
    BY DEF CInv, Windows, Profiles
  <2>4. Update(Profile(dialog[c].profile.user, f)) \in UserRequest
    BY <2>3 DEF Update, Profile, UserRequest
  <2>5. Channels'
    <3>1. CASE UNCHANGED up
      BY <1>0, <1>11, <3>1 DEF SaveProfile, Channels
    <3>2. CASE Send(c, Update(Profile(dialog[c].profile.user, f)))
      BY <1>0, <1>11, <2>4, <3>2, Sent DEF SaveProfile
    <3>. QED
      BY <1>11, <3>1, <3>2 DEF SaveProfile
  <2>6. UNCHANGED serverVars
    BY <1>11 DEF SaveProfile
  <2>. QED
    BY <2>2, <2>5, <2>6, ServerAlone DEF CInv
<1>12. CASE ClickLogout(c)
  <2>1. Windows'
    BY <1>12, FormShown DEF ClickLogout, Forms, CInv, Windows
  <2>2. Plain("logout") \in UserRequest
    BY DEF Plain, UserRequest
  <2>3. Channels' /\ UNCHANGED serverVars
    BY <1>0, <1>12, <2>2, Sent DEF ClickLogout
  <2>. QED
    BY <2>1, <2>3, ServerAlone DEF CInv
<1>13. CASE LoseConnection(c)
  <2>1. Windows'
    BY <1>13, FormShown DEF LoseConnection, CInv, Windows
  <2>2. PICK n \in 0 .. Len(up[c]) :
          up' = [up EXCEPT ![c] = Append(SubSeq(@, 1, n), Plain("hangup"))]
    BY <1>13 DEF LoseConnection
  <2>3. up[c] \in Seq(UserRequest)
    BY <1>0 DEF Channels
  <2>4. SubSeq(up[c], 1, n) \in Seq(UserRequest)
    BY <2>3, SubSeqProperties
  <2>5. Plain("hangup") \in UserRequest
    BY DEF Plain, UserRequest
  <2>6. up' \in [Clients -> Seq(UserRequest)]
    BY <1>0, <2>2, <2>4, <2>5 DEF Channels
  <2>7. << >> \in Seq(ServerMessage)
    OBVIOUS
  <2>8. Channels' /\ UNCHANGED serverVars
    BY <1>0, <1>13, <2>6, <2>7 DEF LoseConnection, Channels
  <2>. QED
    BY <2>1, <2>8, ServerAlone DEF CInv
<1>. QED
  BY <1>1, <1>2, <1>3, <1>4, <1>6, <1>7, <1>8, <1>9, <1>10, <1>11, <1>12, <1>13
  DEF UserActs

-----------------------------------------------------------------------------
(* What clients receive changes their windows only, and their requests.      *)
LEMMA ReceiveStep ==
    ASSUME CInv, NEW c \in Clients, Receive(c)
    PROVE  CInv'
<1>0. Channels
  BY DEF CInv
<1>1. CASE ReceiveError(c)
  <2>1. Windows'
    BY <1>1 DEF ReceiveError, CInv, Windows
  <2>2. Channels' /\ UNCHANGED serverVars
    BY <1>0, <1>1, Received DEF ReceiveError, Channels
  <2>. QED
    BY <2>1, <2>2, ServerAlone DEF CInv
<1>2. CASE LoggedIn(c)
  <2>1. Head(down[c]) \in ServerMessage /\ down' \in [Clients -> Seq(ServerMessage)]
    BY <1>2, Received DEF LoggedIn
  <2>2. me' \in [Clients -> Profiles]
    BY <1>2, <2>1, MessageFields DEF LoggedIn, CInv, Windows
  <2>3. Windows'
    BY <1>2, <2>2 DEF LoggedIn, CInv, Windows
  <2>4. Plain("documents_request") \in UserRequest
    BY DEF Plain, UserRequest
  <2>5. Append(up[c], Plain("documents_request")) \in Seq(UserRequest)
    BY <1>0, <2>4 DEF Channels
  <2>6. Channels' /\ UNCHANGED serverVars
    BY <1>0, <1>2, <2>1, <2>5 DEF LoggedIn, Send, Channels
  <2>. QED
    BY <2>3, <2>6, ServerAlone DEF CInv
<1>3. CASE ProfileUpdated(c)
  <2>1. NoDialog \in [state : DialogStates, profile : Profiles]
    BY DEF NoDialog, DialogStates, NoProfile, Profile, Profiles
  <2>2. dialog[c].profile \in Profiles
    BY DEF CInv, Windows
  <2>3. Windows'
    <3>1. CASE dialog[c] = NoDialog
      BY <1>3, <3>1 DEF ProfileUpdated, CInv, Windows
    <3>2. CASE dialog[c] # NoDialog
      BY <1>3, <2>1, <2>2, <3>2 DEF ProfileUpdated, CInv, Windows
    <3>. QED
      BY <3>1, <3>2
  <2>4. Channels' /\ UNCHANGED serverVars
    BY <1>0, <1>3, Received DEF ProfileUpdated, Channels
  <2>. QED
    BY <2>3, <2>4, ServerAlone DEF CInv
<1>4. CASE ShowDocuments(c)
  <2>1. /\ Head(down[c]) \in ServerMessage /\ Head(down[c]).type = "documents"
        /\ down' \in [Clients -> Seq(ServerMessage)]
    BY <1>4, Received DEF ShowDocuments
  <2>2. Windows'
    BY <1>4, <2>1, MessageFields DEF ShowDocuments, CInv, Windows
  <2>3. Channels' /\ UNCHANGED serverVars
    BY <1>0, <1>4, <2>1 DEF ShowDocuments, Channels
  <2>. QED
    BY <2>2, <2>3, ServerAlone DEF CInv
<1>5. CASE OpenEditor(c)
  <2>1. /\ Head(down[c]) \in ServerMessage /\ Head(down[c]).type = "document"
        /\ down' \in [Clients -> Seq(ServerMessage)]
    BY <1>5, Received DEF OpenEditor
  <2>2. Head(down[c]).document \in Docs
    BY <2>1, MessageFields
  <2>3. Windows'
    BY <1>5, <2>2 DEF OpenEditor, CInv, Windows
  <2>4. Channels' /\ UNCHANGED serverVars
    BY <1>0, <1>5, <2>1 DEF OpenEditor, Channels
  <2>. QED
    BY <2>3, <2>4, ServerAlone DEF CInv
<1>6. CASE RemoteOperation(c)
  <2>1. Windows'
    BY <1>6 DEF RemoteOperation, windowVars, CInv, Windows
  <2>2. Channels' /\ UNCHANGED serverVars
    BY <1>0, <1>6, Received DEF RemoteOperation, Channels
  <2>. QED
    BY <2>1, <2>2, ServerAlone DEF CInv
<1>7. CASE Disconnected(c)
  <2>1. Windows'
    BY <1>7, FormShown DEF Disconnected, CInv, Windows
  <2>2. Channels' /\ UNCHANGED serverVars
    BY <1>0, <1>7, Received DEF Disconnected, Channels
  <2>. QED
    BY <2>1, <2>2, ServerAlone DEF CInv
<1>. QED
  BY <1>1, <1>2, <1>3, <1>4, <1>5, <1>6, <1>7 DEF Receive

-----------------------------------------------------------------------------
(* A session ends: everything it had open is closed with it. *)
LEMMA SessionEnds ==
    ASSUME CInv, NEW c \in Clients, NEW answers \in Seq(ServerMessage),
           EndSession(c, answers), UNCHANGED dbVars
    PROVE  Server' /\ down' \in [Clients -> Seq(ServerMessage)]
<1>1. opened[c] \in SUBSET Docs
  BY DEF CInv, Server
<1>2. down' \in [Clients -> Seq(ServerMessage)]
  BY <1>1, WrittenAreMessages DEF EndSession
<1>3. Server'
  BY DEF EndSession, CInv, Server, OpenedIsAccessible, Accessible, dbVars
<1>. QED
  BY <1>2, <1>3

(* One more user or none, and a session that had nobody has one: it has      *)
(* nothing open yet.                                                         *)
LEMMA NewlyLoggedIn ==
    ASSUME CInv, NEW c \in Clients, session[c] = NoUser, NEW u \in accounts',
           accounts \subseteq accounts', accounts' \subseteq Users,
           faces' \in [Users -> Faces \ Invalid],
           session' = [session EXCEPT ![c] = u], UNCHANGED <<opened, documents, sharings>>
    PROVE  Server'
<1>1. opened[c] = {}
  BY DEF CInv, Server, OpenedIsAccessible
<1>2. OpenedIsAccessible'
  BY <1>1 DEF CInv, Server, OpenedIsAccessible, Accessible
<1>3. session' \in [Clients -> accounts' \cup {NoUser}]
  BY DEF CInv, Server
<1>. QED
  BY <1>2, <1>3 DEF CInv, Server

(* A document is opened by a session whose user may access it, now.          *)
LEMMA Opening ==
    ASSUME CInv, NEW c \in Clients, Authenticated(c), NEW d \in Docs,
           opened' = [opened EXCEPT ![c] = @ \cup {d}],
           documents \subseteq documents', documents' \subseteq Docs,
           sharings \subseteq sharings', sharings' \subseteq accounts \X documents',
           d \in documents', d.owner = session[c] \/ <<session[c], d>> \in sharings',
           UNCHANGED <<session, accounts, faces>>
    PROVE  Server'
<1>1. opened' \in [Clients -> SUBSET documents']
  BY DEF CInv, Server
<1>2. OpenedIsAccessible'
  BY DEF CInv, Server, OpenedIsAccessible, Accessible, Authenticated
<1>. QED
  BY <1>1, <1>2 DEF CInv, Server

LEMMA ServeStep ==
    ASSUME CInv, NEW c \in Clients, Serve(c)
    PROVE  CInv'
<1>. DEFINE m == Head(up[c])
            Left == up' \in [Clients -> Seq(UserRequest)]
            Told == down' \in [Clients -> Seq(ServerMessage)]
<1>0. /\ Plain("error") \in ServerMessage /\ Plain("signup_ok") \in ServerMessage
      /\ Plain("profile_ok") \in ServerMessage /\ Plain("disconnected") \in ServerMessage
  BY DEF Plain, ServerMessage
<1>. SUFFICES Windows' /\ Channels' /\ Server'
  BY DEF CInv
<1>1. CASE BadRequest(c)
  <2>1. Channels'
    BY <1>1, Thrown DEF BadRequest
  <2>2. Server'
    BY <1>1 DEF BadRequest, CInv, Server, OpenedIsAccessible, Accessible, dbVars
  <2>. QED
    BY <1>1, <2>1, <2>2, WindowsAlone DEF BadRequest
<1>2. ASSUME NEW types, Serving(c, types)
      PROVE  m \in UserRequest /\ m.type \in types /\ Left
  BY <1>2, Served DEF Serving
<1>3. CASE ServeLogin(c)
  <2>1. m \in UserRequest /\ m.type = "login" /\ Left
    BY <1>2, <1>3 DEF ServeLogin
  <2>2. CASE m.right /\ m.user \in accounts
    <3>1. m.user \in Users
      BY <2>1, RequestFields
    <3>2. ProfileOf(Profile(m.user, faces[m.user])) \in ServerMessage
      BY <3>1 DEF ProfileOf, Profile, Profiles, ServerMessage, CInv, Server
    <3>3. Told
      BY <1>3, <2>2, <3>2, Replied DEF ServeLogin
    <3>4. session[c] = NoUser
      BY <1>3 DEF ServeLogin, Authenticated
    <3>5. session' = [session EXCEPT ![c] = m.user]
      BY <1>3, <2>2 DEF ServeLogin, Authenticate
    <3>6. UNCHANGED <<accounts, faces, opened, documents, sharings>>
      BY <1>3 DEF ServeLogin, dbVars
    <3>7. accounts \subseteq Users /\ faces \in [Users -> Faces \ Invalid]
      BY DEF CInv, Server
    <3>8. Server'
      BY <2>2, <3>4, <3>5, <3>6, <3>7, NewlyLoggedIn
    <3>. QED
      BY <1>3, <2>1, <3>3, <3>8, WindowsAlone DEF ServeLogin, Channels
  <2>3. CASE ~(m.right /\ m.user \in accounts)
    <3>1. Told
      BY <1>0, <1>3, <2>3, Replied DEF ServeLogin
    <3>2. Server'
      BY <1>3, <2>3 DEF ServeLogin, CInv, Server, OpenedIsAccessible, Accessible, dbVars
    <3>. QED
      BY <1>3, <2>1, <3>1, <3>2, WindowsAlone DEF ServeLogin, Channels
  <2>. QED
    BY <2>2, <2>3
<1>4. CASE ServeSignup(c)
  <2>1. m \in UserRequest /\ m.type = "signup" /\ Left
    BY <1>2, <1>4 DEF ServeSignup
  <2>2. m.profile \in [user : Users, face : Faces \ Invalid]
    BY <2>1, RequestFields
  <2>3. CASE m.profile.user \notin accounts
    <3>1. Told
      BY <1>0, <1>4, <2>3, Replied DEF ServeSignup
    <3>2. session[c] = NoUser
      BY <1>4 DEF ServeSignup, Authenticated
    <3>3. /\ session' = [session EXCEPT ![c] = m.profile.user]
          /\ accounts' = accounts \cup {m.profile.user}
          /\ faces' = [faces EXCEPT ![m.profile.user] = m.profile.face]
      BY <1>4, <2>3 DEF ServeSignup, Authenticate
    <3>4. UNCHANGED <<opened, documents, sharings>>
      BY <1>4 DEF ServeSignup
    <3>5. accounts' \subseteq Users /\ faces' \in [Users -> Faces \ Invalid]
      BY <2>2, <3>3 DEF CInv, Server
    <3>6. m.profile.user \in accounts' /\ accounts \subseteq accounts'
      BY <3>3
    <3>7. Server'
      BY <3>2, <3>3, <3>4, <3>5, <3>6, NewlyLoggedIn
    <3>. QED
      BY <1>4, <2>1, <3>1, <3>7, WindowsAlone DEF ServeSignup, Channels
  <2>4. CASE m.profile.user \in accounts
    <3>1. Told
      BY <1>0, <1>4, <2>4, Replied DEF ServeSignup
    <3>2. Server'
      BY <1>4, <2>4 DEF ServeSignup, CInv, Server, OpenedIsAccessible, Accessible
    <3>. QED
      BY <1>4, <2>1, <3>1, <3>2, WindowsAlone DEF ServeSignup, Channels
  <2>. QED
    BY <2>3, <2>4
<1>5. CASE ServeLogout(c)
  <2>1. Left
    BY <1>2, <1>5 DEF ServeLogout
  <2>2. << >> \in Seq(ServerMessage)
    OBVIOUS
  <2>3. Server' /\ Told
    BY <1>5, <2>2, SessionEnds DEF ServeLogout
  <2>. QED
    BY <1>5, <2>1, <2>3, WindowsAlone DEF ServeLogout, Channels
<1>6. CASE ServeHangup(c)
  <2>1. << >> \in Seq(UserRequest)
    OBVIOUS
  <2>2. Left
    BY <1>6, <2>1 DEF ServeHangup, CInv, Channels
  <2>3. <<Plain("disconnected")>> \in Seq(ServerMessage)
    BY <1>0
  <2>4. Server' /\ Told
    BY <1>6, <2>3, SessionEnds DEF ServeHangup
  <2>. QED
    BY <1>6, <2>2, <2>4, WindowsAlone DEF ServeHangup, Channels
<1>7. CASE ServeProfile(c)
  <2>1. m \in UserRequest /\ m.type = "profile_update" /\ Left
    BY <1>2, <1>7 DEF ServeProfile
  <2>2. m.profile.face \in Faces \ Invalid
    BY <1>7, <2>1, RequestFields DEF ServeProfile
  <2>3. Told
    BY <1>0, <1>7, Replied DEF ServeProfile
  <2>4. faces' \in [Users -> Faces \ Invalid]
    BY <1>7, <2>2 DEF ServeProfile, CInv, Server
  <2>5. Server'
    BY <1>7, <2>4 DEF ServeProfile, CInv, Server, OpenedIsAccessible, Accessible
  <2>. QED
    BY <1>7, <2>1, <2>3, <2>5, WindowsAlone DEF ServeProfile, Channels
<1>8. CASE ServeDocuments(c)
  <2>1. Left
    BY <1>2, <1>8 DEF ServeDocuments
  <2>2. Documents(Accessible(session[c])) \in ServerMessage
    BY DEF Documents, Accessible, ServerMessage, CInv, Server
  <2>3. Told
    BY <1>8, <2>2, Replied DEF ServeDocuments
  <2>. QED
    BY <1>8, <2>1, <2>3, WindowsAlone, ServerAlone DEF ServeDocuments, Channels
<1>9. CASE ServeCreate(c)
  <2>. DEFINE d == Document(session[c], m.name)
  <2>1. m \in UserRequest /\ m.type = "create" /\ Left
    BY <1>2, <1>9 DEF ServeCreate
  <2>2. session[c] \in Users
    BY <1>9 DEF ServeCreate, Authenticated, CInv, Server
  <2>3. d \in Docs /\ d.owner = session[c]
    BY <2>1, <2>2, RequestFields DEF Document, Docs
  <2>4. CASE d \notin documents
    <3>1. On("document", d) \in ServerMessage
      BY <2>3 DEF On, ServerMessage
    <3>2. Told
      BY <1>9, <2>4, <3>1, Replied DEF ServeCreate
    <3>3. /\ documents' = documents \cup {d}
          /\ opened' = [opened EXCEPT ![c] = @ \cup {d}]
          /\ UNCHANGED <<session, accounts, faces, sharings>>
      BY <1>9, <2>4 DEF ServeCreate
    <3>4. documents' \subseteq Docs /\ sharings \subseteq accounts \X documents'
      BY <2>3, <3>3 DEF CInv, Server
    <3>5. Authenticated(c)
      BY <1>9 DEF ServeCreate
    <3>. HIDE DEF d
    <3>6. Server'
      BY <2>3, <3>3, <3>4, <3>5, Opening
    <3>. QED
      BY <1>9, <2>1, <3>2, <3>6, WindowsAlone DEF ServeCreate, Channels
  <2>5. CASE d \in documents
    <3>1. Told
      BY <1>0, <1>9, <2>5, Replied DEF ServeCreate
    <3>2. Server'
      BY <1>9, <2>5 DEF ServeCreate, CInv, Server, OpenedIsAccessible, Accessible
    <3>. QED
      BY <1>9, <2>1, <3>1, <3>2, WindowsAlone DEF ServeCreate, Channels
  <2>. QED
    BY <2>4, <2>5
<1>10. CASE ServeOpen(c)
  <2>1. m \in UserRequest /\ m.type = "open" /\ Left
    BY <1>2, <1>10 DEF ServeOpen
  <2>2. m.document \in Docs
    BY <2>1, RequestFields
  <2>3. CASE m.document \in Accessible(session[c])
    <3>1. On("document", m.document) \in ServerMessage
      BY <2>2 DEF On, ServerMessage
    <3>2. Told
      <4>1. <<On("document", m.document)>> \in Seq(ServerMessage)
        BY <3>1
      <4>2. {m.document} \in SUBSET Docs
        BY <2>2
      <4>3. down' = Written(c, <<On("document", m.document)>>, "opened", {m.document})
        BY <1>10, <2>3 DEF ServeOpen
      <4>. QED
        BY <4>1, <4>2, <4>3, WrittenAreMessages
    <3>3. /\ opened' = [opened EXCEPT ![c] = @ \cup {m.document}]
          /\ UNCHANGED <<session, accounts, faces, documents, sharings>>
      BY <1>10, <2>3 DEF ServeOpen, dbVars
    <3>4. documents \subseteq Docs /\ sharings \subseteq accounts \X documents
      BY DEF CInv, Server
    <3>5. Authenticated(c)
      BY <1>10 DEF ServeOpen
    <3>6. Server'
      BY <2>2, <2>3, <3>3, <3>4, <3>5, Opening DEF Accessible
    <3>. QED
      BY <1>10, <2>1, <3>2, <3>6, WindowsAlone DEF ServeOpen, Channels
  <2>4. CASE m.document \notin Accessible(session[c])
    <3>1. Told
      BY <1>0, <1>10, <2>4, Replied DEF ServeOpen
    <3>2. Server'
      BY <1>10, <2>4 DEF ServeOpen, CInv, Server, OpenedIsAccessible, Accessible, dbVars
    <3>. QED
      BY <1>10, <2>1, <3>1, <3>2, WindowsAlone DEF ServeOpen, Channels
  <2>. QED
    BY <2>3, <2>4
<1>11. CASE ServeLink(c)
  <2>1. m \in UserRequest /\ (up' = [up EXCEPT ![c] = Tail(@)] => Left)
    BY <1>11, Served DEF ServeLink
  <2>2. m.document \in Docs /\ m.document \in documents
    BY <1>11 DEF ServeLink, CInv, Server
  <2>3. session[c] \in accounts
    BY <1>11 DEF ServeLink, Authenticated, CInv, Server
  <2>4. /\ sharings \subseteq sharings' /\ sharings' \subseteq accounts \X documents
        /\ m.document.owner = session[c] \/ <<session[c], m.document>> \in sharings'
    <3>1. CASE m.document \in Accessible(session[c])
      BY <1>11, <3>1 DEF ServeLink, Accessible, CInv, Server
    <3>2. CASE m.document \notin Accessible(session[c])
      BY <1>11, <2>2, <2>3, <3>2 DEF ServeLink, CInv, Server
    <3>. QED
      BY <3>1, <3>2
  <2>5. UNCHANGED <<session, accounts, faces, documents>>
    BY <1>11 DEF ServeLink
  <2>6. CASE m.document \in opened[c]
    <3>1. Channels'
      BY <1>11, <2>6, Thrown DEF ServeLink
    <3>2. UNCHANGED opened
      BY <1>11, <2>6 DEF ServeLink
    <3>3. Server'
      BY <2>4, <2>5, <3>2 DEF CInv, Server, OpenedIsAccessible, Accessible
    <3>. QED
      BY <1>11, <3>1, <3>3, WindowsAlone DEF ServeLink
  <2>7. CASE m.document \notin opened[c]
    <3>1. On("document", m.document) \in ServerMessage
      BY <2>2 DEF On, ServerMessage
    <3>2. Told
      <4>1. <<On("document", m.document)>> \in Seq(ServerMessage)
        BY <3>1
      <4>2. {m.document} \in SUBSET Docs
        BY <2>2
      <4>3. down' = Written(c, <<On("document", m.document)>>, "opened", {m.document})
        BY <1>11, <2>7 DEF ServeLink
      <4>. QED
        BY <4>1, <4>2, <4>3, WrittenAreMessages
    <3>3. opened' = [opened EXCEPT ![c] = @ \cup {m.document}] /\ Left
      BY <1>11, <2>1, <2>7 DEF ServeLink
    <3>4. documents \subseteq Docs
      BY DEF CInv, Server
    <3>5. Authenticated(c)
      BY <1>11 DEF ServeLink
    <3>6. Server'
      BY <2>2, <2>4, <2>5, <3>3, <3>4, <3>5, Opening
    <3>. QED
      BY <1>11, <3>2, <3>3, <3>6, WindowsAlone DEF ServeLink, Channels
  <2>. QED
    BY <2>6, <2>7
<1>12. CASE ServeWrongLink(c)
  <2>1. Left
    BY <1>2, <1>12 DEF ServeWrongLink
  <2>2. Told
    BY <1>0, <1>12, Replied DEF ServeWrongLink
  <2>. QED
    BY <1>12, <2>1, <2>2, WindowsAlone, ServerAlone DEF ServeWrongLink, Channels
<1>13. CASE ServeClose(c)
  <2>1. m \in UserRequest /\ m.type = "close" /\ Left
    BY <1>2, <1>13 DEF ServeClose
  <2>2. m.document \in Docs
    BY <2>1, RequestFields
  <2>3. << >> \in Seq(ServerMessage)
    OBVIOUS
  <2>4. Told
    BY <1>13, <2>2, <2>3, WrittenAreMessages DEF ServeClose
  <2>5. Server'
    BY <1>13 DEF ServeClose, CInv, Server, OpenedIsAccessible, Accessible, dbVars
  <2>. QED
    BY <1>13, <2>1, <2>4, <2>5, WindowsAlone DEF ServeClose, Channels
<1>14. CASE ServeEdit(c)
  <2>1. m \in UserRequest /\ m.type = "edit" /\ Left
    BY <1>2, <1>14 DEF ServeEdit
  <2>2. m.document \in Docs
    BY <2>1, RequestFields
  <2>3. << >> \in Seq(ServerMessage)
    OBVIOUS
  <2>4. Told
    BY <1>14, <2>2, <2>3, WrittenAreMessages DEF ServeEdit
  <2>. QED
    BY <1>14, <2>1, <2>4, WindowsAlone, ServerAlone DEF ServeEdit, Channels
<1>. QED
  BY <1>1, <1>3, <1>4, <1>5, <1>6, <1>7, <1>8, <1>9, <1>10, <1>11, <1>12, <1>13, <1>14
  DEF Serve

-----------------------------------------------------------------------------
(* Windows, messages and sessions keep their types, and what a session has   *)
(* open stays accessible to its user.                                        *)
THEOREM Invariance == Spec => []CInv
<1>1. CInv /\ [Next]_vars => CInv'
  <2>. SUFFICES ASSUME CInv, [Next]_vars PROVE CInv'
    OBVIOUS
  <2>1. CASE UNCHANGED vars
    <3>1. Windows' /\ Server'
      BY <2>1, WindowsAlone, ServerAlone DEF vars
    <3>2. Channels'
      BY <2>1 DEF vars, CInv, Channels
    <3>. QED
      BY <3>1, <3>2 DEF CInv
  <2>. QED
    BY <2>1, UserStep, ServeStep, ReceiveStep DEF Next
<1>. QED
  BY InitCInv, <1>1, PTL DEF Spec

(* Every variable keeps its type, whatever clients send and in whatever      *)
(* order answers and relays reach them.                                      *)
THEOREM TypeCorrect == Spec => []TypeOK
BY Invariance, PartsAreTypes, PTL

(* A session has a document open only while it is logged in as a user who    *)
(* may access it: for any number of clients, also impatient ones, and        *)
(* whatever was lost, refused or hung up on.                                 *)
THEOREM OnlyAccessibleOpened == Spec => []OpenedIsAccessible
BY Invariance, PartsAreTypes, PTL

-----------------------------------------------------------------------------
(* What a user who waits for answers makes of a connection.  The requests   *)
(* on their way are in the order the protocol allows, from the session of   *)
(* user u with the documents o open.                                        *)
Greetings == {"login", "signup"}
HomeRequests == {"documents_request", "profile_update", "create", "open", "link", "edit", "close"}

Starts(u, m) == m.type = "hangup" \/ (m.type \in Greetings <=> u = NoUser)

Follows(m, n) ==
    \/ n.type = "hangup" /\ m.type # "hangup"
    \/ n.type \in Greetings /\ m.type = "logout"
    \/ n.type \in HomeRequests \cup {"logout"} /\ m.type \in HomeRequests

Closes(m, d) == m.type = "close" /\ m.document = d

(* A document is closed once, nothing is written to it after, and it is     *)
(* opened again only after; one request at most waits for an answer.        *)
InOrder(u, o, q, i) ==
    /\ IF i = 1 THEN Starts(u, q[i]) ELSE Follows(q[i - 1], q[i])
    /\ q[i].type = "profile_update" => q[i].profile.user = u /\ q[i].profile.face \notin Invalid
    /\ q[i].type \in {"close", "edit"} =>
         q[i].document \in o /\ \A j \in 1 .. (i - 1) : ~Closes(q[j], q[i].document)
    /\ q[i].type \in {"open", "link"} =>
         q[i].document \notin o \/ \E j \in 1 .. (i - 1) : Closes(q[j], q[i].document)
    /\ q[i].type \in Answered => \A j \in 1 .. (i - 1) : q[j].type \notin Answered

Orderly(u, o, q) == \A i \in 1 .. Len(q) : InOrder(u, o, q, i)

Asked(q) == {q[i] : i \in DOMAIN q}
Closing(q) == {m.document : m \in {n \in Asked(q) : n.type = "close"}}

LEMMA SameStart ==
    ASSUME NEW u, NEW o, NEW q, NEW r, NEW i \in Nat \ {0}, \A j \in 1 .. i : r[j] = q[j],
           InOrder(u, o, q, i)
    PROVE  InOrder(u, o, r, i)
<1>1. r[i] = q[i] /\ \A j \in 1 .. (i - 1) : r[j] = q[j]
  OBVIOUS
<1>2. i # 1 => r[i - 1] = q[i - 1]
  OBVIOUS
<1>. QED
  BY <1>1, <1>2 DEF InOrder

LEMMA RequestAdded ==
    ASSUME NEW u, NEW o, NEW q \in Seq(UserRequest), NEW m, Orderly(u, o, q),
           InOrder(u, o, Append(q, m), Len(q) + 1)
    PROVE  Orderly(u, o, Append(q, m))
<1>. DEFINE r == Append(q, m)
<1>1. Len(q) \in Nat /\ Len(r) = Len(q) + 1 /\ \A j \in 1 .. Len(q) : r[j] = q[j]
  OBVIOUS
<1>2. InOrder(u, o, r, Len(q) + 1)
  OBVIOUS
<1>. HIDE DEF r
<1>3. ASSUME NEW i \in 1 .. Len(r) PROVE InOrder(u, o, r, i)
  <2>1. CASE i = Len(q) + 1
    BY <2>1, <1>2
  <2>2. CASE i # Len(q) + 1
    <3>1. i \in 1 .. Len(q) /\ i \in Nat \ {0} /\ \A j \in 1 .. i : r[j] = q[j]
      BY <2>2, <1>1
    <3>2. InOrder(u, o, q, i)
      BY <3>1 DEF Orderly
    <3>. QED
      BY <3>1, <3>2, SameStart
  <2>. QED
    BY <2>1, <2>2
<1>. QED
  BY <1>3 DEF Orderly, r

LEMMA NothingAsked == \A u, o : Orderly(u, o, << >>) /\ Asked(<< >>) = {}
<1>1. Len(<< >>) = 0 /\ DOMAIN << >> = {} /\ 1 .. 0 = {}
  OBVIOUS
<1>. QED
  BY <1>1 DEF Orderly, Asked

LEMMA AskedAdded ==
    ASSUME NEW q \in Seq(UserRequest), NEW m
    PROVE  /\ Asked(Append(q, m)) = Asked(q) \cup {m}
           /\ m.type = "close" => Closing(Append(q, m)) = Closing(q) \cup {m.document}
           /\ m.type # "close" => Closing(Append(q, m)) = Closing(q)
           /\ Len(Append(q, m)) = Len(q) + 1 /\ Append(q, m) # << >> /\ Len(q) \in Nat
           /\ Append(q, m)[Len(q) + 1] = m
           /\ \A j \in 1 .. Len(q) : Append(q, m)[j] = q[j]
<1>. DEFINE r == Append(q, m)
<1>1. /\ Len(q) \in Nat /\ DOMAIN q = 1 .. Len(q) /\ DOMAIN r = 1 .. (Len(q) + 1) /\ Len(r) = Len(q) + 1
      /\ r[Len(q) + 1] = m /\ \A j \in 1 .. Len(q) : r[j] = q[j]
  OBVIOUS
<1>2. r # << >>
  BY <1>1
<1>. HIDE DEF r
<1>3. Asked(r) = Asked(q) \cup {m}
  BY <1>1 DEF Asked
<1>. QED
  BY <1>1, <1>2, <1>3 DEF Closing, r

(* The hangup cuts the requests off anywhere. *)
LEMMA CutOff ==
    ASSUME NEW u, NEW o, NEW q \in Seq(UserRequest), Orderly(u, o, q), NEW n \in 0 .. Len(q),
           \A m \in Asked(q) : m.type # "hangup"
    PROVE  LET r == Append(SubSeq(q, 1, n), Plain("hangup"))
           IN  Orderly(u, o, r) /\ r # << >> /\ Len(r) \in Nat /\ r[Len(r)].type = "hangup"
<1>. DEFINE s == SubSeq(q, 1, n)
            r == Append(s, Plain("hangup"))
<1>1. Len(q) \in Nat /\ n \in Nat /\ n <= Len(q) /\ DOMAIN q = 1 .. Len(q)
  OBVIOUS
<1>2. s \in Seq(UserRequest) /\ Len(s) = n /\ \A i \in 1 .. n : s[i] = q[i]
  <2>1. \A i \in 1 .. n : q[i] \in UserRequest
    BY <1>1, ElementOfSeq
  <2>2. /\ s \in Seq(UserRequest) /\ Len(s) = IF 1 <= n THEN n - 1 + 1 ELSE 0
        /\ \A i \in 1 .. (n - 1 + 1) : s[i] = q[1 + i - 1]
    BY <1>1, <2>1, SubSeqProperties
  <2>. HIDE DEF s
  <2>. QED
    BY <2>2, <1>1
<1>. HIDE DEF s
<1>3. ASSUME NEW i \in 1 .. Len(s) PROVE InOrder(u, o, s, i)
  <2>1. i \in 1 .. Len(q) /\ i \in Nat \ {0} /\ \A j \in 1 .. i : s[j] = q[j]
    BY <1>1, <1>2
  <2>2. InOrder(u, o, q, i)
    BY <2>1 DEF Orderly
  <2>. QED
    BY <2>1, <2>2, SameStart
<1>4. Orderly(u, o, s)
  BY <1>3 DEF Orderly
<1>5. /\ r # << >> /\ Len(r) = n + 1 /\ r[n + 1] = Plain("hangup") /\ Plain("hangup").type = "hangup"
      /\ \A j \in 1 .. n : r[j] = s[j]
  <2>. DEFINE h == Plain("hangup")
  <2>1. h.type = "hangup"
    BY DEF Plain
  <2>. HIDE DEF h
  <2>2. /\ Append(s, h) # << >> /\ Len(Append(s, h)) = n + 1 /\ Append(s, h)[n + 1] = h
        /\ \A j \in 1 .. n : Append(s, h)[j] = s[j]
    BY <1>1, <1>2
  <2>. QED
    BY <2>1, <2>2 DEF h
<1>6. InOrder(u, o, r, Len(s) + 1)
  <2>1. CASE n = 0
    BY <2>1, <1>2, <1>5 DEF InOrder, Starts, Answered
  <2>2. CASE n # 0
    <3>1. n \in 1 .. n /\ n \in DOMAIN q /\ (n + 1) - 1 = n /\ n + 1 # 1
      BY <1>1, <2>2
    <3>2. r[n] = q[n] /\ q[n] \in Asked(q)
      BY <3>1, <1>2, <1>5 DEF Asked
    <3>3. Follows(r[(n + 1) - 1], r[n + 1])
      BY <3>1, <3>2, <1>5 DEF Follows
    <3>. QED
      BY <1>2, <1>5, <3>1, <3>3 DEF InOrder, Answered
  <2>. QED
    BY <2>1, <2>2
<1>7. Orderly(u, o, r)
  BY <1>2, <1>4, <1>6, RequestAdded
<1>. QED
  BY <1>1, <1>5, <1>7 DEF r, s

(* What serving the first request does to the session, as far as the others *)
(* depend on it.                                                            *)
Changes(m, u, o, v, p) ==
    /\ m.type = "logout" => v = NoUser
    /\ m.type \in HomeRequests =>
         /\ v = u
         /\ IF m.type = "close" THEN p = o \ {m.document}
            ELSE p = o \/ (m.type \in Answered /\ o \subseteq p)

LEMMA RequestServed ==
    ASSUME NEW u, NEW o, NEW q \in Seq(UserRequest), q # << >>, Orderly(u, o, q),
           NEW v, NEW p, Changes(Head(q), u, o, v, p)
    PROVE  Orderly(v, p, Tail(q))
<1>. DEFINE r == Tail(q)
            m == Head(q)
<1>1. /\ Len(q) \in Nat \ {0} /\ m = q[1] /\ Len(r) = Len(q) - 1
      /\ \A i \in 1 .. Len(r) : r[i] = q[i + 1]
  BY HeadTailProperties
<1>. HIDE DEF r
<1>. SUFFICES ASSUME NEW i \in 1 .. Len(r) PROVE InOrder(v, p, r, i)
  BY DEF Orderly, r
<1>2. i \in Nat \ {0} /\ i + 1 \in 1 .. Len(q) /\ r[i] = q[i + 1] /\ i + 1 # 1 /\ (i + 1) - 1 = i /\ 1 \in 1 .. i
  BY <1>1
<1>3. InOrder(u, o, q, i + 1)
  BY <1>2 DEF Orderly
<1>4. \A j \in 1 .. (i - 1) : r[j] = q[j + 1] /\ j + 1 \in 1 .. i
  BY <1>1
<1>5. Follows(q[i], q[i + 1])
  BY <1>2, <1>3 DEF InOrder
<1>6. \A j \in 1 .. i : j = 1 \/ (j - 1 \in 1 .. (i - 1) /\ r[j - 1] = q[j])
  BY <1>1
(* After a greeting and after a hangup there is nothing but the hangup.     *)
<1>7. ASSUME i # 1 PROVE q[i] = r[i - 1]
  BY <1>6, <1>7, <1>2
<1>8. CASE m.type \in Greetings \cup {"hangup", "logout"}
  <2>1. ASSUME i # 1 PROVE Follows(q[1], q[2]) /\ Follows(q[2], q[3]) /\ 3 \in 1 .. Len(q)
    <3>1. 2 \in 1 .. Len(q) /\ 3 \in 1 .. Len(q)
      BY <1>1, <2>1
    <3>2. InOrder(u, o, q, 2) /\ InOrder(u, o, q, 3)
      BY <3>1 DEF Orderly
    <3>3. 2 - 1 = 1 /\ 3 - 1 = 2
      OBVIOUS
    <3>. QED
      BY <3>1, <3>2, <3>3 DEF InOrder
  <2>2. CASE i = 1
    <3>1. Follows(m, r[i]) /\ i - 1 = 0 /\ 1 .. (i - 1) = {}
      BY <1>1, <1>2, <1>5, <2>2
    <3>2. r[i].type \in Greetings \cup {"hangup"}
      BY <1>8, <3>1 DEF Follows, Greetings, HomeRequests
    <3>3. r[i].type \in Greetings => v = NoUser
      BY <1>8, <3>1 DEF Follows, Changes, Greetings, HomeRequests
    <3>4. Starts(v, r[i])
      BY <3>2, <3>3 DEF Starts
    <3>. QED
      BY <2>2, <3>1, <3>2, <3>4 DEF InOrder, Greetings, Answered
  <2>3. CASE i # 1
    <3>1. m.type = "logout" /\ q[2].type \in Greetings /\ q[3].type = "hangup"
      BY <1>1, <1>8, <2>1, <2>3 DEF Follows, Greetings, HomeRequests
    <3>2. CASE i = 2
      <4>1. r[i].type = "hangup" /\ r[i - 1].type \in Greetings
        BY <3>1, <3>2, <1>2, <1>7
      <4>. QED
        BY <4>1, <2>3 DEF InOrder, Follows, Greetings, Answered
    <3>3. CASE i # 2
      <4>1. 4 \in 1 .. Len(q)
        BY <1>1, <2>3, <3>3
      <4>2. InOrder(u, o, q, 4) /\ 4 - 1 = 3
        BY <4>1 DEF Orderly
      <4>3. Follows(q[3], q[4])
        BY <4>2 DEF InOrder
      <4>. QED
        BY <4>3, <3>1 DEF Follows, Greetings, HomeRequests
    <3>. QED
      BY <3>2, <3>3
  <2>. QED
    BY <2>2, <2>3
<1>9. CASE m.type \in HomeRequests
  <2>0. v = u
    BY <1>9 DEF Changes
  <2>1. IF i = 1 THEN Starts(v, r[i]) ELSE Follows(r[i - 1], r[i])
    <3>1. CASE i = 1
      <4>1. u # NoUser
        <5>1. Starts(u, q[1])
          <6>1. 1 \in 1 .. Len(q)
            BY <1>1
          <6>2. InOrder(u, o, q, 1)
            BY <6>1 DEF Orderly
          <6>. QED
            BY <6>2 DEF InOrder
        <5>. QED
          BY <5>1, <1>1, <1>9 DEF Starts, HomeRequests, Greetings
      <4>2. r[i].type \notin Greetings
        BY <1>1, <1>2, <1>5, <1>9, <3>1 DEF Follows, Greetings, HomeRequests
      <4>. QED
        BY <3>1, <4>1, <4>2, <2>0 DEF Starts
    <3>2. CASE i # 1
      BY <3>2, <1>2, <1>5, <1>7
    <3>. QED
      BY <3>1, <3>2
  <2>2. r[i].type = "profile_update" => r[i].profile.user = v /\ r[i].profile.face \notin Invalid
    BY <2>0, <1>2, <1>3 DEF InOrder
  <2>3. r[i].type \in {"close", "edit"} =>
          r[i].document \in p /\ \A j \in 1 .. (i - 1) : ~Closes(r[j], r[i].document)
    <3>. SUFFICES ASSUME r[i].type \in {"close", "edit"}
                  PROVE  r[i].document \in p /\ \A j \in 1 .. (i - 1) : ~Closes(r[j], r[i].document)
      OBVIOUS
    <3>1. r[i].document \in o /\ \A j \in 1 .. i : ~Closes(q[j], r[i].document)
      BY <1>2, <1>3 DEF InOrder
    <3>2. r[i].document \in p
      BY <3>1, <1>1, <1>2, <1>9 DEF Changes, Closes
    <3>. QED
      BY <3>1, <3>2, <1>4
  <2>4. r[i].type \in Answered =>
          m.type \notin Answered /\ \A j \in 1 .. (i - 1) : r[j].type \notin Answered
    BY <1>1, <1>2, <1>3, <1>4 DEF InOrder
  <2>5. r[i].type \in {"open", "link"} =>
          r[i].document \notin p \/ \E j \in 1 .. (i - 1) : Closes(r[j], r[i].document)
    <3>. SUFFICES ASSUME r[i].type \in {"open", "link"}, r[i].document \in p
                  PROVE  \E j \in 1 .. (i - 1) : Closes(r[j], r[i].document)
      OBVIOUS
    <3>1. m.type \notin Answered
      BY <2>4 DEF Answered
    <3>2. r[i].document \in o /\ ~Closes(q[1], r[i].document)
      BY <3>1, <1>1, <1>9 DEF Changes, Closes
    <3>3. PICK j \in 1 .. i : Closes(q[j], r[i].document)
      BY <3>2, <1>2, <1>3 DEF InOrder
    <3>. QED
      BY <3>2, <3>3, <1>6
  <2>. QED
    BY <2>1, <2>2, <2>3, <2>4, <2>5 DEF InOrder
<1>10. m.type \in HomeRequests \cup Greetings \cup {"hangup", "logout"}
  <2>1. m \in UserRequest
    OBVIOUS
  <2>. QED
    BY <2>1 DEF UserRequest, HomeRequests, Greetings
<1>. QED
  BY <1>8, <1>9, <1>10

-----------------------------------------------------------------------------
(* Answers among the messages on their way to a client.                     *)
RepliesIn(d) == {i \in DOMAIN d : d[i].type \in Answers}
Replies(d) == {d[i] : i \in RepliesIn(d)}
Arriving(d) == {m.document : m \in {n \in Replies(d) : n.type = "document"}}
OneReply(d) == \A i, j \in RepliesIn(d) : i = j
Ended(d) == Plain("disconnected") \in ToSet(d)

Notice == {"opened", "closed", "edited"}

(* The two differ by what is said about other clients. *)
Alike(d, e) ==
    /\ Replies(e) = Replies(d)
    /\ OneReply(d) => OneReply(e)
    /\ Ended(e) => Ended(d)

LEMMA SameIsAlike == \A d : Alike(d, d)
BY DEF Alike

LEMMA NoticesAlike ==
    ASSUME NEW d \in Seq(ServerMessage), NEW e \in Seq(ServerMessage),
           \A i \in 1 .. Len(e) : e[i].type \in Notice
    PROVE  Alike(d, d \o e)
<1>. DEFINE f == d \o e
<1>1. /\ Len(d) \in Nat /\ Len(e) \in Nat /\ DOMAIN d = 1 .. Len(d) /\ DOMAIN e = 1 .. Len(e)
      /\ DOMAIN f = 1 .. (Len(d) + Len(e))
      /\ \A i \in 1 .. Len(d) : f[i] = d[i]
      /\ \A i \in 1 .. (Len(d) + Len(e)) : i \in 1 .. Len(d) \/ (i - Len(d) \in 1 .. Len(e) /\ f[i] = e[i - Len(d)])
  OBVIOUS
<1>. HIDE DEF f
<1>2. RepliesIn(f) = RepliesIn(d)
  BY <1>1 DEF RepliesIn, Answers, Notice
<1>3. \A i \in RepliesIn(d) : f[i] = d[i]
  BY <1>1 DEF RepliesIn
<1>4. Replies(f) = Replies(d)
  BY <1>2, <1>3 DEF Replies
<1>5. Ended(f) => Ended(d)
  <2>1. Plain("disconnected").type = "disconnected"
    BY DEF Plain
  <2>. HIDE DEF f
  <2>2. ASSUME NEW i \in DOMAIN f, f[i] = Plain("disconnected") PROVE \E j \in DOMAIN d : d[j] = Plain("disconnected")
    <3>1. f[i].type \notin Notice
      BY <2>1, <2>2 DEF Notice
    <3>. QED
      BY <3>1, <2>2, <1>1
  <2>. QED
    BY <2>2 DEF Ended, ToSet
<1>. QED
  BY <1>2, <1>4, <1>5 DEF Alike, OneReply, f

LEMMA ReplyAdded ==
    ASSUME NEW d \in Seq(ServerMessage), NEW m, m.type \in Answers, Replies(d) = {}
    PROVE  /\ Replies(Append(d, m)) = {m}
           /\ OneReply(Append(d, m))
           /\ Ended(Append(d, m)) => Ended(d)
<1>. DEFINE f == Append(d, m)
<1>1. /\ Len(d) \in Nat /\ DOMAIN d = 1 .. Len(d)
      /\ DOMAIN f = 1 .. (Len(d) + 1) /\ f[Len(d) + 1] = m
      /\ \A i \in 1 .. Len(d) : f[i] = d[i]
  OBVIOUS
<1>. HIDE DEF f
<1>2. RepliesIn(d) = {}
  BY DEF Replies
<1>3. RepliesIn(f) = {Len(d) + 1}
  BY <1>1, <1>2 DEF RepliesIn
<1>4. Replies(f) = {m} /\ OneReply(f)
  BY <1>1, <1>3 DEF Replies, OneReply
<1>5. Ended(f) => Ended(d)
  <2>1. m # Plain("disconnected")
    BY DEF Plain, Answers
  <2>. QED
    BY <1>1, <2>1 DEF Ended, ToSet
<1>. QED
  BY <1>4, <1>5 DEF f

LEMMA ReplyTaken ==
    ASSUME NEW d \in Seq(ServerMessage), d # << >>
    PROVE  /\ Head(d).type \in Answers /\ OneReply(d) =>
                Replies(d) = {Head(d)} /\ Replies(Tail(d)) = {} /\ OneReply(Tail(d))
           /\ Head(d).type \notin Answers => Alike(d, Tail(d))
           /\ Ended(Tail(d)) => Ended(d)
           /\ Head(d).type = "disconnected" => Ended(d)
           /\ Head(d) \in ServerMessage
<1>. DEFINE r == Tail(d)
<1>1. /\ Len(d) \in Nat \ {0} /\ DOMAIN d = 1 .. Len(d) /\ Head(d) = d[1] /\ 1 \in DOMAIN d
      /\ DOMAIN r = 1 .. (Len(d) - 1)
      /\ \A i \in 1 .. (Len(d) - 1) : r[i] = d[i + 1] /\ i + 1 \in 1 .. Len(d)
      /\ \A i \in 1 .. Len(d) : i = 1 \/ (i - 1 \in DOMAIN r /\ r[i - 1] = d[i])
      /\ d[1] \in ServerMessage
  BY HeadTailProperties
<1>. HIDE DEF r
<1>2. \A i \in RepliesIn(r) : i + 1 \in RepliesIn(d) /\ r[i] = d[i + 1] /\ i + 1 # 1 /\ i \in Nat
  BY <1>1 DEF RepliesIn
<1>3. ASSUME Head(d).type \in Answers, OneReply(d)
      PROVE  Replies(d) = {Head(d)} /\ Replies(r) = {} /\ OneReply(r)
  <2>1. 1 \in RepliesIn(d)
    BY <1>1, <1>3 DEF RepliesIn
  <2>2. RepliesIn(d) = {1}
    BY <2>1, <1>3 DEF OneReply
  <2>3. RepliesIn(r) = {}
    BY <2>2, <1>2
  <2>. QED
    BY <1>1, <2>2, <2>3 DEF Replies, OneReply
<1>4. ASSUME Head(d).type \notin Answers PROVE Replies(r) = Replies(d) /\ (OneReply(d) => OneReply(r))
  <2>1. \A i \in RepliesIn(d) : i - 1 \in RepliesIn(r) /\ r[i - 1] = d[i]
    BY <1>1, <1>4 DEF RepliesIn
  <2>2. Replies(r) = Replies(d)
    BY <2>1, <1>2 DEF Replies
  <2>3. ASSUME OneReply(d), NEW i \in RepliesIn(r), NEW j \in RepliesIn(r) PROVE i = j
    <3>1. i + 1 = j + 1
      BY <2>3, <1>2 DEF OneReply
    <3>. QED
      BY <3>1, <1>2
  <2>. QED
    BY <2>2, <2>3 DEF OneReply
<1>5. Ended(r) => Ended(d)
  BY <1>1 DEF Ended, ToSet
<1>6. Head(d).type = "disconnected" => Ended(d)
  <2>1. d[1].type = "disconnected" => d[1] = Plain("disconnected")
    BY <1>1 DEF ServerMessage, Plain
  <2>. QED
    BY <1>1, <2>1 DEF Ended, ToSet
<1>. QED
  BY <1>1, <1>3, <1>4, <1>5, <1>6 DEF Alike, r

(* What the server writes for a request: an answer to its client, and       *)
(* notices to others.                                                       *)
LEMMA NoticesAreNotices ==
    ASSUME NEW ds \in SUBSET Docs, NEW type, type \in Notice \/ ds = {}
    PROVE  /\ Notices(type, ds) \in Seq(ServerMessage)
           /\ \A i \in 1 .. Len(Notices(type, ds)) : Notices(type, ds)[i].type \in Notice
<1>. DEFINE s == SetToSeq(ds)
<1>1. Notices(type, ds) \in Seq(ServerMessage)
  BY NoticesAreMessages DEF Notice
<1>2. s \in Seq(ds)
  <2>1. IsFiniteSet(ds)
    BY SessionAssumption, FS_Subset
  <2>. QED
    BY <2>1, SetsToSequences
<1>3. Notices(type, ds) = [i \in DOMAIN s |-> On(type, s[i])]
  BY DEF Notices
<1>. HIDE DEF s
<1>4. DOMAIN s = 1 .. Len(s) /\ Len(s) \in Nat /\ \A i \in 1 .. Len(s) : s[i] \in ds
  BY <1>2
<1>5. Len(Notices(type, ds)) = Len(s)
  BY <1>3, <1>4
<1>6. ASSUME NEW i \in 1 .. Len(s) PROVE Notices(type, ds)[i].type = type /\ type \in Notice
  BY <1>3, <1>4 DEF On
<1>. QED
  BY <1>1, <1>5, <1>6

LEMMA WrittenTo ==
    ASSUME CInv, NEW c, NEW answers, NEW type, NEW ds \in SUBSET Docs,
           type \in Notice \/ ds = {}, down' = Written(c, answers, type, ds)
    PROVE  /\ \A e \in Clients : Offline(e) => down'[e] = down[e]
           /\ \A e \in Clients \ {c} : Alike(down[e], down'[e])
           /\ c \in Clients /\ ~Offline(c) => down'[c] = down[c] \o answers
<1>1. \A e \in Clients : Offline(e) => down'[e] = down[e]
  BY DEF Written
<1>2. c \in Clients /\ ~Offline(c) => down'[c] = down[c] \o answers
  BY DEF Written
<1>3. ASSUME NEW e \in Clients \ {c} PROVE Alike(down[e], down'[e])
  <2>1. CASE Offline(e)
    BY <1>1, <2>1, SameIsAlike
  <2>2. CASE ~Offline(e)
    <3>. DEFINE ns == Notices(type, ds \cap opened[e])
    <3>1. down'[e] = down[e] \o ns
      BY <2>2 DEF Written
    <3>2. ns \in Seq(ServerMessage) /\ \A i \in 1 .. Len(ns) : ns[i].type \in Notice
      BY NoticesAreNotices
    <3>3. down[e] \in Seq(ServerMessage)
      BY DEF CInv, Channels
    <3>. HIDE DEF ns
    <3>. QED
      BY <3>1, <3>2, <3>3, NoticesAlike
  <2>. QED
    BY <2>1, <2>2
<1>. QED
  BY <1>1, <1>2, <1>3

-----------------------------------------------------------------------------
(* The windows of a patient user and the session behind them.  Unless the   *)
(* connection is lost there is one of two: a form, and nobody logged in     *)
(* once the requests are served, or the home of the session's user, with    *)
(* one request at most to be answered.                                      *)
Current(c, p) == p.user = session[c] /\ (c \notin stale => p.face = faces[session[c]])

Away(c) ==
    /\ Offline(c)
    /\ down[c] = << >>
    /\ editors[c] = {}
    /\ IF up[c] = << >> THEN session[c] = NoUser ELSE Last(up[c]).type = "hangup"

Idle(c) ==
    /\ ready[c]
    /\ Replies(down[c]) = {}
    /\ \A m \in Asked(up[c]) : m.type \notin Answered
    /\ IF up[c] = << >> THEN session[c] = NoUser ELSE Last(up[c]).type = "logout"

Greeting(c) ==
    /\ ~ready[c]
    /\ Replies(down[c]) = {}
    /\ up[c] # << >>
    /\ Last(up[c]).type \in Greetings
    /\ Last(up[c]).type = "signup" => Last(up[c]).profile = me[c]

Greeted(c) ==
    /\ ~ready[c]
    /\ up[c] = << >>
    /\ Replies(down[c]) # {}
    /\ \A m \in Replies(down[c]) :
         \/ m.type = "error" /\ session[c] = NoUser
         \/ /\ session[c] # NoUser /\ opened[c] = {}
            /\ \/ m.type = "profile" /\ Current(c, m.profile)
               \/ m.type = "signup_ok" /\ Current(c, me[c])

AtForm(c) ==
    /\ screen[c] \in Forms
    /\ editors[c] = {}
    /\ ~Modal(c)
    /\ Idle(c) \/ Greeting(c) \/ Greeted(c)

(* An editor for each open document, but those being closed and opened.     *)
EditorsFit(c) == \A d \in Docs :
    /\ d \in opened[c] <=> d \in editors[c] \/ d \in Closing(up[c]) \/ d \in Arriving(down[c])
    /\ d \in editors[c] => d \notin Closing(up[c]) /\ d \notin Arriving(down[c])
    /\ d \in Closing(up[c]) => d \notin Arriving(down[c])

ProfileFits(c) ==
    /\ me[c].user = session[c]
    /\ Modal(c) => dialog[c].profile.user = session[c]
    /\ \A m \in Asked(up[c]) : m.type = "profile_update" => Modal(c) /\ dialog[c].profile = m.profile
    /\ IF \E m \in Replies(down[c]) : m.type = "profile_ok"
       THEN Modal(c) /\ Current(c, dialog[c].profile)
       ELSE Current(c, me[c])

AtHome(c) ==
    /\ screen[c] = "home"
    /\ session[c] # NoUser
    /\ \A m \in Asked(up[c]) : m.type \in HomeRequests
    /\ \A m \in Replies(down[c]) : m.type \in {"error", "profile_ok", "documents", "document"}
    /\ EditorsFit(c)
    /\ ProfileFits(c)

InTouch(c) ==
    /\ \A m \in Asked(up[c]) : m.type # "hangup"
    /\ ~Ended(down[c])
    /\ OneReply(down[c])
    /\ Replies(down[c]) # {} => \A m \in Asked(up[c]) : m.type \notin Answered
    /\ AtForm(c) \/ AtHome(c)

Keeps(c) ==
    /\ Orderly(session[c], opened[c], up[c])
    /\ Away(c) \/ InTouch(c)

PInv == NoBadClient /\ \A c \in Patient : Keeps(c)

-----------------------------------------------------------------------------
(* What others do, and notices of it, leave a client as it was.             *)
LEMMA OthersDo ==
    ASSUME NEW c, Keeps(c),
           screen'[c] = screen[c], ready'[c] = ready[c], me'[c] = me[c],
           dialog'[c] = dialog[c], editors'[c] = editors[c], up'[c] = up[c],
           session'[c] = session[c], opened'[c] = opened[c],
           Offline(c) => down'[c] = down[c], Alike(down[c], down'[c]),
           session[c] # NoUser /\ c \notin stale' =>
             c \notin stale /\ faces'[session[c]] = faces[session[c]]
    PROVE  Keeps(c)'
<1>1. Orderly(session[c], opened[c], up[c])'
  BY DEF Keeps
<1>2. ASSUME Away(c) PROVE Away(c)'
  BY <1>2 DEF Away, Offline
<1>3. ASSUME InTouch(c) PROVE InTouch(c)'
  <2>1. /\ Replies(down'[c]) = Replies(down[c]) /\ OneReply(down'[c]) /\ ~Ended(down'[c])
        /\ Arriving(down'[c]) = Arriving(down[c])
    BY <1>3 DEF InTouch, Alike, Arriving
  <2>2. \A p : session[c] # NoUser /\ Current(c, p) => Current(c, p)'
    BY DEF Current
  <2>3. ASSUME AtForm(c) PROVE AtForm(c)'
    <3>1. Modal(c)' = Modal(c)
      BY DEF Modal
    <3>2. Idle(c) => Idle(c)'
      BY <2>1 DEF Idle
    <3>3. Greeting(c) => Greeting(c)'
      BY <2>1 DEF Greeting
    <3>4. Greeted(c) => Greeted(c)'
      <4>1. session[c] # NoUser /\ Current(c, me[c]) => Current(c, me[c])'
        BY DEF Current
      <4>. QED
        BY <2>1, <2>2, <4>1 DEF Greeted
    <3>. QED
      BY <2>3, <3>1, <3>2, <3>3, <3>4 DEF AtForm
  <2>4. ASSUME AtHome(c) PROVE AtHome(c)'
    <3>1. EditorsFit(c)'
      BY <2>1, <2>4 DEF AtHome, EditorsFit
    <3>2. ProfileFits(c)'
      BY <2>1, <2>2, <2>4 DEF AtHome, ProfileFits, Modal, Current
    <3>. QED
      BY <2>1, <2>4, <3>1, <3>2 DEF AtHome
  <2>. QED
    BY <1>3, <2>1, <2>3, <2>4 DEF InTouch
<1>. QED
  BY <1>1, <1>2, <1>3 DEF Keeps

-----------------------------------------------------------------------------
(* What the user of the client does.                                        *)
LEMMA KeptClient ==
    ASSUME CInv, NEW c \in Clients, Keeps(c)
    PROVE  /\ up[c] \in Seq(UserRequest) /\ down[c] \in Seq(ServerMessage)
           /\ DOMAIN up[c] = 1 .. Len(up[c]) /\ Len(up[c]) \in Nat
           /\ session[c] = NoUser => opened[c] = {}
           /\ opened[c] \subseteq documents /\ documents \subseteq Docs
           /\ ~Offline(c) => InTouch(c)
           /\ Offline(c) => Away(c)
           /\ Orderly(session[c], opened[c], up[c])
           /\ screen[c] = "home" => AtHome(c)
           /\ screen[c] \in Forms => AtForm(c)
           /\ up[c] # << >> => Last(up[c]) \in Asked(up[c]) /\ Last(up[c]) = up[c][Len(up[c])]
<1>1. /\ up[c] \in Seq(UserRequest) /\ down[c] \in Seq(ServerMessage)
      /\ session[c] = NoUser => opened[c] = {}
      /\ opened[c] \subseteq documents /\ documents \subseteq Docs
  BY DEF CInv, Channels, Server, OpenedIsAccessible
<1>2. DOMAIN up[c] = 1 .. Len(up[c]) /\ Len(up[c]) \in Nat
  BY <1>1
<1>3. /\ InTouch(c) => ~Offline(c)
      /\ Offline(c) <=> Away(c)
      /\ ~Offline(c) => InTouch(c)
      /\ screen[c] = "home" => AtHome(c)
      /\ screen[c] \in Forms => AtForm(c)
  BY DEF Keeps, InTouch, AtForm, AtHome, Away, Forms, Offline
<1>4. up[c] # << >> => Len(up[c]) \in DOMAIN up[c]
  BY <1>1, <1>2
<1>. QED
  BY <1>1, <1>2, <1>3, <1>4 DEF Keeps, Last, Asked

LEMMA NotWaiting ==
    ASSUME CInv, NEW c \in Clients
    PROVE  ~Waiting(c) => Replies(down[c]) = {} /\ \A m \in Asked(up[c]) : m.type \notin Answered
BY DEF Waiting, Replies, RepliesIn, Asked

LEMMA Connecting ==
    ASSUME CInv, NEW c \in Clients, Keeps(c), Connect(c)
    PROVE  Keeps(c)'
<1>1. Offline(c) /\ up[c] = << >> /\ down[c] = << >> /\ ~Modal(c)
  BY DEF Connect, Click, Offline
<1>2. /\ screen'[c] = "login" /\ ready'[c] /\ editors'[c] = {}
      /\ UNCHANGED <<dialog, up, down, session, opened>>
  BY DEF Connect, ShowForm, CInv, Windows, serverVars
<1>3. session[c] = NoUser
  BY <1>1, KeptClient DEF Away
<1>4. Replies(<< >>) = {} /\ OneReply(<< >>) /\ ~Ended(<< >>) /\ Asked(<< >>) = {}
  BY DEF Replies, RepliesIn, OneReply, Ended, ToSet, Asked
<1>5. Idle(c)'
  BY <1>1, <1>2, <1>3, <1>4 DEF Idle
<1>6. AtForm(c)'
  BY <1>1, <1>2, <1>5 DEF AtForm, Forms, Modal
<1>7. InTouch(c)'
  BY <1>1, <1>2, <1>4, <1>6 DEF InTouch
<1>8. Orderly(session[c], opened[c], up[c])'
  BY <1>2 DEF Keeps
<1>. QED
  BY <1>7, <1>8 DEF Keeps

LEMMA Greets ==
    ASSUME CInv, NEW c \in Clients, Keeps(c), screen[c] \in Forms, ready[c],
           NEW m \in UserRequest, m.type \in Greetings, Send(c, m),
           screen'[c] = screen[c], ~ready'[c], m.type = "signup" => m.profile = me'[c],
           UNCHANGED <<editors, dialog, down, session, opened>>
    PROVE  Keeps(c)'
<1>1. AtForm(c) /\ InTouch(c) /\ Idle(c)
  BY KeptClient DEF AtForm, Greeting, Greeted, Offline, Forms
<1>. DEFINE q == up[c]
            r == Append(q, m)
<1>2. up'[c] = r /\ q \in Seq(UserRequest)
  BY KeptClient DEF Send, CInv, Channels
<1>. HIDE DEF q
<1>3. /\ Asked(r) = Asked(q) \cup {m} /\ r # << >> /\ Len(r) = Len(q) + 1 /\ Len(q) \in Nat
      /\ r[Len(q) + 1] = m /\ \A j \in 1 .. Len(q) : r[j] = q[j]
  BY <1>2, AskedAdded
<1>4. /\ \A n \in Asked(q) : n.type \notin Answered
      /\ IF q = << >> THEN session[c] = NoUser ELSE Last(q).type = "logout"
      /\ Replies(down[c]) = {}
  BY <1>1 DEF Idle, q
<1>5. DOMAIN q = 1 .. Len(q) /\ (q # << >> => Len(q) # 0 /\ Last(q) = q[Len(q)]) /\ (q = << >> => Len(q) = 0)
  BY <1>2 DEF Last
<1>6. Last(r) = m
  BY <1>3 DEF Last
<1>. HIDE DEF r
<1>7. InOrder(session[c], opened[c], r, Len(q) + 1)
  <2>1. IF Len(q) + 1 = 1 THEN Starts(session[c], r[Len(q) + 1])
        ELSE Follows(r[(Len(q) + 1) - 1], r[Len(q) + 1])
    <3>1. CASE q = << >>
      BY <3>1, <1>3, <1>4, <1>5 DEF Starts
    <3>2. CASE q # << >>
      <4>1. Len(q) \in 1 .. Len(q) /\ (Len(q) + 1) - 1 = Len(q) /\ Len(q) + 1 # 1
        BY <3>2, <1>3, <1>5
      <4>. QED
        BY <3>2, <4>1, <1>3, <1>4, <1>5 DEF Follows
    <3>. QED
      BY <3>1, <3>2
  <2>2. \A j \in 1 .. ((Len(q) + 1) - 1) : r[j].type \notin Answered
    BY <1>3, <1>4, <1>5 DEF Asked
  <2>. QED
    BY <2>1, <2>2, <1>3 DEF InOrder, Greetings
<1>8. Orderly(session[c], opened[c], r)
  BY <1>2, <1>7, KeptClient, RequestAdded DEF q, r
<1>9. Greeting(c)'
  BY <1>2, <1>3, <1>4, <1>6 DEF Greeting
<1>10. AtForm(c)'
  BY <1>1, <1>9 DEF AtForm, Modal
<1>11. InTouch(c)'
  <2>1. m.type # "hangup"
    BY DEF Greetings
  <2>. QED
    BY <1>1, <1>2, <1>3, <1>4, <1>10, <2>1 DEF InTouch, q
<1>. QED
  BY <1>2, <1>8, <1>11 DEF Keeps

LEMMA ChangesForm ==
    ASSUME CInv, NEW c \in Clients, Keeps(c), GoToSignup(c) \/ GoToLogin(c)
    PROVE  Keeps(c)'
<1>1. /\ screen[c] \in Forms /\ ready[c] /\ screen'[c] \in Forms /\ ready'[c] /\ editors'[c] = editors[c]
      /\ UNCHANGED <<dialog, up, down, session, opened>>
  <2>1. screen[c] \in Forms /\ ready[c] /\ UNCHANGED <<dialog, up, down, session, opened>>
    BY DEF GoToSignup, GoToLogin, Click, Forms, serverVars
  <2>2. editors[c] = {}
    BY <2>1, KeptClient DEF AtForm
  <2>. QED
    BY <2>1, <2>2 DEF GoToSignup, GoToLogin, ShowForm, Forms, CInv, Windows
<1>2. AtForm(c) /\ InTouch(c) /\ Idle(c)
  BY <1>1, KeptClient DEF AtForm, Greeting, Greeted, Offline, Forms
<1>3. Idle(c)'
  BY <1>1, <1>2 DEF Idle
<1>4. AtForm(c)'
  BY <1>1, <1>2, <1>3 DEF AtForm, Modal
<1>5. InTouch(c)'
  BY <1>1, <1>2, <1>4 DEF InTouch
<1>. QED
  BY <1>1, <1>5 DEF Keeps

(* A request from the home or an editor. *)
LEMMA HomeAsks ==
    ASSUME CInv, NEW c \in Clients, Keeps(c), AtHome(c),
           NEW m \in UserRequest, m.type \in HomeRequests, Send(c, m),
           m.type \in Answered => ~Waiting(c),
           m.type \in {"close", "edit"} => m.document \in editors[c],
           m.type \in {"open", "link"} => m.document \notin editors[c],
           editors'[c] = IF m.type = "close" THEN editors[c] \ {m.document} ELSE editors[c],
           screen'[c] = screen[c], me'[c] = me[c],
           IF m.type = "profile_update"
           THEN /\ m.profile.user = session[c] /\ m.profile.face \notin Invalid
                /\ Modal(c)' /\ dialog'[c].profile = m.profile
           ELSE dialog'[c] = dialog[c],
           UNCHANGED <<down, session, opened, stale, faces>>
    PROVE  Keeps(c)'
<1>. DEFINE q == up[c]
            r == Append(q, m)
<1>1. up'[c] = r /\ q \in Seq(UserRequest) /\ InTouch(c) /\ Orderly(session[c], opened[c], q)
  BY KeptClient DEF Send, CInv, Channels, AtHome, Offline
<1>. HIDE DEF q
<1>2. /\ Asked(r) = Asked(q) \cup {m} /\ r # << >> /\ Len(r) = Len(q) + 1 /\ Len(q) \in Nat
      /\ r[Len(q) + 1] = m /\ \A j \in 1 .. Len(q) : r[j] = q[j]
      /\ m.type = "close" => Closing(r) = Closing(q) \cup {m.document}
      /\ m.type # "close" => Closing(r) = Closing(q)
  BY <1>1, AskedAdded
<1>3. DOMAIN q = 1 .. Len(q) /\ \A j \in 1 .. Len(q) : q[j] \in Asked(q)
  BY <1>1 DEF Asked
<1>4. /\ \A n \in Asked(q) : n.type \in HomeRequests
      /\ session[c] # NoUser /\ EditorsFit(c) /\ ProfileFits(c)
  BY DEF AtHome, q
<1>5. m.type \in Answered => Replies(down[c]) = {} /\ \A n \in Asked(q) : n.type \notin Answered
  BY NotWaiting DEF q
<1>6. m.type \in {"open", "link", "close", "edit"} => m.document \in Docs
  BY RequestFields
<1>. HIDE DEF r
<1>7. InOrder(session[c], opened[c], r, Len(q) + 1)
  <2>1. IF Len(q) + 1 = 1 THEN Starts(session[c], r[Len(q) + 1])
        ELSE Follows(r[(Len(q) + 1) - 1], r[Len(q) + 1])
    <3>1. CASE Len(q) = 0
      BY <3>1, <1>2, <1>4 DEF Starts, HomeRequests, Greetings
    <3>2. CASE Len(q) # 0
      <4>1. Len(q) \in 1 .. Len(q) /\ (Len(q) + 1) - 1 = Len(q) /\ Len(q) + 1 # 1
        BY <3>2, <1>2
      <4>. QED
        BY <4>1, <1>2, <1>3, <1>4 DEF Follows
    <3>. QED
      BY <3>1, <3>2
  <2>2. m.type \in Answered => \A j \in 1 .. ((Len(q) + 1) - 1) : r[j].type \notin Answered
    BY <1>2, <1>3, <1>5
  <2>3. m.type \in {"close", "edit"} =>
          m.document \in opened[c] /\ \A j \in 1 .. ((Len(q) + 1) - 1) : ~Closes(r[j], m.document)
    <3>. SUFFICES ASSUME m.type \in {"close", "edit"}
                  PROVE  m.document \in opened[c] /\ \A j \in 1 .. Len(q) : ~Closes(r[j], m.document)
      BY <1>2
    <3>1. m.document \in opened[c] /\ m.document \notin Closing(q)
      BY <1>4, <1>6 DEF EditorsFit, q
    <3>. QED
      BY <3>1, <1>2, <1>3 DEF Closing, Closes
  <2>4. m.type \in {"open", "link"} =>
          m.document \notin opened[c] \/ \E j \in 1 .. ((Len(q) + 1) - 1) : Closes(r[j], m.document)
    <3>. SUFFICES ASSUME m.type \in {"open", "link"}, m.document \in opened[c]
                  PROVE  \E j \in 1 .. Len(q) : Closes(r[j], m.document)
      BY <1>2
    <3>1. Arriving(down[c]) = {}
      BY <1>5 DEF Arriving, Answered
    <3>2. m.document \in Closing(q)
      BY <3>1, <1>4, <1>6 DEF EditorsFit, q
    <3>. QED
      BY <3>2, <1>2, <1>3 DEF Closing, Closes, Asked
  <2>5. m.type = "profile_update" => m.profile.user = session[c] /\ m.profile.face \notin Invalid
    OBVIOUS
  <2>. QED
    BY <2>1, <2>2, <2>3, <2>4, <2>5, <1>2 DEF InOrder
<1>8. Orderly(session[c], opened[c], r)
  BY <1>1, <1>7, RequestAdded DEF r
<1>9. EditorsFit(c)'
  <2>. SUFFICES ASSUME NEW d \in Docs
                PROVE /\ d \in opened[c] <=> d \in editors'[c] \/ d \in Closing(r) \/ d \in Arriving(down[c])
                      /\ d \in editors'[c] => d \notin Closing(r) /\ d \notin Arriving(down[c])
                      /\ d \in Closing(r) => d \notin Arriving(down[c])
    BY <1>1 DEF EditorsFit
  <2>. QED
    BY <1>2, <1>4 DEF EditorsFit, q
<1>10. ProfileFits(c)'
  <2>1. \A p : Current(c, p)' <=> Current(c, p)
    BY DEF Current
  <2>2. CASE m.type = "profile_update"
    <3>1. Replies(down[c]) = {} /\ \A n \in Asked(q) : n.type # "profile_update"
      BY <2>2, <1>5 DEF Answered
    <3>. QED
      BY <2>1, <2>2, <3>1, <1>1, <1>2, <1>4 DEF ProfileFits, Current
  <2>3. CASE m.type # "profile_update"
    BY <2>1, <2>3, <1>1, <1>2, <1>4 DEF ProfileFits, Modal, Current, q
  <2>. QED
    BY <2>2, <2>3
<1>11. AtHome(c)'
  BY <1>1, <1>2, <1>4, <1>9, <1>10 DEF AtHome
<1>12. InTouch(c)'
  <2>1. m.type # "hangup"
    BY DEF HomeRequests
  <2>. QED
    BY <1>1, <1>2, <1>5, <1>11, <2>1 DEF InTouch, q
<1>. QED
  BY <1>1, <1>8, <1>12 DEF Keeps

LEMMA Requesting ==
    ASSUME CInv, NEW c \in Clients, Keeps(c), c \in Patient,
           NEW m \in UserRequest, m.type \in {"create", "open", "link"}, Request(c, m), Considered(c),
           m.type \in {"open", "link"} => m.document \notin editors[c]
    PROVE  Keeps(c)'
<1>1. /\ AtHome(c) /\ Send(c, m) /\ ~Waiting(c)
      /\ UNCHANGED <<editors, screen, me, dialog, down, session, opened, stale, faces>>
  BY KeptClient DEF Request, Click, Considered, uiVars, windowVars, serverVars, dbVars
<1>2. m.type \in HomeRequests /\ m.type \notin {"close", "edit", "profile_update"}
  BY DEF HomeRequests
<1>. QED
  BY <1>1, <1>2, HomeAsks

LEMMA UsesEditor ==
    ASSUME CInv, NEW c \in Clients, Keeps(c), NEW d \in Docs, Edit(c, d) \/ CloseEditor(c, d)
    PROVE  Keeps(c)'
<1>1. /\ d \in editors[c]
      /\ UNCHANGED <<screen, me, dialog, down, session, opened, stale, faces>>
  BY DEF Edit, CloseEditor, InEditor, uiVars, windowVars, serverVars, dbVars
<1>2. AtHome(c)
  BY <1>1, KeptClient DEF InTouch, AtForm, Away
<1>3. CASE Edit(c, d)
  <2>1. /\ On("edit", d) \in UserRequest /\ On("edit", d).type = "edit" /\ On("edit", d).document = d
    BY DEF On, UserRequest
  <2>2. Send(c, On("edit", d)) /\ editors'[c] = editors[c]
    BY <1>3 DEF Edit, uiVars, windowVars
  <2>. DEFINE m == On("edit", d)
  <2>3. /\ m.type \in HomeRequests /\ m.type \notin Answered
        /\ m.type \notin {"close", "open", "link", "profile_update"}
    BY <2>1 DEF HomeRequests, Answered
  <2>. HIDE DEF m
  <2>. QED
    BY <1>1, <1>2, <2>1, <2>2, <2>3, HomeAsks DEF m
<1>4. CASE CloseEditor(c, d)
  <2>. DEFINE m == On("close", d)
  <2>1. m \in UserRequest /\ m.type = "close" /\ m.document = d
    BY DEF On, UserRequest
  <2>2. Send(c, m) /\ editors'[c] = editors[c] \ {d}
    BY <1>4 DEF CloseEditor, CInv, Windows
  <2>3. /\ m.type \in HomeRequests /\ m.type \notin Answered
        /\ m.type \notin {"edit", "open", "link", "profile_update"}
    BY <2>1 DEF HomeRequests, Answered
  <2>. HIDE DEF m
  <2>. QED
    BY <1>1, <1>2, <2>1, <2>2, <2>3, HomeAsks
<1>. QED
  BY <1>3, <1>4

LEMMA UsesDialog ==
    ASSUME CInv, NEW c \in Clients, Keeps(c), c \in Patient,
           ClickProfile(c) \/ CancelProfile(c) \/ \E f \in Faces : SaveProfile(c, f)
    PROVE  Keeps(c)'
<1>1. /\ UNCHANGED <<windowVars, down, serverVars>> /\ ~Waiting(c)
      /\ UNCHANGED <<screen, ready, me, editors, session, opened, stale, faces>>
  BY DEF ClickProfile, CancelProfile, SaveProfile, Considered, windowVars, serverVars, dbVars
<1>2. Replies(down[c]) = {} /\ \A m \in Asked(up[c]) : m.type \notin Answered
  BY <1>1, NotWaiting
<1>3. \A p : Current(c, p)' <=> Current(c, p)
  BY <1>1 DEF Current
<1>4. ASSUME UNCHANGED up, screen[c] \notin Forms,
             ~Offline(c) /\ Modal(c)' => dialog'[c].profile.user = session[c]
      PROVE  Keeps(c)'
  <2>1. CASE Offline(c)
    BY <1>1, <1>4, <2>1, KeptClient DEF Away, Offline, Keeps
  <2>2. CASE ~Offline(c)
    <3>1. AtHome(c) /\ InTouch(c)
      BY <1>4, <2>2, KeptClient DEF InTouch, AtForm
    <3>2. ProfileFits(c)'
      BY <1>1, <1>2, <1>3, <1>4, <2>2, <3>1 DEF AtHome, ProfileFits, Answered, Current
    <3>3. EditorsFit(c)'
      BY <1>1, <1>4, <3>1 DEF AtHome, EditorsFit
    <3>4. AtHome(c)'
      BY <1>1, <1>4, <3>1, <3>2, <3>3 DEF AtHome
    <3>5. InTouch(c)'
      BY <1>1, <1>4, <3>1, <3>4 DEF InTouch
    <3>. QED
      BY <1>1, <1>4, <3>5 DEF Keeps
  <2>. QED
    BY <2>1, <2>2
<1>5. CASE ClickProfile(c)
  <2>1. screen[c] = "home" /\ UNCHANGED up /\ dialog'[c].profile = me[c]
    BY <1>5 DEF ClickProfile, Click, CInv, Windows
  <2>2. me[c].user = session[c] /\ screen[c] \notin Forms
    BY <2>1, KeptClient DEF AtHome, ProfileFits, Forms
  <2>. QED
    BY <1>4, <2>1, <2>2
<1>6. ASSUME Modal(c) PROVE screen[c] \notin Forms /\ (~Offline(c) => AtHome(c) /\ dialog[c].profile.user = session[c])
  BY <1>6, KeptClient DEF AtForm, InTouch, AtHome, ProfileFits
<1>7. CASE CancelProfile(c)
  <2>1. Modal(c) /\ UNCHANGED up /\ dialog'[c].state = "hidden"
    BY <1>7 DEF CancelProfile, CInv, Windows
  <2>. QED
    BY <1>4, <1>6, <2>1 DEF Modal
<1>8. ASSUME NEW f \in Faces, SaveProfile(c, f) PROVE Keeps(c)'
  <2>1. /\ Modal(c) /\ dialog'[c].profile.face = f /\ dialog'[c].profile.user = dialog[c].profile.user
        /\ dialog'[c].state = dialog[c].state
        /\ dialog'[c].profile = [user |-> dialog[c].profile.user, face |-> f]
    <3>1. dialog[c] \in [state : DialogStates, profile : [user : Users \cup {NoUser}, face : Faces \cup {NoFace}]]
      BY DEF CInv, Windows, Profiles
    <3>2. /\ Modal(c) /\ dialog'[c] = [dialog[c] EXCEPT !.profile.face = f]
      BY <1>8 DEF SaveProfile, CInv, Windows
    <3>. QED
      BY <3>1, <3>2
  <2>2. CASE f \in Invalid \/ Offline(c)
    <3>1. UNCHANGED up
      BY <1>8, <2>2 DEF SaveProfile
    <3>. QED
      BY <1>4, <1>6, <2>1, <3>1
  <2>3. CASE f \notin Invalid /\ ~Offline(c)
    <3>. DEFINE m == Update(Profile(dialog[c].profile.user, f))
    <3>1. Send(c, m) /\ AtHome(c) /\ dialog[c].profile.user = session[c]
      BY <1>6, <1>8, <2>1, <2>3 DEF SaveProfile
    <3>2. /\ m.type = "profile_update" /\ m.profile = dialog'[c].profile
          /\ m.profile.user = session[c] /\ m.profile.face = f
      BY <2>1, <3>1 DEF Update, Profile
    <3>3. m \in UserRequest
      <4>1. dialog[c].profile.user \in Users \cup {NoUser}
        BY DEF CInv, Windows, Profiles
      <4>. QED
        BY <4>1 DEF Update, Profile, UserRequest
    <3>4. m.type \in HomeRequests /\ m.type \notin {"close", "edit", "open", "link"}
      BY <3>2 DEF HomeRequests
    <3>5. Modal(c)' /\ editors'[c] = editors[c] /\ screen'[c] = screen[c] /\ me'[c] = me[c]
      BY <1>1, <2>1 DEF Modal
    <3>. HIDE DEF m
    <3>. QED
      BY <1>1, <2>3, <3>1, <3>2, <3>3, <3>4, <3>5, HomeAsks
  <2>. QED
    BY <2>2, <2>3
<1>. QED
  BY <1>5, <1>7, <1>8

LEMMA LogsOut ==
    ASSUME CInv, NEW c \in Clients, Keeps(c), c \in Patient, ClickLogout(c)
    PROVE  Keeps(c)'
<1>. DEFINE q == up[c]
            m == Plain("logout")
            r == Append(q, m)
<1>1. /\ screen[c] = "home" /\ ~Modal(c) /\ ~Waiting(c)
      /\ UNCHANGED <<dialog, down, session, opened>>
  BY DEF ClickLogout, Click, Considered, serverVars
<1>2. screen'[c] = "login" /\ ready'[c] /\ editors'[c] = {}
  BY DEF ClickLogout, ShowForm, CInv, Windows
<1>3. up'[c] = r /\ q \in Seq(UserRequest) /\ AtHome(c) /\ InTouch(c)
  BY <1>1, KeptClient DEF ClickLogout, Send, CInv, Channels, Offline
<1>4. Replies(down[c]) = {} /\ \A n \in Asked(q) : n.type \notin Answered
  BY <1>1, NotWaiting
<1>5. m.type = "logout"
  BY DEF Plain
<1>. HIDE DEF q, m
<1>6. /\ Asked(r) = Asked(q) \cup {m} /\ r # << >> /\ Len(r) = Len(q) + 1 /\ Len(q) \in Nat
      /\ r[Len(q) + 1] = m /\ \A j \in 1 .. Len(q) : r[j] = q[j]
  BY <1>3, AskedAdded
<1>7. (\A n \in Asked(q) : n.type \in HomeRequests) /\ session[c] # NoUser
  BY <1>3 DEF AtHome, q
<1>. HIDE DEF r
<1>8. InOrder(session[c], opened[c], r, Len(q) + 1)
  <2>1. CASE Len(q) = 0
    BY <2>1, <1>5, <1>6, <1>7 DEF InOrder, Starts, Answered, Greetings
  <2>2. CASE Len(q) # 0
    <3>1. Len(q) \in 1 .. Len(q) /\ (Len(q) + 1) - 1 = Len(q) /\ Len(q) + 1 # 1 /\ Len(q) \in DOMAIN q
      BY <2>2, <1>3, <1>6
    <3>2. r[Len(q)].type \in HomeRequests
      BY <3>1, <1>6, <1>7 DEF Asked
    <3>. QED
      BY <3>1, <3>2, <1>5, <1>6 DEF InOrder, Follows, Answered
  <2>. QED
    BY <2>1, <2>2
<1>9. Orderly(session[c], opened[c], r)
  BY <1>3, <1>8, RequestAdded, KeptClient DEF q, r
<1>10. Last(r) = m
  BY <1>6 DEF Last
<1>11. Idle(c)'
  BY <1>1, <1>2, <1>3, <1>4, <1>5, <1>6, <1>10 DEF Idle, Answered
<1>12. AtForm(c)'
  BY <1>1, <1>2, <1>11 DEF AtForm, Modal, Forms
<1>13. InTouch(c)'
  BY <1>1, <1>3, <1>4, <1>5, <1>6, <1>12 DEF InTouch, q
<1>. QED
  BY <1>1, <1>3, <1>9, <1>13 DEF Keeps

LEMMA IsCutOff ==
    ASSUME CInv, NEW c \in Clients, Keeps(c), LoseConnection(c)
    PROVE  Keeps(c)'
<1>1. /\ InTouch(c) /\ screen'[c] = "connection" /\ editors'[c] = {} /\ down'[c] = << >>
      /\ UNCHANGED <<session, opened>>
  BY KeptClient DEF LoseConnection, ShowForm, CInv, Windows, Channels, serverVars
<1>2. PICK n \in 0 .. Len(up[c]) :
        up'[c] = Append(SubSeq(up[c], 1, n), Plain("hangup"))
  BY DEF LoseConnection, CInv, Channels
<1>3. /\ Orderly(session[c], opened[c], up'[c]) /\ up'[c] # << >>
      /\ Len(up'[c]) \in Nat /\ up'[c][Len(up'[c])].type = "hangup"
  <2>. DEFINE q == up[c]
              r == Append(SubSeq(q, 1, n), Plain("hangup"))
  <2>1. q \in Seq(UserRequest) /\ Orderly(session[c], opened[c], q) /\ \A m \in Asked(q) : m.type # "hangup"
    BY <1>1, KeptClient DEF InTouch
  <2>2. n \in 0 .. Len(q) /\ up'[c] = r
    BY <1>2
  <2>. HIDE DEF q
  <2>3. Orderly(session[c], opened[c], r) /\ r # << >> /\ Len(r) \in Nat /\ r[Len(r)].type = "hangup"
    BY <2>1, <2>2, CutOff
  <2>. QED
    BY <2>2, <2>3
<1>4. Away(c)'
  BY <1>1, <1>3 DEF Away, Offline, Last
<1>. QED
  BY <1>1, <1>3, <1>4 DEF Keeps

LEMMA PatientActs ==
    ASSUME CInv, NEW c \in Patient, Keeps(c), UserActs(c)
    PROVE  Keeps(c)'
<1>0. c \in Clients
  BY SessionAssumption
<1>1. ASSUME NEW u \in Users, NEW right \in BOOLEAN, ClickLogin(c, u, right) PROVE Keeps(c)'
  <2>. DEFINE m == Login(u, right)
  <2>1. m \in UserRequest /\ m.type = "login"
    BY DEF Login, UserRequest
  <2>2. /\ screen[c] \in Forms /\ ready[c] /\ Send(c, m) /\ screen'[c] = screen[c] /\ ~ready'[c]
        /\ UNCHANGED <<editors, dialog, down, session, opened>>
    BY <1>0, <1>1 DEF ClickLogin, Click, Forms, CInv, Windows, serverVars
  <2>3. m.type \in Greetings /\ m.type # "signup"
    BY <2>1 DEF Greetings
  <2>. HIDE DEF m
  <2>. QED
    BY <1>0, <2>1, <2>2, <2>3, Greets
<1>2. ASSUME NEW u \in Users, ClickSignup(c, u) PROVE Keeps(c)'
  <2>. DEFINE p == Profile(u, OldFace)
              m == Signup(p)
  <2>1. m \in UserRequest /\ m.type = "signup" /\ m.profile = p
    BY SessionAssumption DEF Signup, Profile, UserRequest
  <2>2. /\ screen[c] \in Forms /\ ready[c] /\ Send(c, m) /\ screen'[c] = screen[c] /\ ~ready'[c]
        /\ me'[c] = p /\ UNCHANGED <<editors, dialog, down, session, opened>>
    BY <1>0, <1>2 DEF ClickSignup, Click, Forms, CInv, Windows, serverVars
  <2>3. m.type \in Greetings
    BY <2>1 DEF Greetings
  <2>. HIDE DEF m, p
  <2>. QED
    BY <1>0, <2>1, <2>2, <2>3, Greets
<1>3. ASSUME NEW n \in Names, ClickCreate(c, n) PROVE Keeps(c)'
  <2>1. Create(n) \in UserRequest /\ Create(n).type = "create"
    BY DEF Create, UserRequest
  <2>2. Request(c, Create(n)) /\ Considered(c)
    BY <1>3 DEF ClickCreate
  <2>. HIDE DEF Create
  <2>. QED
    BY <1>0, <2>1, <2>2, Requesting
<1>4. ASSUME NEW d \in Docs, NEW type \in {"open", "link"}, Request(c, On(type, d)), Considered(c),
             d \notin editors[c]
      PROVE  Keeps(c)'
  <2>1. On(type, d) \in UserRequest /\ On(type, d).type = type /\ On(type, d).document = d
    BY DEF On, UserRequest
  <2>. DEFINE m == On(type, d)
  <2>. HIDE DEF m
  <2>2. m \in UserRequest /\ m.type \in {"create", "open", "link"} /\ Request(c, m) /\ m.document \notin editors[c]
    BY <1>4, <2>1 DEF m
  <2>. QED
    BY <1>0, <1>4, <2>2, Requesting
<1>5. ASSUME NEW d \in Docs, ClickOpen(c, d) \/ ClickLink(c, d) PROVE Keeps(c)'
  BY <1>4, <1>5 DEF ClickOpen, ClickLink
<1>. QED
  BY <1>0, <1>1, <1>2, <1>3, <1>5, Connecting, ChangesForm, UsesEditor, UsesDialog, LogsOut, IsCutOff
  DEF UserActs

-----------------------------------------------------------------------------
(* What the client receives.                                                *)
LEMMA PatientReceives ==
    ASSUME CInv, NEW c \in Patient, Keeps(c), Receive(c)
    PROVE  Keeps(c)'
<1>0. c \in Clients
  BY SessionAssumption
<1>. DEFINE m == Head(down[c])
<1>1. /\ InTouch(c) /\ down[c] # << >> /\ down[c] \in Seq(ServerMessage) /\ down'[c] = Tail(down[c])
      /\ ~Offline(c)
  <2>1. down[c] # << >> /\ down'[c] = Tail(down[c])
    BY <1>0 DEF Receive, ReceiveError, LoggedIn, ProfileUpdated, ShowDocuments, OpenEditor,
                RemoteOperation, Disconnected, Receiving, CInv, Channels
  <2>. QED
    BY <1>0, <2>1, KeptClient DEF Away
<1>2. UNCHANGED serverVars /\ UNCHANGED <<session, opened, stale, faces>>
  BY DEF Receive, ReceiveError, LoggedIn, ProfileUpdated, ShowDocuments, OpenEditor,
         RemoteOperation, Disconnected, serverVars, dbVars
<1>3. \A p : Current(c, p)' <=> Current(c, p)
  BY <1>2 DEF Current
<1>4. /\ m.type \in Answers => Replies(down[c]) = {m} /\ Replies(down'[c]) = {} /\ OneReply(down'[c])
      /\ m.type \notin Answers => Alike(down[c], down'[c])
      /\ ~Ended(down'[c]) /\ m.type # "disconnected" /\ m \in ServerMessage
  BY <1>1, ReplyTaken DEF InTouch
<1>. HIDE DEF m
<1>5. m.type \in Answers => \A n \in Asked(up[c]) : n.type \notin Answered
  BY <1>1, <1>4 DEF InTouch
<1>6. m.type \in Answers /\ AtForm(c) => Greeted(c)
  BY <1>4 DEF AtForm, Idle, Greeting
<1>7. CASE ReceiveError(c)
  <2>1. /\ m.type = "error" /\ ready'[c] = (ready[c] \/ screen[c] \in Forms)
        /\ UNCHANGED <<screen, me, editors, dialog, up>>
    BY <1>0, <1>7 DEF ReceiveError, Receiving, CInv, Windows, m
  <2>2. Replies(down[c]) = {m} /\ Replies(down'[c]) = {} /\ OneReply(down'[c])
    BY <2>1, <1>4 DEF Answers
  <2>3. ASSUME AtForm(c) PROVE AtForm(c)'
    <3>1. Greeted(c) /\ screen[c] \in Forms
      BY <2>1, <2>3, <1>6 DEF Answers, AtForm
    <3>2. up[c] = << >> /\ session[c] = NoUser
      BY <3>1, <2>1, <2>2 DEF Greeted
    <3>3. ready'[c]
      BY <2>1, <3>1, Zenon
    <3>4. up'[c] = << >> /\ session'[c] = NoUser /\ Asked(<< >>) = {}
      BY <2>1, <3>2, <1>2 DEF Asked
    <3>5. Idle(c)'
      BY <3>3, <3>4, <2>2 DEF Idle
    <3>. QED
      BY <2>1, <2>3, <3>5 DEF AtForm, Modal
  <2>4. ASSUME AtHome(c) PROVE AtHome(c)'
    <3>1. EditorsFit(c)'
      <4>1. Arriving(down[c]) = {} /\ Arriving(down'[c]) = {}
        BY <2>1, <2>2 DEF Arriving
      <4>. QED
        BY <1>2, <2>1, <2>4, <4>1 DEF AtHome, EditorsFit
    <3>2. ProfileFits(c)'
      BY <1>2, <1>3, <2>1, <2>2, <2>4 DEF AtHome, ProfileFits, Modal, Current
    <3>. QED
      BY <1>2, <2>1, <2>2, <2>4, <3>1, <3>2 DEF AtHome
  <2>5. InTouch(c)'
    BY <1>1, <1>4, <2>1, <2>2, <2>3, <2>4 DEF InTouch
  <2>. QED
    BY <1>2, <2>1, <2>5 DEF Keeps
<1>8. CASE LoggedIn(c)
  <2>1. /\ m.type \in {"profile", "signup_ok"} /\ screen'[c] = "home"
        /\ me'[c] = IF m.type = "profile" THEN m.profile ELSE me[c]
        /\ up'[c] = Append(up[c], Plain("documents_request"))
        /\ UNCHANGED <<editors, dialog>>
    BY <1>0, <1>8 DEF LoggedIn, Receiving, Send, CInv, Windows, Channels, m
  <2>2. Replies(down[c]) = {m} /\ Replies(down'[c]) = {} /\ OneReply(down'[c])
    BY <2>1, <1>4 DEF Answers
  <2>3. AtForm(c) /\ Greeted(c)
    BY <1>1, <1>6, <2>1, <2>2 DEF InTouch, AtHome, Answers
  <2>4. /\ up[c] = << >> /\ session[c] # NoUser /\ opened[c] = {} /\ editors[c] = {} /\ ~Modal(c)
        /\ Current(c, me'[c])
    BY <2>1, <2>2, <2>3 DEF Greeted, AtForm
  <2>. DEFINE n == Plain("documents_request")
  <2>5. up'[c] = <<n>> /\ n.type = "documents_request"
    BY <2>1, <2>4 DEF Plain
  <2>. HIDE DEF n
  <2>6. Asked(<<n>>) = {n} /\ Len(<<n>>) = 1 /\ <<n>>[1] = n
    BY DEF Asked
  <2>7. Orderly(session[c], opened[c], <<n>>)
    <3>1. InOrder(session[c], opened[c], <<n>>, 1)
      BY <2>4, <2>5, <2>6 DEF InOrder, Starts, Greetings
    <3>. QED
      BY <2>6, <3>1 DEF Orderly
  <2>8. Closing(<<n>>) = {} /\ Arriving(down'[c]) = {}
    BY <2>2, <2>5, <2>6 DEF Closing, Arriving
  <2>9. EditorsFit(c)'
    BY <1>2, <2>1, <2>4, <2>5, <2>8 DEF EditorsFit
  <2>10. ProfileFits(c)'
    <3>1. Current(c, me[c])' /\ me'[c].user = session[c]
      BY <2>4, <1>2 DEF Current
    <3>. QED
      BY <1>2, <2>1, <2>2, <2>4, <2>5, <2>6, <3>1 DEF ProfileFits, Modal, Current
  <2>11. AtHome(c)'
    BY <1>2, <2>1, <2>2, <2>4, <2>5, <2>6, <2>9, <2>10 DEF AtHome, HomeRequests
  <2>12. InTouch(c)'
    BY <1>4, <2>2, <2>5, <2>6, <2>11 DEF InTouch
  <2>. QED
    BY <1>2, <2>5, <2>7, <2>12 DEF Keeps
<1>9. ASSUME m.type \in {"profile_ok", "documents", "document"}, screen'[c] = screen[c], UNCHANGED up,
             AtHome(c) => EditorsFit(c)' /\ ProfileFits(c)'
      PROVE  Keeps(c)'
  <2>1. Replies(down[c]) = {m} /\ Replies(down'[c]) = {} /\ OneReply(down'[c])
    BY <1>9, <1>4 DEF Answers
  <2>2. AtHome(c)
    BY <1>1, <1>6, <1>9, <2>1 DEF InTouch, Answers, Greeted
  <2>3. AtHome(c)'
    BY <1>2, <1>9, <2>1, <2>2 DEF AtHome
  <2>4. InTouch(c)'
    BY <1>1, <1>4, <1>9, <2>1, <2>3 DEF InTouch
  <2>. QED
    BY <1>2, <1>9, <2>4 DEF Keeps
<1>10. ASSUME m.type \in {"profile_ok", "documents"}, UNCHANGED <<editors, up>>, AtHome(c)
       PROVE  EditorsFit(c)'
  <2>1. Replies(down[c]) = {m} /\ Replies(down'[c]) = {}
    BY <1>10, <1>4 DEF Answers
  <2>2. Arriving(down[c]) = {} /\ Arriving(down'[c]) = {}
    BY <1>10, <2>1 DEF Arriving
  <2>. QED
    BY <1>2, <1>10, <2>2 DEF AtHome, EditorsFit
<1>11. ASSUME m.type \in {"documents", "document"}, UNCHANGED <<me, dialog, up>>, AtHome(c)
       PROVE  ProfileFits(c)'
  <2>1. Replies(down[c]) = {m} /\ Replies(down'[c]) = {}
    BY <1>11, <1>4 DEF Answers
  <2>. QED
    BY <1>2, <1>3, <1>11, <2>1 DEF AtHome, ProfileFits, Modal, Current
<1>12. CASE ProfileUpdated(c)
  <2>1. m.type = "profile_ok" /\ UNCHANGED <<screen, editors, up>>
    BY <1>12 DEF ProfileUpdated, Receiving, m
  <2>2. ASSUME AtHome(c) PROVE ProfileFits(c)'
    <3>1. Replies(down[c]) = {m} /\ Replies(down'[c]) = {} /\ \A n \in Asked(up[c]) : n.type \notin Answered
      BY <2>1, <1>4, <1>5 DEF Answers
    <3>2. Modal(c) /\ Current(c, dialog[c].profile)
      BY <2>1, <2>2, <3>1 DEF AtHome, ProfileFits
    <3>3. dialog[c] # NoDialog
      BY <3>2 DEF Modal, NoDialog
    <3>4. me'[c] = dialog[c].profile /\ dialog'[c] = NoDialog
      BY <1>0, <1>12, <3>3 DEF ProfileUpdated, CInv, Windows
    <3>5. ~Modal(c)'
      BY <3>4 DEF Modal, NoDialog
    <3>6. Current(c, me[c])' /\ me'[c].user = session[c]
      BY <3>2, <3>4, <1>2 DEF Current
    <3>. QED
      BY <1>2, <2>1, <3>1, <3>5, <3>6 DEF ProfileFits, Answered, Current
  <2>. QED
    BY <1>9, <1>10, <2>1, <2>2
<1>13. CASE ShowDocuments(c)
  <2>1. m.type = "documents" /\ UNCHANGED <<screen, me, editors, dialog, up>>
    BY <1>13 DEF ShowDocuments, Receiving, m
  <2>. QED
    BY <1>9, <1>10, <1>11, <2>1
<1>14. CASE OpenEditor(c)
  <2>1. /\ m.type = "document" /\ editors'[c] = editors[c] \cup {m.document}
        /\ UNCHANGED <<screen, me, dialog, up>>
    BY <1>0, <1>14 DEF OpenEditor, Receiving, CInv, Windows, m
  <2>2. ASSUME AtHome(c) PROVE EditorsFit(c)'
    <3>1. Replies(down[c]) = {m} /\ Replies(down'[c]) = {}
      BY <2>1, <1>4 DEF Answers
    <3>2. Arriving(down[c]) = {m.document} /\ Arriving(down'[c]) = {}
      BY <2>1, <3>1 DEF Arriving
    <3>. QED
      BY <1>2, <2>1, <2>2, <3>2 DEF AtHome, EditorsFit
  <2>. QED
    BY <1>9, <1>11, <2>1, <2>2
<1>15. CASE RemoteOperation(c)
  <2>1. m.type \notin Answers /\ UNCHANGED <<screen, ready, me, dialog, editors, up>>
    BY <1>15 DEF RemoteOperation, Receiving, Answers, windowVars, m
  <2>2. Alike(down[c], down'[c])
    BY <1>4, <2>1
  <2>. QED
    BY <1>1, <1>2, <2>1, <2>2, OthersDo
<1>16. CASE Disconnected(c)
  BY <1>4, <1>16 DEF Disconnected, Receiving, m
<1>. QED
  BY <1>7, <1>8, <1>12, <1>13, <1>14, <1>15, <1>16 DEF Receive

-----------------------------------------------------------------------------
(* What the server does with the first request.                             *)
LEMMA AskedServed ==
    ASSUME NEW q \in Seq(UserRequest), q # << >>
    PROVE  Asked(q) = Asked(Tail(q)) \cup {Head(q)}
<1>. DEFINE m == Head(q)
            r == Tail(q)
<1>1. /\ Len(q) \in Nat \ {0} /\ m = q[1] /\ DOMAIN q = 1 .. Len(q) /\ DOMAIN r = 1 .. (Len(q) - 1)
      /\ \A i \in 1 .. (Len(q) - 1) : r[i] = q[i + 1]
  BY HeadTailProperties
<1>. HIDE DEF m, r
<1>2. m \in Asked(q)
  <2>1. 1 \in DOMAIN q
    BY <1>1
  <2>. QED
    BY <1>1, <2>1 DEF Asked
<1>3. ASSUME NEW i \in DOMAIN r PROVE r[i] \in Asked(q)
  <2>1. r[i] = q[i + 1] /\ i + 1 \in DOMAIN q
    BY <1>1
  <2>. QED
    BY <2>1 DEF Asked
<1>4. ASSUME NEW i \in DOMAIN q PROVE q[i] = m \/ q[i] \in Asked(r)
  <2>1. i = 1 \/ (i - 1 \in DOMAIN r /\ r[i - 1] = q[i])
    BY <1>1
  <2>. QED
    BY <2>1, <1>1 DEF Asked
<1>5. Asked(q) = Asked(r) \cup {m}
  BY <1>2, <1>3, <1>4 DEF Asked
<1>. QED
  BY <1>5 DEF m, r

LEMMA FirstRequest ==
    ASSUME NEW u, NEW o, NEW q \in Seq(UserRequest), q # << >>, Orderly(u, o, q)
    PROVE  LET m == Head(q) IN
           /\ m \in UserRequest /\ m \in Asked(q) /\ Asked(Tail(q)) \subseteq Asked(q)
           /\ Starts(u, m)
           /\ m.type = "profile_update" => m.profile.user = u /\ m.profile.face \notin Invalid
           /\ m.type \in {"close", "edit"} => m.document \in o
           /\ m.type \in {"open", "link"} => m.document \notin o
           /\ m.type \in Answered => \A n \in Asked(Tail(q)) : n.type \notin Answered
           /\ Closing(Tail(q)) = IF m.type = "close" THEN Closing(q) \ {m.document} ELSE Closing(q)
           /\ IF Tail(q) = << >> THEN Last(q) = m ELSE Last(Tail(q)) = Last(q)
<1>. DEFINE m == Head(q)
            r == Tail(q)
<1>1. /\ Len(q) \in Nat \ {0} /\ m = q[1] /\ Len(r) = Len(q) - 1 /\ 1 \in 1 .. Len(q)
      /\ DOMAIN q = 1 .. Len(q) /\ DOMAIN r = 1 .. Len(r)
      /\ \A i \in 1 .. Len(r) : r[i] = q[i + 1] /\ i + 1 \in 2 .. Len(q)
      /\ \A i \in 2 .. Len(q) : i - 1 \in 1 .. Len(r) /\ r[i - 1] = q[i] /\ i \in 1 .. Len(q) /\ 1 \in 1 .. (i - 1)
      /\ \A i \in 1 .. Len(q) : i = 1 \/ i \in 2 .. Len(q)
      /\ m \in UserRequest /\ r \in Seq(UserRequest)
  BY HeadTailProperties
<1>. HIDE DEF m, r
<1>2. \A i \in 1 .. Len(q) : InOrder(u, o, q, i)
  BY DEF Orderly
<1>3. /\ Starts(u, m) /\ 1 .. (1 - 1) = {}
      /\ m.type = "profile_update" => m.profile.user = u /\ m.profile.face \notin Invalid
      /\ m.type \in {"close", "edit"} => m.document \in o
      /\ m.type \in {"open", "link"} => m.document \notin o
  <2>1. InOrder(u, o, q, 1) /\ 1 .. (1 - 1) = {}
    BY <1>1, <1>2
  <2>. QED
    BY <2>1, <1>1 DEF InOrder
<1>4. m \in Asked(q) /\ Asked(r) \subseteq Asked(q) /\ Asked(q) = Asked(r) \cup {m}
  BY AskedServed DEF m, r
<1>5. ASSUME m.type \in Answered, NEW n \in Asked(r) PROVE n.type \notin Answered
  <2>1. PICK i \in 2 .. Len(q) : n = q[i]
    BY <1>1 DEF Asked
  <2>. QED
    BY <2>1, <1>1, <1>2, <1>5 DEF InOrder
<1>6. ASSUME m.type = "close" PROVE m.document \notin Closing(r)
  <2>. SUFFICES ASSUME NEW n \in Asked(r), n.type = "close", n.document = m.document PROVE FALSE
    BY DEF Closing
  <2>1. PICK i \in 2 .. Len(q) : n = q[i]
    BY <1>1 DEF Asked
  <2>. QED
    BY <2>1, <1>1, <1>2, <1>6 DEF InOrder, Closes
<1>7. Closing(r) = IF m.type = "close" THEN Closing(q) \ {m.document} ELSE Closing(q)
  BY <1>4, <1>6 DEF Closing
<1>8. IF r = << >> THEN Last(q) = m ELSE Last(r) = Last(q)
  <2>1. CASE r = << >>
    <3>1. Len(q) = 1
      BY <1>1, <2>1
    <3>. QED
      BY <1>1, <2>1, <3>1 DEF Last
  <2>2. CASE r # << >>
    <3>1. Len(r) \in 1 .. Len(r) /\ Len(r) + 1 = Len(q)
      BY <1>1, <2>2
    <3>. QED
      BY <3>1, <1>1, <2>2 DEF Last
  <2>. QED
    BY <2>1, <2>2
<1>. QED
  BY <1>1, <1>3, <1>4, <1>5, <1>7, <1>8 DEF m, r

(* No request of a patient user makes a handler throw. *)
LEMMA NeverThrows ==
    ASSUME CInv, NEW c \in Patient, Keeps(c)
    PROVE  ~BadRequest(c) /\ (ServeLink(c) => Head(up[c]).document \notin opened[c])
<1>0. c \in Clients
  BY SessionAssumption
<1>. SUFFICES ASSUME up[c] # << >>
              PROVE  ~BadRequest(c) /\ (ServeLink(c) => Head(up[c]).document \notin opened[c])
  BY DEF BadRequest, ServeLink
<1>. DEFINE m == Head(up[c])
<1>1. /\ m \in UserRequest /\ Starts(session[c], m)
      /\ m.type = "profile_update" => m.profile.user = session[c] /\ m.profile.face \notin Invalid
      /\ m.type \in {"close", "edit"} => m.document \in opened[c]
      /\ m.type \in {"open", "link"} => m.document \notin opened[c]
  BY <1>0, KeptClient, FirstRequest
<1>. HIDE DEF m
<1>2. ~BadRequest(c)
  BY <1>1 DEF BadRequest, Starts, Greetings, Authenticated, m
<1>3. ServeLink(c) => m.document \notin opened[c]
  BY <1>1 DEF ServeLink, m
<1>. QED
  BY <1>2, <1>3 DEF m

LEMMA AwayServed ==
    ASSUME CInv, NEW c \in Clients, Keeps(c), Offline(c), up[c] # << >>,
           Head(up[c]).type # "hangup", up'[c] = Tail(up[c]),
           Changes(Head(up[c]), session[c], opened[c], session'[c], opened'[c]),
           down'[c] = down[c], screen'[c] = screen[c], editors'[c] = editors[c]
    PROVE  Keeps(c)'
<1>1. Away(c) /\ up[c] \in Seq(UserRequest) /\ Orderly(session[c], opened[c], up[c])
  BY KeptClient
<1>2. Orderly(session'[c], opened'[c], up'[c])
  BY <1>1, RequestServed
<1>3. IF Tail(up[c]) = << >> THEN Last(up[c]) = Head(up[c]) ELSE Last(Tail(up[c])) = Last(up[c])
  BY <1>1, FirstRequest
<1>4. Last(up[c]).type = "hangup"
  BY <1>1 DEF Away
<1>5. Away(c)'
  BY <1>1, <1>3, <1>4 DEF Away, Offline
<1>. QED
  BY <1>2, <1>5 DEF Keeps

(* At a form there are only requests that have no answer, but for the last. *)
LEMMA FormHeads ==
    ASSUME CInv, NEW c \in Clients, Keeps(c), AtForm(c), up[c] # << >>
    PROVE  /\ Replies(down[c]) = {}
           /\ Head(up[c]).type \in {"close", "edit", "logout"} \cup Greetings
           /\ Head(up[c]).type \in Greetings => Greeting(c) /\ Last(up[c]) = Head(up[c]) /\ Tail(up[c]) = << >>
<1>. DEFINE m == Head(up[c])
<1>1. /\ m \in UserRequest /\ m \in Asked(up[c])
      /\ m.type \in Answered => \A n \in Asked(Tail(up[c])) : n.type \notin Answered
      /\ IF Tail(up[c]) = << >> THEN Last(up[c]) = m ELSE Last(Tail(up[c])) = Last(up[c])
      /\ Tail(up[c]) \in Seq(UserRequest)
  BY KeptClient, FirstRequest
<1>2. InTouch(c) /\ (Idle(c) \/ Greeting(c)) /\ Replies(down[c]) = {}
  BY KeptClient DEF AtForm, Greeted, Offline, Forms, Idle, Greeting
<1>. HIDE DEF m
<1>3. m.type # "hangup"
  BY <1>1, <1>2 DEF InTouch
<1>4. Tail(up[c]) # << >> => Last(Tail(up[c])) \in Asked(Tail(up[c]))
  <2>1. ASSUME Tail(up[c]) # << >> PROVE Len(Tail(up[c])) \in DOMAIN Tail(up[c])
    BY <1>1, <2>1
  <2>. QED
    BY <2>1 DEF Last, Asked
<1>5. CASE Idle(c)
  <2>1. m.type \notin Answered
    BY <1>1, <1>5 DEF Idle
  <2>. QED
    BY <1>1, <1>2, <1>3, <2>1 DEF UserRequest, Answered, Greetings, m
<1>6. CASE Greeting(c)
  <2>1. Last(up[c]).type \in Greetings
    BY <1>6 DEF Greeting
  <2>2. m.type \in Answered => Tail(up[c]) = << >>
    <3>. SUFFICES ASSUME m.type \in Answered, Tail(up[c]) # << >> PROVE FALSE
      OBVIOUS
    <3>1. Last(Tail(up[c])).type \notin Answered
      BY <1>1, <1>4
    <3>. QED
      BY <2>1, <3>1, <1>1 DEF Greetings, Answered
  <2>3. m.type \in Answered => Last(up[c]) = m
    BY <2>2, <1>1
  <2>4. m.type \in Answered => m.type \in Greetings
    BY <2>1, <2>3
  <2>. QED
    BY <1>1, <1>2, <1>3, <1>6, <2>2, <2>3, <2>4 DEF UserRequest, Answered, Greetings, m
<1>. QED
  BY <1>2, <1>5, <1>6

LEMMA FormServed ==
    ASSUME CInv, NEW c \in Clients, Keeps(c), AtForm(c), up[c] # << >>,
           Head(up[c]).type \notin Greetings, up'[c] = Tail(up[c]),
           Changes(Head(up[c]), session[c], opened[c], session'[c], opened'[c]),
           down'[c] = down[c], screen'[c] = screen[c], editors'[c] = editors[c],
           ready'[c] = ready[c], me'[c] = me[c], dialog'[c] = dialog[c]
    PROVE  Keeps(c)'
<1>. DEFINE m == Head(up[c])
<1>1. /\ m \in Asked(up[c]) /\ Asked(Tail(up[c])) \subseteq Asked(up[c])
      /\ IF Tail(up[c]) = << >> THEN Last(up[c]) = m ELSE Last(Tail(up[c])) = Last(up[c])
  BY KeptClient, FirstRequest
<1>2. InTouch(c) /\ (Idle(c) \/ Greeting(c)) /\ Replies(down[c]) = {}
  BY KeptClient DEF AtForm, Greeted, Offline, Forms, Idle, Greeting
<1>3. Orderly(session'[c], opened'[c], up'[c])
  BY RequestServed, KeptClient
<1>. HIDE DEF m
<1>4. ASSUME Idle(c) PROVE Idle(c)'
  <2>1. Last(up[c]).type = "logout"
    BY <1>4 DEF Idle
  <2>2. Tail(up[c]) = << >> => session'[c] = NoUser
    BY <1>1, <2>1 DEF Changes, m
  <2>3. Tail(up[c]) # << >> => Last(Tail(up[c])).type = "logout"
    BY <1>1, <2>1
  <2>. QED
    BY <1>1, <1>4, <2>2, <2>3 DEF Idle
<1>5. ASSUME Greeting(c) PROVE Greeting(c)'
  <2>1. Last(up[c]) # m
    BY <1>5 DEF Greeting, m
  <2>. QED
    BY <1>1, <1>5, <2>1 DEF Greeting
<1>6. AtForm(c)'
  BY <1>2, <1>4, <1>5 DEF AtForm, Modal
<1>7. InTouch(c)'
  BY <1>1, <1>2, <1>6 DEF InTouch
<1>. QED
  BY <1>3, <1>7 DEF Keeps

-----------------------------------------------------------------------------
(* A request that is served in one step: what becomes of the session of c,  *)
(* what its client is told, and what the other clients notice.              *)
NowCurrent(c, p) == p.user = session'[c] /\ (c \notin stale' => p.face = faces'[session'[c]])

ToldSilently(c, m) ==
    /\ opened'[c] = CASE m.type = "logout" -> {}
                      [] m.type = "close" -> opened[c] \ {m.document}
                      [] OTHER -> opened[c]
    /\ session'[c] = IF m.type = "logout" THEN NoUser ELSE session[c]
    /\ stale' = stale /\ faces' = faces
    /\ down'[c] = down[c]

ToldOfGreeting(c, m) ==
    /\ opened'[c] = opened[c]
    /\ \E n \in ServerMessage :
         /\ n.type \in Answers
         /\ \/ n.type = "error" /\ session'[c] = session[c]
            \/ /\ session'[c] # NoUser
               /\ \/ n.type = "profile" /\ NowCurrent(c, n.profile)
                  \/ n.type = "signup_ok" /\ m.type = "signup" /\ NowCurrent(c, m.profile)
         /\ IF Offline(c) THEN down'[c] = down[c] ELSE down'[c] = Append(down[c], n)

ToldAtHome(c, m) ==
    /\ session'[c] = session[c]
    /\ \E n \in ServerMessage :
         /\ n.type \in {"error", "profile_ok", "documents", "document"}
         /\ n.type # "document" => opened'[c] = opened[c]
         /\ n.type = "document" =>
              /\ m.type \in {"create", "open", "link"}
              /\ n.document \notin opened[c] /\ opened'[c] = opened[c] \cup {n.document}
         /\ IF n.type = "profile_ok" THEN m.type = "profile_update" /\ NowCurrent(c, m.profile)
            ELSE stale' = stale /\ faces' = faces
         /\ IF Offline(c) THEN down'[c] = down[c] ELSE down'[c] = Append(down[c], n)

Told(c, m) ==
    /\ m.type \in Greetings => ToldOfGreeting(c, m)
    /\ m.type \in {"edit", "close", "logout"} => ToldSilently(c, m)
    /\ m.type \in Answered \ Greetings => ToldAtHome(c, m)

Unmoved(e) ==
    /\ Offline(e) => down'[e] = down[e]
    /\ Alike(down[e], down'[e])
    /\ session'[e] = session[e] /\ opened'[e] = opened[e]
    /\ session[e] # NoUser /\ e \notin stale' => e \notin stale /\ faces'[session[e]] = faces[session[e]]

ServedInOneStep(c) ==
    /\ up[c] # << >>
    /\ Head(up[c]).type # "hangup"
    /\ up' = [up EXCEPT ![c] = Tail(@)]
    /\ UNCHANGED <<uiVars, badClients>>
    /\ Told(c, Head(up[c]))
    /\ \A e \in Clients \ {c} : Unmoved(e)

(* At the home, an edit or a close is served without an answer. *)
LEMMA HomeForgets ==
    ASSUME CInv, NEW c \in Clients, Keeps(c), AtHome(c), up[c] # << >>,
           Head(up[c]).type \in {"edit", "close"}, up'[c] = Tail(up[c]),
           opened'[c] = IF Head(up[c]).type = "close" THEN opened[c] \ {Head(up[c]).document} ELSE opened[c],
           session'[c] = session[c], stale' = stale, faces' = faces,
           down'[c] = down[c], screen'[c] = screen[c], editors'[c] = editors[c],
           me'[c] = me[c], dialog'[c] = dialog[c]
    PROVE  Keeps(c)'
<1>. DEFINE m == Head(up[c])
<1>1. /\ m \in UserRequest /\ m \in Asked(up[c]) /\ Asked(Tail(up[c])) \subseteq Asked(up[c])
      /\ Closing(Tail(up[c])) = IF m.type = "close" THEN Closing(up[c]) \ {m.document} ELSE Closing(up[c])
      /\ InTouch(c) /\ Orderly(session[c], opened[c], up[c]) /\ up[c] \in Seq(UserRequest)
  <2>1. ~Offline(c)
    BY DEF Offline, AtHome
  <2>2. InTouch(c) /\ Orderly(session[c], opened[c], up[c]) /\ up[c] \in Seq(UserRequest)
    BY <2>1, KeptClient
  <2>. DEFINE q == up[c]
  <2>3. q \in Seq(UserRequest) /\ q # << >> /\ Orderly(session[c], opened[c], q)
    BY <2>2
  <2>. HIDE DEF q
  <2>4. /\ Head(q) \in UserRequest /\ Head(q) \in Asked(q) /\ Asked(Tail(q)) \subseteq Asked(q)
        /\ Closing(Tail(q)) = IF Head(q).type = "close" THEN Closing(q) \ {Head(q).document} ELSE Closing(q)
    BY <2>3, FirstRequest
  <2>. QED
    BY <2>2, <2>4 DEF q
<1>. HIDE DEF m
<1>2. Orderly(session'[c], opened'[c], up'[c])
  <2>1. Changes(Head(up[c]), session[c], opened[c], session'[c], opened'[c])
    BY DEF Changes
  <2>. QED
    BY <1>1, <2>1, RequestServed
<1>3. EditorsFit(c)'
  <2>1. m.type = "close" => m.document \in Closing(up[c])
    BY <1>1 DEF Closing
  <2>2. Closing(up'[c]) = IF m.type = "close" THEN Closing(up[c]) \ {m.document} ELSE Closing(up[c])
    BY <1>1
  <2>3. opened'[c] = IF m.type = "close" THEN opened[c] \ {m.document} ELSE opened[c]
    BY DEF m
  <2>. QED
    BY <2>1, <2>2, <2>3 DEF AtHome, EditorsFit
<1>4. ProfileFits(c)'
  BY <1>1 DEF AtHome, ProfileFits, Modal, Current
<1>5. AtHome(c)'
  BY <1>1, <1>3, <1>4 DEF AtHome
<1>6. InTouch(c)'
  BY <1>1, <1>5 DEF InTouch
<1>. QED
  BY <1>2, <1>6 DEF Keeps

(* The other requests have an answer, and it is the only one under way. *)
LEMMA HomeAnswers ==
    ASSUME CInv, NEW c \in Clients, Keeps(c), AtHome(c), up[c] # << >>,
           Head(up[c]).type \in Answered, up'[c] = Tail(up[c]), ToldAtHome(c, Head(up[c])),
           screen'[c] = screen[c], editors'[c] = editors[c], me'[c] = me[c], dialog'[c] = dialog[c]
    PROVE  Keeps(c)'
<1>0. ~Offline(c)
  BY DEF Offline, AtHome
<1>p. PICK p : p = Head(up[c]).profile
  OBVIOUS
<1>c. NowCurrent(c, p) => Current(c, p)'
  BY DEF NowCurrent, Current
<1>n. PICK n :
         /\ n.type \in {"error", "profile_ok", "documents", "document"}
         /\ n.type # "document" => opened'[c] = opened[c]
         /\ n.type = "document" => n.document \notin opened[c] /\ opened'[c] = opened[c] \cup {n.document}
         /\ n.type = "profile_ok" => Head(up[c]).type = "profile_update" /\ Current(c, p)'
         /\ n.type # "profile_ok" => stale' = stale /\ faces' = faces
         /\ down'[c] = Append(down[c], n)
  BY <1>0, <1>p, <1>c DEF ToldAtHome
<1>s. session'[c] = session[c]
  BY DEF ToldAtHome
<1>. DEFINE m == Head(up[c])
<1>1. /\ m \in UserRequest /\ m \in Asked(up[c]) /\ Asked(Tail(up[c])) \subseteq Asked(up[c])
      /\ Closing(Tail(up[c])) = IF m.type = "close" THEN Closing(up[c]) \ {m.document} ELSE Closing(up[c])
      /\ m.type \in Answered => \A k \in Asked(Tail(up[c])) : k.type \notin Answered
      /\ InTouch(c) /\ Orderly(session[c], opened[c], up[c]) /\ up[c] \in Seq(UserRequest)
      /\ down[c] \in Seq(ServerMessage)
  <2>1. InTouch(c) /\ Orderly(session[c], opened[c], up[c]) /\ up[c] \in Seq(UserRequest) /\ down[c] \in Seq(ServerMessage)
    BY <1>0, KeptClient
  <2>. DEFINE q == up[c]
  <2>2. q \in Seq(UserRequest) /\ q # << >> /\ Orderly(session[c], opened[c], q)
    BY <2>1
  <2>. HIDE DEF q
  <2>3. /\ Head(q) \in UserRequest /\ Head(q) \in Asked(q) /\ Asked(Tail(q)) \subseteq Asked(q)
        /\ Closing(Tail(q)) = IF Head(q).type = "close" THEN Closing(q) \ {Head(q).document} ELSE Closing(q)
        /\ Head(q).type \in Answered => \A k \in Asked(Tail(q)) : k.type \notin Answered
    BY <2>2, FirstRequest
  <2>. QED
    BY <2>1, <2>3 DEF q
<1>2. Orderly(session'[c], opened'[c], up'[c])
  <2>1. Changes(Head(up[c]), session[c], opened[c], session'[c], opened'[c])
    BY <1>n, <1>s DEF Changes, Answered
  <2>. QED
    BY <1>1, <2>1, RequestServed
<1>. HIDE DEF m
<1>3. m.type \in Answered
  BY DEF m
<1>4. Replies(down[c]) = {}
  BY <1>1, <1>3 DEF InTouch
<1>5. Replies(down'[c]) = {n} /\ OneReply(down'[c]) /\ ~Ended(down'[c])
  <2>1. n.type \in Answers
    BY <1>n DEF Answers
  <2>. QED
    BY <1>n, <1>1, <1>4, <2>1, ReplyAdded DEF InTouch
<1>6. EditorsFit(c)'
  <2>1. Closing(up'[c]) = Closing(up[c])
    BY <1>1, <1>3 DEF Answered
  <2>2. Arriving(down[c]) = {} /\ Arriving(down'[c]) = IF n.type = "document" THEN {n.document} ELSE {}
    BY <1>4, <1>5 DEF Arriving
  <2>. QED
    BY <1>n, <2>1, <2>2 DEF AtHome, EditorsFit
<1>7. ProfileFits(c)'
  <2>1. \A k \in Asked(up'[c]) : k.type # "profile_update"
    BY <1>1, <1>3 DEF Answered
  <2>2. me[c].user = session[c] /\ (Modal(c) => dialog[c].profile.user = session[c]) /\ Current(c, me[c])
    BY <1>4 DEF AtHome, ProfileFits
  <2>3. CASE n.type = "profile_ok"
    <3>1. Modal(c) /\ dialog'[c].profile = p
      BY <1>n, <1>p, <1>1, <2>3 DEF AtHome, ProfileFits, m
    <3>2. Current(c, dialog[c].profile)'
      BY <1>n, <2>3, <3>1 DEF Current
    <3>. QED
      BY <1>s, <1>5, <2>1, <2>2, <2>3, <3>1, <3>2 DEF ProfileFits, Modal
  <2>4. CASE n.type # "profile_ok"
    <3>1. Current(c, me[c])'
      BY <1>n, <1>s, <2>2, <2>4 DEF Current
    <3>. QED
      BY <1>s, <1>5, <2>1, <2>2, <2>4, <3>1 DEF ProfileFits, Modal
  <2>. QED
    BY <2>3, <2>4
<1>8. AtHome(c)'
  BY <1>n, <1>s, <1>1, <1>5, <1>6, <1>7 DEF AtHome
<1>9. InTouch(c)'
  BY <1>1, <1>3, <1>5, <1>8 DEF InTouch
<1>. QED
  BY <1>2, <1>9 DEF Keeps

(* A greeting is answered, and nothing else is under way then. *)
LEMMA GreetingServed ==
    ASSUME CInv, NEW c \in Clients, Keeps(c), AtForm(c), up[c] # << >>,
           Head(up[c]).type \in Greetings, up'[c] = Tail(up[c]), opened'[c] = opened[c],
           NEW n, n.type \in Answers, down'[c] = Append(down[c], n), NEW p,
           \/ n.type = "error" /\ session'[c] = NoUser
           \/ /\ session'[c] # NoUser
              /\ \/ n.type = "profile" /\ Current(c, n.profile)'
                 \/ /\ n.type = "signup_ok" /\ Head(up[c]).type = "signup"
                    /\ Head(up[c]).profile = p /\ Current(c, p)',
           screen'[c] = screen[c], editors'[c] = editors[c], ready'[c] = ready[c],
           me'[c] = me[c], dialog'[c] = dialog[c]
    PROVE  Keeps(c)'
<1>. DEFINE m == Head(up[c])
<1>1. /\ Replies(down[c]) = {} /\ Greeting(c) /\ Last(up[c]) = m /\ Tail(up[c]) = << >>
      /\ InTouch(c) /\ up[c] \in Seq(UserRequest) /\ down[c] \in Seq(ServerMessage)
      /\ m \in UserRequest /\ Starts(session[c], m)
  BY KeptClient, FirstRequest, FormHeads DEF Offline, AtForm, Forms
<1>. HIDE DEF m
<1>2. up'[c] = << >> /\ Asked(up'[c]) = {}
  BY <1>1, NothingAsked
<1>3. Orderly(session'[c], opened'[c], up'[c])
  <2>1. Orderly(session'[c], opened'[c], << >>)
    BY NothingAsked
  <2>. QED
    BY <2>1, <1>2
<1>4. Replies(down'[c]) = {n} /\ OneReply(down'[c]) /\ ~Ended(down'[c])
  BY <1>1, ReplyAdded DEF InTouch
<1>5. opened'[c] = {}
  <2>1. session[c] = NoUser
    BY <1>1 DEF Starts, Greetings, m
  <2>. QED
    BY <2>1, KeptClient
<1>6. n.type = "signup_ok" => Current(c, me[c])'
  <2>. SUFFICES ASSUME n.type = "signup_ok" PROVE Current(c, me[c])'
    OBVIOUS
  <2>1. m.type = "signup" /\ m.profile = p /\ Current(c, p)'
    BY DEF m
  <2>2. me'[c] = p
    BY <1>1, <2>1 DEF Greeting
  <2>. QED
    BY <2>1, <2>2 DEF Current
<1>7. Greeted(c)'
  BY <1>1, <1>2, <1>4, <1>5, <1>6 DEF Greeted, Greeting
<1>8. AtForm(c)'
  BY <1>7 DEF AtForm, Modal
<1>9. InTouch(c)'
  BY <1>2, <1>4, <1>8 DEF InTouch
<1>. QED
  BY <1>3, <1>9 DEF Keeps

-----------------------------------------------------------------------------
(* The lemmas below are one for each handler. *)
LEMMA SilentTold ==
    ASSUME CInv, NEW c \in Clients, NEW type, NEW ds \in SUBSET Docs, type \in Notice \/ ds = {},
           down' = Written(c, << >>, type, ds), stale' = stale, faces' = faces
    PROVE  /\ down'[c] = down[c]
           /\ \A e \in Clients \ {c} : session'[e] = session[e] /\ opened'[e] = opened[e] => Unmoved(e)
<1>1. down[c] \in Seq(ServerMessage)
  BY DEF CInv, Channels
<1>2. down[c] \o << >> = down[c]
  BY <1>1
<1>3. /\ \A e \in Clients : Offline(e) => down'[e] = down[e]
      /\ \A e \in Clients \ {c} : Alike(down[e], down'[e])
      /\ c \in Clients /\ ~Offline(c) => down'[c] = down[c] \o << >>
  BY WrittenTo
<1>. QED
  BY <1>2, <1>3 DEF Unmoved

LEMMA AnswerTold ==
    ASSUME CInv, NEW c \in Clients, NEW type, NEW ds \in SUBSET Docs, type \in Notice \/ ds = {},
           NEW n, down' = Written(c, <<n>>, type, ds)
    PROVE  /\ IF Offline(c) THEN down'[c] = down[c] ELSE down'[c] = Append(down[c], n)
           /\ \A e \in Clients \ {c} :
                /\ session'[e] = session[e] /\ opened'[e] = opened[e]
                /\ session[e] # NoUser /\ e \notin stale' =>
                     e \notin stale /\ faces'[session[e]] = faces[session[e]]
                => Unmoved(e)
<1>1. down[c] \in Seq(ServerMessage)
  BY DEF CInv, Channels
<1>2. down[c] \o <<n>> = Append(down[c], n)
  BY <1>1
<1>3. /\ \A e \in Clients : Offline(e) => down'[e] = down[e]
      /\ \A e \in Clients \ {c} : Alike(down[e], down'[e])
      /\ c \in Clients /\ ~Offline(c) => down'[c] = down[c] \o <<n>>
  BY WrittenTo
<1>. QED
  BY <1>2, <1>3 DEF Unmoved

LEMMA SilentlyServed ==
    ASSUME CInv, NEW c \in Clients, ServeLogout(c) \/ ServeClose(c) \/ ServeEdit(c)
    PROVE  ServedInOneStep(c)
<1>. DEFINE m == Head(up[c])
<1>1. m \in UserRequest
  BY Served DEF ServeLogout, ServeClose, ServeEdit, Serving
<1>2. opened \in [Clients -> SUBSET documents] /\ documents \subseteq Docs /\ session \in [Clients -> accounts \cup {NoUser}]
  BY DEF CInv, Server
<1>. HIDE DEF m
<1>4. CASE ServeLogout(c)
  <2>1. /\ m.type = "logout" /\ up[c] # << >> /\ up' = [up EXCEPT ![c] = Tail(@)]
        /\ UNCHANGED <<uiVars, badClients>> /\ stale' = stale /\ faces' = faces
        /\ session' = [session EXCEPT ![c] = NoUser] /\ opened' = [opened EXCEPT ![c] = {}]
        /\ down' = Written(c, << >>, "closed", opened[c])
    BY <1>4 DEF ServeLogout, Serving, EndSession, dbVars, m
  <2>2. opened[c] \in SUBSET Docs /\ "closed" \in Notice
    BY <1>2 DEF Notice
  <2>3. /\ down'[c] = down[c]
        /\ \A e \in Clients \ {c} : session'[e] = session[e] /\ opened'[e] = opened[e] => Unmoved(e)
    BY <2>1, <2>2, SilentTold
  <2>4. ToldSilently(c, m)
    BY <1>2, <2>1, <2>3 DEF ToldSilently
  <2>5. \A e \in Clients \ {c} : Unmoved(e)
    BY <1>2, <2>1, <2>3
  <2>6. Told(c, m)
    BY <2>1, <2>4 DEF Told, Greetings, Answered
  <2>. QED
    BY <2>1, <2>5, <2>6 DEF ServedInOneStep, m
<1>5. CASE ServeClose(c)
  <2>1. /\ m.type = "close" /\ up[c] # << >> /\ up' = [up EXCEPT ![c] = Tail(@)]
        /\ UNCHANGED <<uiVars, badClients>> /\ stale' = stale /\ faces' = faces
        /\ session' = session /\ opened' = [opened EXCEPT ![c] = @ \ {m.document}]
        /\ down' = Written(c, << >>, "closed", {m.document})
    BY <1>5 DEF ServeClose, Serving, dbVars, m
  <2>2. {m.document} \in SUBSET Docs /\ "closed" \in Notice
    BY <1>1, <2>1, RequestFields DEF Notice
  <2>3. /\ down'[c] = down[c]
        /\ \A e \in Clients \ {c} : session'[e] = session[e] /\ opened'[e] = opened[e] => Unmoved(e)
    BY <2>1, <2>2, SilentTold
  <2>4. ToldSilently(c, m)
    BY <1>2, <2>1, <2>3 DEF ToldSilently
  <2>5. \A e \in Clients \ {c} : Unmoved(e)
    BY <1>2, <2>1, <2>3
  <2>6. Told(c, m)
    BY <2>1, <2>4 DEF Told, Greetings, Answered
  <2>. QED
    BY <2>1, <2>5, <2>6 DEF ServedInOneStep, m
<1>6. CASE ServeEdit(c)
  <2>1. /\ m.type = "edit" /\ up[c] # << >> /\ up' = [up EXCEPT ![c] = Tail(@)]
        /\ UNCHANGED <<uiVars, badClients>> /\ stale' = stale /\ faces' = faces
        /\ session' = session /\ opened' = opened
        /\ down' = Written(c, << >>, "edited", {m.document})
    BY <1>6 DEF ServeEdit, Serving, serverVars, dbVars, m
  <2>2. {m.document} \in SUBSET Docs /\ "edited" \in Notice
    BY <1>1, <2>1, RequestFields DEF Notice
  <2>3. /\ down'[c] = down[c]
        /\ \A e \in Clients \ {c} : session'[e] = session[e] /\ opened'[e] = opened[e] => Unmoved(e)
    BY <2>1, <2>2, SilentTold
  <2>4. ToldSilently(c, m)
    BY <1>2, <2>1, <2>3 DEF ToldSilently
  <2>6. Told(c, m)
    BY <2>1, <2>4 DEF Told, Greetings, Answered
  <2>. QED
    BY <2>1, <2>3, <2>6 DEF ServedInOneStep, m
<1>. QED
  BY <1>4, <1>5, <1>6

LEMMA GreetingsServed ==
    ASSUME CInv, NEW c \in Clients, ServeLogin(c) \/ ServeSignup(c)
    PROVE  ServedInOneStep(c)
<1>. DEFINE m == Head(up[c])
<1>1. m \in UserRequest
  BY Served DEF ServeLogin, ServeSignup, Serving
<1>2. /\ session \in [Clients -> accounts \cup {NoUser}] /\ accounts \subseteq Users /\ NoUser \notin Users
      /\ faces \in [Users -> Faces \ Invalid]
  BY SessionAssumption DEF CInv, Server
<1>. HIDE DEF m
<1>3. m.type \in Greetings /\ up[c] # << >> /\ up' = [up EXCEPT ![c] = Tail(@)] /\ UNCHANGED <<uiVars, badClients, opened>>
  BY DEF ServeLogin, ServeSignup, Serving, Greetings, m
<1>4. SUFFICES ASSUME NEW n \in ServerMessage, Reply(c, <<n>>), n.type \in Answers,
                      \/ n.type = "error" /\ session' = session /\ stale' = stale /\ faces' = faces
                      \/ /\ session' = [session EXCEPT ![c] = session'[c]] /\ session'[c] \in Users
                         /\ stale' = stale \ {c}
                         /\ \A u \in accounts : faces'[u] = faces[u]
                         /\ \/ n.type = "profile" /\ NowCurrent(c, n.profile)
                            \/ n.type = "signup_ok" /\ m.type = "signup" /\ NowCurrent(c, m.profile)
               PROVE  ServedInOneStep(c)
  <2>1. Plain("error") \in ServerMessage /\ Plain("error").type = "error"
    BY DEF Plain, ServerMessage
  <2>2. Plain("signup_ok") \in ServerMessage /\ Plain("signup_ok").type = "signup_ok"
    BY DEF Plain, ServerMessage
  <2>3. CASE ServeLogin(c)
    <3>1. CASE m.right /\ m.user \in accounts
      <4>. DEFINE p == Profile(m.user, faces[m.user])
                  n == ProfileOf(p)
      <4>1. /\ session' = [session EXCEPT ![c] = m.user] /\ stale' = stale \ {c} /\ faces' = faces
            /\ Reply(c, <<n>>)
        BY <2>3, <3>1 DEF ServeLogin, Authenticate, dbVars, m
      <4>2. p.user = m.user /\ p.face = faces[m.user] /\ p \in Profiles
        BY <1>2, <3>1 DEF Profile, Profiles
      <4>. HIDE DEF p
      <4>3. n \in ServerMessage /\ n.type = "profile" /\ n.profile = p
        BY <4>2 DEF ProfileOf, ServerMessage
      <4>. HIDE DEF n
      <4>4. NowCurrent(c, n.profile) /\ session'[c] \in Users
        BY <1>2, <3>1, <4>1, <4>2, <4>3 DEF NowCurrent
      <4>5. n.type \in Answers
        BY <4>3 DEF Answers
      <4>6. session' = [session EXCEPT ![c] = session'[c]]
        BY <1>2, <4>1
      <4>. QED
        BY <1>4, <4>1, <4>3, <4>4, <4>5, <4>6
    <3>2. CASE ~(m.right /\ m.user \in accounts)
      <4>. DEFINE n == Plain("error")
      <4>1. Reply(c, <<n>>) /\ session' = session /\ stale' = stale /\ faces' = faces
        BY <2>3, <3>2 DEF ServeLogin, dbVars, m
      <4>. HIDE DEF n
      <4>2. n \in ServerMessage /\ n.type = "error" /\ n.type \in Answers
        BY <2>1 DEF n, Answers
      <4>. QED
        BY <1>4, <4>1, <4>2
    <3>. QED
      BY <3>1, <3>2
  <2>4. CASE ServeSignup(c)
    <3>. DEFINE p == m.profile
    <3>1. m.type = "signup" /\ p.user \in Users
      BY <1>1, <2>4, RequestFields DEF ServeSignup, Serving, m
    <3>. HIDE DEF p
    <3>2. CASE p.user \notin accounts
      <4>. DEFINE n == Plain("signup_ok")
      <4>1. /\ session' = [session EXCEPT ![c] = p.user] /\ stale' = stale \ {c}
            /\ faces' = [faces EXCEPT ![p.user] = p.face] /\ Reply(c, <<n>>)
        BY <2>4, <3>2 DEF ServeSignup, Authenticate, m, p
      <4>. HIDE DEF n
      <4>2. n \in ServerMessage /\ n.type = "signup_ok" /\ n.type \in Answers
        BY <2>2 DEF n, Answers
      <4>3. NowCurrent(c, p) /\ session'[c] \in Users /\ session' = [session EXCEPT ![c] = session'[c]]
        BY <1>2, <3>1, <4>1 DEF NowCurrent
      <4>4. \A u \in accounts : faces'[u] = faces[u]
        BY <1>2, <3>2, <4>1
      <4>. QED
        BY <1>4, <3>1, <4>1, <4>2, <4>3, <4>4 DEF p
    <3>3. CASE p.user \in accounts
      <4>. DEFINE n == Plain("error")
      <4>1. Reply(c, <<n>>) /\ session' = session /\ stale' = stale /\ faces' = faces
        BY <2>4, <3>3 DEF ServeSignup, m, p
      <4>. HIDE DEF n
      <4>2. n \in ServerMessage /\ n.type = "error" /\ n.type \in Answers
        BY <2>1 DEF n, Answers
      <4>. QED
        BY <1>4, <4>1, <4>2
    <3>. QED
      BY <3>2, <3>3
  <2>. QED
    BY <2>3, <2>4
<1>5. /\ IF Offline(c) THEN down'[c] = down[c] ELSE down'[c] = Append(down[c], n)
      /\ \A e \in Clients \ {c} :
           /\ session'[e] = session[e] /\ opened'[e] = opened[e]
           /\ session[e] # NoUser /\ e \notin stale' =>
                e \notin stale /\ faces'[session[e]] = faces[session[e]]
           => Unmoved(e)
  <2>1. down' = Written(c, <<n>>, "none", {})
    BY <1>4 DEF Reply
  <2>. QED
    BY <2>1, AnswerTold
<1>6. ToldOfGreeting(c, m)
  <2>1. session'[c] # NoUser \/ session' = session
    BY <1>2, <1>4
  <2>. QED
    BY <1>2, <1>3, <1>4, <1>5, <2>1 DEF ToldOfGreeting
<1>7. ASSUME NEW e \in Clients \ {c} PROVE Unmoved(e)
  <2>1. session'[e] = session[e] /\ opened'[e] = opened[e]
    BY <1>2, <1>3, <1>4
  <2>2. session[e] # NoUser => session[e] \in accounts
    BY <1>2
  <2>3. session[e] # NoUser /\ e \notin stale' => e \notin stale /\ faces'[session[e]] = faces[session[e]]
    BY <1>4, <2>2
  <2>. QED
    BY <1>5, <2>1, <2>3
<1>8. Told(c, m)
  BY <1>3, <1>6 DEF Told, Greetings
<1>. QED
  BY <1>3, <1>7, <1>8 DEF ServedInOneStep, Greetings, m

LEMMA HomeServed ==
    ASSUME CInv, NEW c \in Clients,
           \/ ServeProfile(c) \/ ServeDocuments(c) \/ ServeCreate(c) \/ ServeOpen(c) \/ ServeWrongLink(c)
           \/ ServeLink(c) /\ Head(up[c]).document \notin opened[c]
    PROVE  ServedInOneStep(c)
<1>. DEFINE m == Head(up[c])
<1>1. m \in UserRequest
  BY Served DEF ServeProfile, ServeDocuments, ServeCreate, ServeOpen, ServeWrongLink, ServeLink, Serving
<1>2. /\ session \in [Clients -> accounts \cup {NoUser}] /\ accounts \subseteq Users /\ NoUser \notin Users
      /\ faces \in [Users -> Faces \ Invalid] /\ opened \in [Clients -> SUBSET documents]
      /\ documents \subseteq Docs
  BY SessionAssumption DEF CInv, Server
<1>3. Plain("error") \in ServerMessage /\ Plain("error").type = "error"
  BY DEF Plain, ServerMessage
<1>. HIDE DEF m
(* The answer n, and what is written to others about the document. *)
<1>4. SUFFICES ASSUME NEW n \in ServerMessage, NEW type, NEW ds \in SUBSET Docs, type \in Notice \/ ds = {},
                      down' = Written(c, <<n>>, type, ds),
                      m.type \in Answered \ Greetings, up[c] # << >>, up' = [up EXCEPT ![c] = Tail(@)],
                      UNCHANGED <<uiVars, badClients, session>>,
                      n.type \in {"error", "profile_ok", "documents", "document"},
                      n.type # "document" => opened' = opened,
                      n.type = "document" =>
                        /\ m.type \in {"create", "open", "link"}
                        /\ n.document \notin opened[c] /\ opened' = [opened EXCEPT ![c] = @ \cup {n.document}],
                      IF n.type = "profile_ok"
                      THEN /\ m.type = "profile_update" /\ NowCurrent(c, m.profile)
                           /\ \A e \in Clients \ {c} : session[e] # NoUser /\ e \notin stale' =>
                                e \notin stale /\ faces'[session[e]] = faces[session[e]]
                      ELSE stale' = stale /\ faces' = faces
               PROVE  ServedInOneStep(c)
  <2>1. CASE ServeProfile(c)
    <3>. DEFINE n == Plain("profile_ok")
                p == m.profile
    <3>1. /\ m.type = "profile_update" /\ up[c] # << >> /\ up' = [up EXCEPT ![c] = Tail(@)]
          /\ UNCHANGED <<uiVars, badClients, session, opened>>
          /\ p.user = session[c] /\ session[c] # NoUser
          /\ faces' = [faces EXCEPT ![p.user] = p.face]
          /\ stale' = (stale \ {c}) \cup {e \in Clients \ {c} : session[e] = p.user}
          /\ down' = Written(c, <<n>>, "none", {})
      BY <2>1 DEF ServeProfile, Serving, Authenticated, Reply, m, p
    <3>2. n \in ServerMessage /\ n.type = "profile_ok"
      BY DEF Plain, ServerMessage
    <3>. HIDE DEF n, p
    <3>3. NowCurrent(c, p)
      BY <1>2, <3>1 DEF NowCurrent
    <3>4. ASSUME NEW e \in Clients \ {c}, session[e] # NoUser, e \notin stale'
          PROVE  e \notin stale /\ faces'[session[e]] = faces[session[e]]
      BY <1>2, <3>1, <3>4
    <3>5. {} \in SUBSET Docs /\ m.type \in Answered \ Greetings
      BY <3>1 DEF Answered, Greetings
    <3>. QED
      BY <1>4, <3>1, <3>2, <3>3, <3>4, <3>5 DEF p
  <2>2. CASE ServeDocuments(c)
    <3>. DEFINE n == Documents(Accessible(session[c]))
    <3>1. /\ m.type = "documents_request" /\ up[c] # << >> /\ up' = [up EXCEPT ![c] = Tail(@)]
          /\ UNCHANGED <<uiVars, badClients, session, opened, stale, faces>>
          /\ down' = Written(c, <<n>>, "none", {})
      BY <2>2 DEF ServeDocuments, Serving, Reply, serverVars, dbVars, m
    <3>2. n \in ServerMessage /\ n.type = "documents"
      BY <1>2 DEF Documents, Accessible, ServerMessage
    <3>. HIDE DEF n
    <3>3. {} \in SUBSET Docs /\ m.type \in Answered \ Greetings
      BY <3>1 DEF Answered, Greetings
    <3>. QED
      BY <1>4, <3>1, <3>2, <3>3
  <2>3. ASSUME NEW ds \in SUBSET Docs, NEW type, type \in Notice \/ ds = {}, NEW d \in Docs, d \notin opened[c],
               m.type \in {"create", "open", "link"}, up[c] # << >>, up' = [up EXCEPT ![c] = Tail(@)],
               UNCHANGED <<uiVars, badClients, session, stale, faces>>,
               opened' = [opened EXCEPT ![c] = @ \cup {d}],
               down' = Written(c, <<On("document", d)>>, type, ds)
        PROVE  ServedInOneStep(c)
    <3>. DEFINE n == On("document", d)
    <3>1. n \in ServerMessage /\ n.type = "document" /\ n.document = d
      BY DEF On, ServerMessage
    <3>2. down' = Written(c, <<n>>, type, ds)
      BY <2>3
    <3>. HIDE DEF n
    <3>3. m.type \in Answered \ Greetings
      BY <2>3 DEF Answered, Greetings
    <3>. QED
      BY <1>4, <2>3, <3>1, <3>2, <3>3
  <2>4. ASSUME m.type \in {"create", "open", "link"}, up[c] # << >>, up' = [up EXCEPT ![c] = Tail(@)],
               UNCHANGED <<uiVars, badClients, session, opened, stale, faces>>,
               Reply(c, <<Plain("error")>>)
        PROVE  ServedInOneStep(c)
    <3>. DEFINE n == Plain("error")
    <3>1. n \in ServerMessage /\ n.type = "error" /\ down' = Written(c, <<n>>, "none", {})
      BY <1>3, <2>4 DEF Reply
    <3>. HIDE DEF n
    <3>2. {} \in SUBSET Docs /\ m.type \in Answered \ Greetings
      BY <2>4 DEF Answered, Greetings
    <3>. QED
      BY <1>4, <2>4, <3>1, <3>2
  <2>5. CASE ServeCreate(c)
    <3>. DEFINE d == Document(session[c], m.name)
    <3>1. /\ m.type = "create" /\ up[c] # << >> /\ up' = [up EXCEPT ![c] = Tail(@)]
          /\ UNCHANGED <<uiVars, badClients, session, stale, faces>> /\ session[c] # NoUser
          /\ IF d \notin documents
             THEN opened' = [opened EXCEPT ![c] = @ \cup {d}] /\ Reply(c, <<On("document", d)>>)
             ELSE Reply(c, <<Plain("error")>>) /\ opened' = opened
      BY <2>5 DEF ServeCreate, Serving, Authenticated, m
    <3>2. d \in Docs
      <4>1. session[c] \in Users /\ m.name \in Names
        BY <1>1, <1>2, <3>1, RequestFields
      <4>. QED
        BY <4>1 DEF Document, Docs
    <3>. HIDE DEF d
    <3>3. CASE d \notin documents
      <4>1. d \notin opened[c]
        BY <1>2, <3>3
      <4>2. down' = Written(c, <<On("document", d)>>, "none", {})
        BY <3>1, <3>3 DEF Reply
      <4>. QED
        BY <2>3, <3>1, <3>2, <3>3, <4>1, <4>2
    <3>4. CASE d \in documents
      BY <2>4, <3>1, <3>4
    <3>. QED
      BY <3>3, <3>4
  <2>6. CASE ServeOpen(c)
    <3>. DEFINE d == m.document
    <3>1. /\ m.type = "open" /\ up[c] # << >> /\ up' = [up EXCEPT ![c] = Tail(@)]
          /\ UNCHANGED <<uiVars, badClients, session, stale, faces>> /\ d \notin opened[c]
          /\ \/ /\ opened' = [opened EXCEPT ![c] = @ \cup {d}]
                /\ down' = Written(c, <<On("document", d)>>, "opened", {d})
             \/ Reply(c, <<Plain("error")>>) /\ opened' = opened
      BY <2>6 DEF ServeOpen, Serving, dbVars, m
    <3>2. d \in Docs
      BY <1>1, <3>1, RequestFields
    <3>. HIDE DEF d
    <3>. QED
      BY <2>3, <2>4, <3>1, <3>2 DEF Notice
  <2>7. CASE ServeLink(c) /\ m.document \notin opened[c]
    <3>. DEFINE d == m.document
    <3>1. /\ m.type = "link" /\ up[c] # << >> /\ up' = [up EXCEPT ![c] = Tail(@)]
          /\ UNCHANGED <<uiVars, badClients, session, stale, faces>> /\ d \notin opened[c]
          /\ opened' = [opened EXCEPT ![c] = @ \cup {d}]
          /\ down' = Written(c, <<On("document", d)>>, "opened", {d})
      BY <2>7 DEF ServeLink, m
    <3>2. d \in Docs
      BY <1>1, <3>1, RequestFields
    <3>. HIDE DEF d
    <3>. QED
      BY <2>3, <3>1, <3>2 DEF Notice
  <2>8. CASE ServeWrongLink(c)
    <3>1. /\ m.type = "link" /\ up[c] # << >> /\ up' = [up EXCEPT ![c] = Tail(@)]
          /\ UNCHANGED <<uiVars, badClients, session, opened, stale, faces>>
          /\ Reply(c, <<Plain("error")>>)
      BY <2>8 DEF ServeWrongLink, Serving, serverVars, dbVars, m
    <3>. QED
      BY <2>4, <3>1
  <2>. QED
    BY <2>1, <2>2, <2>5, <2>6, <2>7, <2>8 DEF m
<1>5. /\ IF Offline(c) THEN down'[c] = down[c] ELSE down'[c] = Append(down[c], n)
      /\ \A e \in Clients \ {c} :
           /\ session'[e] = session[e] /\ opened'[e] = opened[e]
           /\ session[e] # NoUser /\ e \notin stale' =>
                e \notin stale /\ faces'[session[e]] = faces[session[e]]
           => Unmoved(e)
  BY <1>4, AnswerTold
<1>6. opened'[c] = IF n.type = "document" THEN opened[c] \cup {n.document} ELSE opened[c]
  BY <1>2, <1>4
<1>7. ToldAtHome(c, m)
  BY <1>2, <1>4, <1>5, <1>6 DEF ToldAtHome
<1>8. ASSUME NEW e \in Clients \ {c} PROVE Unmoved(e)
  <2>1. session'[e] = session[e] /\ opened'[e] = opened[e]
    BY <1>2, <1>4
  <2>2. session[e] # NoUser /\ e \notin stale' => e \notin stale /\ faces'[session[e]] = faces[session[e]]
    BY <1>4
  <2>. QED
    BY <1>5, <2>1, <2>2
<1>9. Told(c, m) /\ m.type # "hangup"
  BY <1>4, <1>7 DEF Told, Greetings, Answered
<1>. QED
  BY <1>4, <1>8, <1>9 DEF ServedInOneStep, m

(* A patient client is kept by what the server does with its request ...    *)
LEMMA PatientServed ==
    ASSUME CInv, NEW c \in Clients, Keeps(c), ServedInOneStep(c)
    PROVE  Keeps(c)'
<1>. DEFINE m == Head(up[c])
<1>1. /\ up[c] # << >> /\ m.type # "hangup" /\ up'[c] = Tail(up[c])
      /\ screen'[c] = screen[c] /\ ready'[c] = ready[c] /\ me'[c] = me[c]
      /\ dialog'[c] = dialog[c] /\ editors'[c] = editors[c]
      /\ Told(c, m)
  BY DEF ServedInOneStep, uiVars, windowVars, CInv, Channels
<1>2. /\ m \in UserRequest /\ Starts(session[c], m) /\ m \in Asked(up[c])
      /\ screen[c] = "home" => AtHome(c)
      /\ screen[c] \in Forms => AtForm(c)
      /\ session[c] = NoUser => opened[c] = {}
  <2>. DEFINE q == up[c]
  <2>1. /\ q \in Seq(UserRequest) /\ Orderly(session[c], opened[c], q) /\ q # << >>
        /\ screen[c] = "home" => AtHome(c)
        /\ screen[c] \in Forms => AtForm(c)
        /\ session[c] = NoUser => opened[c] = {}
    BY <1>1, KeptClient
  <2>. HIDE DEF q
  <2>2. Head(q) \in UserRequest /\ Starts(session[c], Head(q)) /\ Head(q) \in Asked(q)
    BY <2>1, FirstRequest
  <2>. QED
    BY <2>1, <2>2 DEF q
<1>. HIDE DEF m
<1>3. m.type \in Greetings \cup {"edit", "close", "logout"} \cup (Answered \ Greetings)
  BY <1>1, <1>2 DEF UserRequest, Greetings, Answered
<1>4. CASE Offline(c)
  <2>1. down'[c] = down[c]
    BY <1>1, <1>3, <1>4 DEF Told, ToldOfGreeting, ToldSilently, ToldAtHome
  <2>2. Changes(m, session[c], opened[c], session'[c], opened'[c])
    <3>1. CASE m.type \in Greetings
      BY <3>1 DEF Changes, Greetings, HomeRequests
    <3>2. CASE m.type \in {"edit", "close", "logout"}
      BY <3>2, <1>1 DEF Told, ToldSilently, Changes, HomeRequests
    <3>3. CASE m.type \in Answered \ Greetings
      BY <3>3, <1>1 DEF Told, ToldAtHome, Changes, HomeRequests, Answered, Greetings
    <3>. QED
      BY <1>3, <3>1, <3>2, <3>3
  <2>. QED
    BY <1>1, <1>4, <2>1, <2>2, AwayServed DEF m
<1>5. CASE screen[c] \in Forms
  <2>0. AtForm(c) /\ ~Offline(c)
    BY <1>2, <1>5 DEF Offline, Forms
  <2>1. m.type \in {"close", "edit", "logout"} \cup Greetings
    BY <1>1, <2>0, FormHeads DEF m
  <2>2. CASE m.type \in Greetings
    <3>1. session[c] = NoUser
      BY <1>2, <2>2 DEF Starts, Greetings
    <3>2. ToldOfGreeting(c, m)
      BY <1>1, <2>2 DEF Told
    <3>3. PICK n \in ServerMessage :
            /\ n.type \in Answers
            /\ \/ n.type = "error" /\ session'[c] = session[c]
               \/ /\ session'[c] # NoUser
                  /\ \/ n.type = "profile" /\ NowCurrent(c, n.profile)
                     \/ n.type = "signup_ok" /\ m.type = "signup" /\ NowCurrent(c, m.profile)
            /\ down'[c] = Append(down[c], n)
      BY <2>0, <3>2 DEF ToldOfGreeting
    <3>4. PICK p : p = m.profile
      OBVIOUS
    <3>5. n.type = "profile" => (NowCurrent(c, n.profile) => Current(c, n.profile)')
      BY DEF NowCurrent, Current
    <3>6. NowCurrent(c, p) => Current(c, p)'
      BY DEF NowCurrent, Current
    <3>7. \/ n.type = "error" /\ session'[c] = NoUser
          \/ /\ session'[c] # NoUser
             /\ \/ n.type = "profile" /\ Current(c, n.profile)'
                \/ /\ n.type = "signup_ok" /\ m.type = "signup"
                   /\ m.profile = p /\ Current(c, p)'
      BY <3>1, <3>3, <3>4, <3>5, <3>6
    <3>8. opened'[c] = opened[c]
      BY <3>2 DEF ToldOfGreeting
    <3>. QED
      BY <1>1, <2>0, <2>2, <3>3, <3>7, <3>8, GreetingServed DEF m
  <2>3. CASE m.type \notin Greetings
    <3>1. ToldSilently(c, m)
      BY <1>1, <2>1, <2>3 DEF Told
    <3>2. Changes(m, session[c], opened[c], session'[c], opened'[c])
      BY <2>1, <2>3, <3>1 DEF ToldSilently, Changes, HomeRequests
    <3>3. down'[c] = down[c]
      BY <3>1 DEF ToldSilently
    <3>. QED
      BY <1>1, <2>0, <2>3, <3>2, <3>3, FormServed DEF m
  <2>. QED
    BY <2>2, <2>3
<1>6. CASE screen[c] = "home"
  <2>0. AtHome(c) /\ ~Offline(c)
    BY <1>2, <1>6 DEF Offline
  <2>1. m.type \in HomeRequests
    BY <1>2, <2>0 DEF AtHome
  <2>2. CASE m.type \in {"edit", "close"}
    <3>1. ToldSilently(c, m)
      BY <1>1, <2>2 DEF Told
    <3>2. /\ opened'[c] = IF m.type = "close" THEN opened[c] \ {m.document} ELSE opened[c]
          /\ session'[c] = session[c] /\ stale' = stale /\ faces' = faces /\ down'[c] = down[c]
      BY <2>2, <3>1 DEF ToldSilently
    <3>. QED
      BY <1>1, <2>0, <2>2, <3>2, HomeForgets DEF m
  <2>3. CASE m.type \notin {"edit", "close"}
    <3>1. m.type \in Answered \ Greetings
      BY <2>1, <2>3 DEF HomeRequests, Answered, Greetings
    <3>2. ToldAtHome(c, m)
      BY <1>1, <3>1 DEF Told
    <3>. QED
      BY <1>1, <2>0, <3>1, <3>2, HomeAnswers DEF m
  <2>. QED
    BY <2>2, <2>3
<1>. QED
  <2>1. screen[c] \in Forms \cup {"connection", "home"}
    BY DEF CInv, Windows
  <2>. QED
    BY <1>4, <1>5, <1>6, <2>1 DEF Offline

LEMMA PatientHungUp ==
    ASSUME CInv, NEW c \in Clients, Keeps(c), ServeHangup(c)
    PROVE  Keeps(c)'
<1>1. /\ up[c] # << >> /\ Head(up[c]).type = "hangup" /\ up'[c] = << >>
      /\ screen'[c] = screen[c] /\ editors'[c] = editors[c]
      /\ session'[c] = NoUser
  BY DEF ServeHangup, EndSession, uiVars, windowVars, CInv, Channels, Server
<1>2. Offline(c)
  <2>. DEFINE q == up[c]
  <2>1. /\ q \in Seq(UserRequest) /\ Orderly(session[c], opened[c], q) /\ q # << >>
        /\ ~Offline(c) => InTouch(c)
    BY <1>1, KeptClient
  <2>. HIDE DEF q
  <2>2. Head(q) \in Asked(q)
    BY <2>1, FirstRequest
  <2>. QED
    BY <1>1, <2>1, <2>2 DEF q, InTouch
<1>3. Away(c) /\ opened[c] \in SUBSET Docs
  BY <1>2, KeptClient
<1>4. down'[c] = down[c]
  BY <1>2 DEF ServeHangup, EndSession, Written
<1>5. Away(c)'
  BY <1>1, <1>2, <1>3, <1>4 DEF Away, Offline
<1>6. Orderly(session'[c], opened'[c], up'[c])
  BY <1>1, NothingAsked
<1>. QED
  BY <1>5, <1>6 DEF Keeps

(* ... and by what it does with the requests of others.                     *)
LEMMA OthersServed ==
    ASSUME CInv, NEW c \in Clients, Serve(c), NEW e \in Clients \ {c}, Keeps(e)
    PROVE  Keeps(e)'
<1>1. SUFFICES Unmoved(e) /\ up'[e] = up[e] /\ UNCHANGED uiVars
  BY OthersDo DEF Unmoved, uiVars, windowVars
<1>2. ASSUME ServedInOneStep(c) PROVE Unmoved(e) /\ up'[e] = up[e] /\ UNCHANGED uiVars
  BY <1>2 DEF ServedInOneStep, CInv, Channels
<1>3. ASSUME Throw(c), UNCHANGED <<uiVars, session, opened, stale, faces>>
      PROVE  Unmoved(e) /\ up'[e] = up[e] /\ UNCHANGED uiVars
  <2>1. down' = Written(c, <<Plain("error")>>, "none", {})
    BY <1>3 DEF Throw, Reply
  <2>2. {} \in SUBSET Docs
    OBVIOUS
  <2>3. Unmoved(e)
    BY <1>3, <2>1, <2>2, AnswerTold
  <2>4. up'[e] = up[e]
    BY <1>3 DEF Throw, CInv, Channels
  <2>. QED
    BY <1>3, <2>3, <2>4
<1>4. CASE BadRequest(c)
  BY <1>3, <1>4 DEF BadRequest, dbVars
<1>5. CASE ServeLink(c)
  <2>1. CASE Head(up[c]).document \in opened[c]
    BY <1>3, <1>5, <2>1 DEF ServeLink
  <2>2. CASE Head(up[c]).document \notin opened[c]
    BY <1>2, <1>5, <2>2, HomeServed
  <2>. QED
    BY <2>1, <2>2
<1>6. CASE ServeHangup(c)
  <2>1. /\ down' = Written(c, <<Plain("disconnected")>>, "closed", opened[c])
        /\ session' = [session EXCEPT ![c] = NoUser] /\ opened' = [opened EXCEPT ![c] = {}]
        /\ up' = [up EXCEPT ![c] = << >>] /\ UNCHANGED <<uiVars, stale, faces>>
    BY <1>6 DEF ServeHangup, EndSession, dbVars
  <2>2. opened[c] \in SUBSET Docs /\ "closed" \in Notice
    BY DEF Notice, CInv, Server
  <2>3. session'[e] = session[e] /\ opened'[e] = opened[e] /\ up'[e] = up[e]
    BY <2>1 DEF CInv, Channels, Server
  <2>4. Unmoved(e)
    BY <2>1, <2>2, <2>3, AnswerTold
  <2>. QED
    BY <2>1, <2>3, <2>4
<1>. QED
  BY <1>2, <1>4, <1>5, <1>6, SilentlyServed, GreetingsServed, HomeServed DEF Serve

LEMMA OthersAct ==
    ASSUME CInv, NEW c \in Clients, UserActs(c) \/ Receive(c), NEW e \in Clients \ {c}, Keeps(e)
    PROVE  Keeps(e)'
<1>1. /\ screen'[e] = screen[e] /\ ready'[e] = ready[e] /\ me'[e] = me[e]
      /\ dialog'[e] = dialog[e] /\ editors'[e] = editors[e]
  <2>1. CASE UserActs(c)
    BY <2>1 DEF CInv, Windows, UserActs, Connect, GoToSignup, GoToLogin, ClickLogin, ClickSignup,
         ClickCreate, ClickOpen, ClickLink, Request, Edit, CloseEditor, ClickProfile, CancelProfile, SaveProfile,
         ClickLogout, LoseConnection, ShowForm, uiVars, windowVars
  <2>2. CASE Receive(c)
    BY <2>2 DEF CInv, Windows, Receive, ReceiveError, LoggedIn, ProfileUpdated, ShowDocuments, OpenEditor,
         RemoteOperation, Disconnected, ShowForm, uiVars, windowVars
  <2>. QED
    BY <2>1, <2>2
<1>2. up'[e] = up[e] /\ down'[e] = down[e] /\ UNCHANGED serverVars
  <2>1. CASE UserActs(c)
    BY <2>1 DEF CInv, Channels, UserActs, Connect, GoToSignup, GoToLogin, ClickLogin, ClickSignup,
         ClickCreate, ClickOpen, ClickLink, Request, Edit, CloseEditor, ClickProfile, CancelProfile, SaveProfile,
         ClickLogout, LoseConnection, Send
  <2>2. CASE Receive(c)
    BY <2>2 DEF CInv, Channels, Receive, Receiving, ReceiveError, LoggedIn, ProfileUpdated, ShowDocuments, OpenEditor,
         RemoteOperation, Disconnected, Send
  <2>. QED
    BY <2>1, <2>2
<1>. QED
  BY <1>1, <1>2, OthersDo, SameIsAlike DEF serverVars, dbVars

(* Nothing a patient user has sent makes the server throw. *)
LEMMA PatientNotBad ==
    ASSUME CInv, PInv, NEW c \in Clients, Serve(c)
    PROVE  NoBadClient'
<1>1. ASSUME ServedInOneStep(c) \/ ServeHangup(c) PROVE badClients' = badClients
  BY <1>1 DEF ServedInOneStep, ServeHangup
<1>2. ASSUME Throw(c), c \notin Patient PROVE NoBadClient'
  BY <1>2 DEF Throw, PInv, NoBadClient
<1>3. CASE ServeLink(c) /\ Head(up[c]).document \in opened[c]
  <2>1. c \notin Patient
    BY <1>3, NeverThrows DEF PInv
  <2>. QED
    BY <1>2, <1>3, <2>1 DEF ServeLink
<1>4. CASE BadRequest(c)
  <2>1. c \notin Patient
    BY <1>4, NeverThrows DEF PInv
  <2>. QED
    BY <1>2, <1>4, <2>1 DEF BadRequest
<1>. QED
  BY <1>1, <1>3, <1>4, SilentlyServed, GreetingsServed, HomeServed DEF Serve, PInv, NoBadClient

LEMMA PatientServe ==
    ASSUME CInv, PInv, NEW c \in Patient, Serve(c)
    PROVE  Keeps(c)'
<1>1. c \in Clients /\ Keeps(c)
  BY SessionAssumption DEF PInv
<1>2. ~BadRequest(c) /\ (ServeLink(c) => Head(up[c]).document \notin opened[c])
  BY <1>1, NeverThrows
<1>3. ServedInOneStep(c) \/ ServeHangup(c)
  BY <1>1, <1>2, SilentlyServed, GreetingsServed, HomeServed DEF Serve
<1>. QED
  BY <1>1, <1>3, PatientServed, PatientHungUp

LEMMA InitPInv == Init => PInv
<1>. SUFFICES ASSUME Init, NEW c \in Patient PROVE Keeps(c) /\ NoBadClient
  BY DEF PInv, Init, NoBadClient
<1>1. c \in Clients
  BY SessionAssumption
<1>2. Away(c)
  BY <1>1 DEF Init, Away, Offline
<1>3. Orderly(session[c], opened[c], up[c])
  BY <1>1, NothingAsked DEF Init
<1>. QED
  BY <1>2, <1>3 DEF Keeps, Init, NoBadClient

LEMMA NextPInv == CInv /\ PInv /\ [Next]_vars => PInv'
<1>. SUFFICES ASSUME CInv, PInv, [Next]_vars PROVE PInv'
  OBVIOUS
<1>1. Patient \subseteq Clients
  BY SessionAssumption
<1>2. ASSUME NEW c \in Clients, UserActs(c) \/ Receive(c) PROVE PInv'
  <2>1. NoBadClient'
    <3>1. UNCHANGED badClients
      BY <1>2 DEF UserActs, Connect, GoToSignup, GoToLogin, ClickLogin, ClickSignup, ClickCreate, ClickOpen,
         ClickLink, Request, Edit, CloseEditor, ClickProfile, CancelProfile, SaveProfile, ClickLogout,
         LoseConnection, Receive, ReceiveError, LoggedIn, ProfileUpdated, ShowDocuments, OpenEditor,
         RemoteOperation, Disconnected, serverVars
    <3>. QED
      BY <3>1 DEF PInv, NoBadClient
  <2>2. ASSUME NEW e \in Patient PROVE Keeps(e)'
    <3>1. Keeps(e) /\ e \in Clients
      BY <1>1 DEF PInv
    <3>2. CASE e = c
      BY <1>2, <3>1, <3>2, PatientActs, PatientReceives
    <3>3. CASE e # c
      BY <1>2, <3>1, <3>3, OthersAct
    <3>. QED
      BY <3>2, <3>3
  <2>. QED
    BY <2>1, <2>2 DEF PInv
<1>3. ASSUME NEW c \in Clients, Serve(c) PROVE PInv'
  <2>1. ASSUME NEW e \in Patient PROVE Keeps(e)'
    <3>1. Keeps(e) /\ e \in Clients
      BY <1>1 DEF PInv
    <3>2. CASE e = c
      BY <1>3, <3>2, PatientServe
    <3>3. CASE e # c
      BY <1>3, <3>1, <3>3, OthersServed
    <3>. QED
      BY <3>2, <3>3
  <2>. QED
    BY <1>3, <2>1, PatientNotBad DEF PInv
<1>4. CASE UNCHANGED vars
  <2>1. ASSUME NEW e \in Patient PROVE Keeps(e)'
    <3>1. Keeps(e)
      BY DEF PInv
    <3>. QED
      BY <1>4, <3>1, OthersDo, SameIsAlike DEF vars, uiVars, windowVars, serverVars, dbVars
  <2>. QED
    BY <1>4, <2>1 DEF PInv, NoBadClient, vars, serverVars
<1>. QED
  BY <1>2, <1>3, <1>4 DEF Next

(* The windows of patient users follow their sessions and no request of     *)
(* theirs is one the server throws at, whatever the other users do: the     *)
(* inductive invariant.                                                     *)
THEOREM PatientInvariance == Spec => []PInv
<1>1. CInv /\ PInv /\ [Next]_vars => PInv'
  BY NextPInv
<1>. QED
  BY <1>1, InitPInv, Invariance, PTL DEF Spec

(* The server never takes the client of a patient user for a bad one.       *)
THEOREM NoPatientThrows == Spec => []NoBadClient
<1>1. PInv => NoBadClient
  BY DEF PInv
<1>. QED
  BY <1>1, PatientInvariance, PTL

LEMMA SettledAgree ==
    ASSUME CInv, NEW c \in Clients, Keeps(c)
    PROVE  Agree(c) /\ ShowsStored(c)
<1>. SUFFICES ASSUME up[c] = << >>, down[c] = << >> PROVE Agree(c) /\ ShowsStored(c)
  BY DEF Agree, ShowsStored, Settled
<1>1. Asked(up[c]) = {} /\ Replies(down[c]) = {} /\ Closing(up[c]) = {} /\ Arriving(down[c]) = {}
  <2>1. Asked(up[c]) = {} /\ RepliesIn(down[c]) = {}
    BY NothingAsked DEF RepliesIn
  <2>. QED
    BY <2>1 DEF Replies, Closing, Arriving
<1>2. session[c] = NoUser => opened[c] = {}
  BY KeptClient
<1>3. CASE Away(c)
  BY <1>2, <1>3 DEF Away, Offline, Agree, ShowsStored
<1>4. CASE AtForm(c)
  BY <1>1, <1>2, <1>4 DEF AtForm, Idle, Greeting, Greeted, Forms, Agree, ShowsStored
<1>5. CASE AtHome(c)
  <2>1. editors[c] \subseteq Docs /\ opened[c] \subseteq Docs
    BY DEF CInv, Windows, Server
  <2>2. editors[c] = opened[c]
    BY <1>1, <1>5, <2>1 DEF AtHome, EditorsFit
  <2>3. Current(c, me[c])
    BY <1>1, <1>5 DEF AtHome, ProfileFits
  <2>. QED
    BY <1>5, <2>2, <2>3 DEF AtHome, Current, Agree, ShowsStored
<1>. QED
  BY <1>3, <1>4, <1>5 DEF Keeps, InTouch

(* Once nothing is under way, the windows of a patient user are those of    *)
(* the session the server has, and show the profile that is stored.         *)
THEOREM PatientWindowsAgree == Spec => []WindowsAgree
<1>1. CInv /\ PInv => WindowsAgree
  BY SettledAgree, SessionAssumption DEF PInv, WindowsAgree
<1>. QED
  BY <1>1, PatientInvariance, Invariance, PTL

-----------------------------------------------------------------------------
(* The documented protocol.  What a client's state in it is, from the       *)
(* connection, the session and the requests on their way.                   *)
Has(q, types) == \E m \in Asked(q) : m.type \in types
Editing(q) == {m.document : m \in {n \in Asked(q) : n.type = "edit"}}

StateOf(off, u, q) ==
    IF off THEN "NOT AUTHENTICATED"
    ELSE IF Has(q, {"login", "signup"}) THEN "PROFILE REQUESTED"
    ELSE IF u = NoUser \/ Has(q, {"logout"}) THEN "NOT AUTHENTICATED"
    ELSE IF Has(q, {"documents_request"}) THEN "DOCUMENT LIST REQUESTED"
    ELSE IF Has(q, {"profile_update"}) THEN "PROFILE UPDATE REQUESTED"
    ELSE IF Has(q, {"create", "open", "link"}) THEN "DOCUMENT REQUESTED"
    ELSE "AUTHENTICATED"
OpenedOf(off, o, q) == IF ~off /\ ~Has(q, {"logout"}) THEN o \ Closing(q) ELSE {}
OperatingOf(off, q) == IF off THEN {} ELSE Editing(q)

OpenedAt(c) == IF InHome(c) THEN opened[c] \ PendingOn(c, "close") ELSE {}
OperatingAt(c) == IF Offline(c) THEN {} ELSE PendingOn(c, "edit")

LEMMA IndexedAsked ==
    ASSUME NEW q
    PROVE  /\ \A types : Has(q, types) <=> {i \in DOMAIN q : q[i].type \in types} # {}
           /\ Closing(q) = {q[i].document : i \in {j \in DOMAIN q : q[j].type \in {"close"}}}
           /\ Editing(q) = {q[i].document : i \in {j \in DOMAIN q : q[j].type \in {"edit"}}}
<1>1. \A types : Has(q, types) <=> {i \in DOMAIN q : q[i].type \in types} # {}
  BY DEF Has, Asked
<1>2. Closing(q) = {q[i].document : i \in {j \in DOMAIN q : q[j].type \in {"close"}}}
  BY DEF Closing, Asked
<1>3. Editing(q) = {q[i].document : i \in {j \in DOMAIN q : q[j].type \in {"edit"}}}
  BY DEF Editing, Asked
<1>. QED
  BY <1>1, <1>2, <1>3

LEMMA Mapped ==
    ASSUME NEW c
    PROVE  /\ ProtocolState(c) = StateOf(Offline(c), session[c], up[c])
           /\ OpenedAt(c) = OpenedOf(Offline(c), opened[c], up[c])
           /\ OperatingAt(c) = OperatingOf(Offline(c), up[c])
           /\ ProtocolState(c)' = StateOf(Offline(c)', session'[c], up'[c])
           /\ OpenedAt(c)' = OpenedOf(Offline(c)', opened'[c], up'[c])
           /\ OperatingAt(c)' = OperatingOf(Offline(c)', up'[c])
<1>1. /\ \A types : Pending(c, types) # {} <=> Has(up[c], types)
      /\ PendingOn(c, "close") = Closing(up[c]) /\ PendingOn(c, "edit") = Editing(up[c])
  BY IndexedAsked DEF Pending, PendingOn
<1>2. /\ \A types : Pending(c, types)' # {} <=> Has(up'[c], types)
      /\ PendingOn(c, "close")' = Closing(up'[c]) /\ PendingOn(c, "edit")' = Editing(up'[c])
  BY IndexedAsked DEF Pending, PendingOn
<1>3. ProtocolState(c) = StateOf(Offline(c), session[c], up[c])
  BY <1>1 DEF ProtocolState, StateOf
<1>4. ProtocolState(c)' = StateOf(Offline(c)', session'[c], up'[c])
  BY <1>2 DEF ProtocolState, StateOf
<1>5. OpenedAt(c) = OpenedOf(Offline(c), opened[c], up[c]) /\ OperatingAt(c) = OperatingOf(Offline(c), up[c])
  BY <1>1 DEF OpenedAt, OpenedOf, InHome, OperatingAt, OperatingOf
<1>6. OpenedAt(c)' = OpenedOf(Offline(c)', opened'[c], up'[c]) /\ OperatingAt(c)' = OperatingOf(Offline(c)', up'[c])
  BY <1>2 DEF OpenedAt, OpenedOf, InHome, OperatingAt, OperatingOf
<1>. QED
  BY <1>3, <1>4, <1>5, <1>6

(* The steps of the protocol, for one session. *)
Legal(s, o, p, t, q, r) ==
    \/ t = s /\ q = o /\ r = p
    \/ s = "NOT AUTHENTICATED" /\ t = "PROFILE REQUESTED" /\ q = o /\ r = p
    \/ s = "PROFILE REQUESTED" /\ t \in {"AUTHENTICATED", "NOT AUTHENTICATED"} /\ q = o /\ r = p
    \/ /\ s = "AUTHENTICATED" /\ q = o /\ r = p
       /\ t \in {"DOCUMENT LIST REQUESTED", "PROFILE UPDATE REQUESTED", "DOCUMENT REQUESTED"}
    \/ /\ s \in {"DOCUMENT LIST REQUESTED", "PROFILE UPDATE REQUESTED", "DOCUMENT REQUESTED"}
       /\ t = "AUTHENTICATED" /\ q = o /\ r = p
    \/ /\ s = "DOCUMENT REQUESTED" /\ t = "AUTHENTICATED" /\ r = p
       /\ \E d \in Docs : d \notin o /\ q = o \cup {d}
    \/ t = s /\ r = p /\ \E d \in Docs : d \in o /\ q = o \ {d}
    \/ t = s /\ q = o /\ \E d \in Docs : d \in o /\ r = p \cup {d}
    \/ t = s /\ q = o /\ \E d \in Docs : r = p \ {d}
    \/ s = "AUTHENTICATED" /\ t = "NOT AUTHENTICATED" /\ q = {} /\ r = p
    \/ t = "NOT AUTHENTICATED" /\ q = {} /\ r = {}

LegalStep(c) == Legal(ProtocolState(c), OpenedAt(c), OperatingAt(c),
                      ProtocolState(c)', OpenedAt(c)', OperatingAt(c)')
Still(c) == UNCHANGED <<ProtocolState(c), OpenedAt(c), OperatingAt(c)>>

LEMMA LegalSteps ==
    ASSUME NEW c \in Patient, LegalStep(c), \A e \in Patient \ {c} : Still(e)
    PROVE  [Documented!Next]_(Documented!vars)
<1>. DEFINE s == [e \in Patient |-> ProtocolState(e)]
            o == [e \in Patient |-> OpenedAt(e)]
            p == [e \in Patient |-> OperatingAt(e)]
<1>1. /\ s[c] = ProtocolState(c) /\ o[c] = OpenedAt(c) /\ p[c] = OperatingAt(c)
      /\ s' = [s EXCEPT ![c] = ProtocolState(c)']
      /\ o' = [o EXCEPT ![c] = OpenedAt(c)']
      /\ p' = [p EXCEPT ![c] = OperatingAt(c)']
      /\ s = [s EXCEPT ![c] = s[c]] /\ o = [o EXCEPT ![c] = o[c]] /\ p = [p EXCEPT ![c] = p[c]]
  BY DEF Still
<1>2. o = [e \in Patient |-> IF InHome(e) THEN opened[e] \ PendingOn(e, "close") ELSE {}]
      /\ p = [e \in Patient |-> IF Offline(e) THEN {} ELSE PendingOn(e, "edit")]
  BY DEF OpenedAt, OperatingAt
<1>. DEFINE t == ProtocolState(c)'
            q == OpenedAt(c)'
            r == OperatingAt(c)'
<1>3. Legal(s[c], o[c], p[c], t, q, r) /\ s' = [s EXCEPT ![c] = t] /\ o' = [o EXCEPT ![c] = q] /\ p' = [p EXCEPT ![c] = r]
  BY <1>1 DEF LegalStep
<1>4. /\ q = o[c] => o' = o
      /\ r = p[c] => p' = p
      /\ t = s[c] => s' = s
  BY <1>1, <1>3
(* The abstract actions in these terms. *)
<1>5. Documented!vars = <<s, o, p>>
  BY DEF Documented!vars, OpenedAt, OperatingAt
<1>6. s[c] = "NOT AUTHENTICATED" /\ s' = [s EXCEPT ![c] = "PROFILE REQUESTED"] /\ UNCHANGED <<o, p>>
        => Documented!RequestProfile(c)
  BY DEF Documented!RequestProfile, Documented!Enter, Documented!NotAuthenticated, Documented!ProfileRequested,
     OpenedAt, OperatingAt
<1>7. ASSUME NEW to \in {"AUTHENTICATED", "NOT AUTHENTICATED"}
      PROVE  s[c] = "PROFILE REQUESTED" /\ s' = [s EXCEPT ![c] = to] /\ UNCHANGED <<o, p>>
               => Documented!AnswerProfile(c)
  BY DEF Documented!AnswerProfile, Documented!Enter, Documented!NotAuthenticated, Documented!ProfileRequested,
     Documented!IsAuthenticated, OpenedAt, OperatingAt
<1>8. ASSUME NEW to \in {"DOCUMENT LIST REQUESTED", "PROFILE UPDATE REQUESTED", "DOCUMENT REQUESTED"}
      PROVE  s[c] = "AUTHENTICATED" /\ s' = [s EXCEPT ![c] = to] /\ UNCHANGED <<o, p>>
               => Documented!Request(c)
  BY DEF Documented!Request, Documented!Enter, Documented!ListRequested, Documented!UpdateRequested,
     Documented!DocumentRequested, Documented!IsAuthenticated, OpenedAt, OperatingAt
<1>9. ASSUME NEW from \in {"DOCUMENT LIST REQUESTED", "PROFILE UPDATE REQUESTED", "DOCUMENT REQUESTED"}
      PROVE  s[c] = from /\ s' = [s EXCEPT ![c] = "AUTHENTICATED"] /\ UNCHANGED <<o, p>>
               => Documented!Answer(c)
  BY DEF Documented!Answer, Documented!Enter, Documented!ListRequested, Documented!UpdateRequested,
     Documented!DocumentRequested, Documented!IsAuthenticated, OpenedAt, OperatingAt
<1>10. ASSUME NEW d \in Docs
       PROVE  /\ s[c] = "DOCUMENT REQUESTED" /\ s' = [s EXCEPT ![c] = "AUTHENTICATED"] /\ d \notin o[c]
                 /\ o' = [o EXCEPT ![c] = o[c] \cup {d}] /\ UNCHANGED p
                   => Documented!AnswerDocument(c, d)
              /\ d \in o[c] /\ o' = [o EXCEPT ![c] = o[c] \ {d}] /\ UNCHANGED <<s, p>>
                   => Documented!Close(c, d)
              /\ d \in o[c] /\ p' = [p EXCEPT ![c] = p[c] \cup {d}] /\ UNCHANGED <<s, o>>
                   => Documented!Operate(c, d)
              /\ p' = [p EXCEPT ![c] = p[c] \ {d}] /\ UNCHANGED <<s, o>>
                   => Documented!Operated(c, d)
  BY DEF Documented!AnswerDocument, Documented!Close, Documented!Operate, Documented!Operated, Documented!Enter,
     Documented!DocumentRequested, Documented!IsAuthenticated, OpenedAt, OperatingAt
<1>11. s[c] = "AUTHENTICATED" /\ s' = [s EXCEPT ![c] = "NOT AUTHENTICATED"]
         /\ o' = [o EXCEPT ![c] = {}] /\ UNCHANGED p
         => Documented!Logout(c)
  BY DEF Documented!Logout, Documented!Enter, Documented!NotAuthenticated, Documented!IsAuthenticated,
     OpenedAt, OperatingAt
<1>12. s' = [s EXCEPT ![c] = "NOT AUTHENTICATED"] /\ o' = [o EXCEPT ![c] = {}] /\ p' = [p EXCEPT ![c] = {}]
         => Documented!Hangup(c)
  BY DEF Documented!Hangup, Documented!NotAuthenticated, OpenedAt, OperatingAt
<1>13. /\ Documented!RequestProfile(c) \/ Documented!AnswerProfile(c) \/ Documented!Request(c) \/ Documented!Answer(c)
            \/ Documented!Logout(c) \/ Documented!Hangup(c)
            => Documented!Next
       /\ \A d \in Docs : Documented!AnswerDocument(c, d) \/ Documented!Close(c, d) \/ Documented!Operate(c, d)
            \/ Documented!Operated(c, d)
            => Documented!Next
  BY DEF Documented!Next
<1>. HIDE DEF s, o, p, t, q, r
<1>14. t = s[c] /\ q = o[c] /\ r = p[c] => UNCHANGED <<s, o, p>>
  BY <1>4
<1>15. s[c] = "NOT AUTHENTICATED" /\ t = "PROFILE REQUESTED" /\ q = o[c] /\ r = p[c] => Documented!Next
  BY <1>3, <1>4, <1>6, <1>13
<1>16. s[c] = "PROFILE REQUESTED" /\ t \in {"AUTHENTICATED", "NOT AUTHENTICATED"} /\ q = o[c] /\ r = p[c]
         => Documented!Next
  BY <1>3, <1>4, <1>7, <1>13
<1>17. s[c] = "AUTHENTICATED" /\ q = o[c] /\ r = p[c]
         /\ t \in {"DOCUMENT LIST REQUESTED", "PROFILE UPDATE REQUESTED", "DOCUMENT REQUESTED"}
         => Documented!Next
  BY <1>3, <1>4, <1>8, <1>13
<1>18. s[c] \in {"DOCUMENT LIST REQUESTED", "PROFILE UPDATE REQUESTED", "DOCUMENT REQUESTED"}
         /\ t = "AUTHENTICATED" /\ q = o[c] /\ r = p[c]
         => Documented!Next
  BY <1>3, <1>4, <1>9, <1>13
<1>19. s[c] = "DOCUMENT REQUESTED" /\ t = "AUTHENTICATED" /\ r = p[c]
         /\ (\E d \in Docs : d \notin o[c] /\ q = o[c] \cup {d})
         => Documented!Next
  BY <1>3, <1>4, <1>10, <1>13
<1>20. t = s[c] /\ r = p[c] /\ (\E d \in Docs : d \in o[c] /\ q = o[c] \ {d}) => Documented!Next
  BY <1>3, <1>4, <1>10, <1>13
<1>21. t = s[c] /\ q = o[c] /\ (\E d \in Docs : d \in o[c] /\ r = p[c] \cup {d}) => Documented!Next
  BY <1>3, <1>4, <1>10, <1>13
<1>22. t = s[c] /\ q = o[c] /\ (\E d \in Docs : r = p[c] \ {d}) => Documented!Next
  BY <1>3, <1>4, <1>10, <1>13
<1>23. s[c] = "AUTHENTICATED" /\ t = "NOT AUTHENTICATED" /\ q = {} /\ r = p[c] => Documented!Next
  BY <1>3, <1>4, <1>11, <1>13
<1>24. t = "NOT AUTHENTICATED" /\ q = {} /\ r = {} => Documented!Next
  BY <1>3, <1>12, <1>13
<1>25. UNCHANGED <<s, o, p>> \/ Documented!Next
  BY <1>3, <1>14, <1>15, <1>16, <1>17, <1>18, <1>19, <1>20, <1>21, <1>22, <1>23, <1>24 DEF Legal
<1>26. UNCHANGED <<s, o, p>> => UNCHANGED Documented!vars
  BY DEF Documented!vars, OpenedAt, OperatingAt, s, o, p
<1>. QED
  BY <1>25, <1>26

-----------------------------------------------------------------------------
(* Every step is one of the protocol, or none.                              *)
LEMMA StillKept ==
    ASSUME NEW e, Offline(e)' = Offline(e), session'[e] = session[e], opened'[e] = opened[e], up'[e] = up[e]
    PROVE  Still(e) /\ LegalStep(e)
BY Mapped DEF Still, LegalStep, Legal

LEMMA HasAdded ==
    ASSUME NEW q \in Seq(UserRequest), NEW m
    PROVE  /\ \A types : Has(Append(q, m), types) <=> Has(q, types) \/ m.type \in types
           /\ Editing(Append(q, m)) = IF m.type = "edit" THEN Editing(q) \cup {m.document} ELSE Editing(q)
BY AskedAdded DEF Has, Editing

LEMMA HasServed ==
    ASSUME NEW q \in Seq(UserRequest), q # << >>
    PROVE  /\ \A types : Has(q, types) <=> Has(Tail(q), types) \/ Head(q).type \in types
           /\ Head(q).type = "edit" => Editing(q) = Editing(Tail(q)) \cup {Head(q).document}
           /\ Head(q).type # "edit" => Editing(q) = Editing(Tail(q))
BY AskedServed DEF Has, Editing

LEMMA HasNothing == \A types : ~Has(<< >>, types) /\ Editing(<< >>) = {} /\ Closing(<< >>) = {}
BY NothingAsked DEF Has, Editing, Closing

(* In the home, with nothing to wait for. *)
LEMMA AtHomeState ==
    ASSUME NEW c, AtHome(c)
    PROVE  /\ ~Offline(c) /\ session[c] # NoUser
           /\ ~Has(up[c], {"login", "signup"}) /\ ~Has(up[c], {"logout"})
           /\ (\A m \in Asked(up[c]) : m.type \notin Answered) =>
                StateOf(FALSE, session[c], up[c]) = "AUTHENTICATED"
<1>1. ~Offline(c) /\ session[c] # NoUser
  BY DEF AtHome, Offline
<1>2. ~Has(up[c], {"login", "signup"}) /\ ~Has(up[c], {"logout"})
  BY DEF AtHome, Has, HomeRequests
<1>3. ASSUME \A m \in Asked(up[c]) : m.type \notin Answered
      PROVE  StateOf(FALSE, session[c], up[c]) = "AUTHENTICATED"
  <2>1. /\ ~Has(up[c], {"documents_request"}) /\ ~Has(up[c], {"profile_update"})
        /\ ~Has(up[c], {"create", "open", "link"})
    BY <1>3 DEF Has, Answered
  <2>. QED
    BY <1>1, <1>2, <2>1 DEF StateOf
<1>. QED
  BY <1>1, <1>2, <1>3

(* The requests that are answered in the home. *)
Asks(c, m) ==
    /\ m.type \in {"documents_request", "profile_update", "create", "open", "link"}
    /\ Send(c, m)
    /\ Offline(c)' = Offline(c) /\ session'[c] = session[c] /\ opened'[c] = opened[c]

LEMMA AsksLegally ==
    ASSUME CInv, NEW c \in Clients, ~Offline(c), session[c] # NoUser,
           StateOf(FALSE, session[c], up[c]) = "AUTHENTICATED",
           ~Has(up[c], {"login", "signup"}), ~Has(up[c], {"logout"}),
           NEW m \in UserRequest, Asks(c, m)
    PROVE  LegalStep(c)
<1>. DEFINE q == up[c]
            r == Append(q, m)
<1>1. q \in Seq(UserRequest) /\ up'[c] = r
  BY DEF CInv, Channels, Send, Asks
<1>. HIDE DEF q
<1>2. /\ \A types : Has(r, types) <=> Has(q, types) \/ m.type \in types
      /\ Editing(r) = Editing(q) /\ Closing(r) = Closing(q)
  BY <1>1, HasAdded, AskedAdded DEF Asks
<1>. HIDE DEF r
<1>3. StateOf(FALSE, session[c], r) \in {"DOCUMENT LIST REQUESTED", "PROFILE UPDATE REQUESTED", "DOCUMENT REQUESTED"}
  BY <1>2 DEF StateOf, Asks, q
<1>4. OpenedOf(FALSE, opened[c], r) = OpenedOf(FALSE, opened[c], q) /\ OperatingOf(FALSE, r) = OperatingOf(FALSE, q)
  BY <1>2 DEF OpenedOf, OperatingOf, Asks
<1>5. /\ Offline(c) = FALSE /\ Offline(c)' = FALSE /\ session'[c] = session[c] /\ opened'[c] = opened[c]
  BY DEF Asks, Offline
<1>6. /\ ProtocolState(c) = "AUTHENTICATED" /\ ProtocolState(c)' = StateOf(FALSE, session[c], r)
      /\ OpenedAt(c)' = OpenedAt(c) /\ OperatingAt(c)' = OperatingAt(c)
  BY <1>1, <1>4, <1>5, Mapped DEF q
<1>. QED
  BY <1>3, <1>6 DEF LegalStep, Legal

LEMMA GreetsLegally ==
    ASSUME CInv, NEW c \in Clients, Keeps(c), screen[c] \in Forms, ready[c], screen'[c] = screen[c],
           NEW m \in UserRequest, m.type \in Greetings, Send(c, m), session' = session, opened' = opened
    PROVE  LegalStep(c)
<1>. DEFINE q == up[c]
            r == Append(q, m)
<1>1. q \in Seq(UserRequest) /\ up'[c] = r
  BY DEF CInv, Channels, Send
<1>2. /\ Idle(c) /\ (session[c] = NoUser => opened[c] = {})
      /\ up[c] # << >> => Last(up[c]) \in Asked(up[c])
  BY KeptClient DEF AtForm, Greeting, Greeted
<1>3. session[c] = NoUser \/ Has(q, {"logout"})
  BY <1>2 DEF Idle, Has
<1>4. ~Has(q, {"login", "signup"})
  BY <1>2 DEF Idle, Has, Answered
<1>. HIDE DEF q
<1>5. /\ \A types : Has(r, types) <=> Has(q, types) \/ m.type \in types
      /\ Editing(r) = Editing(q) /\ Closing(r) = Closing(q)
  BY <1>1, HasAdded, AskedAdded DEF Greetings
<1>. HIDE DEF r
<1>6. StateOf(FALSE, session[c], q) = "NOT AUTHENTICATED" /\ StateOf(FALSE, session[c], r) = "PROFILE REQUESTED"
  BY <1>3, <1>4, <1>5 DEF StateOf, Greetings
<1>7. OpenedOf(FALSE, opened[c], r) = OpenedOf(FALSE, opened[c], q) /\ OperatingOf(FALSE, r) = OperatingOf(FALSE, q)
  BY <1>5 DEF OpenedOf, OperatingOf, Greetings
<1>8. Offline(c) = FALSE /\ Offline(c)' = FALSE
  BY DEF Offline, Forms
<1>. QED
  BY <1>1, <1>6, <1>7, <1>8, Mapped DEF q, LegalStep, Legal

LEMMA EditorLegally ==
    ASSUME CInv, NEW c \in Clients, Keeps(c), NEW d \in Docs, Edit(c, d) \/ CloseEditor(c, d)
    PROVE  LegalStep(c)
<1>. DEFINE q == up[c]
<1>1. /\ d \in editors[c] /\ UNCHANGED <<screen, session, opened>> /\ q \in Seq(UserRequest)
  BY DEF Edit, CloseEditor, InEditor, uiVars, windowVars, serverVars, CInv, Channels
<1>2. AtHome(c)
  BY <1>1, KeptClient DEF InTouch, AtForm, Away
<1>3. d \in opened[c] /\ d \notin Closing(q)
  BY <1>1, <1>2 DEF AtHome, EditorsFit
<1>4. ~Has(q, {"logout"}) /\ Offline(c) = FALSE /\ Offline(c)' = FALSE
  BY <1>1, <1>2, AtHomeState DEF Offline
<1>5. On("edit", d).type = "edit" /\ On("edit", d).document = d /\ On("close", d).type = "close" /\ On("close", d).document = d
  BY DEF On
<1>6. CASE Edit(c, d)
  <2>. DEFINE m == On("edit", d)
              r == Append(q, m)
  <2>1. up'[c] = r
    BY <1>6 DEF Edit, Send, CInv, Channels
  <2>. HIDE DEF q, m
  <2>2. /\ \A types : Has(r, types) <=> Has(q, types) \/ "edit" \in types
        /\ Editing(r) = Editing(q) \cup {d} /\ Closing(r) = Closing(q)
    BY <1>1, <1>5, HasAdded, AskedAdded DEF m
  <2>. HIDE DEF r
  <2>3. StateOf(FALSE, session[c], r) = StateOf(FALSE, session[c], q)
    BY <2>2 DEF StateOf
  <2>4. /\ OpenedOf(FALSE, opened[c], r) = OpenedOf(FALSE, opened[c], q) /\ d \in OpenedOf(FALSE, opened[c], q)
        /\ OperatingOf(FALSE, r) = OperatingOf(FALSE, q) \cup {d}
    BY <1>3, <1>4, <2>2 DEF OpenedOf, OperatingOf
  <2>. QED
    BY <1>1, <1>4, <2>1, <2>3, <2>4, Mapped DEF q, LegalStep, Legal
<1>7. CASE CloseEditor(c, d)
  <2>. DEFINE m == On("close", d)
              r == Append(q, m)
  <2>1. up'[c] = r
    BY <1>7 DEF CloseEditor, Send, CInv, Channels
  <2>. HIDE DEF q, m
  <2>2. /\ \A types : Has(r, types) <=> Has(q, types) \/ "close" \in types
        /\ Editing(r) = Editing(q) /\ Closing(r) = Closing(q) \cup {d}
    BY <1>1, <1>5, HasAdded, AskedAdded DEF m
  <2>. HIDE DEF r
  <2>3. StateOf(FALSE, session[c], r) = StateOf(FALSE, session[c], q)
    BY <2>2 DEF StateOf
  <2>4. /\ OpenedOf(FALSE, opened[c], r) = OpenedOf(FALSE, opened[c], q) \ {d} /\ d \in OpenedOf(FALSE, opened[c], q)
        /\ OperatingOf(FALSE, r) = OperatingOf(FALSE, q)
    BY <1>3, <1>4, <2>2 DEF OpenedOf, OperatingOf
  <2>. QED
    BY <1>1, <1>4, <2>1, <2>3, <2>4, Mapped DEF q, LegalStep, Legal
<1>. QED
  BY <1>6, <1>7

LEMMA UserLegally ==
    ASSUME CInv, NEW c \in Patient, Keeps(c), UserActs(c)
    PROVE  LegalStep(c)
<1>0. c \in Clients
  BY SessionAssumption
<1>1. CASE Connect(c)
  <2>1. /\ Offline(c) = TRUE /\ Offline(c)' = FALSE /\ up'[c] = << >> /\ up[c] = << >>
        /\ UNCHANGED <<session, opened>>
    BY <1>0, <1>1 DEF Connect, Click, ShowForm, Offline, CInv, Windows, serverVars
  <2>2. session[c] = NoUser /\ opened[c] = {}
    BY <1>0, <2>1, KeptClient DEF Away
  <2>3. /\ StateOf(FALSE, NoUser, << >>) = "NOT AUTHENTICATED" /\ StateOf(TRUE, NoUser, << >>) = "NOT AUTHENTICATED"
        /\ OpenedOf(FALSE, {}, << >>) = {} /\ OpenedOf(TRUE, {}, << >>) = {}
        /\ OperatingOf(FALSE, << >>) = {} /\ OperatingOf(TRUE, << >>) = {}
    BY HasNothing DEF StateOf, OpenedOf, OperatingOf
  <2>. QED
    BY <2>1, <2>2, <2>3, Mapped DEF LegalStep, Legal
<1>2. CASE GoToSignup(c) \/ GoToLogin(c) \/ ClickProfile(c) \/ CancelProfile(c)
  <2>1. up' = up /\ session' = session /\ opened' = opened
    BY <1>2 DEF GoToSignup, GoToLogin, ClickProfile, CancelProfile, serverVars
  <2>2. Offline(c)' = Offline(c)
    BY <1>0, <1>2 DEF GoToSignup, GoToLogin, ClickProfile, CancelProfile, windowVars, Click, ShowForm, Offline,
       CInv, Windows
  <2>. QED
    BY <2>1, <2>2, StillKept
<1>3. ASSUME NEW m \in UserRequest, Request(c, m), Considered(c), m.type \in {"create", "open", "link"}
      PROVE  LegalStep(c)
  <2>1. /\ screen[c] = "home" /\ UNCHANGED <<screen, session, opened>> /\ Send(c, m)
    BY <1>3 DEF Request, Click, uiVars, windowVars, serverVars
  <2>2. /\ AtHome(c) /\ \A n \in Asked(up[c]) : n.type \notin Answered
    BY <1>0, <1>3, <2>1, KeptClient, NotWaiting DEF Considered
  <2>3. Asks(c, m)
    BY <1>3, <2>1 DEF Asks, Offline
  <2>. QED
    BY <1>0, <2>2, <2>3, AtHomeState, AsksLegally
<1>4. ASSUME NEW n \in Names, ClickCreate(c, n) PROVE LegalStep(c)
  <2>. DEFINE m == Create(n)
  <2>1. m \in UserRequest /\ m.type = "create"
    BY DEF Create, UserRequest
  <2>2. Request(c, m) /\ Considered(c)
    BY <1>4 DEF ClickCreate
  <2>. HIDE DEF m
  <2>. QED
    BY <1>3, <2>1, <2>2
<1>5. ASSUME NEW d \in Docs, ClickOpen(c, d) \/ ClickLink(c, d) PROVE LegalStep(c)
  <2>1. /\ On("open", d) \in UserRequest /\ On("open", d).type = "open"
        /\ On("link", d) \in UserRequest /\ On("link", d).type = "link"
    BY DEF On, UserRequest
  <2>2. (Request(c, On("open", d)) \/ Request(c, On("link", d))) /\ Considered(c)
    BY <1>5 DEF ClickOpen, ClickLink
  <2>. QED
    BY <1>3, <2>1, <2>2
<1>6. ASSUME NEW u \in Users, NEW right \in BOOLEAN, ClickLogin(c, u, right) PROVE LegalStep(c)
  <2>. DEFINE m == Login(u, right)
  <2>1. m \in UserRequest /\ m.type \in Greetings
    BY DEF Login, UserRequest, Greetings
  <2>2. /\ screen[c] \in Forms /\ ready[c] /\ Send(c, m) /\ screen' = screen /\ session' = session /\ opened' = opened
    BY <1>6 DEF ClickLogin, Click, Forms, serverVars
  <2>. HIDE DEF m
  <2>. QED
    BY <1>0, <2>1, <2>2, GreetsLegally
<1>7. ASSUME NEW u \in Users, ClickSignup(c, u) PROVE LegalStep(c)
  <2>. DEFINE m == Signup(Profile(u, OldFace))
  <2>1. m \in UserRequest /\ m.type \in Greetings
    BY SessionAssumption DEF Signup, Profile, UserRequest, Greetings
  <2>2. /\ screen[c] \in Forms /\ ready[c] /\ Send(c, m) /\ screen' = screen /\ session' = session /\ opened' = opened
    BY <1>7 DEF ClickSignup, Click, Forms, serverVars
  <2>. HIDE DEF m
  <2>. QED
    BY <1>0, <2>1, <2>2, GreetsLegally
<1>8. ASSUME NEW f \in Faces, SaveProfile(c, f) PROVE LegalStep(c)
  <2>1. UNCHANGED <<screen, session, opened>> /\ Modal(c) /\ Considered(c)
    BY <1>8 DEF SaveProfile, windowVars, serverVars
  <2>2. CASE up' = up
    BY <2>1, <2>2, StillKept DEF Offline
  <2>3. CASE up' # up
    <3>. DEFINE p == Profile(dialog[c].profile.user, f)
                m == Update(p)
    <3>1. Send(c, m) /\ ~Offline(c)
      BY <1>8, <2>3 DEF SaveProfile
    <3>2. dialog[c].profile.user \in Users \cup {NoUser}
      BY <1>0 DEF CInv, Windows, Profiles
    <3>3. m \in UserRequest /\ m.type = "profile_update"
      BY <3>2 DEF Update, Profile, UserRequest
    <3>. HIDE DEF m
    <3>4. Asks(c, m)
      BY <2>1, <3>1, <3>3 DEF Asks, Offline
    <3>5. AtHome(c) /\ \A n \in Asked(up[c]) : n.type \notin Answered
      BY <1>0, <2>1, <3>1, KeptClient, NotWaiting DEF Considered, InTouch, AtForm
    <3>. QED
      BY <1>0, <3>3, <3>4, <3>5, AtHomeState, AsksLegally
  <2>. QED
    BY <2>2, <2>3
<1>9. CASE ClickLogout(c)
  <2>. DEFINE q == up[c]
              m == Plain("logout")
              r == Append(q, m)
  <2>1. /\ q \in Seq(UserRequest) /\ up'[c] = r /\ screen[c] = "home" /\ Offline(c)' = FALSE
        /\ UNCHANGED <<session, opened>> /\ Considered(c)
    BY <1>0, <1>9 DEF ClickLogout, Click, Send, ShowForm, Offline, CInv, Windows, Channels, serverVars
  <2>2. AtHome(c) /\ \A n \in Asked(q) : n.type \notin Answered
    BY <1>0, <2>1, KeptClient, NotWaiting DEF Considered
  <2>3. /\ Offline(c) = FALSE /\ ~Has(q, {"login", "signup"}) /\ ~Has(q, {"logout"})
        /\ StateOf(FALSE, session[c], q) = "AUTHENTICATED"
    BY <2>2, AtHomeState DEF Offline
  <2>4. m.type = "logout"
    BY DEF Plain
  <2>. HIDE DEF q, m
  <2>5. (\A types : Has(r, types) <=> Has(q, types) \/ "logout" \in types) /\ Editing(r) = Editing(q)
    BY <2>1, <2>4, HasAdded
  <2>. HIDE DEF r
  <2>6. /\ StateOf(FALSE, session[c], r) = "NOT AUTHENTICATED" /\ OpenedOf(FALSE, opened[c], r) = {}
        /\ OperatingOf(FALSE, r) = OperatingOf(FALSE, q)
    BY <2>3, <2>5 DEF StateOf, OpenedOf, OperatingOf
  <2>. QED
    BY <2>1, <2>3, <2>6, Mapped DEF q, LegalStep, Legal
<1>10. CASE LoseConnection(c)
  <2>1. Offline(c)' = TRUE
    BY <1>0, <1>10 DEF LoseConnection, ShowForm, Offline, CInv, Windows
  <2>2. \A u, o, q : StateOf(TRUE, u, q) = "NOT AUTHENTICATED" /\ OpenedOf(TRUE, o, q) = {} /\ OperatingOf(TRUE, q) = {}
    BY DEF StateOf, OpenedOf, OperatingOf
  <2>. QED
    BY <2>1, <2>2, Mapped DEF LegalStep, Legal
<1>. QED
  BY <1>0, <1>1, <1>2, <1>4, <1>5, <1>6, <1>7, <1>8, <1>9, <1>10, EditorLegally DEF UserActs

LEMMA ReceiveLegally ==
    ASSUME CInv, NEW c \in Patient, Keeps(c), Receive(c)
    PROVE  LegalStep(c)
<1>0. c \in Clients
  BY SessionAssumption
<1>1. CASE ReceiveError(c) \/ ProfileUpdated(c) \/ ShowDocuments(c) \/ OpenEditor(c) \/ RemoteOperation(c)
  <2>1. up' = up /\ screen' = screen /\ session' = session /\ opened' = opened
    BY <1>1 DEF ReceiveError, ProfileUpdated, ShowDocuments, OpenEditor, RemoteOperation, windowVars, serverVars
  <2>. QED
    BY <2>1, StillKept DEF Offline
<1>2. ASSUME NEW types, Receiving(c, types)
      PROVE  InTouch(c) /\ ~Offline(c) /\ Head(down[c]).type \in types /\ Head(down[c]).type # "disconnected"
             /\ (Head(down[c]).type \in Answers => Replies(down[c]) = {Head(down[c])})
  <2>1. down[c] # << >> /\ down[c] \in Seq(ServerMessage) /\ Head(down[c]).type \in types
    BY <1>0, <1>2 DEF Receiving, CInv, Channels
  <2>2. InTouch(c) /\ ~Offline(c)
    BY <1>0, <2>1, KeptClient DEF Away
  <2>. QED
    BY <2>1, <2>2, ReplyTaken DEF InTouch
<1>3. CASE Disconnected(c)
  BY <1>2, <1>3 DEF Disconnected
<1>4. CASE LoggedIn(c)
  <2>. DEFINE n == Head(down[c])
              m == Plain("documents_request")
  <2>1. InTouch(c) /\ ~Offline(c) /\ n.type \in {"profile", "signup_ok"} /\ Replies(down[c]) = {n}
    BY <1>2, <1>4 DEF LoggedIn, Answers
  <2>2. Offline(c)' = FALSE /\ session' = session /\ opened' = opened /\ Send(c, m)
    BY <1>0, <1>4 DEF LoggedIn, Offline, CInv, Windows, serverVars
  <2>. HIDE DEF n
  <2>3. up[c] = << >> /\ session[c] # NoUser
    BY <2>1 DEF InTouch, AtForm, AtHome, Idle, Greeting, Greeted
  <2>4. m \in UserRequest /\ m.type = "documents_request"
    BY DEF Plain, UserRequest
  <2>. HIDE DEF m
  <2>5. Asks(c, m)
    BY <2>1, <2>2, <2>4 DEF Asks, Offline
  <2>6. /\ ~Has(up[c], {"login", "signup"}) /\ ~Has(up[c], {"logout"})
        /\ StateOf(FALSE, session[c], up[c]) = "AUTHENTICATED"
    BY <2>3, HasNothing DEF StateOf
  <2>. QED
    BY <1>0, <2>1, <2>3, <2>4, <2>5, <2>6, AsksLegally
<1>. QED
  BY <1>1, <1>3, <1>4 DEF Receive

(* Before a greeting, other requests end with a logout. *)
LEMMA LeavesFirst ==
    ASSUME NEW u, NEW o, NEW q \in Seq(UserRequest), q # << >>, Orderly(u, o, q),
           Last(q).type \in Greetings, Head(q).type \notin Greetings
    PROVE  Has(q, {"logout"})
<1>. DEFINE n == Len(q)
<1>1. n \in Nat \ {0} /\ DOMAIN q = 1 .. n /\ Head(q) = q[1] /\ Last(q) = q[n]
  BY DEF Last
<1>. HIDE DEF n
<1>2. n # 1
  BY <1>1
<1>3. n \in 1 .. n /\ n - 1 \in DOMAIN q
  BY <1>1, <1>2
<1>4. Follows(q[n - 1], q[n])
  BY <1>2, <1>3 DEF Orderly, InOrder, n
<1>5. q[n - 1].type = "logout"
  BY <1>1, <1>4 DEF Follows, Greetings, HomeRequests
<1>. QED
  BY <1>3, <1>5 DEF Has, Asked

LEMMA FormLegally ==
    ASSUME CInv, NEW c \in Clients, Keeps(c), ServedInOneStep(c), screen[c] \in Forms
    PROVE  LegalStep(c)
<1>. DEFINE q == up[c]
            r == Tail(q)
            m == Head(q)
<1>1. /\ q \in Seq(UserRequest) /\ q # << >> /\ up'[c] = r /\ m.type # "hangup" /\ Told(c, m)
      /\ Offline(c) = FALSE /\ Offline(c)' = FALSE
  BY DEF ServedInOneStep, uiVars, windowVars, Forms, Offline, CInv, Channels
<1>2. /\ AtForm(c) /\ Orderly(session[c], opened[c], q) /\ (session[c] = NoUser => opened[c] = {})
      /\ Last(q) \in Asked(q)
  BY <1>1, KeptClient
<1>3. /\ m.type \in {"close", "edit", "logout"} \cup Greetings
      /\ m.type \in Greetings => r = << >>
  BY <1>1, <1>2, FormHeads
<1>4. m \in UserRequest /\ Starts(session[c], m)
  <2>. HIDE DEF q
  <2>. QED
    BY <1>1, <1>2, FirstRequest
<1>5. Idle(c) \/ Last(q).type \in Greetings
  BY <1>1, <1>2 DEF AtForm, Greeting, Greeted
<1>6. Idle(c) => Last(q).type = "logout" /\ ~Has(q, {"login", "signup"})
  BY <1>1 DEF Idle, Has, Answered
<1>. HIDE DEF q
<1>7. /\ \A types : Has(q, types) <=> Has(r, types) \/ m.type \in types
      /\ m.type = "edit" => Editing(q) = Editing(r) \cup {m.document}
      /\ m.type # "edit" => Editing(q) = Editing(r)
  BY <1>1, HasServed
<1>8. m.type \in {"close", "edit", "logout"} => Has(q, {"logout"})
  <2>1. CASE Last(q).type = "logout"
    BY <1>2, <2>1 DEF Has
  <2>2. CASE Last(q).type \in Greetings
    BY <1>1, <1>2, <2>2, LeavesFirst DEF Greetings
  <2>. QED
    BY <1>5, <1>6, <2>1, <2>2
<1>9. Last(q).type \in Greetings => Has(q, {"login", "signup"})
  BY <1>2 DEF Has, Greetings
<1>. HIDE DEF r, m
<1>10. CASE m.type \in Greetings
  <2>1. ToldOfGreeting(c, m) /\ r = << >>
    BY <1>1, <1>3, <1>10 DEF Told
  <2>2. opened[c] = {} /\ opened'[c] = {}
    BY <1>2, <1>4, <1>10, <2>1 DEF Starts, Greetings, ToldOfGreeting
  <2>3. /\ StateOf(FALSE, session[c], q) = "PROFILE REQUESTED"
        /\ StateOf(FALSE, session'[c], r) \in {"AUTHENTICATED", "NOT AUTHENTICATED"}
    BY <1>7, <1>10, <2>1, HasNothing DEF StateOf, Greetings
  <2>4. /\ OpenedOf(FALSE, opened[c], q) = {} /\ OpenedOf(FALSE, opened'[c], r) = {}
        /\ OperatingOf(FALSE, q) = OperatingOf(FALSE, r)
    BY <1>7, <1>10, <2>2 DEF OpenedOf, OperatingOf, Greetings
  <2>. QED
    BY <1>1, <2>3, <2>4, Mapped DEF q, LegalStep, Legal
<1>11. CASE m.type \in {"close", "edit", "logout"}
  <2>1. ToldSilently(c, m)
    BY <1>1, <1>11 DEF Told
  <2>2. OpenedOf(FALSE, opened[c], q) = {} /\ OpenedOf(FALSE, opened'[c], r) = {}
    <3>1. CASE m.type = "logout"
      BY <3>1, <1>8, <2>1 DEF ToldSilently, OpenedOf
    <3>2. CASE m.type # "logout"
      BY <3>2, <1>7, <1>8, <1>11 DEF OpenedOf
    <3>. QED
      BY <3>1, <3>2
  <2>3. StateOf(FALSE, session'[c], r) = StateOf(FALSE, session[c], q)
    <3>1. CASE Idle(c)
      <4>1. ~Has(q, {"login", "signup"}) /\ ~Has(r, {"login", "signup"})
        BY <1>6, <1>7, <3>1
      <4>2. session'[c] = NoUser \/ Has(r, {"logout"})
        BY <1>7, <1>8, <1>11, <2>1 DEF ToldSilently
      <4>. QED
        BY <1>8, <1>11, <4>1, <4>2 DEF StateOf
    <3>2. CASE Last(q).type \in Greetings
      BY <1>7, <1>9, <1>11, <3>2 DEF StateOf
    <3>. QED
      BY <1>5, <3>1, <3>2
  <2>4. \/ OperatingOf(FALSE, r) = OperatingOf(FALSE, q)
        \/ m.type = "edit" /\ OperatingOf(FALSE, r) = OperatingOf(FALSE, q) \ {m.document}
    BY <1>7, <1>11 DEF OperatingOf
  <2>5. m.type = "edit" => m.document \in Docs
    BY <1>4, RequestFields
  <2>. QED
    BY <1>1, <2>2, <2>3, <2>4, <2>5, Mapped DEF q, LegalStep, Legal
<1>. QED
  BY <1>3, <1>10, <1>11

LEMMA HomeLegally ==
    ASSUME CInv, NEW c \in Clients, Keeps(c), ServedInOneStep(c), screen[c] = "home"
    PROVE  LegalStep(c)
<1>. DEFINE q == up[c]
            r == Tail(q)
            m == Head(q)
<1>1. /\ q \in Seq(UserRequest) /\ q # << >> /\ up'[c] = r /\ m.type # "hangup" /\ Told(c, m)
      /\ Offline(c) = FALSE /\ Offline(c)' = FALSE
  BY DEF ServedInOneStep, uiVars, windowVars, Offline, CInv, Channels
<1>2. AtHome(c) /\ Orderly(session[c], opened[c], q)
  BY KeptClient
<1>3. /\ session[c] # NoUser /\ ~Has(q, {"login", "signup"}) /\ ~Has(q, {"logout"})
      /\ \A d \in Closing(q) : d \in Docs => d \in opened[c]
      /\ \A n \in Asked(q) : n.type \in HomeRequests
  BY <1>2, AtHomeState DEF AtHome, EditorsFit
<1>. HIDE DEF q
<1>4. /\ m \in UserRequest /\ m \in Asked(q)
      /\ m.type \in Answered => \A n \in Asked(r) : n.type \notin Answered
      /\ Closing(r) = IF m.type = "close" THEN Closing(q) \ {m.document} ELSE Closing(q)
  BY <1>1, <1>2, FirstRequest
<1>5. /\ \A types : Has(q, types) <=> Has(r, types) \/ m.type \in types
      /\ m.type = "edit" => Editing(q) = Editing(r) \cup {m.document}
      /\ m.type # "edit" => Editing(q) = Editing(r)
  BY <1>1, HasServed
<1>. HIDE DEF r, m
<1>6. m.type \in HomeRequests
  BY <1>3, <1>4
<1>7. \/ OperatingOf(FALSE, r) = OperatingOf(FALSE, q)
      \/ m.type = "edit" /\ OperatingOf(FALSE, r) = OperatingOf(FALSE, q) \ {m.document}
  BY <1>5 DEF OperatingOf
<1>8. m.type \in {"edit", "close"} => m.document \in Docs
  BY <1>4, RequestFields
<1>9. CASE m.type \in {"edit", "close"}
  <2>1. ToldSilently(c, m)
    BY <1>1, <1>9 DEF Told
  <2>2. session'[c] = session[c] /\ opened'[c] = IF m.type = "close" THEN opened[c] \ {m.document} ELSE opened[c]
    BY <1>9, <2>1 DEF ToldSilently
  <2>3. StateOf(FALSE, session'[c], r) = StateOf(FALSE, session[c], q)
    BY <1>5, <1>9, <2>2 DEF StateOf
  <2>4. OpenedOf(FALSE, opened'[c], r) = OpenedOf(FALSE, opened[c], q)
    <3>1. m.type = "close" => m.document \in Closing(q)
      BY <1>4 DEF Closing
    <3>. QED
      BY <1>3, <1>4, <1>5, <2>2, <3>1 DEF OpenedOf
  <2>. QED
    BY <1>1, <1>7, <1>8, <1>9, <2>3, <2>4, Mapped DEF q, LegalStep, Legal
<1>10. CASE m.type \notin {"edit", "close"}
  <2>1. m.type \in Answered \ Greetings /\ m.type \in {"documents_request", "profile_update", "create", "open", "link"}
    BY <1>6, <1>10 DEF Answered, Greetings, HomeRequests
  <2>2. PICK n \in ServerMessage :
           /\ n.type # "document" => opened'[c] = opened[c]
           /\ n.type = "document" =>
                /\ m.type \in {"create", "open", "link"}
                /\ n.document \notin opened[c] /\ opened'[c] = opened[c] \cup {n.document}
    BY <1>1, <2>1 DEF Told, ToldAtHome
  <2>3. session'[c] = session[c]
    BY <1>1, <2>1 DEF Told, ToldAtHome
  <2>4. /\ ~Has(r, {"documents_request"}) /\ ~Has(r, {"profile_update"}) /\ ~Has(r, {"create", "open", "link"})
        /\ ~Has(r, {"login", "signup"}) /\ ~Has(r, {"logout"})
    BY <1>3, <1>4, <1>5, <2>1 DEF Has, Answered
  <2>5. StateOf(FALSE, session'[c], r) = "AUTHENTICATED"
    BY <1>3, <2>3, <2>4 DEF StateOf
  <2>6. /\ StateOf(FALSE, session[c], q) \in {"DOCUMENT LIST REQUESTED", "PROFILE UPDATE REQUESTED", "DOCUMENT REQUESTED"}
        /\ m.type \in {"create", "open", "link"} => StateOf(FALSE, session[c], q) = "DOCUMENT REQUESTED"
    BY <1>3, <1>5, <2>1, <2>4 DEF StateOf
  <2>7. n.type # "document" => OpenedOf(FALSE, opened'[c], r) = OpenedOf(FALSE, opened[c], q)
    BY <1>3, <1>4, <2>1, <2>2, <2>4 DEF OpenedOf
  <2>8. n.type = "document" =>
          /\ n.document \in Docs /\ n.document \notin OpenedOf(FALSE, opened[c], q)
          /\ OpenedOf(FALSE, opened'[c], r) = OpenedOf(FALSE, opened[c], q) \cup {n.document}
    <3>. SUFFICES ASSUME n.type = "document"
                  PROVE  /\ n.document \in Docs /\ n.document \notin OpenedOf(FALSE, opened[c], q)
                         /\ OpenedOf(FALSE, opened'[c], r) = OpenedOf(FALSE, opened[c], q) \cup {n.document}
      OBVIOUS
    <3>1. n.document \in Docs
      BY MessageFields
    <3>2. n.document \notin Closing(q) /\ Closing(r) = Closing(q)
      BY <1>3, <1>4, <2>1, <2>2, <3>1
    <3>. QED
      BY <1>3, <2>2, <2>4, <3>1, <3>2 DEF OpenedOf
  <2>9. OperatingOf(FALSE, r) = OperatingOf(FALSE, q)
    BY <1>7, <1>10
  <2>10. CASE n.type = "document"
    BY <1>1, <2>2, <2>5, <2>6, <2>8, <2>9, <2>10, Mapped DEF q, LegalStep, Legal
  <2>11. CASE n.type # "document"
    BY <1>1, <2>5, <2>6, <2>7, <2>9, <2>11, Mapped DEF q, LegalStep, Legal
  <2>. QED
    BY <2>10, <2>11
<1>. QED
  BY <1>9, <1>10

LEMMA ServeLegally ==
    ASSUME CInv, PInv, NEW c \in Patient, Serve(c)
    PROVE  LegalStep(c)
<1>1. c \in Clients /\ Keeps(c)
  BY SessionAssumption DEF PInv
<1>2. ~BadRequest(c) /\ (ServeLink(c) => Head(up[c]).document \notin opened[c])
  BY <1>1, NeverThrows
<1>3. ServedInOneStep(c) \/ ServeHangup(c)
  BY <1>1, <1>2, SilentlyServed, GreetingsServed, HomeServed DEF Serve
<1>4. Offline(c)' = Offline(c)
  BY <1>3 DEF ServedInOneStep, ServeHangup, uiVars, windowVars, Offline
<1>5. CASE Offline(c)
  <2>1. \A u, o, q : StateOf(TRUE, u, q) = "NOT AUTHENTICATED" /\ OpenedOf(TRUE, o, q) = {} /\ OperatingOf(TRUE, q) = {}
    BY DEF StateOf, OpenedOf, OperatingOf
  <2>2. Offline(c) = TRUE /\ Offline(c)' = TRUE
    BY <1>4, <1>5 DEF Offline
  <2>. QED
    BY <2>1, <2>2, Mapped DEF LegalStep, Legal
<1>6. CASE ~Offline(c)
  <2>1. ~ServeHangup(c)
    <3>. DEFINE q == up[c]
    <3>1. ASSUME ServeHangup(c) PROVE FALSE
      <4>1. q \in Seq(UserRequest) /\ q # << >> /\ Head(q).type = "hangup" /\ InTouch(c)
            /\ Orderly(session[c], opened[c], q)
        BY <1>1, <1>6, <3>1, KeptClient DEF ServeHangup
      <4>. HIDE DEF q
      <4>2. Head(q) \in Asked(q)
        BY <4>1, FirstRequest
      <4>. QED
        BY <4>1, <4>2 DEF InTouch, q
    <3>. QED
      BY <3>1
  <2>2. screen[c] \in Forms \/ screen[c] = "home"
    BY <1>1, <1>6 DEF CInv, Windows, Offline
  <2>. QED
    BY <1>1, <1>3, <2>1, <2>2, FormLegally, HomeLegally
<1>. QED
  BY <1>5, <1>6

LEMMA OthersStill ==
    ASSUME CInv, NEW c \in Clients, UserActs(c) \/ Serve(c) \/ Receive(c), NEW e \in Clients \ {c}
    PROVE  Still(e)
<1>1. CASE UserActs(c)
  <2>1. up'[e] = up[e] /\ screen'[e] = screen[e] /\ session' = session /\ opened' = opened
    BY <1>1 DEF CInv, Windows, Channels, UserActs, Connect, GoToSignup, GoToLogin, ClickLogin, ClickSignup,
         ClickCreate, ClickOpen, ClickLink, Request, Edit, CloseEditor, ClickProfile, CancelProfile, SaveProfile,
         ClickLogout, LoseConnection, ShowForm, Send, uiVars, windowVars, serverVars
  <2>. QED
    BY <2>1, StillKept DEF Offline
<1>2. CASE Receive(c)
  <2>1. up'[e] = up[e] /\ screen'[e] = screen[e] /\ session' = session /\ opened' = opened
    BY <1>2 DEF CInv, Windows, Channels, Receive, ReceiveError, LoggedIn, ProfileUpdated, ShowDocuments, OpenEditor,
         RemoteOperation, Disconnected, ShowForm, Send, uiVars, windowVars, serverVars
  <2>. QED
    BY <2>1, StillKept DEF Offline
<1>3. CASE Serve(c)
  <2>1. ASSUME ServedInOneStep(c) PROVE Still(e)
    <3>1. up'[e] = up[e] /\ screen'[e] = screen[e] /\ session'[e] = session[e] /\ opened'[e] = opened[e]
      BY <2>1 DEF ServedInOneStep, Unmoved, CInv, Channels, uiVars, windowVars
    <3>. QED
      BY <3>1, StillKept DEF Offline
  <2>2. ASSUME Throw(c), UNCHANGED <<screen, session, opened>> PROVE Still(e)
    <3>1. up'[e] = up[e]
      BY <2>2 DEF Throw, CInv, Channels
    <3>. QED
      BY <2>2, <3>1, StillKept DEF Offline
  <2>3. CASE BadRequest(c)
    BY <2>2, <2>3 DEF BadRequest, uiVars, windowVars
  <2>4. CASE ServeLink(c) /\ Head(up[c]).document \in opened[c]
    BY <2>2, <2>4 DEF ServeLink, uiVars, windowVars
  <2>5. CASE ServeHangup(c)
    <3>1. up'[e] = up[e] /\ screen'[e] = screen[e] /\ session'[e] = session[e] /\ opened'[e] = opened[e]
      BY <2>5 DEF ServeHangup, EndSession, CInv, Channels, Server, uiVars, windowVars
    <3>. QED
      BY <3>1, StillKept DEF Offline
  <2>. QED
    BY <1>3, <2>1, <2>3, <2>4, <2>5, SilentlyServed, GreetingsServed, HomeServed DEF Serve
<1>. QED
  BY <1>1, <1>2, <1>3

LEMMA InitProtocol == Init => Documented!Init
<1>. SUFFICES ASSUME Init PROVE Documented!Init
  OBVIOUS
<1>1. ASSUME NEW c \in Patient
      PROVE  ProtocolState(c) = "NOT AUTHENTICATED" /\ OpenedAt(c) = {} /\ OperatingAt(c) = {}
  <2>1. c \in Clients
    BY SessionAssumption
  <2>2. Offline(c) = TRUE
    BY <2>1 DEF Init, Offline
  <2>. QED
    BY <2>2, Mapped DEF StateOf, OpenedOf, OperatingOf
<1>. QED
  BY <1>1 DEF Documented!Init, Documented!NotAuthenticated, OpenedAt, OperatingAt

LEMMA NextProtocol == CInv /\ PInv /\ [Next]_vars => [Documented!Next]_(Documented!vars)
<1>. SUFFICES ASSUME CInv, PInv, [Next]_vars PROVE [Documented!Next]_(Documented!vars)
  OBVIOUS
<1>1. Patient \subseteq Clients
  BY SessionAssumption
<1>2. ASSUME \A e \in Patient : Still(e) PROVE UNCHANGED Documented!vars
  BY <1>2 DEF Still, OpenedAt, OperatingAt, Documented!vars
<1>3. ASSUME NEW c \in Clients, UserActs(c) \/ Serve(c) \/ Receive(c)
      PROVE  [Documented!Next]_(Documented!vars)
  <2>1. \A e \in Patient \ {c} : Still(e)
    BY <1>1, <1>3, OthersStill
  <2>2. CASE c \in Patient
    <3>1. LegalStep(c)
      BY <1>3, <2>2, UserLegally, ReceiveLegally, ServeLegally DEF PInv
    <3>. QED
      BY <2>1, <2>2, <3>1, LegalSteps
  <2>3. CASE c \notin Patient
    BY <1>2, <2>1, <2>3
  <2>. QED
    BY <2>2, <2>3
<1>4. CASE UNCHANGED vars
  <2>1. ASSUME NEW e \in Patient PROVE Still(e)
    BY <1>4, StillKept DEF vars, uiVars, windowVars, serverVars, Offline
  <2>. QED
    BY <1>2, <2>1
<1>. QED
  BY <1>3, <1>4 DEF Next

(* A patient client and its worker implement the documented protocol, with  *)
(* any number of other clients beside them that keep to nothing.            *)
THEOREM PatientKeepsProtocol == Spec => KeepsProtocol
<1>1. Init => Documented!Init
  BY InitProtocol
<1>2. CInv /\ PInv /\ [Next]_vars => [Documented!Next]_(Documented!vars)
  BY NextProtocol
<1>. QED
  BY <1>1, <1>2, PatientInvariance, Invariance, PTL DEF Spec, KeepsProtocol, Documented!Spec
=============================================================================
