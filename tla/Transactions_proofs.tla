------------------------- MODULE Transactions_proofs -------------------------
(***************************************************************************)
(* Proofs about Transactions, for any sessions, users and documents, for   *)
(* any failing queries and commits and any number of crashes.              *)
(***************************************************************************)
EXTENDS Transactions, TLAPS

(* What a session's thread knows at each of its queries. *)
Knows(s) ==
    /\ session[s] = NoUser => opened[s] = {}
    /\ stage[s] = "signup insert" => session[s] = NoUser
    /\ stage[s] \notin {"idle", "signup insert"} => session[s] = user[s]
    /\ stage[s] \in {"create insert", "create commit"} => user[s] = Owner[document[s]]
    /\ stage[s] = "create commit" => user[s] \in users
    /\ stage[s] = "enter" => Accessible(s)
    /\ stage[s] = "answer" => document[s] \in opened[s]
    /\ opened[s] \subseteq loaded

Knowing == \A s \in Sessions : Knows(s)

(* A sharing is with a user of the database. *)
SharersAreUsers == \A d \in Docs : Sharers(d) \subseteq users

TInv == TypeOK /\ Knowing /\ SharersAreUsers

-----------------------------------------------------------------------------
(* One more row of the table sharing. *)
LEMMA ShareAdds ==
    ASSUME TypeOK, NEW s \in Sessions, Share(s), user[s] \in Users, document[s] \in Docs
    PROVE  /\ sharings' \in [Users -> [Docs -> Nat]]
           /\ newcomers' \in [Docs -> SUBSET Users]
           /\ \A d \in Docs : Sharers(d)' = IF d = document[s] THEN Sharers(d) \cup {user[s]}
                                            ELSE Sharers(d)
           /\ \A d \in Docs : newcomers'[d] = IF d = document[s] THEN newcomers[d] \cup {user[s]}
                                              ELSE newcomers[d]
<1>. DEFINE n == sharings[user[s]][document[s]]
<1>1. sharings \in [Users -> [Docs -> Nat]] /\ n \in Nat
  BY DEF TypeOK
<1>2. sharings' = [sharings EXCEPT ![user[s]][document[s]] = n + 1]
  BY DEF Share
<1>3. n + 1 \in Nat /\ n + 1 > 0
  BY <1>1
<1>. HIDE DEF n
<1>4. sharings' \in [Users -> [Docs -> Nat]]
  BY <1>1, <1>2, <1>3
<1>5. ASSUME NEW u \in Users, NEW d \in Docs
      PROVE  sharings'[u][d] = IF u = user[s] /\ d = document[s] THEN n + 1 ELSE sharings[u][d]
  BY <1>1, <1>2
<1>6. newcomers' \in [Docs -> SUBSET Users]
  BY DEF Share, TypeOK
<1>7. \A d \in Docs : newcomers'[d] = IF d = document[s] THEN newcomers[d] \cup {user[s]}
                                      ELSE newcomers[d]
  BY DEF Share, TypeOK
<1>8. ASSUME NEW d \in Docs
      PROVE  Sharers(d)' = IF d = document[s] THEN Sharers(d) \cup {user[s]} ELSE Sharers(d)
  BY <1>1, <1>3, <1>5 DEF Sharers
<1>. QED BY <1>4, <1>6, <1>7, <1>8

(* The steps that leave the tables alone. *)
LEMMA WhoWritesTables ==
    ASSUME [Next]_vars
    PROVE  \/ UNCHANGED tables
           \/ \E s \in Sessions : SignupCommit(s) \/ CreateCommit(s) \/ LinkInsert(s)
BY DEF Next, vars, Requests, Queries, Signup, Login, Create, Open, Link, Close, EndSession,
       SignupInsert, CreateInsert, OpenRead, Enter, Answer, Fail, Remove, Crash

LEMMA TypeStep ==
    ASSUME TypeOK, [Next]_vars
    PROVE  TypeOK'
<1>. USE TransactionsAssumption
<1>. USE DEF TypeOK, Stages, tables, memory, request, history, Begin, At, Goto
<1>1. ASSUME NEW s \in Sessions, NEW u \in Users, Signup(s, u) PROVE TypeOK'
  BY <1>1 DEF Signup
<1>2. ASSUME NEW s \in Sessions, NEW u \in Users, Login(s, u) PROVE TypeOK'
  BY <1>2 DEF Login
<1>3. ASSUME NEW s \in Sessions, NEW d \in Docs, Create(s, d) PROVE TypeOK'
  BY <1>3 DEF Create
<1>4. ASSUME NEW s \in Sessions, NEW d \in Docs, Open(s, d) PROVE TypeOK'
  BY <1>4 DEF Open
<1>5. ASSUME NEW s \in Sessions, NEW d \in Docs, Link(s, d) PROVE TypeOK'
  BY <1>5 DEF Link
<1>6. ASSUME NEW s \in Sessions, NEW d \in Docs, Close(s, d) PROVE TypeOK'
  BY <1>6 DEF Close
<1>7. ASSUME NEW s \in Sessions, EndSession(s) PROVE TypeOK'
  BY <1>7 DEF EndSession
<1>8. ASSUME NEW s \in Sessions, SignupInsert(s) PROVE TypeOK'
  BY <1>8 DEF SignupInsert
<1>9. ASSUME NEW s \in Sessions, SignupCommit(s) PROVE TypeOK'
  BY <1>9 DEF SignupCommit
<1>10. ASSUME NEW s \in Sessions, CreateInsert(s) PROVE TypeOK'
  BY <1>10 DEF CreateInsert
<1>11. ASSUME NEW s \in Sessions, CreateCommit(s) PROVE TypeOK'
  <2>1. user[s] \in Users /\ document[s] \in Docs
    BY <1>11 DEF CreateCommit
  <2>2. Share(s) => sharings' \in [Users -> [Docs -> Nat]] /\ newcomers' \in [Docs -> SUBSET Users]
    BY <2>1, ShareAdds
  <2>. QED BY <1>11, <2>1, <2>2 DEF CreateCommit
<1>12. ASSUME NEW s \in Sessions, LinkInsert(s) PROVE TypeOK'
  <2>1. user[s] \in Users /\ document[s] \in Docs
    BY <1>12 DEF LinkInsert
  <2>2. Share(s) => sharings' \in [Users -> [Docs -> Nat]] /\ newcomers' \in [Docs -> SUBSET Users]
    BY <2>1, ShareAdds
  <2>. QED BY <1>12, <2>1, <2>2 DEF LinkInsert
<1>13. ASSUME NEW s \in Sessions, OpenRead(s) PROVE TypeOK'
  <2>1. document[s] \in Docs /\ Sharers(document[s]) \in SUBSET Users
    BY <1>13 DEF OpenRead, Sharers
  <2>2. stage' \in [Sessions -> Stages] /\ undefined' \in BOOLEAN
    BY <1>13 DEF OpenRead
  <2>3. profiles' \in [Sessions -> SUBSET Users]
    <3>1. profiles' = profiles \/ profiles' = [profiles EXCEPT ![s] = Sharers(document[s])]
      BY <1>13 DEF OpenRead
    <3>. QED BY <2>1, <3>1
  <2>4. newcomers' \in [Docs -> SUBSET Users]
    <3>1. newcomers' = newcomers \/ newcomers' = [newcomers EXCEPT ![document[s]] = {}]
      BY <1>13, <2>1 DEF OpenRead
    <3>. QED BY <2>1, <3>1
  <2>5. UNCHANGED <<tables, memory, user, document, unlucky>>
    BY <1>13 DEF OpenRead
  <2>6. \A t \in Sessions : stage'[t] # "idle" => stage[t] # "idle" /\
            (stage'[t] = stage[t] \/ stage[t] \in {"open", "open linked"})
    BY <1>13 DEF OpenRead
  <2>. QED BY <2>2, <2>3, <2>4, <2>5, <2>6
<1>14. ASSUME NEW s \in Sessions, Enter(s) PROVE TypeOK'
  <2>1. user[s] \in Users /\ document[s] \in Docs /\ Sharers(document[s]) \in SUBSET Users
    BY <1>14 DEF Enter, Sharers
  <2>. QED BY <1>14, <2>1 DEF Enter
<1>15. ASSUME NEW s \in Sessions, Answer(s) \/ Fail(s) PROVE TypeOK'
  BY <1>15 DEF Answer, Fail, Gaps
<1>16. ASSUME NEW d \in Docs, Remove(d) PROVE TypeOK'
  BY <1>16 DEF Remove
<1>17. ASSUME Crash \/ UNCHANGED vars PROVE TypeOK'
  BY <1>17 DEF Crash, vars
<1>. QED
  BY <1>1, <1>2, <1>3, <1>4, <1>5, <1>6, <1>7, <1>8, <1>9, <1>10, <1>11, <1>12, <1>13, <1>14,
     <1>15, <1>16, <1>17 DEF Next, Requests, Queries

-----------------------------------------------------------------------------
(* Rows are never taken away. *)
LEMMA RowsStay ==
    ASSUME TypeOK, [Next]_vars
    PROVE  /\ users \subseteq users' /\ documents \subseteq documents'
           /\ \A d \in Docs : Sharers(d) \subseteq Sharers(d)'
<1>1. CASE UNCHANGED tables
  BY <1>1 DEF tables, Sharers
<1>2. ASSUME NEW s \in Sessions, SignupCommit(s)
      PROVE  /\ users \subseteq users' /\ documents' = documents /\ sharings' = sharings
  BY <1>2 DEF SignupCommit
<1>3. ASSUME NEW s \in Sessions, CreateCommit(s) \/ LinkInsert(s)
      PROVE  /\ users' = users /\ documents \subseteq documents'
             /\ \A d \in Docs : Sharers(d) \subseteq Sharers(d)'
  <2>1. user[s] \in Users /\ document[s] \in Docs
    BY <1>3 DEF CreateCommit, LinkInsert, At, TypeOK
  <2>2. users' = users /\ documents \subseteq documents' /\ (Share(s) \/ sharings' = sharings)
    BY <1>3 DEF CreateCommit, LinkInsert
  <2>. QED BY <2>1, <2>2, ShareAdds DEF Sharers
<1>. QED BY <1>1, <1>2, <1>3, WhoWritesTables DEF Sharers

(* A row of sharing is only added for a user that is there. *)
LEMMA SharersStep ==
    ASSUME TInv, [Next]_vars
    PROVE  SharersAreUsers'
<1>. USE DEF TInv, SharersAreUsers
<1>1. CASE UNCHANGED tables
  BY <1>1 DEF tables, Sharers
<1>2. ASSUME NEW s \in Sessions, SignupCommit(s) PROVE SharersAreUsers'
  BY <1>2 DEF SignupCommit, Sharers
<1>3. ASSUME NEW s \in Sessions, CreateCommit(s) \/ LinkInsert(s) PROVE SharersAreUsers'
  <2>1. user[s] \in Users /\ document[s] \in Docs
    BY <1>3 DEF CreateCommit, LinkInsert, At, TypeOK
  <2>2. users' = users /\ (Share(s) \/ sharings' = sharings) /\ user[s] \in users
    BY <1>3 DEF CreateCommit, LinkInsert, At, Knowing, Knows
  <2>. QED BY <2>1, <2>2, ShareAdds DEF Sharers
<1>. QED BY <1>1, <1>2, <1>3, WhoWritesTables

(* What another session's step leaves to a session. *)
LEMMA KnowsElse ==
    ASSUME TInv, [Next]_vars, NEW t \in Sessions,
           session'[t] = session[t], opened'[t] = opened[t], stage'[t] = stage[t],
           user'[t] = user[t], document'[t] = document[t], opened[t] \subseteq loaded'
    PROVE  Knows(t)'
<1>1. Knows(t)
  BY DEF TInv, Knowing
<1>2. /\ users \subseteq users' /\ documents \subseteq documents'
      /\ \A d \in Docs : Sharers(d) \subseteq Sharers(d)'
  BY RowsStay DEF TInv
<1>3. stage[t] = "enter" => document[t] \in Docs
  BY DEF TInv, TypeOK
<1>4. Accessible(t) /\ stage[t] = "enter" => Accessible(t)'
  BY <1>2, <1>3 DEF Accessible
<1>. QED BY <1>1, <1>2, <1>4 DEF Knows

LEMMA KnowingStep ==
    ASSUME TInv, [Next]_vars
    PROVE  Knowing'
<1>. USE TransactionsAssumption
<1>. USE DEF TypeOK, Stages, tables, memory, request, history, Begin, At, Goto
<1>0. TypeOK /\ Knowing
  BY DEF TInv
<1>1. ASSUME NEW s \in Sessions, Requests(s) \/ Queries(s) PROVE Knowing'
  <2>1. ASSUME NEW t \in Sessions, t # s PROVE Knows(t)'
    <3>1. /\ session'[t] = session[t] /\ opened'[t] = opened[t] /\ stage'[t] = stage[t]
          /\ user'[t] = user[t] /\ document'[t] = document[t] /\ loaded \subseteq loaded'
      BY <1>0, <1>1, <2>1 DEF Requests, Queries, Signup, Login, Create, Open, Link, Close,
           EndSession, SignupInsert, SignupCommit, CreateInsert, CreateCommit, LinkInsert,
           OpenRead, Enter, Answer, Fail
    <3>2. opened[t] \subseteq loaded
      BY <1>0 DEF Knowing, Knows
    <3>. QED BY <3>1, <3>2, KnowsElse
  <2>2. Knows(s)'
    <3>. USE DEF Knowing, Knows
    <3>1. ASSUME NEW u \in Users, Signup(s, u) PROVE Knows(s)'
      <4>1. stage'[s] \in {"idle", "signup insert"} /\ session[s] = NoUser
        BY <1>0, <3>1 DEF Signup
      <4>. QED BY <1>0, <3>1, <4>1 DEF Signup
    <3>2. ASSUME NEW u \in Users, Login(s, u) PROVE Knows(s)'
      <4>1. stage'[s] = "idle" /\ opened'[s] = {}
        BY <1>0, <3>2 DEF Login
      <4>. QED BY <4>1
    <3>9. ASSUME NEW d \in Docs, Create(s, d) PROVE Knows(s)'
      <4>1. stage'[s] \in {"idle", "create insert"}
        BY <1>0, <3>9 DEF Create
      <4>. QED BY <1>0, <3>9, <4>1 DEF Create
    <3>10. ASSUME NEW d \in Docs, Open(s, d) PROVE Knows(s)'
      BY <1>0, <3>10 DEF Open
    <3>11. ASSUME NEW d \in Docs, Link(s, d) PROVE Knows(s)'
      <4>1. stage'[s] \in {"open linked", "link insert"}
        BY <1>0, <3>11 DEF Link
      <4>. QED BY <1>0, <3>11, <4>1 DEF Link
    <3>12. ASSUME NEW d \in Docs, Close(s, d) PROVE Knows(s)'
      BY <1>0, <3>12 DEF Close
    <3>3. CASE EndSession(s)
      BY <1>0, <3>3 DEF EndSession
    <3>4. CASE SignupInsert(s) \/ SignupCommit(s)
      <4>1. /\ UNCHANGED <<opened, loaded, user>> /\ user[s] \in Users
            /\ \/ session[s] = NoUser /\ session'[s] = user[s] /\ stage'[s] = "signup commit"
               \/ session'[s] = user[s] /\ stage'[s] = "idle"
        BY <1>0, <3>4 DEF SignupInsert, SignupCommit
      <4>. QED BY <1>0, <4>1
    <3>5. CASE CreateInsert(s) \/ CreateCommit(s) \/ LinkInsert(s)
      <4>1. /\ UNCHANGED <<session, opened, loaded, user, document, users>>
            /\ \/ stage[s] = "create insert" /\ stage'[s] = "create commit" /\ user[s] \in users
               \/ stage[s] = "create commit" /\ stage'[s] = "open"
               \/ stage[s] = "link insert" /\ stage'[s] = "open linked"
        BY <1>0, <3>5 DEF CreateInsert, CreateCommit, LinkInsert
      <4>. QED BY <1>0, <4>1
    <3>6. CASE OpenRead(s)
      BY <1>0, <3>6 DEF OpenRead, Accessible, Sharers
    <3>7. CASE Enter(s)
      <4>1. /\ stage'[s] = "answer" /\ session'[s] = user'[s] /\ user[s] \in Users
            /\ user' = user
        BY <1>0, <3>7 DEF Enter
      <4>2. /\ opened'[s] = opened[s] \cup {document[s]} /\ document' = document
            /\ loaded' = loaded \cup {document[s]}
        BY <1>0, <3>7 DEF Enter
      <4>. QED BY <1>0, <4>1, <4>2
    <3>8. CASE Answer(s) \/ Fail(s)
      BY <1>0, <3>8 DEF Answer, Fail, Gaps
    <3>. QED BY <1>1, <3>1, <3>2, <3>3, <3>4, <3>5, <3>6, <3>7, <3>8, <3>9, <3>10, <3>11,
          <3>12 DEF Requests, Queries
  <2>. QED BY <2>1, <2>2 DEF Knowing
<1>2. ASSUME NEW d \in Docs, Remove(d) PROVE Knowing'
  <2>1. ASSUME NEW t \in Sessions PROVE opened[t] \subseteq loaded'
    <3>1. d \notin opened[t] /\ loaded' = loaded \ {d}
      BY <1>2 DEF Remove
    <3>2. opened[t] \subseteq loaded
      BY <1>0 DEF Knowing, Knows
    <3>. QED BY <1>2, <3>1, <3>2 DEF Remove
  <2>. QED BY <1>2, <2>1, KnowsElse DEF Remove, Knowing
<1>3. ASSUME Crash PROVE Knowing'
  BY <1>3 DEF Crash, Knowing, Knows
<1>4. ASSUME UNCHANGED vars PROVE Knowing'
  BY <1>0, <1>4 DEF vars, Knowing, Knows, Accessible, Sharers
<1>. QED BY <1>1, <1>2, <1>3, <1>4 DEF Next

(* What holds together along every behaviour. *)
THEOREM Invariance == Spec => []TInv
<1>1. Init => TInv
  <2>. SUFFICES ASSUME Init PROVE TInv
    OBVIOUS
  <2>1. TypeOK
    BY TransactionsAssumption DEF Init, TypeOK, Stages
  <2>2. Knowing
    BY DEF Init, Knowing, Knows
  <2>3. SharersAreUsers
    BY DEF Init, SharersAreUsers, Sharers
  <2>. QED BY <2>1, <2>2, <2>3 DEF TInv
<1>2. TInv /\ [Next]_vars => TInv'
  BY TypeStep, KnowingStep, SharersStep DEF TInv
<1>. QED BY <1>1, <1>2, PTL DEF Spec

(* Every variable keeps its type, and a thread at a query has the parameters *)
(* the query needs.                                                          *)
THEOREM TypeCorrect == Spec => []TypeOK
BY Invariance, PTL DEF TInv

-----------------------------------------------------------------------------
(* The user of a session changes when it logs in, signs up or ends. *)
LEMMA KnownStep ==
    ASSUME TInv, SessionsHaveUsers, [Next]_vars
    PROVE  SessionsHaveUsers'
<1>. USE TransactionsAssumption
<1>. USE DEF tables, memory, request, history, Begin, At, Goto, SessionsHaveUsers, Known
<1>0. TypeOK /\ Knowing /\ users \subseteq users'
  BY RowsStay DEF TInv
<1>1. ASSUME NEW s \in Sessions, Requests(s) \/ Queries(s) PROVE SessionsHaveUsers'
  <2>1. ASSUME NEW t \in Sessions \ unlucky', t # s PROVE Known(t)'
    <3>1. session'[t] = session[t] /\ stage'[t] = stage[t] /\ t \notin unlucky
      BY <1>0, <1>1, <2>1 DEF Requests, Queries, Signup, Login, Create, Open, Link, Close,
           EndSession, SignupInsert, SignupCommit, CreateInsert, CreateCommit, LinkInsert,
           OpenRead, Enter, Answer, Fail, TypeOK
    <3>. QED BY <1>0, <2>1, <3>1
  <2>2. ASSUME s \notin unlucky' PROVE Known(s)'
    <3>1. ASSUME NEW u \in Users, Login(s, u) PROVE Known(s)'
      BY <1>0, <2>2, <3>1 DEF Login, TypeOK
    <3>2. CASE EndSession(s) \/ SignupInsert(s)
      BY <3>2, <1>0 DEF EndSession, SignupInsert, TypeOK
    <3>3. CASE SignupCommit(s)
      <4>1. /\ session' = session /\ stage[s] = "signup commit"
            /\ users' = users \cup {user[s]}
        BY <2>2, <3>3 DEF SignupCommit
      <4>. QED BY <1>0, <4>1 DEF Knowing, Knows
    <3>4. CASE /\ session' = session /\ s \notin unlucky /\ stage[s] # "signup commit"
      BY <1>0, <2>2, <3>4
    <3>5. ASSUME NEW u \in Users, Signup(s, u) PROVE Known(s)'
      BY <1>0, <2>2, <3>4, <3>5 DEF Signup
    <3>6. ASSUME NEW d \in Docs, Create(s, d) \/ Open(s, d) \/ Link(s, d) \/ Close(s, d)
          PROVE  Known(s)'
      BY <1>0, <2>2, <3>4, <3>6 DEF Create, Open, Link, Close
    <3>7. CASE \/ CreateInsert(s) \/ CreateCommit(s) \/ LinkInsert(s) \/ OpenRead(s)
               \/ Enter(s) \/ Answer(s) \/ Fail(s)
      BY <1>0, <2>2, <3>4, <3>7 DEF CreateInsert, CreateCommit, LinkInsert, OpenRead, Enter,
                                    Answer, Fail, Gaps
    <3>. QED BY <1>1, <3>1, <3>2, <3>3, <3>5, <3>6, <3>7 DEF Requests, Queries
  <2>. QED BY <2>1, <2>2
<1>2. ASSUME NEW d \in Docs, Remove(d) PROVE SessionsHaveUsers'
  BY <1>0, <1>2 DEF Remove
<1>3. ASSUME Crash PROVE SessionsHaveUsers'
  BY <1>3 DEF Crash
<1>4. ASSUME UNCHANGED vars PROVE SessionsHaveUsers'
  BY <1>4 DEF vars
<1>. QED BY <1>1, <1>2, <1>3, <1>4 DEF Next

(* A session that is logged in belongs to a user of the database, unless its *)
(* own signup was not committed: whatever other queries fail and whenever    *)
(* the server crashes.                                                       *)
THEOREM SessionsAreKnown == Spec => []SessionsHaveUsers
<1>1. Init => SessionsHaveUsers
  BY DEF Init, SessionsHaveUsers, Known
<1>2. TInv /\ SessionsHaveUsers /\ [Next]_vars => SessionsHaveUsers'
  BY KnownStep
<1>. QED BY <1>1, <1>2, Invariance, PTL DEF Spec

-----------------------------------------------------------------------------
(* A document and its owner's sharing come in one transaction. *)
LEMMA SharedStep ==
    ASSUME TInv, CreatedIsShared, [Next]_vars
    PROVE  CreatedIsShared'
<1>. USE TransactionsAssumption
<1>0. TypeOK /\ Knowing /\ \A d \in Docs : Sharers(d) \subseteq Sharers(d)'
  BY RowsStay DEF TInv
<1>1. ASSUME NEW d \in documents' PROVE Owner[d] \in Sharers(d)'
  <2>1. CASE d \in documents
    <3>1. d \in Docs /\ Owner[d] \in Users
      BY <1>0, <2>1 DEF TypeOK
    <3>. QED BY <1>0, <2>1, <3>1 DEF CreatedIsShared, Sharers
  <2>2. CASE d \notin documents
    <3>1. PICK s \in Sessions : CreateCommit(s)
      BY <1>1, <2>2, WhoWritesTables DEF tables, SignupCommit, LinkInsert
    <3>2. Share(s) /\ d = document[s] /\ stage[s] = "create commit"
      BY <1>1, <2>2, <3>1 DEF CreateCommit, At
    <3>3. user[s] \in Users /\ d \in Docs /\ user[s] = Owner[d]
      BY <1>0, <3>2 DEF TypeOK, Knowing, Knows
    <3>. QED BY <1>0, <3>2, <3>3, ShareAdds
  <2>. QED BY <2>1, <2>2
<1>. QED BY <1>1 DEF CreatedIsShared, Sharers

(* No failing query or commit and no crash leaves a document that nobody can *)
(* reach.                                                                    *)
THEOREM CreatedDocumentsAreShared == Spec => []CreatedIsShared
<1>1. Init => CreatedIsShared
  BY DEF Init, CreatedIsShared
<1>2. TInv /\ CreatedIsShared /\ [Next]_vars => CreatedIsShared'
  BY SharedStep
<1>. QED BY <1>1, <1>2, Invariance, PTL DEF Spec

-----------------------------------------------------------------------------
(* A session comes to have a document open only by entering it. *)
LEMMA WhoOpens ==
    ASSUME TInv, [Next]_vars, NEW s \in Sessions, NEW d \in opened'[s]
    PROVE  /\ session'[s] = session[s]
           /\ d \in opened[s] \/ (Enter(s) /\ d = document[s])
<1>. USE DEF tables, memory, request, history, Begin, At, Goto
<1>0. TypeOK /\ Knowing
  BY DEF TInv
<1>1. ASSUME NEW t \in Sessions, Requests(t) \/ Queries(t)
      PROVE  /\ session'[s] = session[s]
             /\ d \in opened[s] \/ (Enter(s) /\ d = document[s])
  <2>1. CASE t # s
    BY <1>0, <1>1, <2>1 DEF Requests, Queries, Signup, Login, Create, Open, Link, Close,
       EndSession, SignupInsert, SignupCommit, CreateInsert, CreateCommit, LinkInsert, OpenRead,
       Enter, Answer, Fail, TypeOK
  <2>2. CASE t = s /\ (EndSession(s) \/ SignupInsert(s) \/ \E u \in Users : Login(s, u))
    <3>1. opened'[s] = {}
      BY <1>0, <2>2 DEF EndSession, SignupInsert, Login, TypeOK, Knowing, Knows
    <3>. QED BY <3>1
  <2>3. CASE t = s /\ \/ \E u \in Users : Signup(s, u)
                      \/ \E e \in Docs : Create(s, e) \/ Open(s, e) \/ Link(s, e) \/ Close(s, e)
                      \/ SignupCommit(s) \/ CreateInsert(s) \/ CreateCommit(s) \/ LinkInsert(s)
                      \/ OpenRead(s) \/ Answer(s) \/ Fail(s)
    <3>1. session' = session /\ opened'[s] \subseteq opened[s]
      BY <1>0, <2>3 DEF Signup, Create, Open, Link, Close, SignupCommit, CreateInsert,
         CreateCommit, LinkInsert, OpenRead, Answer, Fail, TypeOK
    <3>. QED BY <3>1
  <2>4. CASE t = s /\ Enter(s)
    BY <1>0, <2>4 DEF Enter, TypeOK
  <2>. QED BY <1>1, <2>1, <2>2, <2>3, <2>4 DEF Requests, Queries
<1>2. ASSUME NEW e \in Docs, Remove(e) PROVE session' = session /\ opened' = opened
  BY <1>2 DEF Remove
<1>3. ASSUME Crash PROVE opened'[s] = {}
  BY <1>3 DEF Crash
<1>4. ASSUME UNCHANGED vars PROVE session' = session /\ opened' = opened
  BY <1>4 DEF vars
<1>. QED BY <1>1, <1>2, <1>3, <1>4 DEF Next

LEMMA OpenersStep ==
    ASSUME TInv, OpenersShare, [Next]_vars
    PROVE  OpenersShare'
<1>1. ASSUME NEW s \in Sessions, NEW d \in opened'[s]
      PROVE  d \in documents' /\ session'[s] \in Sharers(d)'
  <2>1. session'[s] = session[s] /\ documents \subseteq documents'
    BY <1>1, WhoOpens, RowsStay DEF TInv
  <2>2. CASE d \in opened[s]
    <3>1. d \in Docs
      BY <2>2 DEF TInv, TypeOK
    <3>. QED BY <2>1, <2>2, <3>1, RowsStay DEF OpenersShare, TInv
  <2>3. CASE Enter(s) /\ d = document[s]
    <3>1. stage[s] = "enter"
      BY <2>3 DEF Enter, At
    <3>2. d \in Docs /\ session[s] = user[s] /\ Accessible(s)
      BY <2>3, <3>1 DEF TInv, TypeOK, Knowing, Knows
    <3>. QED BY <2>1, <2>3, <3>2, RowsStay DEF Accessible, TInv
  <2>. QED BY <1>1, <2>2, <2>3, WhoOpens
<1>. QED BY <1>1 DEF OpenersShare

(* Whoever has a document open has a sharing of it in the database, although *)
(* the sharing is read in one transaction and used after it.                 *)
THEOREM OpenersHaveSharings == Spec => []OpenersShare
<1>1. Init => OpenersShare
  BY DEF Init, OpenersShare
<1>2. TInv /\ OpenersShare /\ [Next]_vars => OpenersShare'
  BY OpenersStep
<1>. QED BY <1>1, <1>2, Invariance, PTL DEF Spec

-----------------------------------------------------------------------------
(* A document in memory has its users from before, or a session enters it. *)
LEMMA WhoLoads ==
    ASSUME TInv, [Next]_vars, NEW d \in loaded'
    PROVE  \/ d \in loaded /\ usernames'[d] = usernames[d]
           \/ \E s \in Sessions : Enter(s) /\ d = document[s]
<1>. USE DEF tables, memory, request, history, Begin, At, Goto
<1>0. TypeOK
  BY DEF TInv
<1>1. ASSUME NEW s \in Sessions, Requests(s) \/ Queries(s), ~Enter(s)
      PROVE  loaded' = loaded /\ usernames' = usernames
  BY <1>1 DEF Requests, Queries, Signup, Login, Create, Open, Link, Close, EndSession,
     SignupInsert, SignupCommit, CreateInsert, CreateCommit, LinkInsert, OpenRead, Answer, Fail
<1>2. ASSUME NEW s \in Sessions, Enter(s), d # document[s]
      PROVE  d \in loaded /\ usernames'[d] = usernames[d]
  <2>1. loaded' = loaded \cup {document[s]} /\ document[s] \in Docs
    BY <1>0, <1>2 DEF Enter, TypeOK
  <2>2. \E v : usernames' = [usernames EXCEPT ![document[s]] = v]
    BY <1>2 DEF Enter
  <2>. QED BY <1>0, <1>2, <2>1, <2>2 DEF TypeOK
<1>3. ASSUME NEW e \in Docs, Remove(e) PROVE loaded' \subseteq loaded /\ usernames' = usernames
  BY <1>3 DEF Remove
<1>4. ASSUME Crash PROVE loaded' = {}
  BY <1>4 DEF Crash
<1>5. ASSUME UNCHANGED vars PROVE loaded' = loaded /\ usernames' = usernames
  BY <1>5 DEF vars
<1>. QED BY <1>1, <1>2, <1>3, <1>4, <1>5 DEF Next

(* The users a session that enters a document leaves in it. *)
LEMMA EnterAdds ==
    ASSUME TypeOK, NEW s \in Sessions, Enter(s)
    PROVE  /\ document[s] \in Docs /\ stage[s] = "enter" /\ UNCHANGED tables
           /\ usernames'[document[s]] =
                (IF document[s] \in loaded THEN usernames[document[s]] ELSE Sharers(document[s]))
                    \cup {user[s]}
<1>1. stage[s] = "enter" /\ document[s] \in Docs
  BY DEF Enter, At, TypeOK
<1>. QED BY <1>1 DEF Enter, TypeOK

LEMMA MembersStep ==
    ASSUME TInv, MembersShare, [Next]_vars
    PROVE  MembersShare'
<1>0. TypeOK /\ Knowing /\ SharersAreUsers /\ users \subseteq users'
      /\ \A d \in Docs : Sharers(d) \subseteq Sharers(d)'
  BY RowsStay DEF TInv
<1>1. ASSUME NEW d \in loaded' PROVE usernames'[d] \subseteq Sharers(d)' \cap users'
  <2>1. CASE d \in loaded /\ usernames'[d] = usernames[d]
    <3>1. d \in Docs
      BY <1>0, <2>1 DEF TypeOK
    <3>. QED BY <1>0, <2>1, <3>1 DEF MembersShare
  <2>2. ASSUME NEW s \in Sessions, Enter(s), d = document[s]
        PROVE  usernames'[d] \subseteq Sharers(d)' \cap users'
    <3>1. d \in Docs /\ user[s] \in Sharers(d)
      BY <1>0, <2>2, EnterAdds DEF Knowing, Knows, Accessible
    <3>2. Sharers(d) \subseteq users
      BY <1>0, <3>1 DEF SharersAreUsers
    <3>3. usernames'[d] \subseteq Sharers(d) \cap users
      BY <1>0, <2>2, <3>1, <3>2, EnterAdds DEF MembersShare
    <3>. QED BY <1>0, <3>1, <3>3
  <2>. QED BY <1>1, <2>1, <2>2, WhoLoads
<1>. QED BY <1>1 DEF MembersShare

(* Everybody with a site in a document is a user of the database that it is  *)
(* shared with, so that saving it can name every author.                     *)
THEOREM MembersHaveSharings == Spec => []MembersShare
<1>1. Init => MembersShare
  BY DEF Init, MembersShare
<1>2. TInv /\ MembersShare /\ [Next]_vars => MembersShare'
  BY MembersStep
<1>. QED BY <1>1, <1>2, Invariance, PTL DEF Spec

(* No sharing that anything relies on is ever missing in the database.       *)
THEOREM SharingsAreKept == Spec => []SharingsHold
<1>1. CreatedIsShared /\ OpenersShare /\ MembersShare => SharingsHold
  BY DEF SharingsHold
<1>. QED BY <1>1, CreatedDocumentsAreShared, OpenersHaveSharings, MembersHaveSharings, PTL

-----------------------------------------------------------------------------
(* What a thread has read and what a document was loaded with lack only      *)
(* newcomers.                                                                *)
Fresh(s) ==
    stage[s] \in {"enter", "answer"} =>
        /\ profiles[s] \subseteq Sharers(document[s])
        /\ Sharers(document[s]) \subseteq profiles[s] \cup newcomers[document[s]]

Reads ==
    /\ \A d \in loaded : Sharers(d) \subseteq usernames[d] \cup newcomers[d]
    /\ \A s \in Sessions : Fresh(s)

(* Whoever gets a sharing is a newcomer, and newcomers are forgotten only    *)
(* when a document that is not in memory is about to be loaded.              *)
LEMMA WhoComes ==
    ASSUME TInv, [Next]_vars, NEW d \in Docs
    PROVE  /\ Sharers(d)' \subseteq Sharers(d) \cup newcomers'[d]
           /\ newcomers[d] \subseteq newcomers'[d] \/ ~InUse(d)
<1>. USE DEF tables, memory, request, history, Begin, At, Goto
<1>0. TypeOK
  BY DEF TInv
<1>1. ASSUME NEW s \in Sessions, CreateCommit(s) \/ LinkInsert(s)
      PROVE  /\ Sharers(d)' \subseteq Sharers(d) \cup newcomers'[d]
             /\ newcomers[d] \subseteq newcomers'[d]
  <2>1. user[s] \in Users /\ document[s] \in Docs
    BY <1>0, <1>1 DEF CreateCommit, LinkInsert, TypeOK
  <2>2. Share(s) \/ (sharings' = sharings /\ newcomers' = newcomers)
    BY <1>1 DEF CreateCommit, LinkInsert
  <2>3. CASE Share(s)
    BY <1>0, <2>1, <2>3, ShareAdds
  <2>4. CASE sharings' = sharings /\ newcomers' = newcomers
    BY <2>4 DEF Sharers
  <2>. QED BY <2>2, <2>3, <2>4
<1>2. ASSUME NEW s \in Sessions, OpenRead(s)
      PROVE  sharings' = sharings /\ (newcomers'[d] = newcomers[d] \/ ~InUse(d))
  <2>1. sharings' = sharings
    BY <1>2 DEF OpenRead
  <2>2. CASE Accessible(s)
    <3>1. newcomers' = [newcomers EXCEPT ![document[s]] =
                            IF InUse(document[s]) THEN newcomers[document[s]] ELSE {}]
      BY <1>2, <2>2 DEF OpenRead
    <3>2. CASE d = document[s] /\ ~InUse(d)
      BY <2>1, <3>2
    <3>3. CASE ~(d = document[s] /\ ~InUse(d))
      <4>1. newcomers'[d] = newcomers[d]
        BY <1>0, <3>1, <3>3 DEF TypeOK
      <4>. QED BY <2>1, <4>1
    <3>. QED BY <3>2, <3>3
  <2>3. CASE ~Accessible(s)
    BY <1>2, <2>1, <2>3 DEF OpenRead
  <2>. QED BY <2>2, <2>3
<1>3. ASSUME NEW s \in Sessions, Requests(s) \/ Queries(s),
             ~(CreateCommit(s) \/ LinkInsert(s) \/ OpenRead(s))
      PROVE  sharings' = sharings /\ newcomers' = newcomers
  BY <1>3 DEF Requests, Queries, Signup, Login, Create, Open, Link, Close, EndSession,
     SignupInsert, SignupCommit, CreateInsert, Enter, Answer, Fail
<1>4. ASSUME NEW e \in Docs, Remove(e) PROVE sharings' = sharings /\ newcomers' = newcomers
  BY <1>4 DEF Remove
<1>5. ASSUME Crash \/ UNCHANGED vars PROVE sharings' = sharings /\ newcomers' = newcomers
  BY <1>5 DEF Crash, vars
<1>6. sharings' = sharings => Sharers(d)' = Sharers(d)
  BY DEF Sharers
<1>7. ASSUME NEW s \in Sessions, Requests(s) \/ Queries(s)
      PROVE  /\ Sharers(d)' \subseteq Sharers(d) \cup newcomers'[d]
             /\ newcomers[d] \subseteq newcomers'[d] \/ ~InUse(d)
  BY <1>1, <1>2, <1>3, <1>6, <1>7
<1>. QED BY <1>4, <1>5, <1>6, <1>7 DEF Next

(* A thread at the end of an open has read its profiles in open_document. *)
LEMMA WhoRead ==
    ASSUME TInv, [Next]_vars, NEW s \in Sessions, stage'[s] \in {"enter", "answer"}
    PROVE  /\ document'[s] = document[s]
           /\ \/ stage[s] \in {"enter", "answer"} /\ profiles'[s] = profiles[s]
              \/ OpenRead(s) /\ stage[s] \in {"open", "open linked"}
                 /\ profiles'[s] = Sharers(document[s]) /\ sharings' = sharings
<1>. USE DEF tables, memory, request, history, Begin, At, Goto
<1>0. TypeOK
  BY DEF TInv
<1>. DEFINE Same == /\ document'[s] = document[s]
                    /\ stage[s] \in {"enter", "answer"} /\ profiles'[s] = profiles[s]
<1>1. ASSUME NEW t \in Sessions, t # s, Requests(t) \/ Queries(t) PROVE Same
  BY <1>0, <1>1 DEF Requests, Queries, Signup, Login, Create, Open, Link, Close, EndSession,
     SignupInsert, SignupCommit, CreateInsert, CreateCommit, LinkInsert, OpenRead, Enter, Answer,
     Fail, TypeOK
<1>2. ASSUME OpenRead(s)
      PROVE  /\ document'[s] = document[s] /\ sharings' = sharings
             /\ stage[s] \in {"open", "open linked"}
             /\ profiles'[s] = Sharers(document[s])
  <2>1. Accessible(s)
    BY <1>0, <1>2 DEF OpenRead, TypeOK
  <2>2. profiles' = [profiles EXCEPT ![s] = Sharers(document[s])]
    BY <1>2, <2>1 DEF OpenRead
  <2>. QED BY <1>0, <1>2, <2>2 DEF OpenRead, TypeOK
<1>3. ASSUME Enter(s) PROVE Same
  BY <1>0, <1>3 DEF Enter, TypeOK
<1>4. ASSUME EndSession(s) \/ (\E u \in Users : Login(s, u)) \/ (\E d \in Docs : Close(s, d))
      PROVE  FALSE
  BY <1>0, <1>4 DEF EndSession, Login, Close, TypeOK
<1>5. ASSUME \/ (\E u \in Users : Signup(s, u))
             \/ \E d \in Docs : Create(s, d) \/ Open(s, d) \/ Link(s, d)
             \/ SignupInsert(s) \/ SignupCommit(s) \/ CreateInsert(s) \/ CreateCommit(s)
             \/ LinkInsert(s) \/ Answer(s) \/ Fail(s)
      PROVE  FALSE
  BY <1>0, <1>5 DEF Signup, Create, Open, Link, SignupInsert, SignupCommit, CreateInsert,
     CreateCommit, LinkInsert, Answer, Fail, TypeOK
<1>6. ASSUME NEW d \in Docs, Remove(d) PROVE Same
  BY <1>6 DEF Remove
<1>7. ASSUME Crash PROVE FALSE
  BY <1>7 DEF Crash
<1>8. ASSUME UNCHANGED vars PROVE Same
  BY <1>8 DEF vars
<1>. HIDE DEF Same
<1>9. ASSUME Requests(s) \/ Queries(s) PROVE Same \/ OpenRead(s)
  BY <1>3, <1>4, <1>5, <1>9 DEF Requests, Queries
<1>10. Same \/ OpenRead(s)
  BY <1>1, <1>6, <1>7, <1>8, <1>9 DEF Next
<1>. QED BY <1>2, <1>10 DEF Same

LEMMA ReadsStep ==
    ASSUME TInv, Reads, [Next]_vars
    PROVE  Reads'
<1>0. TypeOK /\ Knowing
  BY DEF TInv
<1>1. ASSUME NEW d \in loaded' PROVE Sharers(d)' \subseteq usernames'[d] \cup newcomers'[d]
  <2>1. CASE d \in loaded /\ usernames'[d] = usernames[d]
    <3>1. d \in Docs /\ InUse(d)
      BY <1>0, <2>1 DEF TypeOK, InUse
    <3>. QED BY <2>1, <3>1, WhoComes DEF Reads
  <2>2. ASSUME NEW s \in Sessions, Enter(s), d = document[s]
        PROVE  Sharers(d)' \subseteq usernames'[d] \cup newcomers'[d]
    <3>1. d \in Docs /\ InUse(d) /\ sharings' = sharings
      BY <1>0, <2>2, EnterAdds DEF InUse, tables
    <3>2. Sharers(d)' = Sharers(d)
      BY <3>1 DEF Sharers
    <3>3. CASE d \in loaded
      BY <1>0, <2>2, <3>1, <3>2, <3>3, EnterAdds, WhoComes DEF Reads
    <3>4. CASE d \notin loaded
      BY <1>0, <2>2, <3>2, <3>4, EnterAdds
    <3>. QED BY <3>3, <3>4
  <2>. QED BY <1>1, <2>1, <2>2, WhoLoads
<1>2. ASSUME NEW s \in Sessions, stage'[s] \in {"enter", "answer"} PROVE Fresh(s)'
  <2>0. document[s] \in Docs
    <3>1. stage[s] \notin {"idle", "signup insert", "signup commit"}
      BY <1>2, WhoRead
    <3>. QED BY <1>0, <3>1 DEF TypeOK
  <2>. PICK d \in Docs : d = document[s]
    BY <2>0
  <2>1. document'[s] = d
    BY <1>2, WhoRead
  <2>2. CASE stage[s] \in {"enter", "answer"} /\ profiles'[s] = profiles[s]
    <3>1. InUse(d)
      BY <1>0, <2>2 DEF InUse, Knowing, Knows
    <3>2. newcomers[d] \subseteq newcomers'[d] /\ Sharers(d) \subseteq Sharers(d)'
          /\ Sharers(d)' \subseteq Sharers(d) \cup newcomers'[d]
      BY <3>1, WhoComes, RowsStay DEF TInv
    <3>3. profiles[s] \subseteq Sharers(d) /\ Sharers(d) \subseteq profiles[s] \cup newcomers[d]
      BY <2>2 DEF Reads, Fresh
    <3>. QED BY <2>1, <2>2, <3>2, <3>3 DEF Fresh
  <2>3. CASE profiles'[s] = Sharers(d) /\ sharings' = sharings
    <3>1. Sharers(d)' = Sharers(d)
      BY <2>3 DEF Sharers
    <3>. QED BY <2>1, <2>3, <3>1 DEF Fresh
  <2>. QED BY <1>2, <2>2, <2>3, WhoRead
<1>. QED BY <1>1, <1>2 DEF Reads, Fresh

(* An answer that is put together from several reads names the same users in *)
(* all its parts but for those who came in meanwhile.                        *)
THEOREM AnswersDifferByNewcomers == Spec => []OnlyNewcomersDiffer
<1>1. Init => Reads
  BY DEF Init, Reads, Fresh
<1>2. TInv /\ Reads /\ [Next]_vars => Reads'
  BY ReadsStep
<1>3. TInv /\ Reads /\ MembersShare => OnlyNewcomersDiffer
  <2>. SUFFICES ASSUME TInv, Reads, MembersShare, NEW s \in Sessions, stage[s] = "answer"
                PROVE  LET d == document[s] IN
                       /\ profiles[s] \subseteq usernames[d] \cup newcomers[d]
                       /\ usernames[d] \subseteq profiles[s] \cup newcomers[d]
    BY DEF OnlyNewcomersDiffer
  <2>. DEFINE d == document[s]
  <2>1. d \in loaded
    BY DEF TInv, Knowing, Knows
  <2>2. usernames[d] \subseteq Sharers(d) /\ Sharers(d) \subseteq usernames[d] \cup newcomers[d]
    BY <2>1 DEF MembersShare, Reads
  <2>3. profiles[s] \subseteq Sharers(d) /\ Sharers(d) \subseteq profiles[s] \cup newcomers[d]
    BY DEF Reads, Fresh
  <2>. QED BY <2>2, <2>3
<1>. QED BY <1>1, <1>2, <1>3, Invariance, MembersHaveSharings, PTL DEF Spec
=============================================================================
