----------------------- MODULE DocumentManager_proofs -----------------------
(***************************************************************************)
(* Proofs about DocumentManager, for any set of sessions and documents and *)
(* whether commits can fail or not: its invariants first, then that it     *)
(* implements DocumentStore.                                               *)
(***************************************************************************)
EXTENDS DocumentManager, FiniteSetTheorems, TLAPS

Owning == {"load", "enter", "register"}

(* Who is where while mutex_ is held. *)
Locks ==
    /\ \A s \in Sessions : mutex = s <=> pc[s] \in Owning
    /\ mutex = Saver <=> saver.pc \in {"next", "remove"}

(* What a session's thread knows of its document at each point. *)
Stages ==
    /\ \A s \in Sessions :
         /\ pc[s] # "idle" => cur[s] \in Docs /\ db[cur[s]] # NoRow
         /\ pc[s] \in {"lock", "load", "enter", "register", "leave"} => ~Opened(s, cur[s])
         /\ pc[s] \in {"users", "cursors", "answer", "edit", "move"} => Opened(s, cur[s])
         /\ pc[s] \in {"register", "leave", "edit", "move"} => site[s] \in Nat
         /\ \A d \in Docs : Opened(s, d) => db[d] # NoRow
    /\ saver.pc \in {"check", "write", "relock"} => saver.doc \in Docs

IInv == TypeOK /\ Locks /\ Stages /\ RefCounts /\ NoDangling

-----------------------------------------------------------------------------
(* A saved text is never taken for a missing row of the database. *)
LEMMA NoRowIsNoText == NoRow \notin Contents
  BY DEF NoRow, Contents

(* Every step keeps the types; that an edit has a site id and a load finds a *)
(* saved text comes from Stages.                                             *)
LEMMA TypeStep ==
    ASSUME TypeOK, Stages, [Next]_vars
    PROVE  TypeOK'
<1>. USE ManagerAssumption
<1>. USE DEF odVars, sessionVars, TypeOK, Stages, PCs, SaverPCs, Contents, NoSite, ProfileSite, NoSnap, IdleSaver, Opened, Idle
<1>1. ASSUME NEW s \in Sessions, NEW d \in Docs, Create(s, d) PROVE TypeOK'
  BY <1>1 DEF Create, Goto, Return
<1>2. ASSUME NEW s \in Sessions, NEW d \in Docs, Open(s, d) PROVE TypeOK'
  BY <1>2 DEF Open, Goto, Return
<1>3. ASSUME NEW s \in Sessions, NEW d \in Docs, Close(s, d) PROVE TypeOK'
  BY <1>3 DEF Close, Goto, Return
<1>4. ASSUME NEW s \in Sessions, NEW d \in Docs, Use(s, d, "edit") PROVE TypeOK'
  BY <1>4 DEF Use, Goto, Return
<1>5. ASSUME NEW s \in Sessions, NEW d \in Docs, Use(s, d, "move") PROVE TypeOK'
  BY <1>5 DEF Use, Goto, Return
<1>6. ASSUME NEW s \in Sessions, OpenLock(s) PROVE TypeOK'
  BY <1>6 DEF OpenLock, Goto, Return
<1>7. ASSUME NEW s \in Sessions, OpenLoad(s) PROVE TypeOK'
  <2>1. cur[s] \in Docs /\ db[cur[s]] \in SUBSET Nat
    BY <1>7 DEF OpenLoad
  <2>2. \A f \in [Docs -> SUBSET Nat], v \in SUBSET Nat :
          [f EXCEPT ![cur[s]] = v] \in [Docs -> SUBSET Nat]
    OBVIOUS
  <2>3. content' \in [Docs -> SUBSET Nat]
    <3>1. content' = content \/ content' = [content EXCEPT ![cur[s]] = db[cur[s]]]
      BY <1>7 DEF OpenLoad
    <3>. QED BY <2>1, <2>2, <3>1
  <2>4. users' \in [Docs -> SUBSET Nat]
    <3>1. users' = users \/ users' = [users EXCEPT ![cur[s]] = {0}]
      BY <1>7 DEF OpenLoad
    <3>. DEFINE owner == {0}
    <3>2. owner \in SUBSET Nat
      OBVIOUS
    <3>3. users' = users \/ users' = [users EXCEPT ![cur[s]] = owner]
      BY <3>1
    <3>4. users \in [Docs -> SUBSET Nat]
      OBVIOUS
    <3>. HIDE DEF owner, TypeOK, Stages
    <3>5. [users EXCEPT ![cur[s]] = owner] \in [Docs -> SUBSET Nat]
      BY <2>2, <3>2, <3>4
    <3>. QED BY <3>3, <3>4, <3>5
  <2>. QED
    <3>1. CASE cur[s] \in open
      BY <1>7, <3>1 DEF OpenLoad, Goto
    <3>2. CASE cur[s] \notin open
      <4>1. open' \in SUBSET Docs
        BY <1>7, <2>1, <3>2 DEF OpenLoad
      <4>2. changed' = [changed EXCEPT ![cur[s]] = FALSE]
        BY <1>7, <3>2 DEF OpenLoad
      <4>3. changed' \in [Docs -> BOOLEAN]
        BY <4>2
      <4>4. refs' \in [Docs -> Int] /\ nextSite' \in [Docs -> Nat]
        BY <1>7, <2>1, <3>2 DEF OpenLoad
      <4>5. cursors' = [cursors EXCEPT ![cur[s]] = {}]
        BY <1>7, <3>2 DEF OpenLoad
      <4>6. cursors' \in [Docs -> SUBSET Nat]
        BY <4>5
      <4>7. pc' \in [Sessions -> PCs]
        BY <1>7 DEF OpenLoad, Goto
      <4>. QED
        BY <1>7, <2>3, <2>4, <4>1, <4>3, <4>4, <4>6, <4>7 DEF OpenLoad
    <3>. QED BY <3>1, <3>2
<1>7a. ASSUME NEW s \in Sessions, LoadFails(s) PROVE TypeOK'
  BY <1>7a DEF LoadFails, Goto, Return
<1>8. ASSUME NEW s \in Sessions, OpenEnter(s) PROVE TypeOK'
  BY <1>8 DEF OpenEnter, Goto, Return
<1>9. ASSUME NEW s \in Sessions, OpenRegister(s) PROVE TypeOK'
  BY <1>9 DEF OpenRegister, Goto, Return
<1>10. ASSUME NEW s \in Sessions, ReadUsers(s) PROVE TypeOK'
  <2>1. users[cur[s]] \in SUBSET Nat
    BY <1>10 DEF ReadUsers
  <2>. DEFINE r == [snap[s] EXCEPT !.users = users[cur[s]]]
  <2>2. r \in [users : SUBSET Nat, cursors : SUBSET Nat]
    <3>1. snap[s] \in [users : SUBSET Nat, cursors : SUBSET Nat]
      OBVIOUS
    <3>2. \A q \in [users : SUBSET Nat, cursors : SUBSET Nat] : \A v \in SUBSET Nat :
            [q EXCEPT !.users = v] \in [users : SUBSET Nat, cursors : SUBSET Nat]
      OBVIOUS
    <3>. QED BY <2>1, <3>1, <3>2
  <2>3. snap' = [snap EXCEPT ![s] = r]
    BY <1>10 DEF ReadUsers
  <2>4. snap' \in [Sessions -> [users : SUBSET Nat, cursors : SUBSET Nat]]
    <3>. HIDE DEF r
    <3>. QED BY <2>2, <2>3
  <2>. QED
    BY <1>10, <2>4 DEF ReadUsers, Goto
<1>11. ASSUME NEW s \in Sessions, ReadCursors(s) PROVE TypeOK'
  <2>1. cursors[cur[s]] \in SUBSET Nat
    BY <1>11 DEF ReadCursors
  <2>. DEFINE r == [snap[s] EXCEPT !.cursors = cursors[cur[s]]]
  <2>2. r \in [users : SUBSET Nat, cursors : SUBSET Nat]
    <3>1. snap[s] \in [users : SUBSET Nat, cursors : SUBSET Nat]
      OBVIOUS
    <3>2. \A q \in [users : SUBSET Nat, cursors : SUBSET Nat] : \A v \in SUBSET Nat :
            [q EXCEPT !.cursors = v] \in [users : SUBSET Nat, cursors : SUBSET Nat]
      OBVIOUS
    <3>. QED BY <2>1, <3>1, <3>2
  <2>3. snap' = [snap EXCEPT ![s] = r]
    BY <1>11 DEF ReadCursors
  <2>4. snap' \in [Sessions -> [users : SUBSET Nat, cursors : SUBSET Nat]]
    <3>. HIDE DEF r
    <3>. QED BY <2>2, <2>3
  <2>. QED
    BY <1>11, <2>4 DEF ReadCursors, Goto
<1>12. ASSUME NEW s \in Sessions, Answer(s) PROVE TypeOK'
  BY <1>12 DEF Answer, Goto, Return
<1>13. ASSUME NEW s \in Sessions, CloseLeave(s) PROVE TypeOK'
  BY <1>13 DEF CloseLeave, Goto, Return
<1>14. ASSUME NEW s \in Sessions, ApplyEdit(s) PROVE TypeOK'
  <2>1. cur[s] \in Docs /\ site[s] \in Nat
    BY <1>14 DEF ApplyEdit
  <2>2. [cursors EXCEPT ![cur[s]] = @ \cup {site[s]}] \in [Docs -> SUBSET Nat]
    BY <2>1
  <2>3. cursors' \in [Docs -> SUBSET Nat]
    BY <1>14, <2>2 DEF ApplyEdit
  <2>4. /\ edits' = [edits EXCEPT ![cur[s]] = @ + 1]
        /\ content' = [content EXCEPT ![cur[s]] = @ \cup {edits[cur[s]] + 1}]
        /\ changed' = [changed EXCEPT ![cur[s]] = TRUE]
    BY <1>14 DEF ApplyEdit
  <2>5. /\ edits' \in [Docs -> Nat] /\ content' \in [Docs -> Contents]
        /\ changed' \in [Docs -> BOOLEAN]
    BY <2>1, <2>4
  <2>. QED
    BY <1>14, <2>3, <2>5 DEF ApplyEdit, Goto, Return
<1>15. ASSUME NEW s \in Sessions, ApplyMove(s) PROVE TypeOK'
  BY <1>15 DEF ApplyMove, Goto, Return
<1>16. ASSUME SaveBegin PROVE TypeOK'
  BY <1>16 DEF SaveBegin
<1>17. ASSUME SaveUnchanged PROVE TypeOK'
  BY <1>17 DEF SaveUnchanged
<1>18. ASSUME SaveWrite PROVE TypeOK'
  BY <1>18 DEF SaveWrite
<1>19. ASSUME SaveCommit PROVE TypeOK'
  <2>1. saver.doc \in Docs /\ content[saver.doc] \in SUBSET Nat
    BY <1>19 DEF SaveCommit
  <2>2. db' = db \/ db' = [db EXCEPT ![saver.doc] = content[saver.doc]]
    BY <1>19 DEF SaveCommit
  <2>3. [db EXCEPT ![saver.doc] = content[saver.doc]] \in [Docs -> Contents \cup {NoRow}]
    BY <2>1
  <2>4. db' \in [Docs -> Contents \cup {NoRow}]
    BY <2>2, <2>3
  <2>. QED
    BY <1>19, <2>1, <2>4 DEF SaveCommit
<1>20. ASSUME SaveRelock PROVE TypeOK'
  BY <1>20 DEF SaveRelock
<1>21. ASSUME SaveVisited PROVE TypeOK'
  BY <1>21 DEF SaveVisited
<1>22. ASSUME SaveEnd PROVE TypeOK'
  BY <1>22 DEF SaveEnd
<1>23. ASSUME NEW d \in Docs, SaveVisit(d) PROVE TypeOK'
  BY <1>23 DEF SaveVisit
<1>24. ASSUME NEW d \in Docs, SaveRemove(d) PROVE TypeOK'
  BY <1>24 DEF SaveRemove
<1>25. ASSUME Crash PROVE TypeOK'
  BY <1>25 DEF Crash
<1>26. ASSUME UNCHANGED vars PROVE TypeOK'
  BY <1>26 DEF vars
<1>. QED
  BY <1>1, <1>2, <1>3, <1>4, <1>5, <1>6, <1>7, <1>7a, <1>8, <1>9, <1>10, <1>11, <1>12, <1>13, <1>14, <1>15, <1>16, <1>17, <1>18, <1>19, <1>20, <1>21, <1>22, <1>23, <1>24, <1>25, <1>26 DEF Next, Begin, Locking, Proceed, SaveStep

(* mutex_ is held exactly by the thread that is between its lock and unlock: *)
(* open_document up to the registration, save() outside OpenDocument::save.  *)
LEMMA LocksStep ==
    ASSUME TypeOK, Locks, [Next]_vars
    PROVE  Locks'
<1>. USE ManagerAssumption
<1>. USE DEF Locks, Owning, TypeOK, PCs, SaverPCs, odVars, sessionVars, IdleSaver, Idle
<1>1. ASSUME NEW s \in Sessions, NEW d \in Docs, Create(s, d) PROVE Locks'
  BY <1>1 DEF Create, Goto, Return
<1>2. ASSUME NEW s \in Sessions, NEW d \in Docs, Open(s, d) PROVE Locks'
  BY <1>2 DEF Open, Goto, Return
<1>3. ASSUME NEW s \in Sessions, NEW d \in Docs, Close(s, d) PROVE Locks'
  BY <1>3 DEF Close, Goto, Return
<1>4. ASSUME NEW s \in Sessions, NEW d \in Docs, Use(s, d, "edit") PROVE Locks'
  BY <1>4 DEF Use, Goto, Return
<1>5. ASSUME NEW s \in Sessions, NEW d \in Docs, Use(s, d, "move") PROVE Locks'
  BY <1>5 DEF Use, Goto, Return
<1>6. ASSUME NEW s \in Sessions, OpenLock(s) PROVE Locks'
  BY <1>6 DEF OpenLock, Goto, Return
<1>7. ASSUME NEW s \in Sessions, OpenLoad(s) PROVE Locks'
  BY <1>7 DEF OpenLoad, Goto, Return
<1>7a. ASSUME NEW s \in Sessions, LoadFails(s) PROVE Locks'
  BY <1>7a DEF LoadFails, Goto, Return
<1>8. ASSUME NEW s \in Sessions, OpenEnter(s) PROVE Locks'
  BY <1>8 DEF OpenEnter, Goto, Return
<1>9. ASSUME NEW s \in Sessions, OpenRegister(s) PROVE Locks'
  BY <1>9 DEF OpenRegister, Goto, Return
<1>10. ASSUME NEW s \in Sessions, ReadUsers(s) PROVE Locks'
  BY <1>10 DEF ReadUsers, Goto, Return
<1>11. ASSUME NEW s \in Sessions, ReadCursors(s) PROVE Locks'
  BY <1>11 DEF ReadCursors, Goto, Return
<1>12. ASSUME NEW s \in Sessions, Answer(s) PROVE Locks'
  BY <1>12 DEF Answer, Goto, Return
<1>13. ASSUME NEW s \in Sessions, CloseLeave(s) PROVE Locks'
  BY <1>13 DEF CloseLeave, Goto, Return
<1>14. ASSUME NEW s \in Sessions, ApplyEdit(s) PROVE Locks'
  BY <1>14 DEF ApplyEdit, Goto, Return
<1>15. ASSUME NEW s \in Sessions, ApplyMove(s) PROVE Locks'
  BY <1>15 DEF ApplyMove, Goto, Return
<1>16. ASSUME SaveBegin PROVE Locks'
  BY <1>16 DEF SaveBegin
<1>17. ASSUME SaveUnchanged PROVE Locks'
  BY <1>17 DEF SaveUnchanged
<1>18. ASSUME SaveWrite PROVE Locks'
  BY <1>18 DEF SaveWrite
<1>19. ASSUME SaveCommit PROVE Locks'
  BY <1>19 DEF SaveCommit
<1>20. ASSUME SaveRelock PROVE Locks'
  BY <1>20 DEF SaveRelock
<1>21. ASSUME SaveVisited PROVE Locks'
  BY <1>21 DEF SaveVisited
<1>22. ASSUME SaveEnd PROVE Locks'
  BY <1>22 DEF SaveEnd
<1>23. ASSUME NEW d \in Docs, SaveVisit(d) PROVE Locks'
  BY <1>23 DEF SaveVisit
<1>24. ASSUME NEW d \in Docs, SaveRemove(d) PROVE Locks'
  BY <1>24 DEF SaveRemove
<1>25. ASSUME Crash PROVE Locks'
  BY <1>25 DEF Crash
<1>26. ASSUME UNCHANGED vars PROVE Locks'
  BY <1>26 DEF vars
<1>. QED
  BY <1>1, <1>2, <1>3, <1>4, <1>5, <1>6, <1>7, <1>7a, <1>8, <1>9, <1>10, <1>11, <1>12, <1>13, <1>14, <1>15, <1>16, <1>17, <1>18, <1>19, <1>20, <1>21, <1>22, <1>23, <1>24, <1>25, <1>26 DEF Next, Begin, Locking, Proceed, SaveStep

(* A thread that is past its checks still finds what they established: the   *)
(* document exists, and its session has it open exactly when it should.      *)
LEMMA StagesStep ==
    ASSUME TypeOK, Locks, Stages, NoDangling, [Next]_vars
    PROVE  Stages'
<1>. USE ManagerAssumption
<1>. USE DEF Stages, Locks, Owning, NoDangling, Opened, NoSite, TypeOK, PCs, SaverPCs, odVars, sessionVars, IdleSaver, Idle
<1>1. ASSUME NEW s \in Sessions, NEW d \in Docs, Create(s, d) PROVE Stages'
  <2>1. {} # NoRow
    BY DEF NoRow
  <2>2. db' = [db EXCEPT ![d] = {}]
    BY <1>1 DEF Create
  <2>3. \A e \in Docs : db[e] # NoRow \/ e = d => db'[e] # NoRow
    BY <2>1, <2>2
  <2>. QED
    BY <1>1, <2>3 DEF Create, Goto, Return
<1>2. ASSUME NEW s \in Sessions, NEW d \in Docs, Open(s, d) PROVE Stages'
  BY <1>2 DEF Open, Goto, Return
<1>3. ASSUME NEW s \in Sessions, NEW d \in Docs, Close(s, d) PROVE Stages'
  BY <1>3 DEF Close, Goto, Return
<1>4. ASSUME NEW s \in Sessions, NEW d \in Docs, Use(s, d, "edit") PROVE Stages'
  BY <1>4 DEF Use, Goto, Return
<1>5. ASSUME NEW s \in Sessions, NEW d \in Docs, Use(s, d, "move") PROVE Stages'
  BY <1>5 DEF Use, Goto, Return
<1>6. ASSUME NEW s \in Sessions, OpenLock(s) PROVE Stages'
  BY <1>6 DEF OpenLock, Goto, Return
<1>7. ASSUME NEW s \in Sessions, OpenLoad(s) PROVE Stages'
  BY <1>7 DEF OpenLoad, Goto, Return
<1>7a. ASSUME NEW s \in Sessions, LoadFails(s) PROVE Stages'
  BY <1>7a DEF LoadFails, Goto, Return
<1>8. ASSUME NEW s \in Sessions, OpenEnter(s) PROVE Stages'
  BY <1>8 DEF OpenEnter, Goto, Return
<1>9. ASSUME NEW s \in Sessions, OpenRegister(s) PROVE Stages'
  BY <1>9 DEF OpenRegister, Goto, Return
<1>10. ASSUME NEW s \in Sessions, ReadUsers(s) PROVE Stages'
  BY <1>10 DEF ReadUsers, Goto, Return
<1>11. ASSUME NEW s \in Sessions, ReadCursors(s) PROVE Stages'
  BY <1>11 DEF ReadCursors, Goto, Return
<1>12. ASSUME NEW s \in Sessions, Answer(s) PROVE Stages'
  BY <1>12 DEF Answer, Goto, Return
<1>13. ASSUME NEW s \in Sessions, CloseLeave(s) PROVE Stages'
  BY <1>13 DEF CloseLeave, Goto, Return
<1>14. ASSUME NEW s \in Sessions, ApplyEdit(s) PROVE Stages'
  BY <1>14 DEF ApplyEdit, Goto, Return
<1>15. ASSUME NEW s \in Sessions, ApplyMove(s) PROVE Stages'
  BY <1>15 DEF ApplyMove, Goto, Return
<1>16. ASSUME SaveBegin PROVE Stages'
  BY <1>16 DEF SaveBegin
<1>17. ASSUME SaveUnchanged PROVE Stages'
  BY <1>17 DEF SaveUnchanged
<1>18. ASSUME SaveWrite PROVE Stages'
  BY <1>18 DEF SaveWrite
<1>19. ASSUME SaveCommit PROVE Stages'
  <2>1. content[saver.doc] # NoRow
    BY <1>19, NoRowIsNoText DEF SaveCommit
  <2>. QED
    BY <1>19, <2>1 DEF SaveCommit
<1>20. ASSUME SaveRelock PROVE Stages'
  BY <1>20 DEF SaveRelock
<1>21. ASSUME SaveVisited PROVE Stages'
  BY <1>21 DEF SaveVisited
<1>22. ASSUME SaveEnd PROVE Stages'
  BY <1>22 DEF SaveEnd
<1>23. ASSUME NEW d \in Docs, SaveVisit(d) PROVE Stages'
  BY <1>23 DEF SaveVisit
<1>24. ASSUME NEW d \in Docs, SaveRemove(d) PROVE Stages'
  BY <1>24 DEF SaveRemove
<1>25. ASSUME Crash PROVE Stages'
  BY <1>25 DEF Crash
<1>26. ASSUME UNCHANGED vars PROVE Stages'
  BY <1>26 DEF vars
<1>. QED
  BY <1>1, <1>2, <1>3, <1>4, <1>5, <1>6, <1>7, <1>7a, <1>8, <1>9, <1>10, <1>11, <1>12, <1>13, <1>14, <1>15, <1>16, <1>17, <1>18, <1>19, <1>20, <1>21, <1>22, <1>23, <1>24, <1>25, <1>26 DEF Next, Begin, Locking, Proceed, SaveStep
-----------------------------------------------------------------------------
(* The sessions counted in are finitely many. *)
LEMMA HoldersFinite ==
    ASSUME NEW d \in Docs
    PROVE  IsFiniteSet(Holders(d)) /\ Cardinality(Holders(d)) \in Nat
<1>1. Holders(d) \in SUBSET Sessions
  BY DEF Holders
<1>. QED
  BY <1>1, ManagerAssumption, FS_Subset, FS_CardinalityType

(* A document that is not in memory has nobody counted in. *)
LEMMA NobodyHoldsRemoved ==
    ASSUME NoDangling, NEW d \in Docs, d \notin open
    PROVE  Holders(d) = {}
BY DEF NoDangling, Holders, Referencing

(* The count of a document whose holders and reference count stay. *)
LEMMA SameCount ==
    ASSUME NEW d \in Docs, Holders(d)' = Holders(d), refs'[d] = refs[d],
           refs[d] = Cardinality(Holders(d))
    PROVE  refs'[d] = Cardinality(Holders(d)')
OBVIOUS

(* Every step keeps the counts: open and close move a session in or out of   *)
(* Holders and the count by one, the others leave both alone.                *)
LEMMA CountStep ==
    ASSUME TypeOK, Locks, Stages, RefCounts, NoDangling, [Next]_vars
    PROVE  RefCounts'
<1>. USE DEF odVars, sessionVars, TypeOK, Stages, Opened, Idle, NoSite
<1>1. ASSUME NEW s \in Sessions, NEW d \in Docs, Create(s, d) PROVE RefCounts'
  <2>1. open' = open /\ refs' = refs
    BY <1>1 DEF Create
  <2>2. ASSUME NEW e \in Docs PROVE Holders(e)' = Holders(e)
    BY <1>1 DEF Create, Holders, Locks, Goto, Return
  <2>. QED BY <2>1, <2>2, SameCount DEF RefCounts
<1>2. ASSUME NEW s \in Sessions, NEW d \in Docs, Open(s, d) PROVE RefCounts'
  <2>1. open' = open /\ refs' = refs
    BY <1>2 DEF Open
  <2>2. ASSUME NEW e \in Docs PROVE Holders(e)' = Holders(e)
    BY <1>2 DEF Open, Holders, Locks, Goto, Return
  <2>. QED BY <2>1, <2>2, SameCount DEF RefCounts
<1>3. ASSUME NEW s \in Sessions, NEW d \in Docs, Close(s, d) PROVE RefCounts'
  <2>1. open' = open /\ refs' = refs
    BY <1>3 DEF Close
  <2>2. ASSUME NEW e \in Docs PROVE Holders(e)' = Holders(e)
    BY <1>3 DEF Close, Holders, Locks, Goto, Return
  <2>. QED BY <2>1, <2>2, SameCount DEF RefCounts
<1>4. ASSUME NEW s \in Sessions, NEW d \in Docs, Use(s, d, "edit") PROVE RefCounts'
  <2>1. open' = open /\ refs' = refs
    BY <1>4 DEF Use
  <2>2. ASSUME NEW e \in Docs PROVE Holders(e)' = Holders(e)
    BY <1>4 DEF Use, Holders, Locks, Goto, Return
  <2>. QED BY <2>1, <2>2, SameCount DEF RefCounts
<1>5. ASSUME NEW s \in Sessions, NEW d \in Docs, Use(s, d, "move") PROVE RefCounts'
  <2>1. open' = open /\ refs' = refs
    BY <1>5 DEF Use
  <2>2. ASSUME NEW e \in Docs PROVE Holders(e)' = Holders(e)
    BY <1>5 DEF Use, Holders, Locks, Goto, Return
  <2>. QED BY <2>1, <2>2, SameCount DEF RefCounts
<1>6. ASSUME NEW s \in Sessions, OpenLock(s) PROVE RefCounts'
  <2>1. open' = open /\ refs' = refs
    BY <1>6 DEF OpenLock
  <2>2. ASSUME NEW e \in Docs PROVE Holders(e)' = Holders(e)
    BY <1>6 DEF OpenLock, Holders, Locks, Goto, Return
  <2>. QED BY <2>1, <2>2, SameCount DEF RefCounts
<1>7. ASSUME NEW s \in Sessions, OpenLoad(s) PROVE RefCounts'
  <2>0. PICK d \in Docs : d = cur[s]
    BY <1>7 DEF OpenLoad
  <2>1. d \in Docs
    BY <1>7, <2>0 DEF OpenLoad
  <2>2. ASSUME NEW e \in Docs PROVE Holders(e)' = Holders(e)
    BY <1>7, <2>0 DEF OpenLoad, Holders, Goto
  <2>3. CASE d \in open
    BY <1>7, <2>0, <2>2, <2>3, SameCount DEF OpenLoad, RefCounts
  <2>4. CASE d \notin open
    <3>1. open' = open \cup {d} /\ refs' = [refs EXCEPT ![d] = 0]
      BY <1>7, <2>0, <2>4 DEF OpenLoad
    <3>2. Cardinality(Holders(d)') = 0
      BY <2>1, <2>2, <2>4, NobodyHoldsRemoved, FS_EmptySet
    <3>3. ASSUME NEW e \in open', e # d PROVE refs'[e] = Cardinality(Holders(e)')
      BY <3>1, <3>3, <2>2 DEF RefCounts
    <3>. QED BY <2>1, <3>1, <3>2, <3>3 DEF RefCounts
  <2>. QED BY <2>3, <2>4
<1>7a. ASSUME NEW s \in Sessions, LoadFails(s) PROVE RefCounts'
  <2>1. open' = open /\ refs' = refs
    BY <1>7a DEF LoadFails
  <2>2. ASSUME NEW e \in Docs PROVE Holders(e)' = Holders(e)
    BY <1>7a DEF LoadFails, Holders, Locks, Goto, Return
  <2>. QED BY <2>1, <2>2, SameCount DEF RefCounts
<1>8. ASSUME NEW s \in Sessions, OpenEnter(s) PROVE RefCounts'
  <2>0. PICK d \in Docs : d = cur[s]
    BY <1>8 DEF OpenEnter
  <2>1. d \in Docs /\ d \in open /\ ~Opened(s, d)
    BY <1>8, <2>0 DEF OpenEnter, NoDangling, Referencing
  <2>2. open' = open /\ refs' = [refs EXCEPT ![d] = @ + 1]
    BY <1>8, <2>0 DEF OpenEnter
  <2>3. Holders(d)' = Holders(d) \cup {s} /\ s \notin Holders(d)
    BY <1>8, <2>0, <2>1 DEF OpenEnter, Holders, Goto
  <2>4. ASSUME NEW e \in Docs, e # d PROVE Holders(e)' = Holders(e)
    BY <1>8, <2>0, <2>4 DEF OpenEnter, Holders, Goto
  <2>5. Cardinality(Holders(d)') = Cardinality(Holders(d)) + 1
    <3>. DEFINE H == Holders(d)
    <3>1. IsFiniteSet(H) /\ Cardinality(H) \in Nat
      BY HoldersFinite
    <3>. HIDE DEF H
    <3>2. Cardinality(H \cup {s}) = IF s \in H THEN Cardinality(H) ELSE Cardinality(H) + 1
      BY <3>1, FS_AddElement
    <3>. QED BY <2>3, <3>1, <3>2 DEF H
  <2>6. refs'[d] = Cardinality(Holders(d)')
    BY <2>1, <2>2, <2>5 DEF RefCounts
  <2>7. ASSUME NEW e \in open, e # d PROVE refs'[e] = Cardinality(Holders(e)')
    BY <2>2, <2>4, <2>7 DEF RefCounts
  <2>. QED BY <2>2, <2>6, <2>7 DEF RefCounts
<1>9. ASSUME NEW s \in Sessions, OpenRegister(s) PROVE RefCounts'
  <2>1. open' = open /\ refs' = refs
    BY <1>9 DEF OpenRegister
  <2>2. ASSUME NEW e \in Docs PROVE Holders(e)' = Holders(e)
    BY <1>9 DEF OpenRegister, Holders, Locks, Goto, Return
  <2>. QED BY <2>1, <2>2, SameCount DEF RefCounts
<1>10. ASSUME NEW s \in Sessions, ReadUsers(s) PROVE RefCounts'
  <2>1. open' = open /\ refs' = refs
    BY <1>10 DEF ReadUsers
  <2>2. ASSUME NEW e \in Docs PROVE Holders(e)' = Holders(e)
    BY <1>10 DEF ReadUsers, Holders, Locks, Goto, Return
  <2>. QED BY <2>1, <2>2, SameCount DEF RefCounts
<1>11. ASSUME NEW s \in Sessions, ReadCursors(s) PROVE RefCounts'
  <2>1. open' = open /\ refs' = refs
    BY <1>11 DEF ReadCursors
  <2>2. ASSUME NEW e \in Docs PROVE Holders(e)' = Holders(e)
    BY <1>11 DEF ReadCursors, Holders, Locks, Goto, Return
  <2>. QED BY <2>1, <2>2, SameCount DEF RefCounts
<1>12. ASSUME NEW s \in Sessions, Answer(s) PROVE RefCounts'
  <2>1. open' = open /\ refs' = refs
    BY <1>12 DEF Answer
  <2>2. ASSUME NEW e \in Docs PROVE Holders(e)' = Holders(e)
    BY <1>12 DEF Answer, Holders, Locks, Goto, Return
  <2>. QED BY <2>1, <2>2, SameCount DEF RefCounts
<1>13. ASSUME NEW s \in Sessions, CloseLeave(s) PROVE RefCounts'
  <2>0. PICK d \in Docs : d = cur[s]
    BY <1>13 DEF CloseLeave
  <2>1. d \in Docs /\ d \in open /\ ~Opened(s, d)
    BY <1>13, <2>0 DEF CloseLeave, NoDangling, Referencing
  <2>2. open' = open /\ refs' = [refs EXCEPT ![d] = @ - 1]
    BY <1>13, <2>0 DEF CloseLeave
  <2>3. Holders(d)' = Holders(d) \ {s} /\ s \in Holders(d)
    BY <1>13, <2>0, <2>1 DEF CloseLeave, Holders, Goto, Return
  <2>4. ASSUME NEW e \in Docs, e # d PROVE Holders(e)' = Holders(e)
    BY <1>13, <2>0, <2>4 DEF CloseLeave, Holders, Goto, Return
  <2>5. Cardinality(Holders(d)') = Cardinality(Holders(d)) - 1
    <3>. DEFINE H == Holders(d)
    <3>1. IsFiniteSet(H) /\ Cardinality(H) \in Nat
      BY HoldersFinite
    <3>. HIDE DEF H
    <3>2. Cardinality(H \ {s}) = IF s \in H THEN Cardinality(H) - 1 ELSE Cardinality(H)
      BY <3>1, FS_RemoveElement
    <3>. QED BY <2>3, <3>1, <3>2 DEF H
  <2>6. refs'[d] = Cardinality(Holders(d)')
    BY <2>1, <2>2, <2>5 DEF RefCounts
  <2>7. ASSUME NEW e \in open, e # d PROVE refs'[e] = Cardinality(Holders(e)')
    BY <2>2, <2>4, <2>7 DEF RefCounts
  <2>. QED BY <2>2, <2>6, <2>7 DEF RefCounts
<1>14. ASSUME NEW s \in Sessions, ApplyEdit(s) PROVE RefCounts'
  <2>1. open' = open /\ refs' = refs
    BY <1>14 DEF ApplyEdit
  <2>2. ASSUME NEW e \in Docs PROVE Holders(e)' = Holders(e)
    BY <1>14 DEF ApplyEdit, Holders, Locks, Goto, Return
  <2>. QED BY <2>1, <2>2, SameCount DEF RefCounts
<1>15. ASSUME NEW s \in Sessions, ApplyMove(s) PROVE RefCounts'
  <2>1. open' = open /\ refs' = refs
    BY <1>15 DEF ApplyMove
  <2>2. ASSUME NEW e \in Docs PROVE Holders(e)' = Holders(e)
    BY <1>15 DEF ApplyMove, Holders, Locks, Goto, Return
  <2>. QED BY <2>1, <2>2, SameCount DEF RefCounts
<1>16. ASSUME SaveBegin PROVE RefCounts'
  <2>1. open' = open /\ refs' = refs
    BY <1>16 DEF SaveBegin
  <2>2. ASSUME NEW e \in Docs PROVE Holders(e)' = Holders(e)
    BY <1>16 DEF SaveBegin, Holders, Locks
  <2>. QED BY <2>1, <2>2, SameCount DEF RefCounts
<1>17. ASSUME SaveUnchanged PROVE RefCounts'
  <2>1. open' = open /\ refs' = refs
    BY <1>17 DEF SaveUnchanged
  <2>2. ASSUME NEW e \in Docs PROVE Holders(e)' = Holders(e)
    BY <1>17 DEF SaveUnchanged, Holders, Locks
  <2>. QED BY <2>1, <2>2, SameCount DEF RefCounts
<1>18. ASSUME SaveWrite PROVE RefCounts'
  <2>1. open' = open /\ refs' = refs
    BY <1>18 DEF SaveWrite
  <2>2. ASSUME NEW e \in Docs PROVE Holders(e)' = Holders(e)
    BY <1>18 DEF SaveWrite, Holders, Locks
  <2>. QED BY <2>1, <2>2, SameCount DEF RefCounts
<1>19. ASSUME SaveCommit PROVE RefCounts'
  <2>1. open' = open /\ refs' = refs
    BY <1>19 DEF SaveCommit
  <2>2. ASSUME NEW e \in Docs PROVE Holders(e)' = Holders(e)
    BY <1>19 DEF SaveCommit, Holders, Locks
  <2>. QED BY <2>1, <2>2, SameCount DEF RefCounts
<1>20. ASSUME SaveRelock PROVE RefCounts'
  <2>1. open' = open /\ refs' = refs
    BY <1>20 DEF SaveRelock
  <2>2. ASSUME NEW e \in Docs PROVE Holders(e)' = Holders(e)
    BY <1>20 DEF SaveRelock, Holders, Locks
  <2>. QED BY <2>1, <2>2, SameCount DEF RefCounts
<1>21. ASSUME SaveVisited PROVE RefCounts'
  <2>1. open' = open /\ refs' = refs
    BY <1>21 DEF SaveVisited
  <2>2. ASSUME NEW e \in Docs PROVE Holders(e)' = Holders(e)
    BY <1>21 DEF SaveVisited, Holders, Locks
  <2>. QED BY <2>1, <2>2, SameCount DEF RefCounts
<1>22. ASSUME SaveEnd PROVE RefCounts'
  <2>1. open' = open /\ refs' = refs
    BY <1>22 DEF SaveEnd
  <2>2. ASSUME NEW e \in Docs PROVE Holders(e)' = Holders(e)
    BY <1>22 DEF SaveEnd, Holders, Locks
  <2>. QED BY <2>1, <2>2, SameCount DEF RefCounts
<1>23. ASSUME NEW d \in Docs, SaveVisit(d) PROVE RefCounts'
  <2>1. open' = open /\ refs' = refs
    BY <1>23 DEF SaveVisit
  <2>2. ASSUME NEW e \in Docs PROVE Holders(e)' = Holders(e)
    BY <1>23 DEF SaveVisit, Holders, Locks
  <2>. QED BY <2>1, <2>2, SameCount DEF RefCounts
<1>24. ASSUME NEW d \in Docs, SaveRemove(d) PROVE RefCounts'
  <2>1. open' \subseteq open /\ refs' = refs
    BY <1>24 DEF SaveRemove
  <2>2. ASSUME NEW e \in Docs PROVE Holders(e)' = Holders(e)
    BY <1>24 DEF SaveRemove, Holders
  <2>. QED BY <2>1, <2>2, SameCount DEF RefCounts
<1>25. ASSUME Crash PROVE RefCounts'
  BY <1>25 DEF Crash, RefCounts
<1>26. ASSUME UNCHANGED vars PROVE RefCounts'
  BY <1>26 DEF vars, RefCounts, Holders
<1>. QED
  BY <1>1, <1>2, <1>3, <1>4, <1>5, <1>6, <1>7, <1>7a, <1>8, <1>9, <1>10, <1>11, <1>12, <1>13, <1>14, <1>15, <1>16, <1>17, <1>18, <1>19, <1>20, <1>21, <1>22, <1>23, <1>24, <1>25, <1>26 DEF Next, Begin, Locking, Proceed, SaveStep

(* Every step keeps references valid: only the saver removes a document, and *)
(* one that somebody references has a count above zero.                      *)
LEMMA DanglingStep ==
    ASSUME TypeOK, Locks, Stages, RefCounts, NoDangling, [Next]_vars
    PROVE  NoDangling'
<1>. USE DEF NoDangling, Referencing, Locks, Owning, Stages, Opened, NoSite, TypeOK, odVars, sessionVars, IdleSaver, Idle
<1>1. ASSUME NEW s \in Sessions, NEW d \in Docs, Create(s, d) PROVE NoDangling'
  BY <1>1 DEF Create, Goto, Return
<1>2. ASSUME NEW s \in Sessions, NEW d \in Docs, Open(s, d) PROVE NoDangling'
  BY <1>2 DEF Open, Goto, Return
<1>3. ASSUME NEW s \in Sessions, NEW d \in Docs, Close(s, d) PROVE NoDangling'
  BY <1>3 DEF Close, Goto, Return
<1>4. ASSUME NEW s \in Sessions, NEW d \in Docs, Use(s, d, "edit") PROVE NoDangling'
  BY <1>4 DEF Use, Goto, Return
<1>5. ASSUME NEW s \in Sessions, NEW d \in Docs, Use(s, d, "move") PROVE NoDangling'
  BY <1>5 DEF Use, Goto, Return
<1>6. ASSUME NEW s \in Sessions, OpenLock(s) PROVE NoDangling'
  BY <1>6 DEF OpenLock, Goto, Return
<1>7. ASSUME NEW s \in Sessions, OpenLoad(s) PROVE NoDangling'
  BY <1>7 DEF OpenLoad, Goto, Return
<1>7a. ASSUME NEW s \in Sessions, LoadFails(s) PROVE NoDangling'
  BY <1>7a DEF LoadFails, Goto, Return
<1>8. ASSUME NEW s \in Sessions, OpenEnter(s) PROVE NoDangling'
  BY <1>8 DEF OpenEnter, Goto, Return
<1>9. ASSUME NEW s \in Sessions, OpenRegister(s) PROVE NoDangling'
  BY <1>9 DEF OpenRegister, Goto, Return
<1>10. ASSUME NEW s \in Sessions, ReadUsers(s) PROVE NoDangling'
  BY <1>10 DEF ReadUsers, Goto, Return
<1>11. ASSUME NEW s \in Sessions, ReadCursors(s) PROVE NoDangling'
  BY <1>11 DEF ReadCursors, Goto, Return
<1>12. ASSUME NEW s \in Sessions, Answer(s) PROVE NoDangling'
  BY <1>12 DEF Answer, Goto, Return
<1>13. ASSUME NEW s \in Sessions, CloseLeave(s) PROVE NoDangling'
  BY <1>13 DEF CloseLeave, Goto, Return
<1>14. ASSUME NEW s \in Sessions, ApplyEdit(s) PROVE NoDangling'
  BY <1>14 DEF ApplyEdit, Goto, Return
<1>15. ASSUME NEW s \in Sessions, ApplyMove(s) PROVE NoDangling'
  BY <1>15 DEF ApplyMove, Goto, Return
<1>16. ASSUME SaveBegin PROVE NoDangling'
  BY <1>16 DEF SaveBegin
<1>17. ASSUME SaveUnchanged PROVE NoDangling'
  BY <1>17 DEF SaveUnchanged
<1>18. ASSUME SaveWrite PROVE NoDangling'
  BY <1>18 DEF SaveWrite
<1>19. ASSUME SaveCommit PROVE NoDangling'
  BY <1>19 DEF SaveCommit
<1>20. ASSUME SaveRelock PROVE NoDangling'
  BY <1>20 DEF SaveRelock
<1>21. ASSUME SaveVisited PROVE NoDangling'
  BY <1>21 DEF SaveVisited
<1>22. ASSUME SaveEnd PROVE NoDangling'
  BY <1>22 DEF SaveEnd
<1>23. ASSUME NEW d \in Docs, SaveVisit(d) PROVE NoDangling'
  BY <1>23 DEF SaveVisit
<1>24. ASSUME NEW d \in Docs, SaveRemove(d) PROVE NoDangling'
  <2>1. mutex = Saver
    BY <1>24 DEF SaveRemove
  <2>2. CASE refs[d] # 0
    BY <1>24, <2>2 DEF SaveRemove
  <2>3. CASE refs[d] = 0
    <3>1. ASSUME NEW s \in Sessions PROVE pc[s] \notin Owning
      BY <2>1, ManagerAssumption
    <3>2. d \in open => Holders(d) = {}
      BY <2>3, HoldersFinite, FS_EmptySet DEF RefCounts
    <3>3. ASSUME NEW s \in Sessions PROVE ~Opened(s, d) \/ d \notin open
      BY <3>2 DEF Holders
    <3>4. ASSUME NEW s \in Sessions, pc[s] \in Referencing PROVE cur[s] # d \/ d \notin open
      BY <3>1, <3>2, <3>3, <3>4 DEF Holders
    <3>. QED BY <1>24, <3>3, <3>4 DEF SaveRemove
  <2>. QED BY <2>2, <2>3
<1>25. ASSUME Crash PROVE NoDangling'
  BY <1>25 DEF Crash
<1>26. ASSUME UNCHANGED vars PROVE NoDangling'
  BY <1>26 DEF vars
<1>. QED
  BY <1>1, <1>2, <1>3, <1>4, <1>5, <1>6, <1>7, <1>7a, <1>8, <1>9, <1>10, <1>11, <1>12, <1>13, <1>14, <1>15, <1>16, <1>17, <1>18, <1>19, <1>20, <1>21, <1>22, <1>23, <1>24, <1>25, <1>26 DEF Next, Begin, Locking, Proceed, SaveStep

-----------------------------------------------------------------------------
(* The server starts with nothing in memory. *)
LEMMA InitIInv == Init => IInv
<1>. SUFFICES ASSUME Init PROVE IInv
  OBVIOUS
<1>1. TypeOK
  BY DEF Init, TypeOK, PCs, SaverPCs, Contents, NoSite, NoSnap, IdleSaver
<1>2. Locks
  BY ManagerAssumption DEF Init, Locks, Owning, IdleSaver
<1>3. Stages
  BY DEF Init, Stages, Opened, IdleSaver
<1>4. RefCounts /\ NoDangling
  BY DEF Init, RefCounts, NoDangling, Referencing, Opened, IdleSaver
<1>. QED BY <1>1, <1>2, <1>3, <1>4 DEF IInv

(* The inductive invariant: types, who owns mutex_, what each thread has     *)
(* checked, the reference counts and the validity of references need each    *)
(* other.                                                                    *)
THEOREM Invariance == Spec => []IInv
<1>1. IInv /\ [Next]_vars => IInv'
  BY TypeStep, LocksStep, StagesStep, CountStep, DanglingStep DEF IInv
<1>. QED BY InitIInv, <1>1, PTL DEF Spec

(* Every variable keeps its type: no field is read before it is set, and the *)
(* text of a document that a request works on is in the database.            *)
THEOREM TypeCorrect == Spec => []TypeOK
BY Invariance, PTL DEF IInv

(* reference_count_ counts the sessions that are in a document exactly, also *)
(* between the two steps of opening and of closing it.                       *)
THEOREM CountsAreRight == Spec => []RefCounts
BY Invariance, PTL DEF IInv

(* No thread uses an OpenDocument that the saver has removed, although       *)
(* requests use it without holding mutex_.                                   *)
THEOREM NothingDangles == Spec => []NoDangling
BY Invariance, PTL DEF IInv

-----------------------------------------------------------------------------
(* Only create_document and save() write a document to the database, the one *)
(* where there was none and the other what is in memory: a step that leaves  *)
(* out both leaves the database alone.                                       *)
LEMMA WhoWrites ==
    ASSUME [Next]_vars, db' # db
    PROVE  \/ \E s \in Sessions, d \in Docs : Create(s, d)
           \/ SaveCommit
BY DEF Next, vars, Begin, Locking, Proceed, SaveStep, Open, OpenLock, OpenLoad, LoadFails,
       OpenEnter, OpenRegister, ReadUsers, ReadCursors, Answer, Close, CloseLeave, Use, ApplyEdit,
       ApplyMove, SaveBegin, SaveVisit, SaveUnchanged, SaveWrite, SaveRelock, SaveVisited,
       SaveRemove, SaveEnd, Crash

(* Edits are only ever added to a text in memory, and a text is loaded when  *)
(* its document is not in memory: what is in memory never loses an edit.     *)
LEMMA MemoryKeepsEdits ==
    ASSUME IInv, [Next]_vars, NEW d \in Docs, d \in open'
    PROVE  IF d \in open THEN content[d] \subseteq content'[d] ELSE content'[d] = db[d]
<1>. USE DEF IInv, TypeOK, Contents
<1>1. ASSUME NEW s \in Sessions, OpenLoad(s)
      PROVE  IF d \in open THEN content[d] \subseteq content'[d] ELSE content'[d] = db[d]
  <2>1. CASE cur[s] \in open
    BY <1>1, <2>1 DEF OpenLoad, odVars
  <2>2. CASE cur[s] \notin open
    BY <1>1, <2>2 DEF OpenLoad
  <2>. QED BY <2>1, <2>2
<1>2. ASSUME NEW s \in Sessions, ApplyEdit(s)
      PROVE  IF d \in open THEN content[d] \subseteq content'[d] ELSE content'[d] = db[d]
  <2>1. open' = open /\ content' = [content EXCEPT ![cur[s]] = @ \cup {edits[cur[s]] + 1}]
    BY <1>2 DEF ApplyEdit
  <2>. QED BY <2>1
<1>3. CASE /\ ~\E s \in Sessions : OpenLoad(s) \/ ApplyEdit(s)
           /\ content' = content /\ open' \subseteq open
  BY <1>3
<1>4. \/ \E s \in Sessions : OpenLoad(s) \/ ApplyEdit(s)
      \/ content' = content /\ open' \subseteq open
  <2>. USE DEF odVars
  <2>1. ASSUME NEW s \in Sessions, Begin(s) PROVE content' = content /\ open' = open
    BY <2>1 DEF Begin, Create, Open, Close, Use
  <2>2. ASSUME NEW s \in Sessions, Locking(s) \/ Proceed(s)
        PROVE  \/ OpenLoad(s) \/ ApplyEdit(s)
               \/ content' = content /\ open' = open
    BY <2>2 DEF Locking, Proceed, OpenLock, LoadFails, OpenEnter, OpenRegister, ReadUsers, ReadCursors,
                Answer, CloseLeave, ApplyMove
  <2>3. ASSUME NEW e \in Docs, SaveVisit(e) \/ SaveRemove(e)
        PROVE  content' = content /\ open' \subseteq open
    BY <2>3 DEF SaveVisit, SaveRemove
  <2>4. ASSUME SaveStep PROVE content' = content /\ open' \subseteq open
    BY <2>3, <2>4 DEF SaveStep, SaveBegin, SaveUnchanged, SaveWrite, SaveCommit, SaveRelock,
                      SaveVisited, SaveEnd
  <2>5. ASSUME Crash \/ UNCHANGED vars PROVE content' = content /\ open' \subseteq open
    BY <2>5 DEF Crash, vars
  <2>. QED BY <2>1, <2>2, <2>4, <2>5 DEF Next
<1>. QED BY <1>1, <1>2, <1>3, <1>4

LEMMA BehindStep ==
    ASSUME IInv, DbBehindMemory, [Next]_vars
    PROVE  DbBehindMemory'
<1>. SUFFICES ASSUME NEW d \in Docs, d \in open' PROVE db'[d] \subseteq content'[d]
  <2>1. open' \subseteq Docs
    BY TypeStep DEF IInv, TypeOK
  <2>. QED BY <2>1 DEF DbBehindMemory
<1>1. CASE db' = db
  BY <1>1, MemoryKeepsEdits DEF DbBehindMemory
<1>2. ASSUME NEW s \in Sessions, NEW e \in Docs, Create(s, e)
      PROVE  db'[d] \subseteq content'[d]
  <2>1. open' = open /\ content' = content /\ db' = [db EXCEPT ![e] = {}]
    BY <1>2 DEF Create, odVars
  <2>. QED BY <2>1 DEF DbBehindMemory, IInv, TypeOK
<1>3. ASSUME SaveCommit, db' # db PROVE db'[d] \subseteq content'[d]
  <2>1. open' = open /\ content' = content
        /\ db' = [db EXCEPT ![saver.doc] = content[saver.doc]]
    BY <1>3 DEF SaveCommit
  <2>. QED BY <2>1 DEF DbBehindMemory, IInv, TypeOK
<1>. QED BY <1>1, <1>2, <1>3, WhoWrites

(* What is saved is never ahead of what is in memory. *)
THEOREM SavedIsBehind == Spec => []DbBehindMemory
<1>1. Init => DbBehindMemory
  BY DEF Init, DbBehindMemory
<1>. QED BY <1>1, Invariance, BehindStep, PTL DEF Spec

LEMMA KeepsStep ==
    ASSUME IInv, DbBehindMemory, [Next]_vars, NEW d \in Docs, db[d] # NoRow
    PROVE  db'[d] # NoRow /\ db[d] \subseteq db'[d]
<1>1. CASE db' = db
  BY <1>1
<1>2. ASSUME NEW s \in Sessions, NEW e \in Docs, Create(s, e)
      PROVE  db'[d] # NoRow /\ db[d] \subseteq db'[d]
  BY <1>2 DEF Create, IInv, TypeOK
<1>3. ASSUME SaveCommit, db' # db
      PROVE  db'[d] # NoRow /\ db[d] \subseteq db'[d]
  <2>1. db' = [db EXCEPT ![saver.doc] = content[saver.doc]] /\ saver.doc \in open
    BY <1>3 DEF SaveCommit, IInv, NoDangling
  <2>2. db[saver.doc] \subseteq content[saver.doc] /\ content[saver.doc] # NoRow
    BY <2>1, NoRowIsNoText DEF DbBehindMemory, IInv, TypeOK
  <2>. QED BY <2>1, <2>2 DEF IInv, TypeOK
<1>. QED BY <1>1, <1>2, <1>3, WhoWrites

(* Saving never takes an edit away from the database, nor a document: not    *)
(* when commits fail, nor when a document is saved, removed and loaded while *)
(* others use it.                                                            *)
THEOREM SavingKeepsEdits == Spec => DbKeepsEdits
<1>1. IInv /\ DbBehindMemory /\ [Next]_vars =>
        [\A d \in Docs : db[d] # NoRow => db'[d] # NoRow /\ db[d] \subseteq db'[d]]_vars
  BY KeepsStep
<1>. QED BY <1>1, Invariance, SavedIsBehind, PTL DEF Spec, DbKeepsEdits

-----------------------------------------------------------------------------
(* A step that neither loads, edits, creates nor commits leaves texts,       *)
(* marks and database alone.                                                 *)
LEMMA WhoMarks ==
    ASSUME [Next]_vars
    PROVE  \/ \E s \in Sessions : OpenLoad(s) \/ ApplyEdit(s)
           \/ \E s \in Sessions, d \in Docs : Create(s, d)
           \/ SaveCommit
           \/ UNCHANGED <<content, changed, db>> /\ open' \subseteq open
<1>. USE DEF odVars
<1>1. ASSUME NEW s \in Sessions, Begin(s)
      PROVE  \/ \E d \in Docs : Create(s, d)
             \/ UNCHANGED <<content, changed, db, open>>
  BY <1>1 DEF Begin, Open, Close, Use
<1>2. ASSUME NEW s \in Sessions, Locking(s) \/ Proceed(s)
      PROVE  \/ OpenLoad(s) \/ ApplyEdit(s)
             \/ UNCHANGED <<content, changed, db, open>>
  BY <1>2 DEF Locking, Proceed, OpenLock, LoadFails, OpenEnter, OpenRegister, ReadUsers, ReadCursors,
              Answer, CloseLeave, ApplyMove
<1>3. ASSUME NEW d \in Docs, SaveVisit(d) \/ SaveRemove(d)
      PROVE  UNCHANGED <<content, changed, db>> /\ open' \subseteq open
  BY <1>3 DEF SaveVisit, SaveRemove
<1>4. ASSUME SaveStep, ~SaveCommit
      PROVE  UNCHANGED <<content, changed, db>> /\ open' \subseteq open
  BY <1>3, <1>4 DEF SaveStep, SaveBegin, SaveUnchanged, SaveWrite, SaveRelock, SaveVisited,
                    SaveEnd
<1>5. ASSUME Crash \/ UNCHANGED vars
      PROVE  UNCHANGED <<content, changed, db>> /\ open' \subseteq open
  BY <1>5 DEF Crash, vars
<1>. QED BY <1>1, <1>2, <1>4, <1>5 DEF Next

LEMMA CleanStep ==
    ASSUME IInv, ~CommitCanFail, CleanIsSaved, [Next]_vars
    PROVE  CleanIsSaved'
<1>. SUFFICES ASSUME NEW d \in Docs, d \in open', ~changed'[d] PROVE db'[d] = content'[d]
  <2>1. open' \subseteq Docs
    BY TypeStep DEF IInv, TypeOK
  <2>. QED BY <2>1 DEF CleanIsSaved
<1>. USE DEF IInv, TypeOK
<1>1. ASSUME NEW s \in Sessions, OpenLoad(s) PROVE db'[d] = content'[d]
  <2>1. db' = db
    BY <1>1 DEF OpenLoad
  <2>2. CASE cur[s] \in open
    BY <1>1, <2>1, <2>2 DEF OpenLoad, odVars, CleanIsSaved
  <2>3. CASE cur[s] \notin open
    <3>1. CASE d \notin open
      BY <2>1, <3>1, MemoryKeepsEdits
    <3>2. CASE d \in open
      <4>1. d # cur[s]
        BY <2>3, <3>2
      <4>2. content' = [content EXCEPT ![cur[s]] = db[cur[s]]]
            /\ changed' = [changed EXCEPT ![cur[s]] = FALSE]
        BY <1>1, <2>3 DEF OpenLoad
      <4>. QED BY <2>1, <3>2, <4>1, <4>2 DEF CleanIsSaved
    <3>. QED BY <3>1, <3>2
  <2>. QED BY <2>2, <2>3
<1>2. ASSUME NEW s \in Sessions, ApplyEdit(s) PROVE db'[d] = content'[d]
  <2>1. /\ db' = db /\ open' = open
        /\ changed' = [changed EXCEPT ![cur[s]] = TRUE]
        /\ content' = [content EXCEPT ![cur[s]] = @ \cup {edits[cur[s]] + 1}]
    BY <1>2 DEF ApplyEdit
  <2>2. d # cur[s] \/ changed'[d]
    BY <2>1
  <2>3. d # cur[s] => content'[d] = content[d] /\ changed'[d] = changed[d]
    BY <2>1
  <2>. QED BY <2>1, <2>2, <2>3 DEF CleanIsSaved
<1>3. ASSUME NEW s \in Sessions, NEW e \in Docs, Create(s, e) PROVE db'[d] = content'[d]
  <2>1. /\ db[e] = NoRow /\ db' = [db EXCEPT ![e] = {}]
        /\ UNCHANGED <<open, content, changed>>
    BY <1>3 DEF Create, odVars
  <2>2. db[d] = content[d] /\ content[d] # NoRow
    BY <2>1, NoRowIsNoText DEF CleanIsSaved
  <2>. QED BY <2>1, <2>2
<1>4. ASSUME SaveCommit PROVE db'[d] = content'[d]
  <2>1. /\ db' = [db EXCEPT ![saver.doc] = content[saver.doc]]
        /\ changed' = [changed EXCEPT ![saver.doc] = FALSE]
        /\ UNCHANGED <<open, content>>
    BY <1>4 DEF SaveCommit
  <2>. QED BY <2>1 DEF CleanIsSaved
<1>5. CASE UNCHANGED <<content, changed, db>> /\ open' \subseteq open
  BY <1>5 DEF CleanIsSaved
<1>. QED BY <1>1, <1>2, <1>3, <1>4, <1>5, WhoMarks

(* If commits succeed, a document that is not marked as changed is the one   *)
(* in the database, so skipping it when saving loses nothing.                *)
THEOREM CleanDocumentsAreSaved == ASSUME ~CommitCanFail PROVE Spec => []CleanIsSaved
<1>1. Init => CleanIsSaved
  BY DEF Init, CleanIsSaved
<1>2. IInv /\ CleanIsSaved /\ [Next]_vars => CleanIsSaved'
  BY CleanStep
<1>. QED BY <1>1, <1>2, Invariance, PTL DEF Spec

-----------------------------------------------------------------------------
(* Why sites are distinct: a document gives out its site ids in order, and   *)
(* an operation that is being applied has its session's site id.             *)
SitesBelow ==
    /\ \A d \in open : \A s \in Holders(d) : SiteOf(s, d) \in Nat /\ SiteOf(s, d) < nextSite[d]
    /\ \A s \in Sessions : pc[s] \in {"edit", "move"} => site[s] = siteIds[s][cur[s]]

SitesInv == SitesBelow /\ SitesDistinct

(* A step that leaves who is counted in, their sites and the cursors alone. *)
LEMMA SameSites ==
    ASSUME SitesInv, TypeOK, open' \subseteq open, UNCHANGED <<cursors, nextSite>>,
           \A d \in Docs : Holders(d)' = Holders(d),
           \A d \in Docs : \A s \in Holders(d) : SiteOf(s, d)' = SiteOf(s, d)
    PROVE  /\ SitesDistinct'
           /\ \A d \in open' : \A s \in Holders(d)' :
                 SiteOf(s, d)' \in Nat /\ SiteOf(s, d)' < nextSite'[d]
<1>1. ASSUME NEW d \in open'
      PROVE  /\ \A s, t \in Holders(d)' : SiteOf(s, d)' = SiteOf(t, d)' => s = t
             /\ cursors'[d] = {SiteOf(s, d)' : s \in Holders(d)'}
             /\ \A s \in Holders(d)' : SiteOf(s, d)' \in Nat /\ SiteOf(s, d)' < nextSite'[d]
  <2>1. d \in open /\ d \in Docs
    BY DEF TypeOK
  <2>. QED BY <2>1 DEF SitesInv, SitesBelow, SitesDistinct
<1>. QED BY <1>1 DEF SitesDistinct

(* Most steps are of that kind. *)
LEMMA SitesQuiet ==
    ASSUME IInv, SitesInv,
           \/ \E s \in Sessions, d \in Docs :
                 \/ Create(s, d) \/ Open(s, d) \/ Close(s, d)
                 \/ Use(s, d, "edit") \/ Use(s, d, "move")
           \/ \E s \in Sessions :
                 \/ OpenLock(s) \/ LoadFails(s) \/ OpenRegister(s) \/ ReadUsers(s) \/ ReadCursors(s)
                 \/ Answer(s)
           \/ SaveStep
           \/ UNCHANGED vars
    PROVE  SitesInv'
<1>. USE DEF IInv, TypeOK, Stages, Opened, NoSite, Goto, Return, Idle
<1>1. ASSUME NEW s \in Sessions, NEW d \in Docs,
             Create(s, d) \/ Open(s, d) \/ Close(s, d) \/ Use(s, d, "edit") \/ Use(s, d, "move")
      PROVE  SitesInv'
  <2>1. /\ UNCHANGED <<open, cursors, nextSite>>
        /\ cur' = [cur EXCEPT ![s] = d] /\ pc[s] = "idle"
    BY <1>1 DEF Create, Open, Close, Use, odVars
  <2>2. \/ /\ UNCHANGED <<siteIds, site>>
           /\ pc' = [pc EXCEPT ![s] = "lock"]
        \/ /\ UNCHANGED siteIds
           /\ Opened(s, d)
           /\ site' = [site EXCEPT ![s] = siteIds[s][d]]
           /\ \E l \in {"edit", "move"} : pc' = [pc EXCEPT ![s] = l]
        \/ /\ Opened(s, d)
           /\ site' = [site EXCEPT ![s] = siteIds[s][d]]
           /\ siteIds' = [siteIds EXCEPT ![s][d] = NoSite]
           /\ pc' = [pc EXCEPT ![s] = "leave"]
    BY <1>1 DEF Create, Open, Close, Use
  <2>3. ASSUME NEW e \in Docs
        PROVE  /\ Holders(e)' = Holders(e)
               /\ \A t \in Holders(e) : SiteOf(t, e)' = SiteOf(t, e)
    <3>1. \A t \in Sessions : t # s =>
              /\ siteIds'[t] = siteIds[t] /\ pc'[t] = pc[t] /\ cur'[t] = cur[t] /\ site'[t] = site[t]
      BY <2>1, <2>2
    <3>2. s \in Holders(e)' <=> s \in Holders(e)
      BY <2>1, <2>2 DEF Holders
    <3>3. s \in Holders(e) => SiteOf(s, e)' = SiteOf(s, e)
      BY <2>1, <2>2 DEF Holders, SiteOf
    <3>. QED BY <3>1, <3>2, <3>3 DEF Holders, SiteOf
  <2>4. \A t \in Sessions : pc'[t] \in {"edit", "move"} => site'[t] = siteIds'[t][cur'[t]]
    BY <2>1, <2>2 DEF SitesInv, SitesBelow
  <2>. QED BY <2>1, <2>3, <2>4, SameSites DEF SitesInv, SitesBelow
<1>2. ASSUME NEW s \in Sessions,
             OpenLock(s) \/ LoadFails(s) \/ ReadUsers(s) \/ ReadCursors(s) \/ Answer(s)
      PROVE  SitesInv'
  <2>1. /\ UNCHANGED <<open, cursors, nextSite, siteIds>>
        /\ pc[s] \in {"lock", "load", "users", "cursors", "answer"}
        /\ \/ /\ UNCHANGED <<cur, site>>
              /\ \E l \in {"load", "cursors", "answer"} : pc' = [pc EXCEPT ![s] = l]
           \/ /\ pc' = [pc EXCEPT ![s] = "idle"]
              /\ cur' = [cur EXCEPT ![s] = NoDoc]
              /\ site' = [site EXCEPT ![s] = NoSite]
    BY <1>2 DEF OpenLock, LoadFails, ReadUsers, ReadCursors, Answer, odVars
  <2>2. ASSUME NEW e \in Docs
        PROVE  /\ Holders(e)' = Holders(e)
               /\ \A t \in Holders(e) : SiteOf(t, e)' = SiteOf(t, e)
    <3>1. \A t \in Sessions : t # s =>
              pc'[t] = pc[t] /\ cur'[t] = cur[t] /\ site'[t] = site[t]
      BY <2>1
    <3>2. s \in Holders(e)' <=> s \in Holders(e)
      BY <2>1 DEF Holders
    <3>3. s \in Holders(e) => SiteOf(s, e)' = SiteOf(s, e)
      BY <2>1 DEF Holders, SiteOf
    <3>. QED BY <2>1, <3>1, <3>2, <3>3 DEF Holders, SiteOf
  <2>3. \A t \in Sessions : pc'[t] \in {"edit", "move"} => site'[t] = siteIds'[t][cur'[t]]
    <3>1. \A t \in Sessions : t # s =>
              pc'[t] = pc[t] /\ cur'[t] = cur[t] /\ site'[t] = site[t]
      BY <2>1
    <3>2. pc'[s] \notin {"edit", "move"}
      BY <2>1
    <3>. QED BY <2>1, <3>1, <3>2 DEF SitesInv, SitesBelow
  <2>. QED BY <2>1, <2>2, <2>3, SameSites DEF SitesInv, SitesBelow
<1>3. ASSUME NEW s \in Sessions, OpenRegister(s) PROVE SitesInv'
  <2>1. /\ UNCHANGED <<open, cursors, nextSite, cur, site>>
        /\ pc[s] = "register" /\ site[s] \in Nat
        /\ siteIds' = [siteIds EXCEPT ![s][cur[s]] = site[s]]
        /\ pc' = [pc EXCEPT ![s] = "users"]
    BY <1>3 DEF OpenRegister, odVars
  <2>2. ASSUME NEW e \in Docs
        PROVE  /\ Holders(e)' = Holders(e)
               /\ \A t \in Holders(e) : SiteOf(t, e)' = SiteOf(t, e)
    BY <2>1 DEF Holders, SiteOf
  <2>3. \A t \in Sessions : pc'[t] \in {"edit", "move"} => site'[t] = siteIds'[t][cur'[t]]
    BY <2>1 DEF SitesInv, SitesBelow
  <2>. QED BY <2>1, <2>2, <2>3, SameSites DEF SitesInv, SitesBelow
<1>4. ASSUME SaveStep \/ UNCHANGED vars PROVE SitesInv'
  <2>1. ASSUME NEW d \in Docs, SaveVisit(d) \/ SaveRemove(d)
        PROVE  UNCHANGED <<cursors, nextSite, siteIds, pc, cur, site>> /\ open' \subseteq open
    BY <2>1 DEF SaveVisit, SaveRemove, odVars, sessionVars
  <2>2. UNCHANGED <<cursors, nextSite, siteIds, pc, cur, site>> /\ open' \subseteq open
    BY <1>4, <2>1 DEF SaveStep, SaveBegin, SaveUnchanged, SaveWrite, SaveCommit, SaveRelock,
                      SaveVisited, SaveEnd, odVars, sessionVars, vars
  <2>3. ASSUME NEW e \in Docs
        PROVE  /\ Holders(e)' = Holders(e)
               /\ \A t \in Holders(e) : SiteOf(t, e)' = SiteOf(t, e)
    BY <2>2 DEF Holders, SiteOf
  <2>. QED BY <2>2, <2>3, SameSites DEF SitesInv, SitesBelow
<1>. QED BY <1>1, <1>2, <1>3, <1>4

(* The steps that change who is counted in, sites or cursors. *)
LEMMA SitesStep ==
    ASSUME IInv, SitesInv, [Next]_vars
    PROVE  SitesInv'
<1>. USE DEF IInv, TypeOK, Opened, NoSite
<1>1. ASSUME NEW s \in Sessions, OpenLoad(s) PROVE SitesInv'
  <2>0. PICK d \in Docs : d = cur[s]
    BY <1>1 DEF OpenLoad, Stages
  <2>1. /\ UNCHANGED <<siteIds, cur, site>> /\ pc[s] = "load"
        /\ pc' = [pc EXCEPT ![s] = "enter"]
    BY <1>1 DEF OpenLoad, Goto
  <2>2. ASSUME NEW e \in Docs
        PROVE  /\ Holders(e)' = Holders(e)
               /\ \A t \in Holders(e) : SiteOf(t, e)' = SiteOf(t, e)
    BY <2>1 DEF Holders, SiteOf
  <2>3. \A t \in Sessions : pc'[t] \in {"edit", "move"} => site'[t] = siteIds'[t][cur'[t]]
    BY <2>1 DEF SitesInv, SitesBelow
  <2>4. CASE d \in open
    <3>1. UNCHANGED <<open, cursors, nextSite>>
      BY <1>1, <2>0, <2>4 DEF OpenLoad, odVars
    <3>. QED BY <2>2, <2>3, <3>1, SameSites DEF SitesInv, SitesBelow
  <2>5. CASE d \notin open
    <3>1. /\ open' = open \cup {d}
          /\ cursors' = [cursors EXCEPT ![d] = {}]
          /\ nextSite' = [nextSite EXCEPT ![d] = ProfileSite + 1]
      BY <1>1, <2>0, <2>5 DEF OpenLoad
    <3>2. Holders(d)' = {} /\ cursors'[d] = {}
      BY <2>2, <2>5, <3>1, NobodyHoldsRemoved
    <3>3. ASSUME NEW e \in open
          PROVE  e \in Docs /\ e # d /\ cursors'[e] = cursors[e] /\ nextSite'[e] = nextSite[e]
      BY <2>5, <3>1
    <3>4. \A e \in open : /\ \A t, u \in Holders(e)' : SiteOf(t, e)' = SiteOf(u, e)' => t = u
                         /\ cursors'[e] = {SiteOf(t, e)' : t \in Holders(e)'}
                         /\ \A t \in Holders(e)' : SiteOf(t, e)' \in Nat /\ SiteOf(t, e)' < nextSite'[e]
      BY <2>2, <3>3 DEF SitesInv, SitesBelow, SitesDistinct
    <3>5. {SiteOf(t, d)' : t \in Holders(d)'} = {}
      BY <3>2
    <3>. QED BY <2>3, <3>1, <3>2, <3>4, <3>5 DEF SitesInv, SitesBelow, SitesDistinct
  <2>. QED BY <2>4, <2>5
<1>2. ASSUME NEW s \in Sessions, OpenEnter(s) PROVE SitesInv'
  <2>0. PICK d \in Docs : d = cur[s]
    BY <1>2 DEF OpenEnter, Stages
  <2>. DEFINE n == nextSite[d]
  <2>1. /\ UNCHANGED <<open, siteIds, cur>> /\ pc[s] = "enter"
        /\ pc' = [pc EXCEPT ![s] = "register"]
        /\ site' = [site EXCEPT ![s] = n]
        /\ cursors' = [cursors EXCEPT ![d] = @ \cup {n}]
        /\ nextSite' = [nextSite EXCEPT ![d] = n + 1]
    BY <1>2, <2>0 DEF OpenEnter, Goto
  <2>2. n \in Nat /\ ~Opened(s, d) /\ d \in open
    BY <2>0, <2>1 DEF Stages, NoDangling, Referencing
  <2>. HIDE DEF n
  <2>3. Holders(d)' = Holders(d) \cup {s} /\ s \notin Holders(d) /\ SiteOf(s, d)' = n
    BY <2>0, <2>1, <2>2 DEF Holders, SiteOf
  <2>4. ASSUME NEW e \in Docs, e # d PROVE Holders(e)' = Holders(e)
    BY <2>0, <2>1, <2>4 DEF Holders
  <2>5. ASSUME NEW e \in Docs, NEW t \in Holders(e), t # s \/ e # d
        PROVE  SiteOf(t, e)' = SiteOf(t, e)
    BY <2>0, <2>1, <2>5 DEF Holders, SiteOf
  <2>6. \A t \in Holders(d) : SiteOf(t, d) < n /\ SiteOf(t, d) \in Nat
    BY <2>2 DEF SitesInv, SitesBelow, n
  <2>7. ASSUME NEW t \in Holders(d)', NEW u \in Holders(d)', SiteOf(t, d)' = SiteOf(u, d)'
        PROVE  t = u
    <3>1. CASE t = s \/ u = s
      BY <2>2, <2>3, <2>5, <2>6, <2>7, <3>1
    <3>2. CASE t # s /\ u # s
      BY <2>2, <2>3, <2>5, <2>7, <3>2 DEF SitesInv, SitesDistinct
    <3>. QED BY <3>1, <3>2
  <2>8. cursors'[d] = {SiteOf(t, d)' : t \in Holders(d)'}
    <3>1. cursors'[d] = cursors[d] \cup {n} /\ cursors[d] = {SiteOf(t, d) : t \in Holders(d)}
      BY <2>1, <2>2 DEF SitesInv, SitesDistinct
    <3>2. {SiteOf(t, d)' : t \in Holders(d)} = {SiteOf(t, d) : t \in Holders(d)}
      BY <2>3, <2>5
    <3>3. {SiteOf(t, d)' : t \in Holders(d) \cup {s}} = {SiteOf(t, d)' : t \in Holders(d)} \cup {SiteOf(s, d)'}
      OBVIOUS
    <3>. QED BY <2>3, <3>1, <3>2, <3>3
  <2>9. \A t \in Holders(d)' : SiteOf(t, d)' \in Nat /\ SiteOf(t, d)' < nextSite'[d]
    <3>1. nextSite'[d] = n + 1
      BY <2>1
    <3>. QED BY <2>2, <2>3, <2>5, <2>6, <3>1
  <2>10. ASSUME NEW e \in open, e # d
         PROVE  /\ \A t, u \in Holders(e)' : SiteOf(t, e)' = SiteOf(u, e)' => t = u
                /\ cursors'[e] = {SiteOf(t, e)' : t \in Holders(e)'}
                /\ \A t \in Holders(e)' : SiteOf(t, e)' \in Nat /\ SiteOf(t, e)' < nextSite'[e]
    <3>1. cursors'[e] = cursors[e] /\ nextSite'[e] = nextSite[e]
      BY <2>1, <2>10
    <3>2. {SiteOf(t, e)' : t \in Holders(e)'} = {SiteOf(t, e) : t \in Holders(e)}
      BY <2>4, <2>5, <2>10
    <3>. QED BY <2>4, <2>5, <2>10, <3>1, <3>2 DEF SitesInv, SitesBelow, SitesDistinct
  <2>11. \A t \in Sessions : pc'[t] \in {"edit", "move"} => site'[t] = siteIds'[t][cur'[t]]
    BY <2>1 DEF SitesInv, SitesBelow
  <2>12. \A e \in open' :
            /\ \A t, u \in Holders(e)' : SiteOf(t, e)' = SiteOf(u, e)' => t = u
            /\ cursors'[e] = {SiteOf(t, e)' : t \in Holders(e)'}
            /\ \A t \in Holders(e)' : SiteOf(t, e)' \in Nat /\ SiteOf(t, e)' < nextSite'[e]
    <3>. HIDE DEF TypeOK, IInv
    <3>1. open' = open
      BY <2>1
    <3>. QED BY <2>7, <2>8, <2>9, <2>10, <3>1
  <2>. QED
    <3>. HIDE DEF TypeOK, IInv
    <3>. QED BY <2>11, <2>12 DEF SitesInv, SitesBelow, SitesDistinct
<1>3. ASSUME NEW s \in Sessions, CloseLeave(s) PROVE SitesInv'
  <2>0. PICK d \in Docs : d = cur[s]
    BY <1>3 DEF CloseLeave, Stages
  <2>1. /\ UNCHANGED <<open, siteIds, nextSite>> /\ pc[s] = "leave"
        /\ pc' = [pc EXCEPT ![s] = "idle"]
        /\ cur' = [cur EXCEPT ![s] = NoDoc]
        /\ site' = [site EXCEPT ![s] = NoSite]
        /\ cursors' = [cursors EXCEPT ![d] = @ \ {site[s]}]
    BY <1>3, <2>0 DEF CloseLeave, Goto, Return
  <2>2. ~Opened(s, d) /\ d \in open
    BY <2>0, <2>1 DEF Stages, NoDangling, Referencing
  <2>3. Holders(d)' = Holders(d) \ {s} /\ s \in Holders(d) /\ SiteOf(s, d) = site[s]
    BY <2>0, <2>1, <2>2 DEF Holders, SiteOf
  <2>4. ASSUME NEW e \in Docs, e # d PROVE Holders(e)' = Holders(e)
    BY <2>0, <2>1, <2>4 DEF Holders
  <2>5. ASSUME NEW e \in Docs, NEW t \in Holders(e)' PROVE SiteOf(t, e)' = SiteOf(t, e)
    <3>1. t # s \/ Opened(t, e)
      BY <2>1 DEF Holders
    <3>. QED BY <2>1, <3>1 DEF Holders, SiteOf
  <2>6. /\ \A t, u \in Holders(d)' : SiteOf(t, d)' = SiteOf(u, d)' => t = u
        /\ \A t \in Holders(d)' : SiteOf(t, d)' \in Nat /\ SiteOf(t, d)' < nextSite'[d]
    BY <2>1, <2>2, <2>3, <2>5 DEF SitesInv, SitesBelow, SitesDistinct
  <2>7. cursors'[d] = {SiteOf(t, d)' : t \in Holders(d)'}
    <3>1. cursors'[d] = {SiteOf(t, d) : t \in Holders(d)} \ {SiteOf(s, d)}
      BY <2>1, <2>2, <2>3 DEF SitesInv, SitesDistinct
    <3>2. \A t \in Holders(d) : SiteOf(t, d) = SiteOf(s, d) => t = s
      BY <2>2, <2>3 DEF SitesInv, SitesDistinct
    <3>3. {SiteOf(t, d) : t \in Holders(d)} \ {SiteOf(s, d)} = {SiteOf(t, d) : t \in Holders(d) \ {s}}
      BY <3>2
    <3>4. {SiteOf(t, d)' : t \in Holders(d)'} = {SiteOf(t, d) : t \in Holders(d)'}
      BY <2>5
    <3>. QED BY <2>3, <3>1, <3>3, <3>4
  <2>8. ASSUME NEW e \in open, e # d
        PROVE  /\ \A t, u \in Holders(e)' : SiteOf(t, e)' = SiteOf(u, e)' => t = u
               /\ cursors'[e] = {SiteOf(t, e)' : t \in Holders(e)'}
               /\ \A t \in Holders(e)' : SiteOf(t, e)' \in Nat /\ SiteOf(t, e)' < nextSite'[e]
    <3>1. cursors'[e] = cursors[e] /\ nextSite'[e] = nextSite[e]
      BY <2>1, <2>8
    <3>2. {SiteOf(t, e)' : t \in Holders(e)'} = {SiteOf(t, e) : t \in Holders(e)}
      BY <2>4, <2>5, <2>8
    <3>. QED BY <2>4, <2>5, <2>8, <3>1, <3>2 DEF SitesInv, SitesBelow, SitesDistinct
  <2>9. \A t \in Sessions : pc'[t] \in {"edit", "move"} => site'[t] = siteIds'[t][cur'[t]]
    BY <2>1 DEF SitesInv, SitesBelow
  <2>. QED BY <2>1, <2>6, <2>7, <2>8, <2>9 DEF SitesInv, SitesBelow, SitesDistinct
<1>4. ASSUME NEW s \in Sessions, ApplyEdit(s) \/ ApplyMove(s) PROVE SitesInv'
  <2>0. PICK d \in Docs : d = cur[s]
    BY <1>4 DEF ApplyEdit, ApplyMove, Stages
  <2>1. /\ UNCHANGED <<open, siteIds, nextSite>> /\ pc[s] \in {"edit", "move"}
        /\ pc' = [pc EXCEPT ![s] = "idle"]
        /\ cur' = [cur EXCEPT ![s] = NoDoc]
        /\ site' = [site EXCEPT ![s] = NoSite]
        /\ cursors' \in {cursors, [cursors EXCEPT ![d] = @ \cup {site[s]}]}
    BY <1>4, <2>0 DEF ApplyEdit, ApplyMove, Goto, Return
  <2>2. ASSUME NEW e \in Docs
        PROVE  /\ Holders(e)' = Holders(e)
               /\ \A t \in Holders(e) : SiteOf(t, e)' = SiteOf(t, e)
    BY <2>1 DEF Holders, SiteOf
  <2>3. Opened(s, d) /\ d \in open /\ site[s] = siteIds[s][d]
    BY <2>0, <2>1 DEF Stages, NoDangling, Referencing, SitesInv, SitesBelow
  <2>4. s \in Holders(d) /\ SiteOf(s, d) = site[s]
    BY <2>3 DEF Holders, SiteOf
  <2>5. site[s] \in cursors[d]
    BY <2>3, <2>4 DEF SitesInv, SitesDistinct
  <2>6. cursors' = cursors
    <3>1. cursors[d] \cup {site[s]} = cursors[d]
      BY <2>5
    <3>2. [cursors EXCEPT ![d] = cursors[d] \cup {site[s]}] = cursors
      BY <3>1
    <3>. QED BY <2>1, <3>2
  <2>7. \A t \in Sessions : pc'[t] \in {"edit", "move"} => site'[t] = siteIds'[t][cur'[t]]
    BY <2>1 DEF SitesInv, SitesBelow
  <2>. QED BY <2>1, <2>2, <2>6, <2>7, SameSites DEF SitesInv, SitesBelow
<1>5. ASSUME Crash PROVE SitesInv'
  BY <1>5 DEF Crash, SitesInv, SitesBelow, SitesDistinct
<1>. QED BY <1>1, <1>2, <1>3, <1>4, <1>5, SitesQuiet DEF IInv, Next, Begin, Locking, Proceed

(* No two sessions work on a document as the same site, whoever opens and    *)
(* closes it at the same time, and cursors and sessions match.               *)
THEOREM SitesAreDistinct == Spec => []SitesDistinct
<1>1. Init => SitesInv
  BY DEF Init, SitesInv, SitesBelow, SitesDistinct
<1>2. IInv /\ SitesInv /\ [Next]_vars => SitesInv'
  BY SitesStep
<1>. QED BY <1>1, <1>2, Invariance, PTL DEF Spec, SitesInv

-----------------------------------------------------------------------------
(* The refinement of DocumentStore.                                          *)
(* Edits are numbered in the order in which they are applied. *)
Numbered ==
    \A d \in Docs :
        /\ content[d] \subseteq 1 .. edits[d]
        /\ db[d] # NoRow => db[d] \subseteq 1 .. edits[d]

RInv == IInv /\ DbBehindMemory /\ Numbered

-----------------------------------------------------------------------------
(* Only applying an edit counts one. *)
LEMMA WhoCounts ==
    ASSUME [Next]_vars, edits' # edits
    PROVE  \E s \in Sessions : ApplyEdit(s)
BY DEF Next, vars, Begin, Locking, Proceed, SaveStep, Create, Open, OpenLock,
       OpenLoad, LoadFails, OpenEnter, OpenRegister, ReadUsers, ReadCursors, Answer, Close,
       CloseLeave, Use,
       ApplyMove, SaveBegin, SaveVisit, SaveUnchanged, SaveWrite, SaveCommit, SaveRelock,
       SaveVisited, SaveRemove, SaveEnd, Crash

(* Loading and saving copy edits that have a number, and a new edit has the  *)
(* next one.                                                                 *)
LEMMA NumberedStep ==
    ASSUME IInv, Numbered, [Next]_vars
    PROVE  Numbered'
<1>. USE DEF Numbered
<1>0. TypeOK /\ Stages /\ NoDangling
  BY DEF IInv
<1>1. ASSUME NEW s \in Sessions, OpenLoad(s) PROVE Numbered'
  <2>1. db' = db /\ edits' = edits
    BY <1>1 DEF OpenLoad
  <2>2. cur[s] \in Docs /\ db[cur[s]] # NoRow
    BY <1>0, <1>1 DEF OpenLoad, Stages
  <2>3. content' = content \/ content' = [content EXCEPT ![cur[s]] = db[cur[s]]]
    BY <1>1 DEF OpenLoad, odVars
  <2>4. content \in [Docs -> Contents]
    BY <1>0 DEF TypeOK
  <2>. QED BY <2>1, <2>2, <2>3, <2>4
<1>2. ASSUME NEW s \in Sessions, ApplyEdit(s) PROVE Numbered'
  <2>0. PICK d \in Docs : d = cur[s]
    BY <1>0, <1>2 DEF ApplyEdit, Stages
  <2>1. /\ db' = db
        /\ edits' = [edits EXCEPT ![d] = @ + 1]
        /\ content' = [content EXCEPT ![d] = @ \cup {edits[d] + 1}]
    BY <1>2, <2>0 DEF ApplyEdit
  <2>2. edits \in [Docs -> Nat] /\ content \in [Docs -> Contents]
    BY <1>0 DEF TypeOK
  <2>3. edits'[d] = edits[d] + 1 /\ content'[d] = content[d] \cup {edits[d] + 1}
    BY <2>1, <2>2
  <2>4. ASSUME NEW e \in Docs, e # d
        PROVE  edits'[e] = edits[e] /\ content'[e] = content[e]
    BY <2>1, <2>2, <2>4
  <2>5. 1 .. edits[d] \subseteq 1 .. (edits[d] + 1) /\ edits[d] + 1 \in 1 .. (edits[d] + 1)
    BY <2>2
  <2>6. content'[d] \subseteq 1 .. edits'[d] /\ (db'[d] # NoRow => db'[d] \subseteq 1 .. edits'[d])
    BY <2>1, <2>3, <2>5
  <2>. QED BY <2>1, <2>4, <2>6
<1>3. ASSUME NEW s \in Sessions, NEW e \in Docs, Create(s, e) PROVE Numbered'
  <2>1. db' = [db EXCEPT ![e] = {}] /\ edits' = edits /\ content' = content
    BY <1>3 DEF Create, odVars
  <2>2. db \in [Docs -> Contents \cup {NoRow}]
    BY <1>0 DEF TypeOK
  <2>. QED BY <2>1, <2>2
<1>4. ASSUME SaveCommit PROVE Numbered'
  <2>1. edits' = edits /\ content' = content /\ saver.doc \in Docs
    BY <1>0, <1>4 DEF SaveCommit, Stages
  <2>2. db' = db \/ db' = [db EXCEPT ![saver.doc] = content[saver.doc]]
    BY <1>4 DEF SaveCommit
  <2>3. db \in [Docs -> Contents \cup {NoRow}]
    BY <1>0 DEF TypeOK
  <2>. QED BY <2>1, <2>2, <2>3
<1>5. ASSUME UNCHANGED <<content, db>>, edits' = edits PROVE Numbered'
  BY <1>5
<1>. QED BY <1>1, <1>2, <1>3, <1>4, <1>5, WhoMarks, WhoCounts

(* What holds together along every behaviour. *)
THEOREM StoreInvariance == Spec => []RInv
<1>1. Init => Numbered
  BY DEF Init, Numbered
<1>2. IInv /\ Numbered /\ [Next]_vars => Numbered'
  BY NumberedStep
<1>3. Spec => []Numbered
  BY <1>1, <1>2, Invariance, PTL DEF Spec
<1>. QED BY <1>3, Invariance, SavedIsBehind, PTL DEF RInv

-----------------------------------------------------------------------------
(* A step that leaves texts, rows and members alone is invisible. *)
LEMMA Invisible ==
    ASSUME db' = db,
           \A d \in Docs : Text(d)' = Text(d),
           \A d \in Docs : Holders(d)' = Holders(d)
    PROVE  UNCHANGED Store!vars
BY DEF Store!vars

(* Every document in memory exists. *)
LEMMA OpenExist ==
    ASSUME RInv, NEW d \in Docs, d \in open
    PROVE  db[d] # NoRow
<1>1. db[d] \subseteq content[d] /\ content[d] \in SUBSET Nat
  BY DEF RInv, IInv, TypeOK, DbBehindMemory, Contents
<1>2. -1 \notin content[d]
  BY <1>1
<1>. QED BY <1>1, <1>2 DEF NoRow

(* Most steps change neither the memory nor who is counted in. *)
LEMMA Quiet ==
    ASSUME IInv,
           \/ \E s \in Sessions, d \in Docs :
                 Open(s, d) \/ Close(s, d) \/ Use(s, d, "edit") \/ Use(s, d, "move")
           \/ \E s \in Sessions :
                 \/ OpenLock(s) \/ LoadFails(s) \/ OpenRegister(s) \/ ReadUsers(s) \/ ReadCursors(s)
                 \/ Answer(s) \/ ApplyMove(s)
           \/ SaveBegin \/ SaveUnchanged \/ SaveWrite \/ SaveRelock \/ SaveVisited \/ SaveEnd
           \/ \E d \in Docs : SaveVisit(d)
           \/ UNCHANGED vars
    PROVE  UNCHANGED Store!vars
<1>. USE DEF IInv, TypeOK, Stages, Opened, NoSite, Holders, Goto, Return, Idle
<1>1. UNCHANGED <<db, open, content>>
  BY DEF Open, Close, Use, OpenLock, LoadFails, OpenRegister, ReadUsers, ReadCursors, Answer, ApplyMove,
         SaveBegin, SaveUnchanged, SaveWrite, SaveRelock, SaveVisited, SaveEnd, SaveVisit,
         odVars, vars
<1>2. ASSUME NEW d \in Docs PROVE Holders(d)' = Holders(d)
  <2>1. ASSUME NEW s \in Sessions, NEW e \in Docs, Open(s, e) PROVE Holders(d)' = Holders(d)
    BY <2>1 DEF Open
  <2>2. ASSUME NEW s \in Sessions, NEW e \in Docs, Close(s, e) PROVE Holders(d)' = Holders(d)
    BY <2>2 DEF Close
  <2>3. ASSUME NEW s \in Sessions, NEW e \in Docs, Use(s, e, "edit") \/ Use(s, e, "move")
        PROVE  Holders(d)' = Holders(d)
    BY <2>3 DEF Use
  <2>4. ASSUME NEW s \in Sessions, OpenLock(s) PROVE Holders(d)' = Holders(d)
    BY <2>4 DEF OpenLock
  <2>5. ASSUME NEW s \in Sessions, OpenRegister(s) PROVE Holders(d)' = Holders(d)
    BY <2>5 DEF OpenRegister
  <2>6. ASSUME NEW s \in Sessions, LoadFails(s) \/ ReadUsers(s) \/ ReadCursors(s) \/ Answer(s) \/ ApplyMove(s)
        PROVE  Holders(d)' = Holders(d)
    BY <2>6 DEF LoadFails, ReadUsers, ReadCursors, Answer, ApplyMove
  <2>7. ASSUME \/ SaveBegin \/ SaveUnchanged \/ SaveWrite \/ SaveRelock \/ SaveVisited
               \/ SaveEnd \/ UNCHANGED vars \/ \E e \in Docs : SaveVisit(e)
        PROVE  Holders(d)' = Holders(d)
    BY <2>7 DEF SaveBegin, SaveUnchanged, SaveWrite, SaveRelock, SaveVisited, SaveEnd,
                SaveVisit, sessionVars, vars
  <2>. QED BY <2>1, <2>2, <2>3, <2>4, <2>5, <2>6, <2>7
<1>3. \A d \in Docs : Text(d)' = Text(d)
  BY <1>1 DEF Text
<1>. HIDE DEF Holders
<1>. QED BY <1>1, <1>2, <1>3, Invisible

(* The other steps, one by one. *)
LEMMA CreateCreates ==
    ASSUME RInv, NEW s \in Sessions, NEW d \in Docs, Create(s, d)
    PROVE  Store!Create(d)
<1>1. /\ db[d] = NoRow /\ db' = [db EXCEPT ![d] = {}]
      /\ UNCHANGED <<open, content, siteIds>>
      /\ pc' = [pc EXCEPT ![s] = "lock"] /\ cur' = [cur EXCEPT ![s] = d] /\ pc[s] = "idle"
  BY DEF Create, odVars, Goto, Idle
<1>2. TypeOK
  BY DEF RInv, IInv
<1>3. d \notin open
  BY <1>1, OpenExist
<1>4. ASSUME NEW e \in Docs PROVE Text(e)' = IF e = d THEN {} ELSE Text(e)
  BY <1>1, <1>2, <1>3 DEF Text, TypeOK
<1>5. ASSUME NEW e \in Docs PROVE Holders(e)' = Holders(e)
  BY <1>1, <1>2 DEF Holders, TypeOK, Opened
<1>6. [e \in Docs |-> Text(e)]' = [[e \in Docs |-> Text(e)] EXCEPT ![d] = {}]
  BY <1>4
<1>. QED BY <1>1, <1>5, <1>6 DEF Store!Create, Store!Exists

LEMMA LoadInvisible ==
    ASSUME RInv, NEW s \in Sessions, OpenLoad(s)
    PROVE  UNCHANGED Store!vars
<1>. USE DEF RInv, IInv
<1>1. db' = db /\ siteIds' = siteIds /\ cur' = cur /\ pc[s] = "load" /\ pc' = [pc EXCEPT ![s] = "enter"]
  BY DEF OpenLoad, Goto
<1>2. cur[s] \in Docs
  BY <1>1 DEF Stages
<1>3. ASSUME NEW d \in Docs PROVE Text(d)' = Text(d)
  <2>1. CASE cur[s] \in open
    BY <1>1, <2>1 DEF OpenLoad, odVars, Text
  <2>2. CASE cur[s] \notin open
    <3>1. open' = open \cup {cur[s]} /\ content' = [content EXCEPT ![cur[s]] = db[cur[s]]]
      BY <2>2 DEF OpenLoad
    <3>. QED BY <1>1, <1>2, <2>2, <3>1 DEF Text, TypeOK
  <2>. QED BY <2>1, <2>2
<1>4. ASSUME NEW d \in Docs PROVE Holders(d)' = Holders(d)
  BY <1>1 DEF Holders, TypeOK, Opened
<1>. QED BY <1>1, <1>3, <1>4, Invisible

LEMMA EnterJoins ==
    ASSUME RInv, NEW s \in Sessions, OpenEnter(s)
    PROVE  Store!Join(s, cur[s])
<1>. USE DEF RInv, IInv
<1>0. PICK d \in Docs : d = cur[s]
  BY DEF OpenEnter, Stages
<1>1. /\ UNCHANGED <<db, open, content, siteIds, cur>> /\ pc[s] = "enter"
      /\ pc' = [pc EXCEPT ![s] = "register"]
  BY DEF OpenEnter, Goto
<1>2. db[d] # NoRow /\ ~Opened(s, d)
  BY <1>0, <1>1 DEF Stages
<1>3. Holders(d)' = Holders(d) \cup {s} /\ s \notin Holders(d)
  BY <1>0, <1>1, <1>2 DEF Holders, TypeOK, Opened
<1>4. ASSUME NEW e \in Docs, e # d PROVE Holders(e)' = Holders(e)
  BY <1>0, <1>1, <1>4 DEF Holders, TypeOK, Opened
<1>5. [e \in Docs |-> Holders(e)]' = [[e \in Docs |-> Holders(e)] EXCEPT ![d] = @ \cup {s}]
  BY <1>3, <1>4
<1>6. [e \in Docs |-> Text(e)]' = [e \in Docs |-> Text(e)]
  BY <1>1 DEF Text
<1>. QED BY <1>0, <1>1, <1>2, <1>3, <1>5, <1>6 DEF Store!Join, Store!Exists

LEMMA CloseLeaves ==
    ASSUME RInv, NEW s \in Sessions, CloseLeave(s)
    PROVE  Store!Leave(s, cur[s])
<1>. USE DEF RInv, IInv
<1>0. PICK d \in Docs : d = cur[s]
  BY DEF CloseLeave, Stages
<1>1. /\ UNCHANGED <<db, open, content, siteIds>> /\ pc[s] = "leave"
      /\ pc' = [pc EXCEPT ![s] = "idle"] /\ cur' = [cur EXCEPT ![s] = NoDoc]
  BY DEF CloseLeave, Goto, Return
<1>2. ~Opened(s, d)
  BY <1>0, <1>1 DEF Stages
<1>3. Holders(d)' = Holders(d) \ {s} /\ s \in Holders(d)
  BY <1>0, <1>1, <1>2 DEF Holders, TypeOK, Opened
<1>4. ASSUME NEW e \in Docs, e # d PROVE Holders(e)' = Holders(e)
  BY <1>0, <1>1, <1>4 DEF Holders, TypeOK, Opened
<1>5. [e \in Docs |-> Holders(e)]' = [[e \in Docs |-> Holders(e)] EXCEPT ![d] = @ \ {s}]
  BY <1>3, <1>4
<1>6. [e \in Docs |-> Text(e)]' = [e \in Docs |-> Text(e)]
  BY <1>1 DEF Text
<1>. QED BY <1>0, <1>1, <1>3, <1>5, <1>6 DEF Store!Leave

LEMMA EditEdits ==
    ASSUME RInv, NEW s \in Sessions, ApplyEdit(s)
    PROVE  Store!Edit(s, cur[s])
<1>. USE DEF RInv, IInv
<1>0. PICK d \in Docs : d = cur[s]
  BY DEF ApplyEdit, Stages
<1>. DEFINE new == edits[d] + 1
<1>1. /\ UNCHANGED <<db, open, siteIds>> /\ pc[s] = "edit"
      /\ pc' = [pc EXCEPT ![s] = "idle"] /\ cur' = [cur EXCEPT ![s] = NoDoc]
      /\ content' = [content EXCEPT ![d] = @ \cup {new}]
  BY <1>0 DEF ApplyEdit, Goto, Return
<1>2. Opened(s, d) /\ d \in open
  BY <1>0, <1>1 DEF Stages, NoDangling, Referencing
<1>3. new \notin content[d]
  BY DEF Numbered, TypeOK
<1>. HIDE DEF new
<1>4. ASSUME NEW e \in Docs PROVE Text(e)' = IF e = d THEN Text(d) \cup {new} ELSE Text(e)
  BY <1>1, <1>2 DEF Text, TypeOK
<1>5. [e \in Docs |-> Text(e)]' = [[e \in Docs |-> Text(e)] EXCEPT ![d] = @ \cup {new}]
  BY <1>4
<1>6. new \in [e \in Docs |-> Text(e)]'[d] \ [e \in Docs |-> Text(e)][d]
  BY <1>2, <1>3, <1>4 DEF Text
<1>7. ASSUME NEW e \in Docs PROVE Holders(e)' = Holders(e)
  BY <1>1 DEF Holders, TypeOK, Opened
<1>8. s \in Holders(d)
  BY <1>2 DEF Holders
<1>. QED BY <1>0, <1>1, <1>5, <1>6, <1>7, <1>8 DEF Store!Edit

LEMMA CommitSaves ==
    ASSUME RInv, SaveCommit
    PROVE  UNCHANGED Store!vars \/ \E d \in Docs : Store!Save(d)
<1>. USE DEF RInv, IInv
<1>0. PICK d \in Docs : d = saver.doc
  BY DEF SaveCommit, Stages
<1>1. UNCHANGED <<open, content, siteIds, pc, cur>> /\ d \in open
  BY <1>0 DEF SaveCommit, sessionVars, NoDangling
<1>2. ASSUME NEW e \in Docs PROVE Text(e)' = Text(e) \/ db' # db
  BY <1>1 DEF Text
<1>3. ASSUME NEW e \in Docs PROVE Holders(e)' = Holders(e)
  BY <1>1 DEF Holders, Opened
<1>4. CASE db' = db
  BY <1>2, <1>3, <1>4, Invisible
<1>5. CASE db' = [db EXCEPT ![d] = content[d]]
  <2>1. db[d] # NoRow
    BY <1>1, OpenExist
  <2>2. ASSUME NEW e \in Docs PROVE Text(e)' = Text(e)
    BY <1>1, <1>5 DEF Text, TypeOK
  <2>3. Text(d) = content[d]
    BY <1>1 DEF Text
  <2>. QED BY <1>3, <1>5, <2>1, <2>2, <2>3 DEF Store!Save, Store!Exists
<1>. QED BY <1>0, <1>4, <1>5 DEF SaveCommit

(* Nobody is in a document that is removed: its count is zero. *)
LEMMA RemoveForgets ==
    ASSUME RInv, NEW d \in Docs, SaveRemove(d)
    PROVE  UNCHANGED Store!vars \/ Store!Forget(d)
<1>. USE DEF RInv, IInv
<1>1. UNCHANGED <<db, content, siteIds, pc, cur>>
  BY DEF SaveRemove, odVars, sessionVars
<1>2. ASSUME NEW e \in Docs PROVE Holders(e)' = Holders(e)
  BY <1>1 DEF Holders, Opened
<1>3. CASE open' = open
  <2>1. ASSUME NEW e \in Docs PROVE Text(e)' = Text(e)
    BY <1>1, <1>3 DEF Text
  <2>. QED BY <1>1, <1>2, <2>1, Invisible
<1>4. CASE d \in open /\ refs[d] = 0 /\ open' = open \ {d}
  <2>1. Holders(d) = {}
    <3>1. Cardinality(Holders(d)) = 0
      BY <1>4 DEF RefCounts
    <3>. QED BY <3>1, HoldersFinite, FS_EmptySet
  <2>2. ASSUME NEW e \in Docs PROVE Text(e)' = IF e = d THEN db[d] ELSE Text(e)
    BY <1>1, <1>4 DEF Text
  <2>3. [e \in Docs |-> Text(e)]' = [[e \in Docs |-> Text(e)] EXCEPT ![d] = db[d]]
    BY <2>2
  <2>. QED BY <1>1, <1>2, <2>1, <2>3 DEF Store!Forget
<1>. QED BY <1>3, <1>4 DEF SaveRemove

LEMMA CrashRestarts ==
    ASSUME RInv, Crash
    PROVE  Store!Restart
<1>1. /\ open' = {} /\ db' = db
      /\ pc' = [s \in Sessions |-> "idle"]
      /\ siteIds' = [s \in Sessions |-> [d \in Docs |-> NoSite]]
  BY DEF Crash
<1>2. db = [d \in Docs |-> db[d]]
  BY DEF RInv, IInv, TypeOK
<1>3. [d \in Docs |-> Text(d)]' = db
  BY <1>1, <1>2 DEF Text
<1>4. ASSUME NEW d \in Docs PROVE Holders(d)' = {}
  BY <1>1 DEF Holders, Opened
<1>. QED BY <1>1, <1>3, <1>4 DEF Store!Restart

-----------------------------------------------------------------------------
(* Every step of the server is a step of the abstract store, or invisible. *)
LEMMA Simulation ==
    ASSUME RInv, [Next]_vars
    PROVE  [Store!Next]_(Store!vars)
<1>0. \A s \in Sessions : pc[s] # "idle" => cur[s] \in Docs
  BY DEF RInv, IInv, Stages
<1>1. ASSUME NEW s \in Sessions, Begin(s) PROVE [Store!Next]_(Store!vars)
  BY <1>1, CreateCreates, Quiet DEF RInv, Begin, Store!Next
<1>2. ASSUME NEW s \in Sessions, Locking(s) \/ Proceed(s) PROVE [Store!Next]_(Store!vars)
  <2>1. OpenEnter(s) \/ CloseLeave(s) \/ ApplyEdit(s) => cur[s] \in Docs
    BY <1>0 DEF OpenEnter, CloseLeave, ApplyEdit
  <2>. QED
    BY <1>2, <2>1, LoadInvisible, EnterJoins, CloseLeaves, EditEdits, Quiet
       DEF RInv, Locking, Proceed, Store!Next
<1>3. ASSUME SaveStep PROVE [Store!Next]_(Store!vars)
  BY <1>3, CommitSaves, RemoveForgets, Quiet DEF RInv, SaveStep, Store!Next
<1>4. ASSUME Crash \/ UNCHANGED vars PROVE [Store!Next]_(Store!vars)
  BY <1>4, CrashRestarts, Quiet DEF RInv, Store!Next
<1>. QED BY <1>1, <1>2, <1>3, <1>4 DEF Next

(* The server implements the document store: whatever the saver, the threads *)
(* that open and close a document and a failing commit do, members see a     *)
(* text that only gains edits, and it is lost only when nobody is in the     *)
(* document or the server ends.                                              *)
THEOREM ManagerImplementsStore == Spec => StoresDocuments
<1>1. Init => Store!Init
  BY DEF Init, Store!Init, Text, Holders, Opened
<1>2. RInv /\ [Next]_vars => [Store!Next]_(Store!vars)
  BY Simulation
<1>. QED BY <1>1, <1>2, StoreInvariance, PTL DEF Spec, Store!Spec, StoresDocuments
=============================================================================
