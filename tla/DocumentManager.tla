-------------------------- MODULE DocumentManager --------------------------
(***************************************************************************)
(* The documents in main memory, shared by the worker threads and the      *)
(* saver thread (document_manager.cpp, open_document.cpp and saver.cpp of  *)
(* src/src/server), and the database behind them.                          *)
(*                                                                         *)
(* A session is used by one thread at a time, so a session is a process    *)
(* here; the saver is another.  Two kinds of lock exist: mutex_ of the     *)
(* manager and mutex_ of every OpenDocument.  A step of this module is     *)
(* what a thread does between two points where it may have to wait or      *)
(* where the others can see what it did.  The lock of an OpenDocument is   *)
(* held across such points only by save(), while it writes to the          *)
(* database: Busy(d).                                                      *)
(*                                                                         *)
(* The content of a document is the set of edits applied to it; what an    *)
(* edit does to the text is EditingSession's subject.                      *)
(***************************************************************************)
EXTENDS Integers, FiniteSets

CONSTANTS
    Sessions,       \* client sessions
    Docs,           \* documents
    Saver,          \* the saver thread
    Free,           \* no owner of a lock
    NoDoc,          \* no document
    CommitCanFail,  \* whether database.commit() may fail
    MaxSites,       \* bound: site ids of a document while it is in memory
    MaxEdits        \* bound: edits of a document, ever

ASSUME ManagerAssumption ==
    /\ IsFiniteSet(Sessions)
    /\ Saver \notin Sessions
    /\ Free \notin Sessions \cup {Saver}
    /\ NoDoc \notin Docs
    /\ CommitCanFail \in BOOLEAN
    /\ MaxSites \in Nat
    /\ MaxEdits \in Nat

VARIABLES
    mutex,      \* who holds DocumentManager::mutex_
    open,       \* keys of open_documents_
    content,    \* of each OpenDocument in memory: edits in its text,
    changed,    \* changed_,
    refs,       \* reference_count_,
    nextSite,   \* next_site_id_,
    cursors,    \* keys of cursors_,
    users,      \* keys of usernames_
    siteIds,    \* site_ids_: session -> document -> site id
    db,         \* the saved text of each document, NoRow if it does not exist
    edits,      \* history: number of edits of each document
    pc,         \* where each session's thread is,
    cur,        \* the document it works on,
    site,       \* the site id it holds in a local variable,
    snap,       \* the users and cursors it has read for the client
    saver       \* the saver: [pc, doc, must, seen, todo]

odVars == <<content, changed, refs, nextSite, cursors, users>>
sessionVars == <<siteIds, pc, cur, site, snap>>
vars == <<mutex, open, odVars, db, edits, sessionVars, saver>>

-----------------------------------------------------------------------------
NoSite == -1
ProfileSite == 0        \* site id given to the owner's profile on loading
NoRow == {-1}           \* not a set of edits, whose numbers start at 1
NoSnap == [users |-> {}, cursors |-> {}]

(* save() holds the lock of document d while it writes. *)
Busy(d) == saver.pc = "write" /\ saver.doc = d

Idle(s) == pc[s] = "idle"
Opened(s, d) == siteIds[s][d] # NoSite

IdleSaver == [pc |-> "idle", doc |-> NoDoc, must |-> {}, seen |-> {}, todo |-> {}]

Init ==
    /\ mutex = Free
    /\ open = {}
    /\ content = [d \in Docs |-> {}]
    /\ changed = [d \in Docs |-> FALSE]
    /\ refs = [d \in Docs |-> 0]
    /\ nextSite = [d \in Docs |-> 0]
    /\ cursors = [d \in Docs |-> {}]
    /\ users = [d \in Docs |-> {}]
    /\ siteIds = [s \in Sessions |-> [d \in Docs |-> NoSite]]
    /\ db = [d \in Docs |-> NoRow]
    /\ edits = [d \in Docs |-> 0]
    /\ pc = [s \in Sessions |-> "idle"]
    /\ cur = [s \in Sessions |-> NoDoc]
    /\ site = [s \in Sessions |-> NoSite]
    /\ snap = [s \in Sessions |-> NoSnap]
    /\ saver = IdleSaver

Goto(s, l) == pc' = [pc EXCEPT ![s] = l]
Return(s) ==
    /\ Goto(s, "idle")
    /\ cur' = [cur EXCEPT ![s] = NoDoc]
    /\ site' = [site EXCEPT ![s] = NoSite]

-----------------------------------------------------------------------------
(* Bounds: requests on their way are counted, so that none gets stuck.       *)
Pending(d, where) == Cardinality({s \in Sessions : cur[s] = d /\ pc[s] \in where})
RoomForSite(d) ==
    (IF d \in open THEN nextSite[d] ELSE ProfileSite + 1)
        + Pending(d, {"lock", "load", "enter"}) <= MaxSites
RoomForEdit(d) == edits[d] + Pending(d, {"edit"}) < MaxEdits

(* Mutant: an existing document is created again. *)
CreateAgain(s, d) ==
    /\ Idle(s)
    /\ RoomForSite(d)
    /\ db' = [db EXCEPT ![d] = {}]
    /\ Goto(s, "lock")
    /\ cur' = [cur EXCEPT ![s] = d]
    /\ UNCHANGED <<mutex, open, odVars, edits, siteIds, site, snap, saver>>

(* create_document: the transaction, if the document does not exist yet. *)
Create(s, d) ==
    /\ Idle(s)
    /\ RoomForSite(d)
    /\ db[d] = NoRow
    /\ db' = [db EXCEPT ![d] = {}]
    /\ Goto(s, "lock")
    /\ cur' = [cur EXCEPT ![s] = d]
    /\ UNCHANGED <<mutex, open, odVars, edits, siteIds, site, snap, saver>>

(* open_document: the check that the session has not opened it, and the     *)
(* transaction that finds it accessible.                                    *)
Open(s, d) ==
    /\ Idle(s)
    /\ mutex = Free
    /\ RoomForSite(d)
    /\ ~Opened(s, d)
    /\ db[d] # NoRow
    /\ Goto(s, "lock")
    /\ cur' = [cur EXCEPT ![s] = d]
    /\ UNCHANGED <<mutex, open, odVars, db, edits, siteIds, site, snap, saver>>

OpenLock(s) ==
    /\ pc[s] = "lock"
    /\ mutex = Free
    /\ mutex' = s
    /\ Goto(s, "load")
    /\ UNCHANGED <<open, odVars, db, edits, siteIds, cur, site, snap, saver>>

(* Mutant: mutex_ is released between the lookup and OpenDocument::open. *)
OpenLoadUnlocking(s) ==
    /\ pc[s] = "load"
    /\ open' = open \cup {cur[s]}
    /\ IF cur[s] \in open THEN UNCHANGED odVars
       ELSE /\ content' = [content EXCEPT ![cur[s]] = db[cur[s]]]
            /\ changed' = [changed EXCEPT ![cur[s]] = FALSE]
            /\ refs' = [refs EXCEPT ![cur[s]] = 0]
            /\ nextSite' = [nextSite EXCEPT ![cur[s]] = ProfileSite + 1]
            /\ cursors' = [cursors EXCEPT ![cur[s]] = {}]
            /\ users' = [users EXCEPT ![cur[s]] = {ProfileSite}]
    /\ mutex' = Free
    /\ Goto(s, "enter")
    /\ UNCHANGED <<db, edits, siteIds, cur, site, snap, saver>>

(* Mutant: the saved text is not loaded. *)
OpenLoadEmpty(s) ==
    /\ pc[s] = "load"
    /\ open' = open \cup {cur[s]}
    /\ IF cur[s] \in open THEN UNCHANGED odVars
       ELSE /\ content' = [content EXCEPT ![cur[s]] = {}]
            /\ changed' = [changed EXCEPT ![cur[s]] = FALSE]
            /\ refs' = [refs EXCEPT ![cur[s]] = 0]
            /\ nextSite' = [nextSite EXCEPT ![cur[s]] = ProfileSite + 1]
            /\ cursors' = [cursors EXCEPT ![cur[s]] = {}]
            /\ users' = [users EXCEPT ![cur[s]] = {ProfileSite}]
    /\ Goto(s, "enter")
    /\ UNCHANGED <<mutex, db, edits, siteIds, cur, site, snap, saver>>

(* The OpenDocument constructor, if the document is not in memory. *)
OpenLoad(s) ==
    /\ pc[s] = "load"
    /\ LET d == cur[s] IN
         IF d \in open THEN UNCHANGED <<open, odVars>>
         ELSE /\ open' = open \cup {d}
              /\ content' = [content EXCEPT ![d] = db[d]]
              /\ changed' = [changed EXCEPT ![d] = FALSE]
              /\ refs' = [refs EXCEPT ![d] = 0]
              /\ nextSite' = [nextSite EXCEPT ![d] = ProfileSite + 1]
              /\ cursors' = [cursors EXCEPT ![d] = {}]
              /\ users' = [users EXCEPT ![d] = {ProfileSite}]
    /\ Goto(s, "enter")
    /\ UNCHANGED <<mutex, db, edits, siteIds, cur, site, snap, saver>>

(* A query of the constructor fails and the request ends with an exception; *)
(* nothing was inserted.                                                    *)
LoadFails(s) ==
    /\ pc[s] = "load"
    /\ cur[s] \notin open
    /\ mutex' = Free
    /\ Return(s)
    /\ UNCHANGED <<open, odVars, db, edits, siteIds, snap, saver>>

(* Mutant: the reference count serves as the next site id. *)
OpenEnterByCount(s) ==
    /\ pc[s] = "enter"
    /\ LET d == cur[s] IN
         /\ ~Busy(d)
         /\ site' = [site EXCEPT ![s] = refs[d] + 1]
         /\ cursors' = [cursors EXCEPT ![d] = @ \cup {refs[d] + 1}]
         /\ users' = [users EXCEPT ![d] = @ \cup {refs[d] + 1}]
         /\ nextSite' = [nextSite EXCEPT ![d] = @ + 1]
         /\ refs' = [refs EXCEPT ![d] = @ + 1]
    /\ Goto(s, "register")
    /\ UNCHANGED <<mutex, open, content, changed, db, edits, siteIds, cur, snap, saver>>

(* OpenDocument::open, still holding mutex_. *)
OpenEnter(s) ==
    /\ pc[s] = "enter"
    /\ LET d == cur[s] IN
         /\ ~Busy(d)
         /\ site' = [site EXCEPT ![s] = nextSite[d]]
         /\ cursors' = [cursors EXCEPT ![d] = @ \cup {nextSite[d]}]
         /\ users' = [users EXCEPT ![d] = @ \cup {nextSite[d]}]
         /\ nextSite' = [nextSite EXCEPT ![d] = @ + 1]
         /\ refs' = [refs EXCEPT ![d] = @ + 1]
    /\ Goto(s, "register")
    /\ UNCHANGED <<mutex, open, content, changed, db, edits, siteIds, cur, snap, saver>>

(* Mutant: mutex_ is not released. *)
OpenRegisterLocked(s) ==
    /\ pc[s] = "register"
    /\ siteIds' = [siteIds EXCEPT ![s][cur[s]] = site[s]]
    /\ Goto(s, "users")
    /\ UNCHANGED <<mutex, open, odVars, db, edits, cur, site, snap, saver>>

OpenRegister(s) ==
    /\ pc[s] = "register"
    /\ siteIds' = [siteIds EXCEPT ![s][cur[s]] = site[s]]
    /\ mutex' = Free
    /\ Goto(s, "users")
    /\ UNCHANGED <<open, odVars, db, edits, cur, site, snap, saver>>

(* The document info is read after mutex_ is released, in separate calls. *)
ReadUsers(s) ==
    /\ pc[s] = "users"
    /\ ~Busy(cur[s])
    /\ snap' = [snap EXCEPT ![s].users = users[cur[s]]]
    /\ Goto(s, "cursors")
    /\ UNCHANGED <<mutex, open, odVars, db, edits, siteIds, cur, site, saver>>

ReadCursors(s) ==
    /\ pc[s] = "cursors"
    /\ ~Busy(cur[s])
    /\ snap' = [snap EXCEPT ![s].cursors = cursors[cur[s]]]
    /\ Goto(s, "answer")
    /\ UNCHANGED <<mutex, open, odVars, db, edits, siteIds, cur, site, saver>>

Answer(s) ==
    /\ pc[s] = "answer"
    /\ snap' = [snap EXCEPT ![s] = NoSnap]
    /\ Return(s)
    /\ UNCHANGED <<mutex, open, odVars, db, edits, siteIds, saver>>

-----------------------------------------------------------------------------
(* close_document: under mutex_ the session gives up its site id ... *)
Close(s, d) ==
    /\ Idle(s)
    /\ mutex = Free
    /\ Opened(s, d)
    /\ site' = [site EXCEPT ![s] = siteIds[s][d]]
    /\ siteIds' = [siteIds EXCEPT ![s][d] = NoSite]
    /\ cur' = [cur EXCEPT ![s] = d]
    /\ Goto(s, "leave")
    /\ UNCHANGED <<mutex, open, odVars, db, edits, snap, saver>>

(* Mutant: the reference is never given back. *)
CloseLeaveUncounted(s) ==
    /\ pc[s] = "leave"
    /\ ~Busy(cur[s])
    /\ cursors' = [cursors EXCEPT ![cur[s]] = @ \ {site[s]}]
    /\ Return(s)
    /\ UNCHANGED <<mutex, open, content, changed, refs, nextSite, users, db, edits,
                   siteIds, snap, saver>>

(* ... and without it OpenDocument::close counts it out. *)
CloseLeave(s) ==
    /\ pc[s] = "leave"
    /\ ~Busy(cur[s])
    /\ cursors' = [cursors EXCEPT ![cur[s]] = @ \ {site[s]}]
    /\ refs' = [refs EXCEPT ![cur[s]] = @ - 1]
    /\ Return(s)
    /\ UNCHANGED <<mutex, open, content, changed, nextSite, users, db, edits,
                   siteIds, snap, saver>>

(* Mutant: the site id is not looked up. *)
UseUnknownSite(s, d, what) ==
    /\ Idle(s)
    /\ what = "edit" => RoomForEdit(d)
    /\ mutex = Free
    /\ Opened(s, d)
    /\ cur' = [cur EXCEPT ![s] = d]
    /\ Goto(s, what)
    /\ UNCHANGED <<mutex, open, odVars, db, edits, siteIds, site, snap, saver>>

(* insert_symbol, erase_symbol, format_symbol and move_cursor: under mutex_ *)
(* the check and the reference to the OpenDocument ...                      *)
Use(s, d, what) ==
    /\ Idle(s)
    /\ what = "edit" => RoomForEdit(d)
    /\ mutex = Free
    /\ Opened(s, d)
    /\ site' = [site EXCEPT ![s] = siteIds[s][d]]
    /\ cur' = [cur EXCEPT ![s] = d]
    /\ Goto(s, what)
    /\ UNCHANGED <<mutex, open, odVars, db, edits, siteIds, snap, saver>>

(* Mutant: an edit does not mark the document. *)
ApplyEditUnmarked(s) ==
    /\ pc[s] = "edit"
    /\ LET d == cur[s] IN
         /\ ~Busy(d)
         /\ edits' = [edits EXCEPT ![d] = @ + 1]
         /\ content' = [content EXCEPT ![d] = @ \cup {edits[d] + 1}]
         /\ cursors' = [cursors EXCEPT ![d] = @ \cup {site[s]}]
    /\ Return(s)
    /\ UNCHANGED <<mutex, open, changed, refs, nextSite, users, db, siteIds, snap, saver>>

(* ... and without it the operation on the OpenDocument, which moves the    *)
(* cursor unless it is a change of format.                                  *)
ApplyEdit(s) ==
    /\ pc[s] = "edit"
    /\ LET d == cur[s] IN
         /\ ~Busy(d)
         /\ edits' = [edits EXCEPT ![d] = @ + 1]
         /\ content' = [content EXCEPT ![d] = @ \cup {edits[d] + 1}]
         /\ changed' = [changed EXCEPT ![d] = TRUE]
         /\ cursors' \in {cursors, [cursors EXCEPT ![d] = @ \cup {site[s]}]}
    /\ Return(s)
    /\ UNCHANGED <<mutex, open, refs, nextSite, users, db, siteIds, snap, saver>>

ApplyMove(s) ==
    /\ pc[s] = "move"
    /\ ~Busy(cur[s])
    /\ cursors' = [cursors EXCEPT ![cur[s]] = @ \cup {site[s]}]
    /\ Return(s)
    /\ UNCHANGED <<mutex, open, content, changed, refs, nextSite, users, db, edits,
                   siteIds, snap, saver>>

-----------------------------------------------------------------------------
(* DocumentManager::save, called by the saver's timer. *)
SaveBegin ==
    /\ saver.pc = "idle"
    /\ mutex = Free
    /\ mutex' = Saver
    /\ saver' = [IdleSaver EXCEPT !.pc = "next", !.must = open]
    /\ UNCHANGED <<open, odVars, db, edits, sessionVars>>

(* The loop moves to document d and releases mutex_.  It visits every       *)
(* document that was in memory when it began, and perhaps one inserted      *)
(* meanwhile, depending on where the hash table puts it.                    *)
SaveVisit(d) ==
    /\ saver.pc = "next"
    /\ d \in open \ saver.seen
    /\ mutex' = Free
    /\ saver' = [saver EXCEPT !.pc = "check", !.doc = d, !.seen = @ \cup {d}]
    /\ UNCHANGED <<open, odVars, db, edits, sessionVars>>

(* OpenDocument::save takes the document's lock: nothing to do ... *)
SaveUnchanged ==
    /\ saver.pc = "check"
    /\ ~changed[saver.doc]
    /\ saver' = [saver EXCEPT !.pc = "relock"]
    /\ UNCHANGED <<mutex, open, odVars, db, edits, sessionVars>>

(* ... or a transaction that replaces the text. *)
SaveWrite ==
    /\ saver.pc = "check"
    /\ changed[saver.doc]
    /\ saver' = [saver EXCEPT !.pc = "write"]
    /\ UNCHANGED <<mutex, open, odVars, db, edits, sessionVars>>

(* The result of commit() is not looked at. *)
SaveCommit ==
    /\ saver.pc = "write"
    /\ \/ db' = [db EXCEPT ![saver.doc] = content[saver.doc]]
       \/ CommitCanFail /\ UNCHANGED db
    /\ changed' = [changed EXCEPT ![saver.doc] = FALSE]
    /\ saver' = [saver EXCEPT !.pc = "relock"]
    /\ UNCHANGED <<mutex, open, content, refs, nextSite, cursors, users, edits,
                   sessionVars>>

SaveRelock ==
    /\ saver.pc = "relock"
    /\ mutex = Free
    /\ mutex' = Saver
    /\ saver' = [saver EXCEPT !.pc = "next", !.doc = NoDoc]
    /\ UNCHANGED <<open, odVars, db, edits, sessionVars>>

SaveVisited ==
    /\ saver.pc = "next"
    /\ saver.must \subseteq saver.seen
    /\ saver' = [saver EXCEPT !.pc = "remove", !.todo = open]
    /\ UNCHANGED <<mutex, open, odVars, db, edits, sessionVars>>

(* Mutant: documents are removed whether they are used or not. *)
SaveRemoveUsed(d) ==
    /\ saver.pc = "remove"
    /\ d \in saver.todo
    /\ open' = open \ {d}
    /\ saver' = [saver EXCEPT !.todo = @ \ {d}]
    /\ UNCHANGED <<mutex, odVars, db, edits, sessionVars>>

(* The second loop, holding mutex_: documents nobody uses are removed. *)
SaveRemove(d) ==
    /\ saver.pc = "remove"
    /\ d \in saver.todo
    /\ open' = IF refs[d] = 0 THEN open \ {d} ELSE open
    /\ saver' = [saver EXCEPT !.todo = @ \ {d}]
    /\ UNCHANGED <<mutex, odVars, db, edits, sessionVars>>

SaveEnd ==
    /\ saver.pc = "remove"
    /\ saver.todo = {}
    /\ mutex' = Free
    /\ saver' = IdleSaver
    /\ UNCHANGED <<open, odVars, db, edits, sessionVars>>

(* The server process ends, because a query of the saver failed or for any  *)
(* other reason, and is started again: only the database remains (a         *)
(* transaction that was not committed is rolled back).                      *)
Crash ==
    /\ mutex' = Free
    /\ open' = {}
    /\ siteIds' = [s \in Sessions |-> [d \in Docs |-> NoSite]]
    /\ pc' = [s \in Sessions |-> "idle"]
    /\ cur' = [s \in Sessions |-> NoDoc]
    /\ site' = [s \in Sessions |-> NoSite]
    /\ snap' = [s \in Sessions |-> NoSnap]
    /\ saver' = IdleSaver
    /\ UNCHANGED <<odVars, db, edits>>

-----------------------------------------------------------------------------
Begin(s) ==
    \E d \in Docs :
        \/ Create(s, d) \/ Open(s, d) \/ Close(s, d)
        \/ Use(s, d, "edit") \/ Use(s, d, "move")

Locking(s) == OpenLock(s)

Proceed(s) ==
    \/ OpenLoad(s) \/ LoadFails(s) \/ OpenEnter(s) \/ OpenRegister(s)
    \/ ReadUsers(s) \/ ReadCursors(s) \/ Answer(s)
    \/ CloseLeave(s) \/ ApplyEdit(s) \/ ApplyMove(s)

SaveStep ==
    \/ SaveBegin \/ SaveUnchanged \/ SaveWrite \/ SaveCommit
    \/ SaveRelock \/ SaveVisited \/ SaveEnd
    \/ \E d \in Docs : SaveVisit(d) \/ SaveRemove(d)

Next ==
    \/ \E s \in Sessions : Begin(s) \/ Locking(s) \/ Proceed(s)
    \/ SaveStep
    \/ Crash

Spec == Init /\ [][Next]_vars

(* Threads run, the timer fires, and a lock that is released again and      *)
(* again is granted in the end.  Nothing makes a session send a request.    *)
Fairness ==
    /\ \A s \in Sessions : SF_vars(Locking(s)) /\ SF_vars(Proceed(s))
    /\ SF_vars(SaveStep)

FairSpec == Spec /\ Fairness

-----------------------------------------------------------------------------
PCs == {"idle", "lock", "load", "enter", "register", "users", "cursors", "answer",
        "leave", "edit", "move"}
SaverPCs == {"idle", "next", "check", "write", "relock", "remove"}

Contents == SUBSET Nat

TypeOK ==
    /\ mutex \in Sessions \cup {Saver, Free}
    /\ open \in SUBSET Docs
    /\ content \in [Docs -> Contents]
    /\ changed \in [Docs -> BOOLEAN]
    /\ refs \in [Docs -> Int]
    /\ nextSite \in [Docs -> Nat]
    /\ cursors \in [Docs -> SUBSET Nat]
    /\ users \in [Docs -> SUBSET Nat]
    /\ siteIds \in [Sessions -> [Docs -> Nat \cup {NoSite}]]
    /\ db \in [Docs -> Contents \cup {NoRow}]
    /\ edits \in [Docs -> Nat]
    /\ pc \in [Sessions -> PCs]
    /\ cur \in [Sessions -> Docs \cup {NoDoc}]
    /\ site \in [Sessions -> Nat \cup {NoSite}]
    /\ snap \in [Sessions -> [users : SUBSET Nat, cursors : SUBSET Nat]]
    /\ saver \in [pc : SaverPCs, doc : Docs \cup {NoDoc},
                  must : SUBSET Docs, seen : SUBSET Docs, todo : SUBSET Docs]

(* Sessions counted in by OpenDocument::open and not yet counted out. *)
Holders(d) ==
    {s \in Sessions : Opened(s, d) \/ (pc[s] \in {"register", "leave"} /\ cur[s] = d)}

(* reference_count_ is the number of sessions counted in, at every point of *)
(* the two-step open and close.                                             *)
RefCounts == \A d \in open : refs[d] = Cardinality(Holders(d))

(* Places where a thread uses a reference to an OpenDocument that it got    *)
(* earlier, mostly without holding mutex_.                                  *)
Referencing == {"enter", "register", "users", "cursors", "leave", "edit", "move"}

(* No thread holds a reference to a document that has been removed from     *)
(* memory: neither a request nor the saver between unlock and relock.       *)
NoDangling ==
    /\ \A s \in Sessions :
         /\ pc[s] \in Referencing => cur[s] \in open
         /\ \A d \in Docs : Opened(s, d) => d \in open
    /\ saver.pc \in {"check", "write"} => saver.doc \in open

(* The site id of a session that is counted in. *)
SiteOf(s, d) == IF Opened(s, d) THEN siteIds[s][d] ELSE site[s]

(* Two sessions never have the same site id in a document, and a site has a *)
(* cursor exactly while its session has the document (open_document.h:21).  *)
SitesDistinct ==
    \A d \in open :
        /\ \A s, t \in Holders(d) : SiteOf(s, d) = SiteOf(t, d) => s = t
        /\ cursors[d] = {SiteOf(s, d) : s \in Holders(d)}

(* A document that is not marked as changed is the one in the database      *)
(* (open_document.h:26, "changed since last save").                         *)
CleanIsSaved == \A d \in open : ~changed[d] => db[d] = content[d]

(* What is saved is never ahead of what is in memory,                       *)
DbBehindMemory == \A d \in open : db[d] \subseteq content[d]

(* and saving never takes an edit away from the database: no thread works   *)
(* on, or saves, an older copy than another one loaded.                     *)
DbKeepsEdits ==
    [][\A d \in Docs : db[d] # NoRow => db'[d] # NoRow /\ db[d] \subseteq db'[d]]_vars

(* A document is saved before it is removed from memory (README, "Server    *)
(* automatically saves the documents").                                     *)
RemovedAreSaved ==
    [][\A d \in saver.todo : d \in open \ open' /\ saver'.pc = "remove"
           => content[d] \subseteq db[d]]_vars

(* Every site with a cursor in the information sent to a client belongs to  *)
(* a user in it (docs/protocol.md:33).                                      *)
CursorsHaveUsers ==
    \A s \in Sessions : pc[s] = "answer" => snap[s].cursors \subseteq snap[s].users

(* Every request is answered: the two kinds of lock cannot block each other. *)
RequestsEnd == \A s \in Sessions : pc[s] # "idle" ~> pc[s] = "idle"

(* An edit reaches the database while its document stays in memory. *)
EditsSaved ==
    \A d \in Docs : \A e \in 1 .. MaxEdits :
        (d \in open /\ e \in content[d]) ~> (d \notin open \/ e \in db[d])

(* The text of a document: the one in memory, or else the saved one. *)
Text(d) == IF d \in open THEN content[d] ELSE db[d]

Store == INSTANCE DocumentStore WITH
    NoText <- NoRow,
    saved <- db,
    text <- [d \in Docs |-> Text(d)],
    members <- [d \in Docs |-> Holders(d)]

(* The saver, the loading and the removal of documents are invisible: seen   *)
(* by those who edit it, a document only ever gains edits one by one, and    *)
(* falls back to its saved text only when nobody is in it or the server      *)
(* ends.                                                                     *)
StoresDocuments == Store!Spec
=============================================================================
