# A TLA+ verification of write-together

write-together is a collaborative text editor: Qt clients edit documents together
through a multi-threaded Qt server that keeps the documents in a MySQL database.
This directory models the parts of it that are hard to get right, checks them with
TLC on small instances, and proves what matters most with TLAPS for every size.

All paths below are relative to the repository; `worker.cpp:73` is a line of the
file of that name under `src/`.

## 1. The system

| Component | State | Operations | Talks to |
|---|---|---|---|
| Position allocator, `crdt/lseq.cpp` | `strategies_` | `between` | called by the shared editor |
| Shared editor, `crdt/shared_editor.cpp` | `text_`, `version_vector_`, `deletion_buffer_`, `site_counter_` | `local_insert`, `local_erase`, `remote_insert`, `remote_erase` | owned by every client editor and every open document |
| Client editor, `client/editor.cpp`, `user.cpp` | text widget, users and sites, remote cursors | local changes; `remote_insert`, `remote_erase`, `remote_format_change`, `remote_open`, `remote_close`, `remote_cursor_move` | signals to and from `UiWorker` |
| Client windows, `client/worker_ui.cpp`, the forms, `home.cpp`, `profile_dialog.cpp` | visible window, `editors_`, profile, listed documents, the dialog and the profile in it | clicks; one handler per message type | socket to the server |
| Worker threads, `server/worker.cpp` | sockets, `editing_clients_` | `serve_request` (one handler per message type), `dispatch_message`, `start_session`, `close_session` | the client sockets; the other workers by queued signals; the two managers below |
| Server, `server/server.cpp` | the workers and their `number_of_connections_` | `incomingConnection` | posts to one worker |
| Document manager, open documents, saver: `server/document_manager.cpp`, `open_document.cpp`, `saver.cpp` | `open_documents_`, `site_ids_`, two kinds of mutex; per document text, formats, cursors, users, `reference_count_`, `next_site_id_`, `changed_` | create, open, close, insert, erase, format, move, save | called by all the workers and the saver thread; the database |
| Identity manager, `server/identity_manager.cpp` | `sessions_` | signup, login, logout, update_profile | called by all the workers; the database |
| Queries, `database/database_utility_secret.cpp`, `database_guard.cpp`, `database_utility.cpp` | rows of users, documents, sharings, characters; one transaction per request | select, select for update, insert, update; commit, rollback | the two managers; MySQL |
| Protocol messages, `protocol/*.cpp` | none | JSON to message and back | everywhere |
| Password hashing, `main.cpp`, PDF export | | | |

How they interact: a client's edit changes its own editor at once and is written to
its socket. The worker thread that owns the socket applies it to the server's copy,
writes it to its own other clients that edit the document, and emits a signal that
is queued in the event loop of each other worker, which then writes to its clients.
Each connection and each queue is in order. Two workers may relay related operations
in different orders. Requests of different sessions, and the saver's timer, run in
different threads over the same documents.

What is hard, and what makes each part correct:

* **Concurrent edits** reach clients in different orders: an erase before its insert, an
  insert after the snapshot that contains it, two symbols at the same position. All
  replicas have to end with the same sorted text, formats and widget aligned with it.
* **Locks and lifetimes.** The document manager's mutex is released before the
  document is used, released and taken again while the saver passes, and held while
  a document's lock is waited for. Nobody may use a removed document, lose
  an edit, or wait forever.
* **A crash or a failed query** while a document is saved must not damage the copy
  in the database, nor leave a document nobody can reach or a session without a user.
* **Transactions and memory.** What a request reads in one transaction it uses after
  that transaction has ended, while other sessions sign up, use links and save.
* **Stale state in the client.** Answers and relays arrive after the user has
  logged out, closed the editor or the profile dialog, or clicked a second time.
* **Sites that come and go** while others take their snapshot, some of them of the same
  user: nobody may see a user who has left, miss one who is still there with another
  client, or be sent the cursor of one it does not know.
* **Reused names.** Site ids restart when a document is loaded again; a file
  descriptor names a session and is given to another connection later.
* **Allocation at its limits**: equal positions, neighbouring paths of different
  depth, a random step carried over from one node to the next.

`PROJECT.json` lists every such hazard at its line with the properties that cover it.

## 2. Modules

| Module | Models | Abstracts |
|---|---|---|
| `Lseq` | `Lseq::between`: paths, the search for a level, every step and strategy `rand()` can give | nothing; `Begin`, `End`, `Boundary` are parameters |
| `PositionAllocation` | several shared editors that allocate with `Lseq` | how operations travel |
| `SharedEditor` | the class, as operators from an editor to an editor: version vector, deletion buffer, the index each operation reports | a position is an integer strictly between its neighbours |
| `ReplicatedText` | abstract specification of collaborative editing: inserts and erases are learnt one at a time, in any order, and the text is always what is known | channels, workers, vectors, buffers |
| `EditingSession` | one document: clients, sockets, workers, the server's copy | cursors, closing, the list of users (in `Presence`) |
| `DocumentStore` | abstract specification of the server's documents: a text, a saved text and the members of each | loading, locks, the saver's loops, reference counts, sites |
| `DocumentManager` | documents in memory, both kinds of lock, the saver, the database, crashes | the text is the set of its edits; the checks of opening and creating are one query each, loading a document is one that may fail |
| `Transactions` | the queries of signing up, creating, opening by name and by link, one step each; failing queries and commits, deadlocks in the database, crashes | locks of the manager, the text |
| `Protocol` | abstract specification of a session: the state diagram of `docs/plantuml/protocol.pu` | windows, sockets, passwords |
| `ClientSession` | windows, forms, profile dialog and editors of clients against the server's sessions, accounts, documents and sharings | one step per request; passwords are right or wrong |
| `Presence` | opening, moving, closing and vanishing in one document: cursors, sites, users with one or several clients; an open in the five steps that other workers can come between | the text; every query and load succeeds |
| `Connections` | distribution of sockets over threads; the life of a session named by a descriptor | to whom the session is bound |

Theorems about a module `M` are in `M_proofs`: `PositionAllocation_proofs` (first part: about
`Lseq`), `SharedEditor_proofs`, `EditingSession_proofs` (safety, convergence of texts,
then of formats, and last that it implements `ReplicatedText`), `DocumentManager_proofs` (last part: that it implements `DocumentStore`),
`Transactions_proofs`, `ClientSession_proofs`, `Presence_proofs`, `Connections_proofs`.

`EditingSession` and `ReplicatedText` both extend `SharedEditor`;
`EditingSession` defines the refinement mapping and instantiates `ReplicatedText`. In the
same way `DocumentManager` instantiates `DocumentStore` (property `StoresDocuments`) and
`ClientSession` instantiates `Protocol` (`KeepsProtocol`). `PositionAllocation` extends
`Lseq`. The `MC*` modules give TLC functions such as "client c is on worker c". What
the parts assume of each other:

* `SharedEditor` lets a local insert take any position strictly between its
  neighbours. That is what `PositionAllocation_proofs!BetweenIsBetween` proves of the allocator. Equal
  positions of different sites are included.
* `EditingSession` takes the site ids of its clients to be distinct: that is
  `DocumentManager!SitesDistinct`. The server's operations on one document are
  atomic in it because `OpenDocument` locks its mutex in every one of them.
* `ClientSession` serves and relays in one step what `EditingSession` and
  `Presence` split into service, posts and dispatch.
* `Presence` splits `open_document` where the code gives up a transaction or a lock: the sharing of a
  link, the profiles, the site, the users of the sites, the cursors. So the document that an editor
  is built from can be torn, in the ways that `DocsSnapshot` and `TransUnnamed` show at
  the server: a cursor of a site without a user, a user without a site, a site whose user has no
  profile. The constructor of the editor is undefined in the first two cases (`BadDocument`) and
  makes a user without a name in the third (`Nameless`). The rest of the answer, which no other
  worker can come between, is one step (`Answer`).
* `DocumentManager` opens and creates in one query what `Transactions` splits;
  the locks of the former are left out of the latter, whose requests therefore
  interleave more than the code's.
* In `ClientSession` a session can open whatever it has a sharing of; that the
  sharing is in the database when the document is used is `Transactions!OpenersShare`.

`map` in `PROJECT.json` gives the source lines of every definition. Names are the
code's where there is one (`open_document` is `Open`, `OpenLock`, `OpenLoad`, ...).
Some choices that are not obvious:

* *Steps of the document manager.* A step is what a thread does between two points
  where it may wait or where others see its effect. Waiting for the manager's mutex
  is the guard `mutex = Free`, for a document's lock `~Busy(d)`; only `save()` holds
  the latter across a step, so it is not a variable.
* *Hash iteration.* `save()` iterates over a `QHash` while others may insert. The
  model visits all that was there at the beginning and any later ones.
* *An exception in a handler* (`ClientSession!Throw`) sends an error and asks the socket
  to close; lines already buffered may still be served before the session ends.
* *A null editor* (`worker_ui.cpp:333`), a deleted profile dialog, a missing cursor
  (`user.cpp:31`), an optional without value (`document_manager.cpp:132`) and an index past a
  vector (`lseq.cpp:24`) are undefined behaviour: the process takes no further
  defined step in the model.
* *The database* is external. A plain SELECT reads what was committed when its transaction
  first read; SELECT ... FOR UPDATE of a row that is not there locks a gap, which keeps
  others from inserting into it but not from locking it; of two transactions that wait
  for each other one is rolled back. Any query or commit may fail.
* *States of the documented protocol* are not in any variable of the code.
  `ClientSession!ProtocolState` computes them from the last request that the server has not
  answered and from its session.
* *When a descriptor is free again.* Qt's socket engine, which is not in this repository, closes
  the descriptor before `disconnected` is emitted. So the operating system may give it to a
  new connection while `close_session` of the old one is still to come (`Connections!ToClose`), and the
  new one, on another worker, starts in the old session. Such a connection is an heir of the
  descriptor (`heirs`).
* *Mutants.* A definition preceded by a comment "Mutant: ..." is a plausible bug; it is
  used by no specification, and shows that the property named beside it in `PROJECT.json`
  can fail.

## 3. Runs

Passing runs:

| Run | Instance | What it shows |
|---|---|---|
| `LseqTwoSites` | 2 sites, 3 symbols, two inner children per node | texts stay strictly sorted and are determined by their symbols, for every random choice; between different positions there is always room |
| `EditThreeWorkers` | 3 clients on 3 workers, 3 edits, 2 positions | replicas converge although relays overtake each other; what is kept by index stays aligned; the server's copy never has to buffer an erase; the session implements `ReplicatedText` |
| `EditJoinOneWorker` | 2 editing (one of them formats), 1 joining, one worker, 4 edits | a snapshot taken among edits doubles nothing, nothing erased comes back, text and formats agree everywhere |
| `EditJoinThreeWorkers` | the same on three workers, with typing over a selection, 2 edits, fair | no symbol is missing after joining; every symbol that is not erased reaches every editor |
| `DocsTwoSessions` | 2 sessions, 2 documents, saver, failing commits, crashes | the lifetimes of documents and what the database keeps; the manager implements `DocumentStore` |
| `DocsLiveness` | 2 sessions, 1 document, 3 openings, commits succeed, fair | sites have distinct ids; no request waits forever; every edit is saved; a document not marked as changed is the saved one |
| `Transactions` | 3 sessions, 2 users, 1 document, any query fails, any number of crashes | who is logged in is in the database; no document without its owner's sharing; only sharers have documents open or have sites in them; the parts of an answer, read at different times, differ only by newcomers |
| `ClientPatient` | 2 clients, of which one waits for answers, 2 users, 1 document name (one user's document of that name exists, the other's does not), 5 and 4 clicks, fair | windows and home of the patient client agree with its session and the stored profile, it is never called a bad client and keeps the documented protocol; opened documents are accessible; every form that a click disables comes back, also for the other client |
| `PresenceTwoWorkers` | 3 clients of 2 users on 2 workers, 3 openings of five steps, one move, one connection may end | in every editor that could be built from its document, at rest the cursors shown under a name are exactly those of the other sites and the users shown online by name those that are there, whatever its document left out; users known before they are spoken of; no ghosts |
| `ConnectReuse` | 3 workers, 3 descriptors, 4 connections in any order | counts are exact; a connection that came in when its descriptor had no session left is in its own session only, an heir once the earlier ones are closed; connections that come in one by one are distributed evenly |

Two runs show where the code does something else than it says (`findings` in `PROJECT.json`):

| Run | What TLC shows |
|---|---|
| `LseqTies` | Two sites draw the same position; inserting between the two symbols indexes past the vectors. |
| `DocsRemoval` | An edit and a close between the two loops of `save()` are removed from memory unsaved. |

Further configurations record the limits of the passing properties. Each makes TLC
print a counterexample within seconds, and is a reason for a precondition of a run above
(one worker, one formatting user, patient users, commits that succeed, newcomers, complete documents,
heirs of a descriptor). They are kept for whoever changes that code.

| Configuration (module) | Property violated | What happens |
|---|---|---|
| `LseqStrategies` (`PositionAllocation`) | `OneStrategyPerDepth` | The strategy of a level is not kept if a deeper level is used first. |
| `EditJoinOtherWorker` (`MCEditingSession`) | `NoDuplicates` | A symbol that is in the snapshot and in a late relay is shown twice: inserting is not idempotent. |
| `EditFormats` (`MCEditingSession`) | `ViewsCoherent` | Two users who format a character at the same time keep different formats. |
| `EditFormatsOvertaken` (`MCEditingSession`) | `ViewsCoherent` | A format that overtakes its insert is dropped. |
| `EditReplace` (`MCEditingSession`) | `ViewsCoherent` | A character typed over one selected character is not sent. |
| `DocsCommit` (`DocumentManager`) | `CleanIsSaved` | A failed commit is taken for a save. |
| `DocsSnapshot` (`DocumentManager`) | `CursorsHaveUsers` | A cursor is sent without its user, read in two steps. |
| `ClientDoubleClick` (`MCClientSession`) | `NeverBadClient` | A second click on a document ends the connection. |
| `ClientLogout` (`MCClientSession`) | `WindowsAlwaysAgree` | A document on its way at logout opens an editor over the login form. |
| `ClientClose` (`MCClientSession`) | `NoNullPointer` | An operation on its way when an editor is closed uses a null pointer. |
| `ClientSave` (`MCClientSession`) | `NoNullPointer` | The profile dialog outlives the connection; saving in it uses a socket that is not there. |
| `ClientSaveAgain` (`MCClientSession`) | `ProfileAlwaysShown` | A dialog cancelled and opened again before the answer: the home takes over a profile that was not saved. |
| `TransSignup` (`MCTransactions`) | `SessionsAlwaysHaveUsers` | A signup is answered although its commit failed: the session has no user in the database. |
| `TransLink` (`MCTransactions`) | `Defined` | Adding the sharing of a link fails unnoticed; the optional that opening then uses is empty. |
| `TransShareTwice` (`MCTransactions`) | `NoSharingTwice` | Two sessions of a user use a link at the same time: both find no sharing and both insert one. |
| `TransNewcomer` (`MCTransactions`) | `UsersHaveSites` | A user who came in by link is in the profiles of an answer and has no site in it. |
| `TransUnnamed` (`MCTransactions`) | `SitesHaveProfiles` | A user who came in after the profiles were read has a site in the answer and an empty profile. |
| `PresenceJoin` (`MCPresence`) | `CursorsKnown` | A late cursor message names a site the new editor has no cursor for. |
| `PresenceSnapshot` (`MCPresence`) | `DocumentsComplete` | Two clients open through two workers: one's document has the other's cursor and not its user, and the constructor of the editor uses a null pointer. |
| `PresenceNameless` (`MCPresence`) | `NobodyNameless` | A user came in by the link after the profiles were read: beside the real one, a user without a name stays in the list. |
| `ConnectHeirs` (`Connections`) | `SessionsAlwaysOwn` | A connection starts in the session of the previous holder of its descriptor, and is logged out when that is closed. |

`Balanced` is stated for connections that come in after their predecessors were counted:
`number_of_connections_` is incremented on the worker's thread (`server.cpp:77` only reads it),
so a burst goes to one thread.

### Bounds

Bounds are constants in the guards: `MaxEdits`, `MaxPos`, `MaxCount`, `MaxSymbols`,
`MaxSites`, `MaxMoves` and `MaxRequests` (of each client), `Frail` (the clients whose connection
may end), `MaxConnections`. They stop users, never a handler. `Transactions` has no
bound: its sets are finite and it may crash at any time. What the bounds are for:

* Three clients on three workers is the smallest system where two workers relay
  different operations to a third in either order; three edits give an insert, its
  erase and a concurrent insert at the same or a neighbouring place (`MaxPos = 2` gives equal and
  different positions).
* Two sessions and one saver meet in every pair of places of the document manager;
  a second document makes the loop of `save()` pass more than one. Two openings per loading
  let a document be left, removed and loaded again; the third one in `DocsLiveness` lets a session
  come back while another one stays. The proofs cover larger systems.
* Three threads meet at the queries of one document: one creates it, two open it,
  of the same user or of different ones. More users or documents add no conflict, as
  queries of different rows do not touch each other.
* Five clicks are a login, an open, an edit or close, a logout and one more; or a
  login, a dialog, a save and a cancel. Two clients make relays; four clicks let the
  impatient one send two requests before an answer and what follows from them.
* Three openings by three clients: a user with two clients leaves with one of them while a
  third client comes in, or one client leaves and comes back. Three opens on two workers interleave in
  their five steps, one of them of a user who comes by the link. One move, of the client
  whose user has a second one (`OneBySecond`), passes opens and closes on every way to the others. The
  proofs have no bound.
* Four connections on three descriptors reuse at least one of them, before or after its session is
  closed; an heir and its predecessor can be on any two of three workers.
* A client of `ClientSession` has one connection at a time: `Connect` waits until the server has served what
  the previous one left. The code does not wait, but the two sockets share nothing: the new
  one has a session of its own, and the worker of the old one has nobody to answer. What it still
  does to accounts, documents and sharings is what another client of the same user does, and
  `ClientPatient` has one.
* Nodes with one or two inner children make the allocator leave a level early, so that
  deep paths and carries happen within a few inserts; the code's numbers only make them rarer.

`CHECK_DEADLOCK FALSE` stands where users may stop editing or clicking; the document
manager and the transactions are checked for deadlock, as the saver never stops and
a session can always ask again. Symmetry (of sessions and documents in `DocsTwoSessions`, of
sessions in `Transactions`) is used in no run with a liveness property.

### Fairness

* `EditingSession!FairSpec`: weak fairness of each worker's service of each client, of
  its posts and its dispatches, and of each client's reading. A Qt event loop serves
  every socket and every queued call. Users are not fair.
* `DocumentManager!FairSpec`: strong fairness of each session's thread and of the
  saver. The guard `mutex = Free` comes and goes, and a mutex that is released
  again and again is taken to be granted in the end. Nothing makes a session send a request,
  and nothing forbids a crash.
* `ClientSession!FairSpec`: weak fairness of the server's and of each client's handlers,
  which are calls of an event loop. Users need not click; connections may end.

## 4. Proofs

`PositionAllocation_proofs!BetweenIsBetween`: for any positions `prev < next` (in the order of
`QVector<int>::operator<`), any strategy and any step `rand()` can give, the search of
`between` finds a level inside its vectors and the result is a position strictly
between. It assumes only `LseqAssumption` (`Begin`, `End`, `Boundary` are such that a node has
an inner child). The argument: the filled paths of `prev` and `next` differ first at some
level, so a level with room exists (`RoomBetween`); `Depth` is the first one
(`DepthIsFirst`); before it, `next` is `prev` or its consecutive node; so a step
starts a child above `prev` (`ChildAbove`) and below `next` (`ChildBelow`), also when it is
carried over to the next node (`ChildOfLower`, `ChildOfUpper`). `LseqTies` shows what
happens without `prev # next`.

`DocumentManager_proofs` proves `Spec => []IInv` for any finite number of sessions, any
documents and any bounds, with

    IInv == TypeOK /\ Locks /\ Stages /\ RefCounts /\ NoDangling

`RefCounts` and `NoDangling` are what one wants, and are not inductive alone.
`SaveRemove` removes a document when its count is 0: that is harmless only if no
thread is between looking the document up and counting itself in. The code
protects that by the mutex, so `Locks` says which stages hold it: a session between
`lock` and `register`, the saver while it goes through its loops, and never
both. `Stages` ties the local variables to the stage, and says that in the stages after the
answer of `register` the session still has the document open. Then a
removal needs a count of 0, the count is the cardinality of the sessions
counted in (`RefCounts`), and an empty set of those means that nobody refers to it. The
proof has one step per action for each conjunct; `SameCount` and `CountStep` are
the arithmetic of sessions that enter and leave. Assumptions:
`ManagerAssumption`. From `IInv` follow `TypeCorrect`, `CountsAreRight` and
`NothingDangles`.

Four more theorems rest on it. `SavedIsBehind`: the database never has an edit that memory
lacks; only `Create` and `SaveCommit` write (`WhoWrites`), and memory never loses an edit
(`MemoryKeepsEdits`). `SavingKeepsEdits`: therefore no save takes an edit away; here
`NoDangling` matters, as a save of a removed document would write an old text.
`CleanDocumentsAreSaved`: under the assumption that commits succeed, an unmarked document is the
saved one. `SitesAreDistinct`: the sites of the sessions counted into a document are below
`next_site_id_` (`SitesBelow`), so a new one is new; a document that is loaded again counts from
the beginning only because nobody was in it when it was removed.

`DocumentManager_proofs!ManagerImplementsStore` proves the refinement `Spec => StoresDocuments`, for
any sessions and documents and whether commits can fail or not, over

    RInv == IInv /\ DbBehindMemory /\ Numbered

Each action is shown to be one step of the store or a stutter: loading, locking and
counting in show nothing; `SaveCommit` is `Save`, a failed commit nothing; the removal by the
saver is `Forget`, for which nobody may be in the document, which is `RefCounts` again;
an edit adds something new to the text because edits are numbered (`Numbered`).

`Transactions_proofs` proves all the invariants of the run `Transactions`, for any
sessions, users and documents and any failures. `TInv == TypeOK /\ Knowing /\ SharersAreUsers` says
what a thread knows at each query although the transaction that told it has
ended: sharings are never taken back, so one that was read still holds when it is used.
`SharingsHold` is the conjunction of three invariants, each with a theorem of its own.
`AnswersDifferByNewcomers` needs `Reads` besides: what was read was the set of sharers at
that moment, and who came later is in `newcomers`.

`Connections_proofs` proves the run's three invariants for any number of workers, descriptors and
connections. `TypeCorrect` includes that `number_of_connections_` is the number of sockets
(`CInv`). `SessionsAreOwn` assumes nothing about when a descriptor is given out again. It needs

    DInv == HoldersDistinct /\ SessionsBacked /\ heirs \subseteq DOMAIN conns
          /\ \A i \in Holders \ heirs : FirstOfDescriptor(i)

Sockets that hold a descriptor hold different ones; what is in `sessions_` was put there by a
connection whose `close_session` is still to come (`SessionsBacked`), so that a descriptor without such
connections has at most the session of its present holder; and a holder that is no heir had
nobody before it, and gets nobody later, as the descriptor is not given out while it is held.
`ConnectionsAreBalanced` needs `BInv`, which adds to the property
that nothing has ended, and an argument over the loop that compares the workers: it holds the
least loaded of those looked at.

`PositionAllocation_proofs` carries `BetweenIsBetween` through all replicas, for any number of sites
and symbols. `PInv` says that every inserted symbol has a path the allocator can make (`Made`),
that no two have the same site and number (`Numbers`), and that each text is ascending, with
all pairs compared. `InsertKeepsOrder` and `RemoveKeepsOrder` keep it: a local insert
puts its symbol between its neighbours (`AllocatedBetween`, or `NoRoomInPlace` if positions
are equal and there is no such place), a remote one where `lower_bound` finds it
(`LowerBoundPlace`). Then two ascending texts with the same symbols are equal, element by
element (`SymbolsDetermineTexts`). That insertion keeps order is proved for sequences by
the shape of the result and not by induction.

`Presence_proofs!NobodyStaysBehind` proves `NoGhosts` for any number of clients, users and workers.
`close` and `close_session` remove the cursor of the session's present site; nothing in the
server keeps a session from opening a document twice and then leaving a cursor behind. What does is
the client, whose requests depend on its window. So `GInv` speaks of the channels: the
requests on their way are in an order a client can send them in, the first one is legal in
the session as it is (`Orderly`), the window is what the session will be when they are served, and at
most one document is on its way back (`Fits`); sites of sessions are distinct (`Sessions`).

The other invariants of `Presence` are about the editors of the clients, which learn of each other
through posts between workers, the workers' queues and the connections:

    Introduced == GInv /\ Tabled /\ Talk /\ \A c \in Clients : Informed(c)

A message that names a site is useful only to an editor that knows who opened it, and
`Worker` does not check that. `Talk` says why it need not: all words about a site come from one
session (`OneSource`), so they pass through one worker, which has at most one of them to
post to each other worker (`PostsOK`), and the first word about a site in every queue and on every
connection is the one that says who opened it (`QueueOK`, `HearsInOrder`).

`Informed` is the other half: what an editor does not know by name, or shows and should not, is in the
document it will be built from or on its way to it in such a queue. An open reads its document in
several steps, and other sites come and go between them. What makes up for that is that a site is
`Announced` only in the last step of its own open, after it is in the tables: a site that
was announced before the users were read is in them, and of one announced later the open is still
to come through the worker that is reading (`OpenerOK`). The same holds of the profiles. So a site
that the document leaves out, or has without its user's profile, is one whose open is
still on its way, and that open adds it under its name (`DocumentOK`, `UpToDate`). The user
without a name that the constructor made for it, if any, stays beside it in the list, which is
why `UsersAgree` speaks of the users by name (`NobodyNameless` fails).

From it follow `EveryoneIsIntroduced` (`UsersKnown`), `EditorsAgree`
(`UsersAgree`: nothing on its way, so nothing wrong) and, with the users of the sites known,
`TypeCorrect`.

`ClientSession_proofs!OnlyAccessibleOpened` proves `OpenedIsAccessible` for any number of clients,
patient or not, over `CInv`: the types of the windows, of the channels in both directions and of the
server's state. A session has something open only through `ServeOpen` and `ServeLink`, which find or add
a sharing of the session's user; sharings are never taken back; and a session that logs in has
nothing open, because `EndSession` closes all of it. It assumes that the names of documents are
finitely many, for the message to each of them. `TypeCorrect` is of the same invariant.

What holds of patient clients is proved over `PInv`, beside any number of clients that are not
patient:

    PInv == NoBadClient /\ \A c \in Patient : Keeps(c)
    Keeps(c) == Orderly(session[c], opened[c], up[c]) /\ (Away(c) \/ InTouch(c))

`UiWorker` does not check the type of an answer against what it asked for: a slot throws if
the window it needs is not there. So the invariant says where a patient client and its session can be. It
is `Away` (no connection, and the server may still have its last requests and the end of the
connection to read) or `InTouch`: at a form that has asked nothing (`Idle`), whose request is on
its way (`Greeting`) or whose answer is (`Greeted`), or at home, with requests that suit the windows
(`AtHome`). At most one reply is under way, and never with a request that will be answered. `Orderly`
says that the requests on their way are legal one after the other from the session as it is: that
is why the server never throws. `NoPatientThrows`, `PatientWindowsAgree` and the refinement
`PatientKeepsProtocol` (every step of any client is one of the protocol's or a stutter, for the
patient ones) follow. Without patience
the first two are false (`ClientDoubleClick`, `ClientLogout`).

`SharedEditor_proofs` says what the operations of the class leave of an editor, whatever its text and
however long its deletion buffer. The loop over the buffer is a recursive function, so its
`LoopResult` is proved by induction over the rounds (`NumbersByInduction`, which follows from the
well-foundedness of `<` on `Nat`; the induction theorem of the library takes an operator and
cannot be used). In a `Sound` editor (text sorted, all of it received, nothing in the buffer received)
`remote_insert` makes at most one symbol of the buffer erasable, the inserted one; that is why its
test `erased` after the loop (`shared_editor.cpp:115`) reports the right thing
(`RemoteInsertResult`). `RemoteEraseResult` is the same for erases. `AscendingTextsEqual`: two sorted
texts with the same symbols are equal.

`EditingSession_proofs` proves the invariants of the runs of `EditingSession` over two inductive
invariants. `Inv` holds of every session, whoever joins and through whichever worker:

    Inv == Types /\ Replicated /\ Counted /\ Joining /\ Snapshots /\ Requests /\ Known
           /\ Relayed /\ Own /\ Dead /\ Arriving /\ Aligned

Editors are sound and the server's buffer is empty (`Replicated`); that is not inductive alone,
because an erase could reach the server before its insert. So `Requests` says what is written to a
socket and not yet served: inserts of the client's own symbols in the order of their counters, and
erases and formats only of what the server knows or will know by then. A client asks to erase
what it shows: that is known to the server (`Known`), as everything is that a worker has relayed
(`Relayed`) or a snapshot holds (`Snapshots`). `Arriving` is the heart of `NobodyMisses`: what the
server shows is shown by a client, on its way to it or being erased by it, wherever
it is: in a socket, in a worker's queue, in a post not made yet, or in the snapshot of a client that
is registered and has no window yet (`Copy`). The proofs do not follow the transport message by
message: `Step` restates each action as what it does to the set of symbols shown, and one lemma
per action says what becomes of a message under way (`ServedTransport`, `PostNextTransport`,
`DispatchTransport`, `TakenTransport`). From `Inv` follow `TypeCorrect`, `NoServerBuffer`,
`NobodyMisses` and, without typing over selections, `AlignedViews`.

Convergence needs more, and is false for a client that joins through another worker
than the one that relays (`EditJoinOtherWorker`). `SteadyInv` is about the clients in `Steady`: those
that were there from the start, and everybody if one worker serves them all.

    SteadyInv == Posted /\ InOrder /\ Learned /\ Present /\ Fresh /\ Distinct /\ Going /\ Erasing

`InOrder`: inserts of one site come to a client in the order of their counters, because one worker
relays them all and posts them to each queue in order; `Learned`: nobody is ahead of the server.
Therefore an insert that comes was not received before (`Fresh`), although the version vector only
compares counters, texts have no repetitions (`Distinct`), and what is gone from the server is
gone from the client, in its buffer, or its erase is on its way (`Going`). `Going` and
`Arriving` meet when nothing is on its way: both texts have the same symbols and
are sorted, so they are equal. `SteadyCoherence` says that of the steady clients even while
others join, `Coherence`, `NoSymbolTwice` and `NothingComesBack` say it of all when all are steady, under
the hypothesis `Joiners = {} \/ NWorkers = 1`.

`FormatsAgree` proves `ViewsCoherent`, that users who have the same text also see the same characters and
formats. Texts converge because operations commute; formats do not, so this is an argument about order.
The last message of a queue that speaks of a symbol decides how it will be shown (`Will`), and
`ViewInv`, over `Inv` and `SteadyInv`, compares that with the other side:

    ViewInv == \A d \in editing : Reading(d) /\ Writing(d) /\ Fetching(d) /\ Bringing(d)
                                /\ Formatting(d)

What the server shows is what a client `d` will show when it has handled what comes (`Reading`). For
the one user who changes formats it is the other way round: what that user shows is what the server
will show (`Writing`). `Fetching` and `Bringing` say the same of a symbol whose insert is still on its
way to one side while a format of it is already on its way to the other, and `Formatting` who
sends formats at all. A joining client counts from the moment it is registered, with the snapshot
that waits for it as what it shows (`Sight`). Each action comes down to what it does to one queue and
one side (`SightStep`). The hypotheses are what the code needs, not the proof: with two users who
change formats the property is false (`EditFormats`), with two workers too
(`EditFormatsOvertaken`), and typing over a selection misplaces formats (`EditReplace`).

`SessionImplementsText` proves the refinement of `ReplicatedText` if nobody joins (the snapshot of a
client that joins would teach it many symbols in one step). `LearnInv` adds that what was issued is
with the server or on its way there (`Sent`), then with each client or on its way (`Told`).
Then a counter that a version vector passes over belongs to no symbol the replica has missed,
so one message teaches one symbol (`ServedOne`, `HeardOne`) although one entry of the vector stands for
many. A symbol typed is `Insert`, a deleted one `Erase`, a message handled by the server
or a client is `LearnInsert`, `LearnErase` or, if two users erased the same symbol, a
stutter; posts, dispatches and formats are stutters.

Every invariant and action property of the runs, and each refinement, is stated by a theorem, under the
hypotheses given above. Only model-checked: liveness (`RequestsEnd`, `EditsSaved`, `EveryoneLearns`,
`FormsComeBack`), as fairness and ENABLED are beyond the prover, and what the runs that are not in
`PROJECT.json` show of cases outside the hypotheses. No module uses a RECURSIVE operator.

## 5. Not modelled

* JSON forms of messages and `Symbol`'s check of received positions (`symbol.cpp:36`): text
  in and out; the check matters only for messages this project's programs never send.
* Pasting several characters with different formats (`editor.cpp:439`): the clipboard belongs to
  other programs too. Undo, colours, remote cursor widgets, PDF export: layout over the
  operations that are modelled.
* What forms accept (length of names, equal passwords), the choice of an icon file, the
  filters of the document list, the dialog that shows another user's profile: they
  decide whether a request is made, and the model makes it or not.
* Password hashing (a library call), TLS and listening, `main.cpp`, and the end of the server's
  threads, which a crash stands for.
* Where a rehashed `QHash` continues an iteration (`document_manager.cpp:231`), and that a document
  name may contain the separator of its full name.
* Queries that fail while a document is opened in `Presence`: the request ends in the error that
  `Transactions!Fail` and `DocumentManager!LoadFails` model, and nobody hears of it.
* Opening and creating a document query by query under the manager's mutexes: `Transactions` and
  `DocumentManager` each have one half. Together they are beyond TLC, and the interleavings of
  the former include those the locks allow.

## 6. Plan

Done: the allocator, the shared editor and the editing session with its abstract
specification, the document manager with its store, transactions, clients with the documented
protocol and the profile dialog, presence with users that have several clients,
connections; proofs about all of them.

Left, models:

1. Closing and opening again in `EditingSession`, so that stale relays meet an editor of another opening.
2. Validation of received messages (`Symbol`, `Message::deserialize`) as a relation between what is sent and what is taken.
3. Formats copied with a selection and pasted.

Left, proofs: that the parts above keep the invariants when they are modelled. The first needs `OneSource` of
`Presence` in `EditingSession`, the third `ViewInv` with a format in the snapshot of a paste.

## 7. Using it

    tlc -workers 2 -config DocsTwoSessions.cfg MCDocumentManager
    tlc -workers 2 -config TransShareTwice.cfg MCTransactions
    tlapm EditingSession_proofs.tla

`PROJECT.json` gives the module of each run's configuration, the table above those of the
others.
