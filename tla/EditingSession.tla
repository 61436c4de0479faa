--------------------------- MODULE EditingSession ---------------------------
(***************************************************************************)
(* One document edited by several clients through the server: the editors  *)
(* (src/src/client/editor.cpp over SharedEditor), the sockets, the worker  *)
(* threads that serve and relay requests (src/src/server/worker.cpp) and   *)
(* the server's replica (OpenDocument, src/src/server/open_document.cpp).  *)
(*                                                                         *)
(* A worker serves a request to its end: it updates the server's replica,  *)
(* writes to the sockets of its own clients (the new_message signal is     *)
(* connected to the worker itself first) and then posts the message to the *)
(* other workers' event queues, one at a time.  Between two posts the      *)
(* other threads run, so workers may relay related operations in different *)
(* orders.                                                                 *)
(*                                                                         *)
(* A client that joins gets a snapshot of the server's replica.  Closing,  *)
(* cursors and the list of users are not part of this module.              *)
(***************************************************************************)
EXTENDS SharedEditor, FiniteSets

CONSTANTS
    Clients,        \* each opens the document once; its site id is its name
    Joiners,        \* the clients that open it later; the others have it open
    NWorkers,       \* n_workers
    WorkerOf,       \* the worker each client's socket belongs to
    Formats,        \* formats of a character; typed characters get DefaultFormat
    DefaultFormat,
    Formatters,     \* the clients whose users change formats
    Replacing,      \* whether a user may type over a selected character
    MaxEdits        \* bound: edits by all the users together

ASSUME SessionAssumption ==
    /\ Clients = Sites
    /\ Joiners \subseteq Clients
    /\ NWorkers \in Nat \ {0}
    /\ WorkerOf \in [Clients -> 1 .. NWorkers]
    /\ DefaultFormat \in Formats
    /\ Formatters \subseteq Clients
    /\ Replacing \in BOOLEAN
    /\ MaxEdits \in 0 .. MaxCount

Server == 0
ASSUME ServerAssumption == Server \notin Clients

Replicas == Clients \cup {Server}
Workers == 1 .. NWorkers

VARIABLES
    editor,     \* the SharedEditor of each replica
    view,       \* what is kept by index beside it: the server's formats_, a
                \* client's text widget; each entry is [of, format]
    counter,    \* site_counter_ of each client
    joined,     \* clients whose editor window exists
    editing,    \* clients in the workers' editing_clients
    up,         \* messages from each client to its worker
    down,       \* messages from the worker to each client
    queue,      \* dispatch_message calls posted to each worker
    posting,    \* posts a worker still has to make for its current request
    issued,     \* history: the symbols inserted so far
    edits       \* number of edits so far

vars == <<editor, view, counter, joined, editing, up, down, queue, posting, issued, edits>>

-----------------------------------------------------------------------------
Char(s, f) == [of |-> s, format |-> f]
Replaced == [pos |-> 0, site |-> 0, n |-> 0]    \* a character without a symbol

Insert(s, f) == [type |-> "insert", symbol |-> s, format |-> f]
Erase(s) == [type |-> "erase", symbol |-> s]
Format(s, f) == [type |-> "format", symbol |-> s, format |-> f]
Open == [type |-> "open"]
DocumentOf(v) == [type |-> "document", text |-> v]

Init ==
    /\ editor = [r \in Replicas |-> EditorOf(<< >>)]
    /\ view = [r \in Replicas |-> << >>]
    /\ counter = [c \in Clients |-> 0]
    /\ joined = Clients \ Joiners
    /\ editing = Clients \ Joiners
    /\ up = [c \in Clients |-> << >>]
    /\ down = [c \in Clients |-> << >>]
    /\ queue = [w \in Workers |-> << >>]
    /\ posting = [w \in Workers |-> << >>]
    /\ issued = {}
    /\ edits = 0

-----------------------------------------------------------------------------
(* The user of client c edits: one more edit, sent to the server. *)
Edited(c, messages) ==
    /\ edits < MaxEdits
    /\ edits' = edits + 1
    /\ up' = [up EXCEPT ![c] = @ \o messages]
    /\ UNCHANGED <<joined, editing, down, queue, posting>>

(* Mutant: the symbol's counter is advanced by the client and by the editor. *)
TypeCharTwice(c, i) ==
    /\ \E p \in FreePositions(editor[c], i) :
         LET s == [pos |-> p, site |-> c, n |-> counter[c]]
         IN  /\ editor' = [editor EXCEPT ![c] = LocalInsert(@, i, s)]
             /\ view' = [view EXCEPT ![c] = InsertAt(@, i, Char(s, DefaultFormat))]
             /\ issued' = issued \cup {s}
             /\ Edited(c, <<Insert(s, DefaultFormat)>>)
    /\ counter' = [counter EXCEPT ![c] = @ + 2]

(* process_local_content_change(i, 0, 1) *)
TypeChar(c, i) ==
    /\ \E p \in FreePositions(editor[c], i) :
         LET s == [pos |-> p, site |-> c, n |-> counter[c]]
         IN  /\ editor' = [editor EXCEPT ![c] = LocalInsert(@, i, s)]
             /\ view' = [view EXCEPT ![c] = InsertAt(@, i, Char(s, DefaultFormat))]
             /\ issued' = issued \cup {s}
             /\ Edited(c, <<Insert(s, DefaultFormat)>>)
    /\ counter' = [counter EXCEPT ![c] = @ + 1]

(* process_local_content_change(i, 1, 0) *)
DeleteChar(c, i) ==
    /\ editor' = [editor EXCEPT ![c] = LocalErase(@, i)]
    /\ view' = [view EXCEPT ![c] = RemoveAt(@, i)]
    /\ Edited(c, <<Erase(editor[c].text[i])>>)
    /\ UNCHANGED <<counter, issued>>

(* process_local_content_change(i, 1, 1): taken for a change of format, so  *)
(* the shared editor is left alone and nothing is sent.                     *)
ReplaceChar(c, i) ==
    /\ Replacing
    /\ view' = [view EXCEPT ![c] = ReplaceAt(@, i, Char(Replaced, DefaultFormat))]
    /\ Edited(c, << >>)
    /\ UNCHANGED <<editor, counter, issued>>

(* process_local_format_change over the i-th character *)
ChangeFormat(c, i, f) ==
    /\ c \in Formatters
    /\ view[c][i].format # f
    /\ view' = [view EXCEPT ![c][i].format = f]
    /\ Edited(c, <<Format(editor[c].text[i], f)>>)
    /\ UNCHANGED <<editor, counter, issued>>

LocalEdit(c) ==
    /\ c \in joined
    /\ \/ \E i \in 1 .. (Len(editor[c].text) + 1) : TypeChar(c, i)
       \/ \E i \in DOMAIN editor[c].text : DeleteChar(c, i) \/ ReplaceChar(c, i)
       \/ \E i \in DOMAIN editor[c].text, f \in Formats : ChangeFormat(c, i, f)

(* UiWorker::open_document *)
RequestOpen(c) ==
    /\ c \notin joined
    /\ up[c] = << >> /\ down[c] = << >>
    /\ up' = [up EXCEPT ![c] = Append(@, Open)]
    /\ UNCHANGED <<editor, view, counter, joined, editing, down, queue, posting, issued, edits>>

-----------------------------------------------------------------------------
(* The handlers of a remote operation at replica r (Editor::remote_insert,  *)
(* OpenDocument::insert_symbol, ...): the shared editor, then by index what *)
(* is kept beside it.                                                       *)
ApplyInsert(r, s, f) ==
    LET done == RemoteInsert(editor[r], s) IN
    /\ editor' = [editor EXCEPT ![r] = done.ed]
    /\ view' = IF done.index = NoIndex THEN view
               ELSE [view EXCEPT ![r] = InsertAt(@, done.index, Char(s, f))]

ApplyErase(r, s) ==
    LET done == RemoteErase(editor[r], s) IN
    /\ editor' = [editor EXCEPT ![r] = done.ed]
    /\ view' = IF done.index = NoIndex THEN view
               ELSE [view EXCEPT ![r] = RemoveAt(@, done.index)]

ApplyFormat(r, s, f) ==
    LET i == FindSymbol(editor[r], s) IN
    /\ view' = IF i = NoIndex THEN view ELSE [view EXCEPT ![r][i].format = f]
    /\ UNCHANGED editor

Apply(r, m) ==
    CASE m.type = "insert" -> ApplyInsert(r, m.symbol, m.format)
      [] m.type = "erase" -> ApplyErase(r, m.symbol)
      [] m.type = "format" -> ApplyFormat(r, m.symbol, m.format)

(* Mutant: the source is sent its own message. *)
WrittenToAll(d, w, source, m) ==
    [c \in Clients |-> IF c \in editing /\ WorkerOf[c] = w THEN Append(d[c], m) ELSE d[c]]

(* dispatch_message by worker w: the message goes to every socket of w that *)
(* edits the document, the source's excepted.                               *)
Written(d, w, source, m) ==
    [c \in Clients |-> IF c \in editing \ {source} /\ WorkerOf[c] = w
                       THEN Append(d[c], m) ELSE d[c]]

(* Mutant: the last worker is left out. *)
AllButLastWorker(w) == SelectSeq([i \in 1 .. (NWorkers - 1) |-> i], LAMBDA v : v # w)

(* The workers new_message is connected to after w itself, in order. *)
OtherWorkers(w) == [i \in 1 .. (NWorkers - 1) |-> IF i < w THEN i ELSE i + 1]

(* serve_request for an insert, erase or format message of client c. *)
ServeEdit(w, c) ==
    /\ posting[w] = << >>
    /\ WorkerOf[c] = w
    /\ up[c] # << >>
    /\ LET m == Head(up[c]) IN
         /\ m.type # "open"
         /\ Apply(Server, m)
         /\ down' = Written(down, w, c, m)
         /\ posting' = [posting EXCEPT ![w] =
                [i \in DOMAIN OtherWorkers(w) |->
                    [to |-> OtherWorkers(w)[i], source |-> c, message |-> m]]]
    /\ up' = [up EXCEPT ![c] = Tail(@)]
    /\ UNCHANGED <<counter, joined, editing, queue, issued, edits>>

(* Mutant: the client is not registered as editing. *)
ServeOpenUnregistered(w, c) ==
    /\ posting[w] = << >>
    /\ WorkerOf[c] = w
    /\ up[c] # << >>
    /\ Head(up[c]) = Open
    /\ down' = [down EXCEPT ![c] = Append(@,
            DocumentOf([i \in DOMAIN editor[Server].text |->
                Char(editor[Server].text[i], view[Server][i].format)]))]
    /\ up' = [up EXCEPT ![c] = Tail(@)]
    /\ UNCHANGED <<editor, view, counter, joined, editing, queue, posting, issued, edits>>

(* Mutant: the snapshot has the text without its formats. *)
ServeOpenUnformatted(w, c) ==
    /\ posting[w] = << >>
    /\ WorkerOf[c] = w
    /\ up[c] # << >>
    /\ Head(up[c]) = Open
    /\ editing' = editing \cup {c}
    /\ down' = [down EXCEPT ![c] = Append(@,
            DocumentOf([i \in DOMAIN editor[Server].text |->
                Char(editor[Server].text[i], DefaultFormat)]))]
    /\ up' = [up EXCEPT ![c] = Tail(@)]
    /\ UNCHANGED <<editor, view, counter, joined, queue, posting, issued, edits>>

(* serve_request for an open message: snapshot, register, answer. *)
ServeOpen(w, c) ==
    /\ posting[w] = << >>
    /\ WorkerOf[c] = w
    /\ up[c] # << >>
    /\ Head(up[c]) = Open
    /\ editing' = editing \cup {c}
    /\ down' = [down EXCEPT ![c] = Append(@,
            DocumentOf([i \in DOMAIN editor[Server].text |->
                Char(editor[Server].text[i], view[Server][i].format)]))]
    /\ up' = [up EXCEPT ![c] = Tail(@)]
    /\ UNCHANGED <<editor, view, counter, joined, queue, posting, issued, edits>>

(* The new_message signal reaches the next worker's event queue. *)
PostNext(w) ==
    /\ posting[w] # << >>
    /\ LET p == Head(posting[w]) IN
         queue' = [queue EXCEPT ![p.to] = Append(@, [source |-> p.source, message |-> p.message])]
    /\ posting' = [posting EXCEPT ![w] = Tail(@)]
    /\ UNCHANGED <<editor, view, counter, joined, editing, up, down, issued, edits>>

(* dispatch_message called from worker w's event queue. *)
Dispatch(w) ==
    /\ posting[w] = << >>
    /\ queue[w] # << >>
    /\ down' = Written(down, w, Head(queue[w]).source, Head(queue[w]).message)
    /\ queue' = [queue EXCEPT ![w] = Tail(@)]
    /\ UNCHANGED <<editor, view, counter, joined, editing, up, posting, issued, edits>>

(* UiWorker::process_message: an operation of another client. *)
ReceiveEdit(c) ==
    /\ down[c] # << >>
    /\ Head(down[c]).type # "document"
    /\ c \in joined
    /\ Apply(c, Head(down[c]))
    /\ down' = [down EXCEPT ![c] = Tail(@)]
    /\ UNCHANGED <<counter, joined, editing, up, queue, posting, issued, edits>>

(* UiWorker::open_editor: a new editor over the snapshot. *)
ReceiveDocument(c) ==
    /\ down[c] # << >>
    /\ Head(down[c]).type = "document"
    /\ LET v == Head(down[c]).text IN
         /\ editor' = [editor EXCEPT ![c] = EditorOf([i \in DOMAIN v |-> v[i].of])]
         /\ view' = [view EXCEPT ![c] = v]
    /\ joined' = joined \cup {c}
    /\ down' = [down EXCEPT ![c] = Tail(@)]
    /\ UNCHANGED <<counter, editing, up, queue, posting, issued, edits>>

-----------------------------------------------------------------------------
Serve(w) == \E c \in Clients : ServeEdit(w, c) \/ ServeOpen(w, c)
Receive(c) == ReceiveEdit(c) \/ ReceiveDocument(c)

Next ==
    \/ \E c \in Clients : LocalEdit(c) \/ RequestOpen(c) \/ Receive(c)
    \/ \E w \in Workers : Serve(w) \/ PostNext(w) \/ Dispatch(w)

(* Event loops serve every client's messages and every queued call, sockets *)
(* deliver what is written to them; users need not edit.                    *)
Fairness ==
    /\ \A w \in Workers :
         /\ \A c \in Clients : WF_vars(ServeEdit(w, c) \/ ServeOpen(w, c))
         /\ WF_vars(PostNext(w))
         /\ WF_vars(Dispatch(w))
    /\ \A c \in Clients : WF_vars(Receive(c))

Spec == Init /\ [][Next]_vars
FairSpec == Spec /\ Fairness

-----------------------------------------------------------------------------
Message ==
         [type : {"insert", "format"}, symbol : Symbol, format : Formats]
    \cup [type : {"erase"}, symbol : Symbol]
Call == [source : Clients, message : Message]

TypeOK ==
    /\ \A r \in Replicas :
         /\ editor[r].text \in Seq(Symbol) /\ editor[r].buf \in Seq(Symbol)
         /\ editor[r].vv \in [Sites -> NotReceived .. MaxEdits]
         /\ \A i \in DOMAIN view[r] : view[r][i].of \in Symbol \cup {Replaced}
                                      /\ view[r][i].format \in Formats
    /\ counter \in [Clients -> 0 .. MaxEdits]
    /\ joined \subseteq editing /\ editing \subseteq Clients
    /\ \A c \in Clients : \A i \in DOMAIN up[c] : up[c][i] \in Message \cup {Open}
    /\ \A w \in Workers : queue[w] \in Seq(Call)
    /\ issued \subseteq Symbol

(* Nothing is under way between the replicas. *)
Quiescent ==
    /\ \A c \in Clients : up[c] = << >> /\ down[c] = << >>
    /\ \A w \in Workers : queue[w] = << >> /\ posting[w] = << >>

(* When every message has been handled, all the editors show the server's   *)
(* text, whatever was typed and erased meanwhile and however the workers    *)
(* interleaved (README, "coherence guaranteed").                            *)
Coherent ==
    Quiescent => \A c \in joined : editor[c].text = editor[Server].text

(* A client that joins while others edit gets every symbol, from the        *)
(* snapshot or from a message: it is registered before any operation the    *)
(* snapshot misses can be relayed to it.                                    *)
NothingMissing ==
    Quiescent => \A c \in joined : ToSet(editor[Server].text) \subseteq ToSet(editor[c].text)

(* What is kept by index stays aligned with the symbols: the server's       *)
(* formats_ (open_document.h:23) and the characters of a client's widget,   *)
(* through operations that arrive before, after or instead of each other.   *)
ViewsAligned ==
    \A r \in Replicas :
        /\ Len(view[r]) = Len(editor[r].text)
        /\ \A i \in DOMAIN view[r] : view[r][i].of = editor[r].text[i]

(* The server relays an insert before anyone can ask it to erase the        *)
(* symbol, so its own deletion buffer is never used.                        *)
ServerNeverBuffers == editor[Server].buf = << >>

(* A symbol that has been received and is no longer shown never comes back  *)
(* to that replica, whatever old messages still arrive.                     *)
NoResurrection ==
    [][\A r \in Replicas : \A s \in issued :
           Received(editor[r], s) /\ s \notin ToSet(editor[r].text)
               => s \notin ToSet(editor'[r].text)]_vars

(* No replica shows a symbol twice. *)
NoDuplicates ==
    \A r \in Replicas : IsInjective(editor[r].text)

(* When every message has been handled, all the users see the characters    *)
(* and formats that the server keeps and will save (README, "coherence      *)
(* guaranteed").                                                            *)
ViewsCoherent ==
    Quiescent => \A c \in joined : view[c] = view[Server]

(* Every symbol is shown in the end by every client that has the document   *)
(* open, unless it has been erased at the server.                           *)
EveryoneLearns ==
    \A s \in Symbol, c \in Clients :
        (s \in issued /\ c \in joined) ~>
            \/ s \in ToSet(editor[c].text)
            \/ Received(editor[Server], s) /\ s \notin ToSet(editor[Server].text)

-----------------------------------------------------------------------------
(* The abstract specification: what a replica knows is in its version       *)
(* vector, its deletion buffer and what it no longer shows.                 *)
Inserted == [r \in Replicas |-> {s \in issued : Received(editor[r], s)}]
Erased == [r \in Replicas |->
              ToSet(editor[r].buf) \cup (Inserted[r] \ ToSet(editor[r].text))]

Abstract == INSTANCE ReplicatedText WITH
    inserted <- Inserted, erased <- Erased, text <- [r \in Replicas |-> editor[r].text]

(* The editing session implements replicated text. *)
Implements == Abstract!Spec
=============================================================================
