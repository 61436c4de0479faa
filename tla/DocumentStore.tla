---------------------------- MODULE DocumentStore ----------------------------
(***************************************************************************)
(* What the server promises about documents, seen from outside: a document *)
(* has a text, a saved text and the sessions that are in it.  No loading,  *)
(* no locks, no saver thread, no reference counts.  DocumentManager        *)
(* implements this specification.                                          *)
(***************************************************************************)
EXTENDS FiniteSets

CONSTANTS
    Sessions,   \* client sessions
    Docs,       \* documents
    NoText      \* no text, because the document does not exist

VARIABLES
    saved,      \* the saved text of each document, a set of edits
    text,       \* its current text,
    members     \* and the sessions that are in it

vars == <<saved, text, members>>

Exists(d) == saved[d] # NoText

Init ==
    /\ saved = [d \in Docs |-> NoText]
    /\ text = [d \in Docs |-> NoText]
    /\ members = [d \in Docs |-> {}]

(* A new document is empty, and saved from the beginning. *)
Create(d) ==
    /\ ~Exists(d)
    /\ saved' = [saved EXCEPT ![d] = {}]
    /\ text' = [text EXCEPT ![d] = {}]
    /\ UNCHANGED members

Join(s, d) ==
    /\ Exists(d)
    /\ s \notin members[d]
    /\ members' = [members EXCEPT ![d] = @ \cup {s}]
    /\ UNCHANGED <<saved, text>>

(* A member adds one new edit to the text. *)
Edit(s, d) ==
    /\ s \in members[d]
    /\ \E e \in text'[d] \ text[d] : text' = [text EXCEPT ![d] = @ \cup {e}]
    /\ UNCHANGED <<saved, members>>

Leave(s, d) ==
    /\ s \in members[d]
    /\ members' = [members EXCEPT ![d] = @ \ {s}]
    /\ UNCHANGED <<saved, text>>

Save(d) ==
    /\ Exists(d)
    /\ saved' = [saved EXCEPT ![d] = text[d]]
    /\ UNCHANGED <<text, members>>

(* A document that nobody is in falls back to its saved text. *)
Forget(d) ==
    /\ members[d] = {}
    /\ text' = [text EXCEPT ![d] = saved[d]]
    /\ UNCHANGED <<saved, members>>

(* The server ends and is started again. *)
Restart ==
    /\ text' = saved
    /\ members' = [d \in Docs |-> {}]
    /\ UNCHANGED saved

Next ==
    \/ \E d \in Docs : Create(d) \/ Save(d) \/ Forget(d)
    \/ \E s \in Sessions, d \in Docs : Join(s, d) \/ Edit(s, d) \/ Leave(s, d)
    \/ Restart

Spec == Init /\ [][Next]_vars
=============================================================================
