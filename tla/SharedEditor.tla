---------------------------- MODULE SharedEditor ----------------------------
(***************************************************************************)
(* The replicated text of one editor (src/src/crdt/shared_editor.cpp): the *)
(* operations of the class as operators from an editor to an editor.  The  *)
(* server's OpenDocument and every client's Editor hold one.               *)
(*                                                                         *)
(* A symbol is its key [pos, site, n] (the value is determined by it).  A  *)
(* position is an integer of 1 .. MaxPos; local_insert takes any that lies *)
(* strictly between the neighbours', which is what BetweenIsBetween        *)
(* (PositionAllocation_proofs) proves of Lseq::between.  BOF and EOF are   *)
(* left out of the text: they are at positions 0 and MaxPos + 1 and are    *)
(* never erased.  Indices start at 1.                                      *)
(***************************************************************************)
EXTENDS Integers, SequencesExt

CONSTANTS Sites,    \* site ids: integers, they break ties between positions
          MaxPos,   \* bound: positions are 1 .. MaxPos
          MaxCount  \* bound: a site inserts symbols 0 .. MaxCount - 1

ASSUME SharedEditorAssumption ==
    Sites \subseteq Nat /\ MaxPos \in Nat \ {0} /\ MaxCount \in Nat

-----------------------------------------------------------------------------
Symbol == [pos : 1 .. MaxPos, site : Sites, n : 0 .. (MaxCount - 1)]

(* Symbol::operator< *)
SymbolLess(s, t) ==
    \/ s.pos < t.pos
    \/ s.pos = t.pos /\ s.site < t.site
    \/ s.pos = t.pos /\ s.site = t.site /\ s.n < t.n

NotReceived == -1       \* no entry for the site in version_vector_
NoIndex == 0            \* std::nullopt

(* An editor over a given text: the version vector is rebuilt from what the *)
(* text shows, the deletion buffer starts empty.                            *)
EditorOf(text) ==
    [text |-> text,
     vv   |-> [site \in Sites |->
                  Max({NotReceived} \cup {s.n : s \in {t \in ToSet(text) : t.site = site}})],
     buf  |-> << >>]

(* Mutant: counters are taken to start at 1. *)
UpdateFromOne(vv, s) == [vv EXCEPT ![s.site] = IF s.n > @ + 1 THEN s.n ELSE @]

UpdateVersionVector(vv, s) ==
    [vv EXCEPT ![s.site] = IF s.n > @ THEN s.n ELSE @]

(* The version vector says that symbol s has been inserted. *)
Received(ed, s) == ed.vv[s.site] >= s.n

(* std::lower_bound: the first index whose symbol is not less than s. *)
LowerBound(text, s) ==
    Min({i \in DOMAIN text : ~SymbolLess(text[i], s)} \cup {Len(text) + 1})

FindSymbol(ed, s) ==
    LET i == LowerBound(ed.text, s)
    IN  IF i <= Len(ed.text) /\ ed.text[i] = s THEN i ELSE NoIndex

(* One round of the loop over the copied deletion buffer.  index is that of *)
(* the last symbol erased so far.                                           *)
ProcessDeletion(acc, s) ==
    LET i == FindSymbol(acc.ed, s) IN
    IF ~Received(acc.ed, s)
    THEN [acc EXCEPT !.ed.buf = Append(@, s)]       \* not inserted yet: keep
    ELSE IF i = NoIndex
    THEN acc                                        \* already erased
    ELSE [ed |-> [acc.ed EXCEPT !.text = RemoveAt(@, i)], index |-> i]

(* The loop: rounds[k] is the state after k symbols of the copied buffer. *)
ProcessDeletionBuffer(ed) ==
    LET rounds[k \in 0 .. Len(ed.buf)] ==
            IF k = 0 THEN [ed |-> [ed EXCEPT !.buf = << >>], index |-> NoIndex]
            ELSE ProcessDeletion(rounds[k - 1], ed.buf[k])
    IN  rounds[Len(ed.buf)]

(* Mutant: the index is reported although the symbol was erased at once. *)
RemoteInsertReported(ed, s) ==
    LET i == LowerBound(ed.text, s)
    IN  [ed |-> ProcessDeletionBuffer(
                    [ed EXCEPT !.text = InsertAt(@, i, s),
                               !.vv = UpdateVersionVector(@, s)]).ed,
         index |-> i]

(* Results of remote operations: [ed, index]. *)
RemoteInsert(ed, s) ==
    LET i == LowerBound(ed.text, s)
        done == ProcessDeletionBuffer(
                    [ed EXCEPT !.text = InsertAt(@, i, s),
                               !.vv = UpdateVersionVector(@, s)])
    IN  [ed |-> done.ed, index |-> IF done.index # NoIndex THEN NoIndex ELSE i]

(* Mutant: an erase that comes before its insert is dropped. *)
RemoteEraseUnbuffered(ed, s) ==
    IF Received(ed, s) THEN ProcessDeletionBuffer([ed EXCEPT !.buf = Append(@, s)])
    ELSE [ed |-> ed, index |-> NoIndex]

RemoteErase(ed, s) ==
    ProcessDeletionBuffer([ed EXCEPT !.buf = Append(@, s)])

(* Positions between's contract allows before the i-th symbol. *)
FreePositions(ed, i) ==
    LET low == IF i = 1 THEN 0 ELSE ed.text[i - 1].pos
        high == IF i > Len(ed.text) THEN MaxPos + 1 ELSE ed.text[i].pos
    IN  (low + 1) .. (high - 1)

(* Mutant: a local insert leaves the version vector alone. *)
LocalInsertUnrecorded(ed, i, s) == [ed EXCEPT !.text = InsertAt(@, i, s)]

(* insert: the new symbol becomes the i-th, whatever SymbolLess says. *)
LocalInsert(ed, i, s) ==
    [ed EXCEPT !.text = InsertAt(@, i, s), !.vv = UpdateVersionVector(@, s)]

LocalErase(ed, i) == [ed EXCEPT !.text = RemoveAt(@, i)]
=============================================================================
