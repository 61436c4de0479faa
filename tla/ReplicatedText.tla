--------------------------- MODULE ReplicatedText ---------------------------
(***************************************************************************)
(* What collaborative editing promises, without channels, workers, version *)
(* vectors or deletion buffers: symbols are inserted once and erased for   *)
(* good, every replica learns of these operations one at a time, in any    *)
(* order, and always shows, sorted, what it knows to be inserted and does  *)
(* not know to be erased.  EditingSession implements it.                   *)
(***************************************************************************)
EXTENDS SharedEditor, FiniteSets

CONSTANT Replicas       \* the server and the clients

VARIABLES
    issued,         \* symbols inserted anywhere
    inserted,       \* per replica: the inserts it knows
    erased,         \* per replica: the erases it knows
    text            \* per replica: the text it shows

vars == <<issued, inserted, erased, text>>

(* Text t shows what is inserted and not erased, in the order of symbols.   *)
Shows(t, ins, del) ==
    /\ t \in Seq(ins \ del) /\ ToSet(t) = ins \ del
    /\ \A i, j \in DOMAIN t : i < j => SymbolLess(t[i], t[j])

Init ==
    /\ issued = {}
    /\ inserted = [r \in Replicas |-> {}]
    /\ erased = [r \in Replicas |-> {}]
    /\ text = [r \in Replicas |-> << >>]

(* Replica r knows ins and del from now on, and shows it. *)
Knows(r, ins, del) ==
    /\ inserted' = [inserted EXCEPT ![r] = ins]
    /\ erased' = [erased EXCEPT ![r] = del]
    /\ text' = [text EXCEPT ![r] = text'[r]]
    /\ Shows(text'[r], ins, del)

Insert(r, s) ==
    /\ s \notin issued
    /\ issued' = issued \cup {s}
    /\ Knows(r, inserted[r] \cup {s}, erased[r])

Erase(r, s) ==
    /\ s \in inserted[r] \ erased[r]
    /\ Knows(r, inserted[r], erased[r] \cup {s})
    /\ UNCHANGED issued

LearnInsert(r, s) ==
    /\ s \in issued \ inserted[r]
    /\ Knows(r, inserted[r] \cup {s}, erased[r])
    /\ UNCHANGED issued

LearnErase(r, s) ==
    /\ \E q \in Replicas : s \in erased[q]
    /\ s \notin erased[r]
    /\ Knows(r, inserted[r], erased[r] \cup {s})
    /\ UNCHANGED issued

Next ==
    \E r \in Replicas :
        \/ \E s \in Symbol : Insert(r, s)
        \/ \E s \in issued : Erase(r, s) \/ LearnInsert(r, s) \/ LearnErase(r, s)

Spec == Init /\ [][Next]_vars
=============================================================================
