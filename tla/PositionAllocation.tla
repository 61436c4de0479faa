------------------------- MODULE PositionAllocation -------------------------
(***************************************************************************)
(* Shared editors that allocate positions for one document                 *)
(* (SharedEditor::insert, local_insert, local_erase, remote_insert and     *)
(* remote_erase of src/src/crdt/shared_editor.cpp over Lseq::between).     *)
(*                                                                         *)
(* The subject is the allocator: paths are the code's paths and every      *)
(* outcome of rand() is taken.  How operations travel, and the deletion    *)
(* buffer, are EditingSession's subject; here the others receive an        *)
(* operation at any later time, an erase after its insert.                 *)
(***************************************************************************)
EXTENDS Lseq, FiniteSets, SequencesExt

CONSTANTS Sites,        \* site ids, a set of integers
          MaxSymbols    \* bound: symbols inserted by all the sites together

ASSUME AllocationAssumption == Sites \subseteq Nat /\ MaxSymbols \in Nat

VARIABLES
    text,           \* text_ of each site, BOF and EOF included
    strategies,     \* strategies_ of each site's allocator: TRUE is boundary_plus
    counter,        \* site_counter_ of each site
    inserted,       \* symbols inserted so far, by their site
    erased,         \* symbols erased so far, by any site
    gone,           \* per site: symbols it has erased
    drawn,          \* history: <<level, strategy>> of the allocations of a site
    outOfBounds     \* sites whose search left the filled positions

vars == <<text, strategies, counter, inserted, erased, gone, drawn, outOfBounds>>

-----------------------------------------------------------------------------
Reserved == -2      \* reserved_site_id

BOF == [pos |-> <<Begin>>, site |-> Reserved, n |-> 0]
EOF == [pos |-> <<End>>, site |-> Reserved, n |-> 0]

(* Symbol::operator< *)
SymbolLess(s, t) ==
    \/ PosLess(s.pos, t.pos)
    \/ s.pos = t.pos /\ s.site < t.site
    \/ s.pos = t.pos /\ s.site = t.site /\ s.n < t.n

(* Mutant: only positions are compared. *)
LowerBoundByPosition(t, s) ==
    1 + Cardinality({i \in DOMAIN t : PosLess(t[i].pos, s.pos)})

(* Index std::lower_bound finds in a sorted text. *)
LowerBound(t, s) ==
    1 + Cardinality({i \in DOMAIN t : SymbolLess(t[i], s)})

Init ==
    /\ text = [s \in Sites |-> <<BOF, EOF>>]
    /\ strategies = [s \in Sites |-> << >>]
    /\ counter = [s \in Sites |-> 0]
    /\ inserted = {}
    /\ erased = {}
    /\ gone = [s \in Sites |-> {}]
    /\ drawn = [s \in Sites |-> {}]
    /\ outOfBounds = {}

(* The strategies the allocator of site s may use for level d: the stored   *)
(* one, or a random one that is then appended, whatever the level is.       *)
StrategyChoices(s, d) ==
    IF d <= Len(strategies[s]) THEN {strategies[s][d]} ELSE BOOLEAN

RememberStrategy(s, d, plus) ==
    strategies' = IF d <= Len(strategies[s]) THEN strategies
                  ELSE [strategies EXCEPT ![s] = Append(@, plus)]

(* local_insert between elements i and i + 1 of the text. *)
LocalInsert(s, i) ==
    LET prev == text[s][i].pos
        next == text[s][i + 1].pos
        d == Depth(prev, next)
    IN  /\ HasRoom(prev, next)
        /\ \E plus \in StrategyChoices(s, d), step \in Steps(prev, next) :
             LET symbol == [pos |-> Between(prev, next, plus, step),
                            site |-> s, n |-> counter[s]]
             IN  /\ text' = [text EXCEPT ![s] = InsertAt(@, i + 1, symbol)]
                 /\ inserted' = inserted \cup {symbol}
                 /\ drawn' = [drawn EXCEPT ![s] = @ \cup {<<d, plus>>}]
                 /\ RememberStrategy(s, d, plus)
        /\ counter' = [counter EXCEPT ![s] = @ + 1]
        /\ UNCHANGED <<erased, gone, outOfBounds>>

(* The same call when no level is free: the loop indexes past the vectors.  *)
(* What follows is undefined, so the site takes no further step.            *)
LocalInsertOutOfBounds(s, i) ==
    /\ ~HasRoom(text[s][i].pos, text[s][i + 1].pos)
    /\ outOfBounds' = outOfBounds \cup {s}
    /\ UNCHANGED <<text, strategies, counter, inserted, erased, gone, drawn>>

LocalErase(s, i) ==
    /\ erased' = erased \cup {text[s][i]}
    /\ gone' = [gone EXCEPT ![s] = @ \cup {text[s][i]}]
    /\ text' = [text EXCEPT ![s] = RemoveAt(@, i)]
    /\ UNCHANGED <<strategies, counter, inserted, drawn, outOfBounds>>

RemoteInsert(s, symbol) ==
    /\ symbol.site # s
    /\ symbol \notin gone[s]
    /\ symbol \notin ToSet(text[s])
    /\ text' = [text EXCEPT ![s] = InsertAt(@, LowerBound(@, symbol), symbol)]
    /\ UNCHANGED <<strategies, counter, inserted, erased, gone, drawn, outOfBounds>>

RemoteErase(s, symbol) ==
    /\ symbol \in ToSet(text[s])
    /\ gone' = [gone EXCEPT ![s] = @ \cup {symbol}]
    /\ text' = [text EXCEPT ![s] = RemoveAt(@, LowerBound(@, symbol))]
    /\ UNCHANGED <<strategies, counter, inserted, erased, drawn, outOfBounds>>

Next ==
    \E s \in Sites \ outOfBounds :
        \/ \E i \in 1 .. (Len(text[s]) - 1) :
             /\ Cardinality(inserted) < MaxSymbols
             /\ LocalInsert(s, i) \/ LocalInsertOutOfBounds(s, i)
        \/ \E i \in 2 .. (Len(text[s]) - 1) : LocalErase(s, i)
        \/ \E symbol \in inserted : RemoteInsert(s, symbol)
        \/ \E symbol \in erased : RemoteErase(s, symbol)

Spec == Init /\ [][Next]_vars

-----------------------------------------------------------------------------
Symbols(s) == ToSet(text[s]) \ {BOF, EOF}

TypeOK ==
    /\ \A x \in inserted : IsPosition(x.pos) /\ x.site \in Sites /\ x.n \in Nat
    /\ \A s \in Sites :
         /\ Symbols(s) \cup gone[s] \subseteq inserted
         /\ strategies[s] \in Seq(BOOLEAN)
         /\ counter[s] \in 0 .. MaxSymbols
    /\ erased \subseteq inserted
    /\ outOfBounds \subseteq Sites

(* Every replica's text is strictly sorted between BOF and EOF, whichever   *)
(* random steps and strategies the allocators took: local_insert puts the   *)
(* symbol where lower_bound would, so all replicas agree on its place.      *)
Sorted ==
    \A s \in Sites :
        /\ text[s][1] = BOF /\ text[s][Len(text[s])] = EOF
        /\ \A i \in 1 .. (Len(text[s]) - 1) : SymbolLess(text[s][i], text[s][i + 1])

(* Replicas that have the same symbols show the same text. *)
SameSymbolsSameText ==
    \A s, t \in Sites : Symbols(s) = Symbols(t) => text[s] = text[t]

(* The search of Lseq::between ends inside the filled vectors between any   *)
(* two neighbours whose positions differ, however deep their paths are      *)
(* (lseq.cpp:17, "+1 to have for sure the last level with available pos").  *)
RoomBetweenDifferent ==
    \A s \in Sites : \A i \in 1 .. (Len(text[s]) - 1) :
        text[s][i].pos # text[s][i + 1].pos =>
            HasRoom(text[s][i].pos, text[s][i + 1].pos)

(* The same for every pair of neighbours, as that comment has it: no call   *)
(* of between reads past its vectors.                                       *)
NoOutOfBounds == outOfBounds = {}

(* The strategy of an allocator at a depth is drawn once and kept           *)
(* (lseq.h:21, "strategy at each depth").                                   *)
OneStrategyPerDepth ==
    \A s \in Sites : \A x, y \in drawn[s] : x[1] = y[1] => x = y
=============================================================================
