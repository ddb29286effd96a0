---------------------------- MODULE Suggestions -----------------------------
(***************************************************************************)
(* The assistant's list of next actions: the candidates with their scores  *)
(* are merged to one per item, and the best of them are listed, with no    *)
(* more than a few of one kind as long as there are others.                *)
(***************************************************************************)
EXTENDS Integers, Sequences, FiniteSets, FiniteSetsExt, Functions

CONSTANTS Item, Score,
          MaxSuggestions, MaxPerKind,
          MaxCandidates  \* bound

VARIABLES candidates, \* [kind, id, item, score]
          picked      \* what is listed

vars == <<candidates, picked>>

(* In the order in which equal scores are listed.                          *)
KindOrder == [REORDER |-> 0, ACK_ALERT |-> 1, APPROVE_PRICE |-> 2]
Kind == DOMAIN KindOrder

ByScore(a, b) ==
  \/ a.score > b.score
  \/ a.score = b.score /\ KindOrder[a.kind] < KindOrder[b.kind]
  \/ a.score = b.score /\ a.kind = b.kind /\ a.id < b.id
Best(S) == CHOOSE a \in S : \A b \in S \ {a} : ByScore(a, b)

(* A reorder has the number of its item; an item may have several others.  *)
Candidate == {c \in [kind : Kind, id : Item \cup {i + Cardinality(Item) : i \in Item},
                     item : Item, score : Score] :
                c.id \in IF c.kind = "REORDER" THEN {c.item} ELSE {c.item, c.item + Cardinality(Item)}}
Init == /\ \E f \in [1..MaxCandidates -> Candidate] : candidates = Range(f)
        /\ Cardinality({<<a.kind, a.id>> : a \in candidates}) = Cardinality(candidates)
        /\ picked = <<>>

ToReorder == {a.item : a \in {b \in candidates : b.kind = "REORDER"}}
Eligible == {a \in candidates : a.kind = "ACK_ALERT" => a.item \notin ToReorder}
Unique == {Best({b \in Eligible : b.item = a.item}) : a \in Eligible}

(* First the best of each kind, up to its share; then those passed over    *)
(* fill what room is left.                                                 *)
SetOf(s) == {s[n] : n \in DOMAIN s}
OfKind(k) == {a \in Unique : a.kind = k}
Rank(a) == Cardinality({b \in OfKind(a.kind) : ByScore(b, a)})
WithinShare == {a \in Unique : Rank(a) < MaxPerKind}
FirstN(S, n) == {a \in S : Cardinality({b \in S : ByScore(b, a)}) < n}
Varied == FirstN(WithinShare, MaxSuggestions)
UnvariedListed == FirstN(Unique, MaxSuggestions)   \* mutant of Listed: no share
Listed == Varied \cup FirstN(Unique \ WithinShare, MaxSuggestions - Cardinality(Varied))

Sorted(S) ==
    CHOOSE s \in [1..Cardinality(S) -> S] : \A m, n \in DOMAIN s : m < n => ByScore(s[m], s[n])

RankSuggestions == /\ picked = <<>> /\ candidates # {}
                   /\ picked' = Sorted(Listed)
                   /\ UNCHANGED candidates

Next == RankSuggestions
Spec == Init /\ [][Next]_vars

-----------------------------------------------------------------------------
(* The list has one action to an item and the best of all first; it goes   *)
(* over a kind's share, or leaves a candidate out, only for lack of others *)
(* or of room, and whatever is left out is no better than what is listed   *)
(* of its kind (suggestion-ranking.ts:142-185).                            *)
SuggestionsVaried ==
  picked # <<>> =>
    LET in == SetOf(picked)
        out == Unique \ in
    IN /\ \A a, b \in in : a # b => a.item # b.item
       /\ picked[1] = Best(Eligible)
       /\ Len(picked) = Min({MaxSuggestions, Cardinality(Unique)})
       /\ \A a \in out : \A b \in in : a.kind = b.kind => ByScore(b, a)
       /\ \A k \in Kind : Cardinality({a \in in : a.kind = k}) > MaxPerKind
            => \A a \in out : Cardinality({b \in in : b.kind = a.kind}) >= MaxPerKind
=============================================================================
