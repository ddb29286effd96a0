----------------------------- MODULE StockLines -----------------------------
(***************************************************************************)
(* From the items a caller passes to the lines of a ledger request: how    *)
(* each operation aggregates and sorts them, and the idempotency key each  *)
(* movement gets.  An item is [item, n]; an effect key is a string or      *)
(* NoKey; a movement key is the tuple of the parts the code joins by ":".  *)
(***************************************************************************)
EXTENDS Integers, Sequences, FiniteSetsExt, SequencesExt

CONSTANT NoKey

ItemsOf(items) == {items[k].item : k \in 1..Len(items)}
Ascending(set) == SetToSortSeq(set, LAMBDA a, b : a < b)

(* Mutant of NormalizeItems: summed but left in the order of the request.  *)
NormalizeInOrder(items) ==
    LET First(k) == \A j \in 1..(k - 1) : items[j].item # items[k].item
        Total(i) == MapThenSumSet(LAMBDA k : items[k].n,
                                  {k \in 1..Len(items) : items[k].item = i})
        firsts == Ascending({k \in 1..Len(items) : First(k)})
    IN  [k \in 1..Len(firsts) |->
           [item |-> items[firsts[k]].item, n |-> Total(items[firsts[k]].item)]]

(* One entry per item with the sum of its quantities, in ascending order.  *)
NormalizeItems(items) ==
    LET ids == Ascending(ItemsOf(items))
        Total(i) == MapThenSumSet(LAMBDA k : items[k].n,
                                  {k \in 1..Len(items) : items[k].item = i})
    IN  [k \in 1..Len(ids) |-> [item |-> ids[k], n |-> Total(ids[k])]]

Suffixed(effectKey, i) == IF effectKey = NoKey THEN NoKey ELSE <<effectKey, i>>

(* atomicAdd, atomicDeduct: the key is suffixed by the item only when the  *)
(* normalised request has several items; zero quantities are skipped.      *)
ChangeLines(op, effectKey, items) ==
    LET norm == NormalizeItems(items)
        KeyOf(i) == IF effectKey # NoKey /\ Len(norm) > 1
                    THEN <<effectKey, i>>
                    ELSE IF effectKey = NoKey THEN NoKey ELSE <<effectKey>>
        line == [k \in 1..Len(norm) |->
                   [op |-> op, item |-> norm[k].item, ns |-> <<norm[k].n>>, key |-> KeyOf(norm[k].item)]]
    IN  SelectSeq(line, LAMBDA l : l.ns[1] > 0)

(* inventory.audit: sorted by item (the sort is stable) but not aggregated:*)
(* the counts of one item are gathered here in the order they are given.   *)
AuditLines(effectKey, counts) ==
    LET ids == Ascending(ItemsOf(counts))
        CountsOf(i) == LET own == SelectSeq(counts, LAMBDA c : c.item = i)
                       IN  [k \in 1..Len(own) |-> own[k].n]
    IN  [k \in 1..Len(ids) |-> [op |-> "audit", item |-> ids[k], ns |-> CountsOf(ids[k]),
                                key |-> Suffixed(effectKey, ids[k])]]

(* stock-take complete: one counted quantity per item of the take, read    *)
(* ORDER BY stockItemId.                                                   *)
TakeLines(effectKey, counted) ==
    LET ids == Ascending(DOMAIN counted)
    IN  [k \in 1..Len(ids) |-> [op |-> "take", item |-> ids[k], ns |-> <<counted[ids[k]]>>,
                                key |-> Suffixed(effectKey, ids[k])]]

(* Import: one chunk of rows in one transaction, in the order of the file; *)
(* each row [op, item, n] is its own ledger call with its own key.         *)
ImportLines(job, rows) ==
    [k \in 1..Len(rows) |-> [op |-> rows[k].op, item |-> rows[k].item, ns |-> <<rows[k].n>>,
                             key |-> <<"IMPORT", job, k, rows[k].item>>]]
=============================================================================
