---------------------------- MODULE LedgerRules ----------------------------
(***************************************************************************)
(* What one line of a ledger request does to one inventory_balances row:   *)
(* the movements it writes and the quantity it leaves                      *)
(* (src/modules/inventory/stock-ledger.service.ts, inventory.service.ts    *)
(* audit, stock-take.service.ts complete).  A row is                       *)
(*   [present |-> is there a row, quantity |-> Int, moves |-> Seq(movement)]*)
(* and a line is                                                           *)
(*   [op, item, ns, key]                                                   *)
(* where ns holds the amount of an "add" or "deduct", the count of a       *)
(* "count" (replaceWithCount) or "take" (stock-take completion), and, for  *)
(* an "audit", every count the request gives for the item, in order.       *)
(***************************************************************************)
EXTENDS Integers, Sequences

Op == {"add", "deduct", "audit", "count", "take"}

(* Mutant of Before: every count is compared with the balance first read.  *)
BeforeAllCounts(line, row, k) == row.quantity

(* The balance the k-th count of a line finds. *)
Before(line, row, k) == IF k = 1 THEN row.quantity ELSE line.ns[k - 1]

(* The signed change the k-th movement of a line records. *)
Delta(line, row, k) ==
    CASE line.op = "add"    -> line.ns[k]
      [] line.op = "deduct" -> - line.ns[k]
      [] OTHER              -> line.ns[k] - Before(line, row, k)

Movement(t, line, row, k) ==
    [tx     |-> t,
     key    |-> line.key,
     delta  |-> Delta(line, row, k),
     before |-> Before(line, row, k),
     after  |-> Before(line, row, k) + Delta(line, row, k)]

(* replaceWithCount and a stock-take completion write no movement when the *)
(* count confirms the balance; an audit writes one for every count.        *)
Silent(line, row) ==
    line.op \in {"count", "take"} /\ Delta(line, row, 1) = 0

Movements(t, line, row) ==
    IF Silent(line, row)
    THEN <<>>
    ELSE [k \in 1..Len(line.ns) |-> Movement(t, line, row, k)]

(* The row after the line. *)
Written(t, line, row) ==
    [present  |-> TRUE,
     quantity |-> Before(line, row, Len(line.ns)) + Delta(line, row, Len(line.ns)),
     moves    |-> row.moves \o Movements(t, line, row)]

(* Mutant of Sufficient: the decrement is not conditional on the quantity.  *)
SufficientUnchecked(line, row) == line.op = "deduct" => row.present

(* The conditional UPDATE ... WHERE quantity >= n of atomicDeduct. *)
Sufficient(line, row) ==
    line.op = "deduct" => row.present /\ row.quantity >= line.ns[1]

(* StockMovement.idempotencyKey is unique: a key may appear on one movement*)
(* only, of whatever item.  rows is the function of all balance rows.      *)
KeyUsed(rows, key) ==
    \E i \in DOMAIN rows : \E m \in 1..Len(rows[i].moves) : rows[i].moves[m].key = key

(* Mutant of KeyFree: no unique index on the key.                          *)
KeyFreeUnindexed(rows, line, noKey) ==
    line.key = noKey \/ Silent(line, rows[line.item]) \/ Len(line.ns) = 1

KeyFree(rows, line, noKey) ==
    \/ line.key = noKey
    \/ Silent(line, rows[line.item])
    \/ Len(line.ns) = 1 /\ ~KeyUsed(rows, line.key)
=============================================================================
