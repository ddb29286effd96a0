---------------------------- MODULE MCStockLedger ----------------------------
(***************************************************************************)
(* Attempts at ledger requests over two stock items: item 1 starts with    *)
(* stock, item 2 has no balance row.  The requests are built from what     *)
(* callers pass by the operators of StockLines.                            *)
(***************************************************************************)
EXTENDS StockLedger, TLC

Lines == INSTANCE StockLines

It(i, q) == [item |-> i, n |-> q]

(* A receipt of both items (the second listed twice) and two orders.       *)
Changes == {
    Lines!ChangeLines("add", "INFLOW:a", <<It(2, 1), It(1, 1), It(2, 1)>>),
    Lines!ChangeLines("deduct", "ORDER_CONFIRM:1", <<It(1, 1), It(2, 2)>>),
    Lines!ChangeLines("deduct", "ORDER_CONFIRM:2", <<It(1, 2)>>)}

(* A keyed audit of both items, an unkeyed one that counts item 1 twice, a *)
(* stock take and an import row that replaces the stock.                   *)
Counts == {
    Lines!AuditLines("AUDIT:a", <<It(2, 1), It(1, 1)>>),
    Lines!AuditLines(NoKey, <<It(1, 0), It(1, 3)>>),
    Lines!TakeLines("TAKE:a", (1 :> 2 @@ 2 :> 1)),
    Lines!ImportLines(7, <<[op |-> "count", item |-> 2, n |-> 1]>>)}

AllRequests == Changes \cup Counts

(* An import whose file lists the items in descending order.               *)
WithImport == Changes \cup
    {Lines!ImportLines(7, <<[op |-> "add", item |-> 2, n |-> 1], [op |-> "add", item |-> 1, n |-> 1]>>)}

KeysOf(requests) == UNION {{r[j].key : j \in 1..Len(r)} : r \in requests} \ {NoKey}
MCKey == KeysOf(AllRequests \cup WithImport)
MCOpening == (1 :> 2 @@ 2 :> 0)
Attempts == Permutations(Tx)
=============================================================================
