------------------------------ MODULE StockTake ------------------------------
(***************************************************************************)
(* Stock takes of one warehouse (stock-takes/stock-take.service.ts) while  *)
(* goods are sold and received.  Each operation is one database            *)
(* transaction, and its plain reads see the snapshot of its first          *)
(* statement; start, updateCounts and complete are therefore two steps,    *)
(* what the snapshot shows and what is committed, with other transactions  *)
(* in between.  create and cancel depend on nothing they read but the      *)
(* status, which their guarded write checks again.  What the row locks of a*)
(* completion allow inside its transaction is the subject of StockLedger.  *)
(***************************************************************************)
EXTENDS Integers, Sequences, SequencesExt, FiniteSets

CONSTANTS Take, Item, Call,
          Opening,    \* [items with a balance row -> quantity] at the start
          Trading,    \* the items sold and received while goods are counted
          MaxQty      \* bound on balances and counts

(* What a module that instantiates this one assumes. *)
StockAssumption ==
    /\ IsFiniteSet(Item) /\ Trading \subseteq Item
    /\ MaxQty \in Nat
    /\ DOMAIN Opening \subseteq Item
    /\ \A i \in DOMAIN Opening : Opening[i] \in 0..MaxQty

VARIABLES status,    \* of each take; "ABSENT" before it is created
          lines,     \* [Take -> [its items -> line]]
          stock,     \* [items with a balance row -> quantity]
          traded,    \* [Item -> units received minus units sold]
          adjusted,  \* the AUDIT_ADJUSTMENT movements of takes, in order
          call       \* transactions between their snapshot and their commit

vars == <<status, lines, stock, traded, adjusted, call>>

Idle == [op |-> "idle"]
NoLines == <<>>
Open == {"DRAFT", "IN_PROGRESS"}

Init ==
    /\ status = [t \in Take |-> "ABSENT"]
    /\ lines = [t \in Take |-> NoLines]
    /\ stock = Opening
    /\ traded = [i \in Item |-> 0]
    /\ adjusted = <<>>
    /\ call = [c \in Call |-> Idle]

(* quantity is a function of items: the balances a start has read, or the  *)
(* counts an update gives or a completion has read.                        *)
Begin(c, op, t, quantity) ==
    /\ call[c] = Idle
    /\ call' = [call EXCEPT ![c] = [op |-> op, take |-> t, quantity |-> quantity]]
    /\ UNCHANGED <<status, lines, stock, traded, adjusted>>

Doing(c, op) == call[c].op = op
Done(c) == call' = [call EXCEPT ![c] = Idle]

Create(t) ==
    /\ status[t] = "ABSENT"
    /\ status' = [status EXCEPT ![t] = "DRAFT"]
    /\ UNCHANGED <<lines, stock, traded, adjusted, call>>

StartRead(c, t) ==
    /\ status[t] = "DRAFT"
    /\ Begin(c, "start", t, stock)

Start(c) ==
    /\ Doing(c, "start")
    /\ LET t == call[c].take
       IN  /\ status[t] = "DRAFT"
           /\ status' = [status EXCEPT ![t] = "IN_PROGRESS"]
           /\ lines' = [lines EXCEPT ![t] =
                 [i \in DOMAIN call[c].quantity |->
                    [expected |-> call[c].quantity[i], counted |-> call[c].quantity[i],
                     variance |-> 0, link |-> 0]]]
    /\ Done(c)
    /\ UNCHANGED <<stock, traded, adjusted>>

(* Some of the lines are counted; an item that has none is refused. *)
CountRead(c, t, counts) ==
    /\ status[t] = "IN_PROGRESS"
    /\ DOMAIN counts # {} /\ DOMAIN counts \subseteq DOMAIN lines[t]
    /\ Begin(c, "count", t, counts)

(* Mutant of Recount: the variance is not derived again. *)
RecountOnly(line, n) == [line EXCEPT !.counted = n]

Recount(line, n) == [line EXCEPT !.counted = n, !.variance = n - line.expected]

(* The lines are written whatever the status of the take has become. *)
Count(c) ==
    /\ Doing(c, "count")
    /\ LET t == call[c].take
           counts == call[c].quantity
       IN  lines' = [lines EXCEPT ![t] =
              [i \in DOMAIN @ |-> IF i \in DOMAIN counts THEN Recount(@[i], counts[i]) ELSE @[i]]]
    /\ Done(c)
    /\ UNCHANGED <<status, stock, traded, adjusted>>

CompleteRead(c, t) ==
    /\ status[t] = "IN_PROGRESS"
    /\ Begin(c, "complete", t, [i \in DOMAIN lines[t] |-> lines[t][i].counted])

(* The items whose balance is not the counted one, in the order of their   *)
(* movements, whichever it is, and the movement of an item.                *)
Differing(counted) == SetToSeq({i \in DOMAIN counted : counted[i] # stock[i]})
LinkOf(i, differing) ==
    IF \E k \in DOMAIN differing : differing[k] = i
    THEN Len(adjusted) + CHOOSE k \in DOMAIN differing : differing[k] = i
    ELSE 0

Adjustments(t, counted, delta) ==
    LET differing == Differing(counted)
    IN  [k \in DOMAIN differing |-> [take |-> t, item |-> differing[k], delta |-> delta[differing[k]]]]

Balances(t, counted) == [i \in DOMAIN counted \cup DOMAIN stock |->
                           IF i \in DOMAIN counted THEN counted[i] ELSE stock[i]]

(* Every counted balance is written; those that differ get a movement, to  *)
(* which their line is linked.                                             *)
Post(t, counted, delta) ==
    /\ stock' = Balances(t, counted)
    /\ adjusted' = adjusted \o Adjustments(t, counted, delta)
    /\ lines' = [lines EXCEPT ![t] =
          [i \in DOMAIN @ |-> [@[i] EXCEPT !.link = LinkOf(i, Differing(counted))]]]

(* Mutant of Complete: the delta of a movement is the variance of its line.*)
CompleteByVariance(c) ==
    /\ Doing(c, "complete")
    /\ LET t == call[c].take
       IN  /\ status[t] = "IN_PROGRESS"
           /\ status' = [status EXCEPT ![t] = "COMPLETED"]
           /\ Post(t, call[c].quantity, [i \in DOMAIN lines[t] |-> lines[t][i].variance])
    /\ Done(c)
    /\ UNCHANGED traded

Complete(c) ==
    /\ Doing(c, "complete")
    /\ LET t == call[c].take
           counted == call[c].quantity
       IN  /\ status[t] = "IN_PROGRESS"
           /\ status' = [status EXCEPT ![t] = "COMPLETED"]
           /\ Post(t, counted, [i \in DOMAIN counted |-> counted[i] - stock[i]])
    /\ Done(c)
    /\ UNCHANGED traded

Cancel(t) ==
    /\ status[t] \in Open
    /\ status' = [status EXCEPT ![t] = "CANCELED"]
    /\ UNCHANGED <<lines, stock, traded, adjusted, call>>

(* A transaction refused by what it finds, or rolled back. *)
Abandon(c) ==
    /\ call[c] # Idle
    /\ Done(c)
    /\ UNCHANGED <<status, lines, stock, traded, adjusted>>

(* One unit is sold or received by another transaction; the first receipt  *)
(* of an item makes its balance row.                                       *)
Sell(i) ==
    /\ i \in DOMAIN stock
    /\ stock[i] > 0
    /\ traded[i] > -MaxQty
    /\ stock' = [stock EXCEPT ![i] = @ - 1]
    /\ traded' = [traded EXCEPT ![i] = @ - 1]
    /\ UNCHANGED <<status, lines, adjusted, call>>

Receive(i) ==
    /\ i \in DOMAIN stock => stock[i] < MaxQty
    /\ traded[i] < MaxQty
    /\ stock' = [j \in DOMAIN stock \cup {i} |->
                   IF j # i THEN stock[j] ELSE IF i \in DOMAIN stock THEN stock[i] + 1 ELSE 1]
    /\ traded' = [traded EXCEPT ![i] = @ + 1]
    /\ UNCHANGED <<status, lines, adjusted, call>>

Counts(t) == UNION {[s -> 0..MaxQty] : s \in SUBSET DOMAIN lines[t]}

Next ==
    \/ \E t \in Take : Create(t) \/ Cancel(t)
    \/ \E c \in Call, t \in Take :
          StartRead(c, t) \/ CompleteRead(c, t) \/ \E counts \in Counts(t) : CountRead(c, t, counts)
    \/ \E c \in Call : Start(c) \/ Count(c) \/ Complete(c) \/ Abandon(c)
    \/ \E i \in Trading : Sell(i) \/ Receive(i)

Spec == Init /\ [][Next]_vars
-----------------------------------------------------------------------------
Line == [expected : 0..MaxQty, counted : 0..MaxQty, variance : -MaxQty..MaxQty, link : Nat]

(* Types; balances and counts stay within their bounds.                    *)
TypeOK ==
    /\ status \in [Take -> Open \cup {"ABSENT", "COMPLETED", "CANCELED"}]
    /\ \A t \in Take : DOMAIN lines[t] \subseteq Item /\ \A i \in DOMAIN lines[t] : lines[t][i] \in Line
    /\ DOMAIN stock \subseteq Item /\ \A i \in DOMAIN stock : stock[i] \in 0..MaxQty
    /\ traded \in [Item -> -MaxQty..MaxQty]
    /\ \A m \in DOMAIN adjusted : adjusted[m] \in [take : Take, item : Item, delta : Int]
    /\ \A c \in Call : call[c].op \in {"idle", "start", "count", "complete"}

(* STK-004, STK-006: however updates of the counts, a completion and trade *)
(* overlap, the variance of a line is that of its count and its snapshot,  *)
(* its link leads to the one adjustment of that take and item, and there is*)
(* no adjustment without the link of a completed take.                     *)
LinesMatchAdjustments ==
    /\ \A t \in Take : \A i \in DOMAIN lines[t] :
          LET line == lines[t][i] IN
          /\ line.variance = line.counted - line.expected
          /\ line.link # 0 => /\ adjusted[line.link].take = t
                              /\ adjusted[line.link].item = i
    /\ \A m \in DOMAIN adjusted :
          /\ adjusted[m].delta # 0
          /\ status[adjusted[m].take] = "COMPLETED"
          /\ lines[adjusted[m].take][adjusted[m].item].link = m

(* INV-002: sales and receipts made while goods are counted, and the       *)
(* adjustments of overlapping takes, which the books replay, account for   *)
(* every balance.                                                          *)
Quantities(balances) == [i \in Item |-> IF i \in DOMAIN balances THEN balances[i] ELSE 0]
Books[m \in 0..Len(adjusted)] ==
    IF m = 0 THEN Quantities(Opening)
    ELSE [Books[m - 1] EXCEPT ![adjusted[m].item] = @ + adjusted[m].delta]
StockIsExplained ==
    \A i \in Item : Quantities(stock)[i] = Books[Len(adjusted)][i] + traded[i]

(* Both: what counting does to the books and to the stock.                 *)
CountsAdjustStock == LinesMatchAdjustments /\ StockIsExplained
=============================================================================
