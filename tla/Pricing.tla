------------------------------- MODULE Pricing -------------------------------
(***************************************************************************)
(* The price of one item and its recommendations.  The engine evaluates    *)
(* and upserts in one transaction under the row lock of the item           *)
(* (recomputeSku), decisions of the owner take the same lock and read      *)
(* after it; product management and the import compare with values they    *)
(* have read before they had it.  What the engine advises is any price     *)
(* that EngineRules allows it to.                                          *)
(***************************************************************************)
EXTENDS EngineRules, FiniteSets

CONSTANTS Price, Cost, Margin,  \* amounts that can be set, all positive, and settings
          Editor,               \* requests to product management and the import
          MaxEdits, MaxRecs, MaxFailures

VARIABLES price, cost,   \* of the item
          margin,        \* minimumMarginPct of the store
          up,            \* see MinimumPrice
          recs,          \* its recommendations, in the order of their ids
          due,           \* the item waits to be recomputed
          run,           \* the transaction of the engine, with what it has read
          edit,          \* [Editor -> the request under way]
          edits, failures,
          recorded       \* the selling price according to PriceHistory

vars == <<price, cost, margin, up, recs, due, run, edit, edits, failures, recorded>>
item == <<price, cost, margin, up, recorded>>
bounds == <<edits, failures>>

Idle == [on |-> FALSE, price |-> 0, cost |-> 0, floor |-> 0, pending |-> 0]
NoEdit == [kind |-> "none", price |-> 0, cost |-> 0, newPrice |-> 0, newCost |-> 0]
Keep == 0      \* a field the request does not set
Rec == 1..Len(recs)
Pending == {r \in Rec : recs[r].status = "PENDING"}
Floor == MinimumPrice(cost, margin, up)

Init ==
    /\ price \in Price /\ cost \in Cost /\ margin \in Margin /\ up \in BOOLEAN
    /\ recs = <<>> /\ due = TRUE /\ run = Idle
    /\ edit = [e \in Editor |-> NoEdit]
    /\ edits = 0 /\ failures = 0
    /\ recorded = price

WithStatus(rs, status) == [r \in Rec |-> IF r \in rs THEN [recs[r] EXCEPT !.status = status] ELSE recs[r]]
ExpirePending == WithStatus(Pending, "EXPIRED")
-----------------------------------------------------------------------------
(* The engine.  With the lock of the item taken before the first read, one *)
(* evaluation at a time sees the outcome of the one before.                *)

Locked == ~run.on

SeenNone == 0     \* mutant of Seen: every recommendation is created
Seen == IF Pending = {} THEN 0 ELSE CHOOSE r \in Pending : \A s \in Pending : s <= r

Evaluate ==
    /\ due /\ ~run.on
    /\ run' = [on |-> TRUE, price |-> price, cost |-> cost, floor |-> Floor, pending |-> Seen]
    /\ due' = FALSE
    /\ UNCHANGED <<item, recs, edit, bounds>>

New(p) == [status |-> "PENDING", basis |-> run.price, cost |-> run.cost, to |-> p, overdue |-> FALSE]

(* A recommendation seen pending is refreshed by its id, whatever has      *)
(* become of its status.                                                   *)
Recommend(p) ==
    /\ run.on
    /\ p >= run.floor /\ p # run.price
    /\ IF run.pending # 0
       THEN recs' = [recs EXCEPT ![run.pending] = [New(p) EXCEPT !.status = recs[run.pending].status]]
       ELSE Len(recs) < MaxRecs /\ recs' = Append(recs, New(p))
    /\ run' = Idle
    /\ UNCHANGED <<item, due, edit, bounds>>

Maintain ==
    /\ run.on
    /\ recs' = ExpirePending
    /\ run' = Idle
    /\ UNCHANGED <<item, due, edit, bounds>>

Fail ==
    /\ run.on
    /\ failures < MaxFailures
    /\ failures' = failures + 1
    /\ run' = Idle
    /\ UNCHANGED <<item, recs, due, edit, edits>>

(* The nightly run evaluates every item and expires what is overdue, with  *)
(* a statement that takes no lock of the item.                             *)
Nightly ==
    /\ ~due
    /\ due' = TRUE
    /\ UNCHANGED <<item, recs, run, edit, bounds>>

Age(r) ==
    /\ r \in Pending /\ ~recs[r].overdue
    /\ recs' = [recs EXCEPT ![r].overdue = TRUE]
    /\ UNCHANGED <<item, due, run, edit, bounds>>

ExpireOverdue ==
    /\ \E r \in Pending : recs[r].overdue
    /\ recs' = WithStatus({r \in Pending : recs[r].overdue}, "EXPIRED")
    /\ UNCHANGED <<item, due, run, edit, bounds>>
-----------------------------------------------------------------------------
(* The owner's decisions.                                                  *)

Decidable(r) == Locked /\ r \in Pending /\ ~recs[r].overdue

(* Whether the decided price is applied is up to the request.              *)
Apply(p) ==
    \/ price' = p /\ recorded' = p /\ due' = TRUE
    \/ UNCHANGED <<price, recorded, due>>

AcceptUnchecked(r) ==     \* mutant of Accept: no revalidation of cost and floor
    /\ Decidable(r)
    /\ recs[r].basis = price
    /\ recs' = WithStatus({r}, "ACCEPTED")
    /\ Apply(recs[r].to)
    /\ UNCHANGED <<cost, margin, up, run, edit, bounds>>

Accept(r) ==
    /\ Decidable(r)
    /\ recs[r].basis = price /\ recs[r].cost = cost /\ recs[r].to >= Floor
    /\ recs' = WithStatus({r}, "ACCEPTED")
    /\ Apply(recs[r].to)
    /\ UNCHANGED <<cost, margin, up, run, edit, bounds>>

Modify(r, p) ==
    /\ Decidable(r)
    /\ recs[r].basis = price /\ p >= Floor
    /\ recs' = WithStatus({r}, "MODIFIED")
    /\ Apply(p)
    /\ UNCHANGED <<cost, margin, up, run, edit, bounds>>

Reject(r) ==
    /\ Decidable(r)
    /\ recs' = WithStatus({r}, "REJECTED")
    /\ UNCHANGED <<item, due, run, edit, bounds>>
-----------------------------------------------------------------------------
(* Product management reads the item before its transaction, the import in *)
(* the snapshot of its own; both write without comparing again.            *)

BeginEdit(e, kind, p, c) ==
    /\ edit[e] = NoEdit /\ edits < MaxEdits
    /\ kind = "import" => p # Keep /\ c # Keep
    /\ <<p, c>> # <<Keep, Keep>>
    /\ edit' = [edit EXCEPT ![e] = [kind |-> kind, price |-> price, cost |-> cost,
                                    newPrice |-> p, newCost |-> c]]
    /\ edits' = edits + 1
    /\ UNCHANGED <<item, recs, due, run, failures>>

Invalidates(e) ==
    edit[e].kind = "product" \/ edit[e].newPrice # edit[e].price \/ edit[e].newCost # edit[e].cost

CommitEdit(e) ==
    LET d == edit[e] IN
    /\ d # NoEdit /\ ~run.on
    /\ price' = IF d.newPrice = Keep THEN price ELSE d.newPrice
    /\ cost' = IF d.newCost = Keep THEN cost ELSE d.newCost
    /\ recs' = IF Invalidates(e) THEN ExpirePending ELSE recs
    /\ recorded' = IF d.newPrice \notin {Keep, d.price} THEN d.newPrice ELSE recorded
    /\ due' = TRUE
    /\ edit' = [edit EXCEPT ![e] = NoEdit]
    /\ UNCHANGED <<margin, up, run, bounds>>

ChangeMargin ==
    /\ edits < MaxEdits
    /\ edits' = edits + 1
    /\ \E m \in Margin \ {margin} : margin' = m
    /\ due' = TRUE
    /\ UNCHANGED <<price, cost, up, recorded, recs, run, edit, failures>>
-----------------------------------------------------------------------------
Advise == Maintain \/ \E p \in Price : Recommend(p)

Next ==
    \/ Evaluate \/ Advise \/ Fail \/ Nightly \/ ExpireOverdue
    \/ \E r \in Rec : Age(r) \/ Accept(r) \/ Reject(r) \/ \E p \in Price : Modify(r, p)
    \/ \E e \in Editor :
          \/ \E k \in {"product", "import"}, p \in Price \cup {Keep}, c \in Cost \cup {Keep} :
                BeginEdit(e, k, p, c)
          \/ CommitEdit(e)
    \/ ChangeMargin

Spec == Init /\ [][Next]_vars
-----------------------------------------------------------------------------
Recommendation == [status : {"PENDING", "ACCEPTED", "MODIFIED", "REJECTED", "EXPIRED"},
                   basis : Price, cost : Cost, to : Price, overdue : BOOLEAN]
Edit == [kind : {"product", "import"}, price : Price, cost : Cost,
         newPrice : Price \cup {Keep}, newCost : Cost \cup {Keep}]

(* Types; what an evaluation has seen pending is one of the recommendations*)
(* that there are.                                                         *)
TypeOK ==
    /\ price \in Price /\ cost \in Cost /\ margin \in Margin /\ up \in BOOLEAN
    /\ recorded \in Price
    /\ recs \in Seq(Recommendation)
    /\ due \in BOOLEAN
    /\ run.on \in BOOLEAN
    /\ run.on => run.price \in Price /\ run.cost \in Cost /\ run.pending \in 0..Len(recs)
    /\ edit \in [Editor -> Edit \cup {NoEdit}]
    /\ edits \in Nat /\ failures \in Nat

(* PRI-006.  However recomputations, decisions, edits and the nightly run  *)
(* meet, at most one recommendation is pending.                            *)
OnePending == Cardinality(Pending) <= 1

(* PRI-007.  A recommendation is accepted only on the price and cost it    *)
(* was made for, and at the margin of that moment it keeps the floor.      *)
AcceptsOnBasis ==
    \A r \in Rec : recs[r].status = "PENDING" /\ recs'[r].status = "ACCEPTED" =>
        recs'[r].basis = price /\ recs'[r].cost = cost /\ recs'[r].to >= Floor

AcceptedOnBasis == [][AcceptsOnBasis]_vars

(* PRI-008: "Every selling-price change writes PriceHistory in the same    *)
(* transaction."                                                           *)
PriceHistoryComplete == recorded = price
=============================================================================
