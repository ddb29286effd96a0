----------------------------- MODULE MCBackOffice -----------------------------
(***************************************************************************)
(* Three parts of the back office that share no state, of which a          *)
(* behaviour is about one, part:                                           *)
(*   - attempts at a receipt of goods, at another receipt under a longer   *)
(*     key that begins with the first one, and at the creation of a stock  *)
(*     take, whose effect carries no key (Idempotency, which this module   *)
(*     extends);                                                           *)
(*   - two stock takes of a warehouse that stocks item 1 and, once it is   *)
(*     received, item 2 (StockTake);                                       *)
(*   - two edits of a category among imports, with a product and its item  *)
(*     (Catalogue).                                                        *)
(***************************************************************************)
EXTENDS Idempotency, TLC

CONSTANTS Take, Counter,              \* stock takes, and requests about them
          Goods, Opening, Trading,    \* items, with their balances and trade
          MaxQty,
          Editor,                     \* requests about the catalogue
          Category, Product, Sku, MaxEdits

VARIABLES part,
          status, lines, stock, traded, adjusted, call,
          category, product, item, audit, sold, edit

Takes == INSTANCE StockTake WITH
    Item <- Goods, Call <- Counter

Shelf == INSTANCE Catalogue WITH
    Caller <- Editor, Item <- Sku, call <- edit

ASSUME TakesAssumption == Takes!StockAssumption

takes == <<status, lines, stock, traded, adjusted, call>>
shelf == <<category, product, item, audit, sold, edit>>

MCExtends == {<<"receipt", "receipt2">>}
MCOpening == 1 :> 1
(* Counters and editors are the same two of the attempts, so that one group*)
(* of permutations serves all parts.                                       *)
Symmetric == Permutations(Counter) \cup Permutations(Take)

Others(p) ==
    /\ IF p = "retries" THEN TRUE ELSE UNCHANGED vars
    /\ IF p = "takes" THEN TRUE ELSE UNCHANGED takes
    /\ IF p = "shelf" THEN TRUE ELSE UNCHANGED shelf
Only(p, Action) == part = p /\ Action /\ Others(p) /\ UNCHANGED part

MCVars == <<part, vars, takes, shelf>>
MCInit == part \in {"retries", "takes", "shelf"} /\ Init /\ Takes!Init /\ Shelf!Init
MCNext ==
    \/ Only("retries", Next)
    \/ Only("takes", Takes!Next)
    \/ Only("shelf", Shelf!Next)
MCSpec == MCInit /\ [][MCNext]_MCVars
-----------------------------------------------------------------------------
(* STK-004, STK-006, INV-002: however counts, completions and trade        *)
(* overlap, the lines of a take match its adjustments and these, with the  *)
(* trade, account for every balance.                                       *)
CountsAdjustStock == Takes!CountsAdjustStock

(* An edit of a category is never made over a change it has not seen, and  *)
(* its audit record tells the row it was made on (category.service.ts).    *)
EditsStartFromWhatTheyRead == Shelf!EditsStartFromWhatTheyRead
=============================================================================
