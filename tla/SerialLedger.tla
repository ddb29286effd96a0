---------------------------- MODULE SerialLedger ----------------------------
(***************************************************************************)
(* What the stock ledger promises its callers: a request is posted whole,  *)
(* at one instant, against the committed balances, or it leaves no trace.  *)
(* No lock, no uncommitted version and no order of lines is visible.       *)
(***************************************************************************)
EXTENDS LedgerRules

CONSTANTS Item, Tx, Request, NoKey, Stocked, Opening

VARIABLES stock,    \* [Item -> row]: the committed balances and their ledger
          posted    \* the transactions whose request has been posted

svars == <<stock, posted>>

Postable(r) ==
    \A j \in 1..Len(r) : Sufficient(r[j], stock[r[j].item]) /\ KeyFree(stock, r[j], NoKey)

SInit ==
    /\ stock = [i \in Item |-> [present |-> i \in Stocked, quantity |-> Opening[i], moves |-> <<>>]]
    /\ posted = {}

Post(t, r) ==
    /\ t \notin posted
    /\ Postable(r)
    /\ stock' = [i \in Item |->
                   IF \E j \in 1..Len(r) : r[j].item = i
                   THEN Written(t, r[CHOOSE j \in 1..Len(r) : r[j].item = i], stock[i])
                   ELSE stock[i]]
    /\ posted' = posted \cup {t}

SNext == \E t \in Tx, r \in Request : Post(t, r)

SSpec == SInit /\ [][SNext]_svars
=============================================================================
