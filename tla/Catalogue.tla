----------------------------- MODULE Catalogue ------------------------------
(***************************************************************************)
(* Products, their stock items and their categories: edited by users,      *)
(* written by imports, sold through four channels. A category edit reads   *)
(* the row in the snapshot of its transaction and writes it only if its    *)
(* updatedAt still is the one it read.                                     *)
(***************************************************************************)
EXTENDS Naturals, Sequences

CONSTANTS Caller,    \* edits of categories and products under way together
          Category,
          Product,
          Item,      \* stock items by SKU; an import may put any of them under any product
          MaxEdits   \* bound: category edits ever committed

VARIABLES category, \* [there, name, active, version]; version stands for updatedAt
          product,  \* [there, active, in]
          item,     \* [of, active]; of = "none" until it is created
          audit,    \* before and after of the edits of each category, in order
          sold,     \* whether an item was sold, and one of an archived product
          call

vars == <<category, product, item, audit, sold, call>>

None == "none"
Idle == [op |-> "idle"]
Content(k) == [name |-> category[k].name, active |-> category[k].active]

Init == /\ category = [k \in Category |-> [there |-> TRUE, name |-> 0, active |-> TRUE, version |-> 0]]
        /\ product = [p \in Product |-> [there |-> FALSE, active |-> FALSE, in |-> None]]
        /\ item = [i \in Item |-> [of |-> None, active |-> FALSE]]
        /\ audit = [k \in Category |-> <<>>]
        /\ sold = "nothing"
        /\ call = [c \in Caller |-> Idle]

Hold(c, what) == call[c] = Idle /\ call' = [call EXCEPT ![c] = what]
Done(c) == call' = [call EXCEPT ![c] = Idle]
Abandon(c) == /\ call[c] # Idle
              /\ Done(c)
              /\ UNCHANGED <<category, product, item, audit, sold>>

-----------------------------------------------------------------------------
(* Categories.                                                             *)

CategoryRead(c, k, op) ==
  /\ category[k].there
  /\ op = "delete" => \A p \in Product : product[p].in # k
  /\ Hold(c, [op |-> op, at |-> k, read |-> Content(k), version |-> category[k].version])
  /\ UNCHANGED <<category, product, item, audit, sold>>

AnyVersion(c) == category[call[c].at].there     \* mutant of SameVersion
SameVersion(c) == LET k == call[c].at IN
                    category[k].there /\ category[k].version = call[c].version

Change == [name : {0, 1}] \cup [active : BOOLEAN] \cup [name : {0, 1}, active : BOOLEAN]

(* The fields that were sent replace those of the row; the audit record    *)
(* tells the row as read and as it is now.                                 *)
UpdateCategory(c, change) ==
  /\ call[c].op = "update"
  /\ SameVersion(c)
  /\ LET k == call[c].at
         after == [f \in {"name", "active"} |->
                     IF f \in DOMAIN change THEN change[f] ELSE Content(k)[f]]
     IN /\ Len(audit[k]) < MaxEdits
        /\ category' = [category EXCEPT ![k].name = after.name, ![k].active = after.active,
                                        ![k].version = @ + 1]
        /\ audit' = [audit EXCEPT ![k] = Append(@, [before |-> call[c].read, after |-> after])]
  /\ Done(c)
  /\ UNCHANGED <<product, item, sold>>

(* The products that came to the category since they were counted lose it. *)
DeleteCategory(c) ==
  /\ call[c].op = "delete"
  /\ SameVersion(c)
  /\ LET k == call[c].at IN
     /\ category' = [category EXCEPT ![k].there = FALSE]
     /\ product' = [p \in Product |-> IF product[p].in = k
                                        THEN [product[p] EXCEPT !.in = None] ELSE product[p]]
  /\ Done(c)
  /\ UNCHANGED <<item, audit, sold>>

-----------------------------------------------------------------------------
(* Products. Codes and SKUs are unique by index, and a product's category  *)
(* must be there when the row is written.                                  *)

There(k) == k # None => category[k].there

CreateRead(c, p, i, k) ==
  /\ ~product[p].there /\ item[i].of = None /\ There(k)
  /\ Hold(c, [op |-> "create", product |-> p, item |-> i, in |-> k])
  /\ UNCHANGED <<category, product, item, audit, sold>>

CreateProduct(c) ==
  /\ call[c].op = "create"
  /\ LET p == call[c].product  i == call[c].item IN
     /\ ~product[p].there /\ item[i].of = None /\ There(call[c].in)
     /\ product' = [product EXCEPT ![p] = [there |-> TRUE, active |-> TRUE, in |-> call[c].in]]
     /\ item' = [item EXCEPT ![i] = [of |-> p, active |-> TRUE]]
  /\ Done(c)
  /\ UNCHANGED <<category, audit, sold>>

(* The items follow the product's active state; archiving is the same with *)
(* the category left alone.                                                *)
SetActive(p, on) == /\ product' = [product EXCEPT ![p].active = on]
                    /\ item' = [i \in Item |-> IF item[i].of = p
                                                 THEN [item[i] EXCEPT !.active = on] ELSE item[i]]
UpdateProduct(p, on) == /\ product[p].there
                        /\ SetActive(p, on)
                        /\ UNCHANGED <<category, audit, sold, call>>
MoveProduct(p, k) == /\ product[p].there /\ There(k)
                     /\ product' = [product EXCEPT ![p].in = k]
                     /\ UNCHANGED <<category, item, audit, sold, call>>
DeleteProduct(p) == /\ product[p].there
                    /\ SetActive(p, FALSE)
                    /\ UNCHANGED <<category, audit, sold, call>>

(* A row of an import creates or renames the category and the product it   *)
(* names, and creates the item if the SKU is new.                          *)
ImportRow(p, i, k, name) ==
  /\ category[k].version <= MaxEdits
  /\ category' = [category EXCEPT ![k] = [there |-> TRUE, name |-> name, version |-> @.version + 1,
                     active |-> IF @.there THEN @.active ELSE TRUE]]
  /\ product' = [product EXCEPT ![p] = [there |-> TRUE, in |-> k,
                    active |-> IF product[p].there THEN @.active ELSE TRUE]]
  /\ item' = IF item[i].of = None
               THEN [item EXCEPT ![i] = [of |-> p, active |-> TRUE]] ELSE item
  /\ UNCHANGED <<audit, sold, call>>

(* The till and the counter ask for an active item of an active product,   *)
(* PayOS and MoMo for an active item.                                      *)
Sellable(i, channel) == /\ item[i].of # None /\ item[i].active
                        /\ channel \in {"counter", "cash"} => product[item[i].of].active
Sell(i, channel) ==
  /\ Sellable(i, channel)
  /\ sold' = IF product[item[i].of].active /\ sold # "archived" THEN "active" ELSE "archived"
  /\ UNCHANGED <<category, product, item, audit, call>>

Step(c) == \/ Abandon(c)
           \/ \E k \in Category, op \in {"update", "delete"} : CategoryRead(c, k, op)
           \/ \E change \in Change : UpdateCategory(c, change)
           \/ DeleteCategory(c)
           \/ \E p \in Product, i \in Item, k \in Category \cup {None} : CreateRead(c, p, i, k)
           \/ CreateProduct(c)

Next == \/ \E c \in Caller : Step(c)
        \/ \E p \in Product, on \in BOOLEAN : UpdateProduct(p, on)
        \/ \E p \in Product, k \in Category \cup {None} : MoveProduct(p, k)
        \/ \E p \in Product : DeleteProduct(p)
        \/ \E p \in Product, i \in Item, k \in Category, name \in {0, 1} :
             ImportRow(p, i, k, name)
        \/ \E i \in Item, channel \in {"counter", "cash", "payos", "momo"} : Sell(i, channel)

Spec == Init /\ [][Next]_vars

-----------------------------------------------------------------------------
(* An edit of a category takes effect on the row its audit record tells,   *)
(* so it is never made over another edit, or an import, that it has not    *)
(* seen (category.service.ts:126-136).                                     *)
EditsStartFromWhatTheyRead ==
  [][\A k \in Category : audit'[k] # audit[k] =>
       audit'[k][Len(audit'[k])].before = Content(k)]_vars

(* What is sold belongs to an active product: "their stock items cannot be *)
(* used to create new orders" (docs/BUSINESS_RULES.md:121, PRD-003).       *)
ArchivedIsNotSold == sold # "archived"
=============================================================================
