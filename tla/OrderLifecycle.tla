--------------------------- MODULE OrderLifecycle ---------------------------
(***************************************************************************)
(* The life of an order from its creation to its cancellation or return,   *)
(* and the payments settled for it (orders/order.service.ts,               *)
(* returns/return.service.ts, pos/pos.service.ts, pos/pos-payos.service.ts,*)
(* pos/pos-momo.service.ts).                                               *)
(*                                                                         *)
(* A handler that starts by reading a snapshot of the order and decides    *)
(* from it what its transaction will write is two steps, with any other    *)
(* step in between: one that reads and leaves a call in progress, and one  *)
(* that commits.  The statements of a transaction that lock rows are one   *)
(* step, for they hold their locks until the transaction ends (StockLedger *)
(* is about what happens between them) and they read the latest rows.      *)
(*                                                                         *)
(* An order has one line per stock item: the items of a request are        *)
(* aggregated before its lines are made.  Money is counted in hundredths.  *)
(***************************************************************************)
EXTENDS Integers, FiniteSets

CONSTANTS Order, Item, Call,
          Channel,     \* [Order -> how it is sold and paid]
          Qty,         \* [Order -> [Item -> units ordered]]
          Refundable,  \* [Order -> [Item -> what its line may refund]]
          Opening,     \* [Item -> units in the default warehouse]
          MaxQty       \* bound on the units of a line

ASSUME ChannelAssumption == Channel \in [Order -> {"counter", "cash", "payos", "momo"}]
ASSUME AmountAssumption ==
    /\ MaxQty \in Nat
    /\ Qty \in [Order -> [Item -> 0..MaxQty]]
    /\ Refundable \in [Order -> [Item -> Nat]]
    /\ Opening \in [Item -> Nat]
    /\ \A o \in Order : \E i \in Item : Qty[o][i] > 0

VARIABLES status,    \* of each order; "ABSENT" before it is created,
                     \* "DELETED" when its row is
          payment,   \* status of its payment record
          gateway,   \* what PayOS knows of its payment link
          returned,  \* returnedQuantity of each line
          refunded,  \* refundedAmount of each line
          sold,      \* units the ledger has deducted for each line
          restocked, \* units the ledger has put back
          stock,     \* balances of the default warehouse
          keys,      \* idempotency keys of stock movements
          call       \* handlers between their snapshot and their commit

vars == <<status, payment, gateway, returned, refunded, sold, restocked, stock, keys, call>>
returnVars == <<returned, refunded>>
ledgerVars == <<sold, restocked, stock, keys>>

Status == {"ABSENT", "DRAFT", "CONFIRMED", "FULFILLED", "CANCELED", "DELETED"}
Exists(o) == status[o] \notin {"ABSENT", "DELETED"}
Idle == [op |-> "idle"]
Zero == [i \in Item |-> 0]
LinesOf(n) == {i \in Item : n[i] > 0}

Init ==
    /\ status = [o \in Order |-> "ABSENT"]
    /\ payment = [o \in Order |-> "NONE"]
    /\ gateway = [o \in Order |-> "NONE"]
    /\ returned = [o \in Order |-> Zero]
    /\ refunded = [o \in Order |-> Zero]
    /\ sold = [o \in Order |-> Zero]
    /\ restocked = [o \in Order |-> Zero]
    /\ stock = Opening
    /\ keys = {}
    /\ call = [c \in Call |-> Idle]
-----------------------------------------------------------------------------
(* The ledger as its callers see it: all lines or none, never below zero,  *)
(* and an idempotency key, suffixed by the item when there are several     *)
(* lines, once only.                                                       *)
MovementKeys(kind, o, n) ==
    IF Cardinality(LinesOf(n)) > 1
    THEN {<<kind, o, i>> : i \in LinesOf(n)}
    ELSE {<<kind, o>> : i \in LinesOf(n)}

Available(n) == \A i \in Item : stock[i] >= n[i]
Fresh(ks) == ks \cap keys = {}

Deduct(o, n, ks) ==
    /\ Available(n)
    /\ Fresh(ks)
    /\ keys' = keys \cup ks
    /\ stock' = [i \in Item |-> stock[i] - n[i]]
    /\ sold' = [sold EXCEPT ![o] = [i \in Item |-> @[i] + n[i]]]
    /\ UNCHANGED restocked

Restock(o, n, ks) ==
    /\ Fresh(ks)
    /\ keys' = keys \cup ks
    /\ stock' = [i \in Item |-> stock[i] + n[i]]
    /\ restocked' = [restocked EXCEPT ![o] = [i \in Item |-> @[i] + n[i]]]
    /\ UNCHANGED sold

(* A handler has read the order and will act on n units of each line.      *)
Begin(c, op, o, n, back) ==
    /\ call[c] = Idle
    /\ call' = [call EXCEPT ![c] = [op |-> op, order |-> o, n |-> n, back |-> back]]
    /\ UNCHANGED <<status, payment, gateway, returned, refunded, sold, restocked, stock, keys>>

Doing(c, op) == call[c].op = op
Done(c) == call' = [call EXCEPT ![c] = Idle]
-----------------------------------------------------------------------------
(* Orders.                                                                 *)
CreateDraft(o) ==
    /\ Channel[o] = "counter"
    /\ status[o] = "ABSENT"
    /\ status' = [status EXCEPT ![o] = "DRAFT"]
    /\ UNCHANGED <<payment, gateway, returnVars, ledgerVars, call>>

Confirm(o) ==
    /\ status[o] = "DRAFT"
    /\ status' = [status EXCEPT ![o] = "CONFIRMED"]
    /\ Deduct(o, Qty[o], MovementKeys("ORDER_CONFIRM", o, Qty[o]))
    /\ UNCHANGED <<payment, gateway, returnVars, call>>

(* Mutant of Fulfill: a draft may be fulfilled. *)
FulfillAny(o) ==
    /\ status[o] \in {"DRAFT", "CONFIRMED"}
    /\ status' = [status EXCEPT ![o] = "FULFILLED"]
    /\ UNCHANGED <<payment, gateway, returnVars, ledgerVars, call>>

Fulfill(o) ==
    /\ status[o] = "CONFIRMED"
    /\ status' = [status EXCEPT ![o] = "FULFILLED"]
    /\ UNCHANGED <<payment, gateway, returnVars, ledgerVars, call>>

(* The lines are read before the order row is locked. *)
CancelRead(c, o) ==
    /\ Exists(o)
    /\ Begin(c, "cancel", o, [i \in Item |-> Qty[o][i] - returned[o][i]], {})

Physical(o) == status[o] \in {"CONFIRMED", "FULFILLED"}

CanCancel(o, n) ==
    /\ Exists(o)
    /\ status[o] # "CANCELED"
    /\ Physical(o) => Fresh(MovementKeys("ORDER_CANCEL", o, n))

(* Mutant of Cancel: the payments of the order are forgotten.              *)
CancelOrderOnly(c) ==
    /\ Doing(c, "cancel")
    /\ LET o == call[c].order
           n == call[c].n
       IN  /\ CanCancel(o, n)
           /\ status' = [status EXCEPT ![o] = "CANCELED"]
           /\ IF Physical(o)
              THEN Restock(o, n, MovementKeys("ORDER_CANCEL", o, n))
              ELSE UNCHANGED ledgerVars
    /\ Done(c)
    /\ UNCHANGED <<payment, gateway, returnVars>>

Cancel(c) ==
    /\ Doing(c, "cancel")
    /\ LET o == call[c].order
           n == call[c].n
       IN  /\ CanCancel(o, n)
           /\ status' = [status EXCEPT ![o] = "CANCELED"]
           /\ payment' = [payment EXCEPT ![o] = IF @ = "NONE" THEN @ ELSE "CANCELED"]
           /\ IF Physical(o)
              THEN Restock(o, n, MovementKeys("ORDER_CANCEL", o, n))
              ELSE UNCHANGED ledgerVars
    /\ Done(c)
    /\ UNCHANGED <<gateway, returnVars>>
-----------------------------------------------------------------------------
(* Returns: n units of each line, of which the lines in back are put back  *)
(* into stock.  The status comes from the snapshot, the lines are locked.  *)
ReturnRead(c, o, n, back) ==
    /\ status[o] = "FULFILLED"
    /\ LinesOf(n) # {}
    /\ Begin(c, "return", o, n, back)

(* The share of q units, rounded half up, or all that is left with the last*)
(* unit of the line.                                                       *)
RoundedShare(amount, q, of) == (2 * amount * q + of) \div (2 * of)

Refund(o, i, q) ==
    LET left == Refundable[o][i] - refunded[o][i]
        share == RoundedShare(Refundable[o][i], q, Qty[o][i])
    IN  IF q = Qty[o][i] - returned[o][i] \/ share > left THEN left ELSE share

(* Mutant of CanReturn: only the amount is checked under the lock.         *)
CanReturnByAmount(o, n) == \A i \in LinesOf(n) : refunded[o][i] < Refundable[o][i]

CanReturn(o, n) ==
    \A i \in LinesOf(n) : /\ refunded[o][i] < Refundable[o][i]
                          /\ n[i] <= Qty[o][i] - returned[o][i]

(* Mutant of PutBack: the whole line is put back, whatever was returned.   *)
PutBackLine(o, n, back) == [i \in Item |-> IF i \in back THEN Qty[o][i] ELSE 0]

PutBack(o, n, back) == [i \in Item |-> IF i \in back THEN n[i] ELSE 0]

Return(c) ==
    /\ Doing(c, "return")
    /\ LET o == call[c].order
           n == call[c].n
       IN  /\ Exists(o)
           /\ CanReturn(o, n)
           /\ returned' = [returned EXCEPT ![o] = [i \in Item |-> @[i] + n[i]]]
           /\ refunded' = [refunded EXCEPT ![o] =
                             [i \in Item |-> IF n[i] > 0 THEN @[i] + Refund(o, i, n[i]) ELSE @[i]]]
           /\ Restock(o, PutBack(o, n, call[c].back), {})
    /\ Done(c)
    /\ UNCHANGED <<status, payment, gateway>>
-----------------------------------------------------------------------------
(* Point of sale.  A sale is paid and its goods handed over in one         *)
(* transaction: the payment is PAID, the order confirmed and fulfilled.    *)
HandedOver(o) ==
    /\ payment' = [payment EXCEPT ![o] = "PAID"]
    /\ status' = [status EXCEPT ![o] = "FULFILLED"]

CashSale(o) ==
    /\ Channel[o] = "cash"
    /\ status[o] = "ABSENT"
    /\ HandedOver(o)
    /\ Deduct(o, Qty[o], MovementKeys("STOCK", o, Qty[o]))
    /\ UNCHANGED <<gateway, returnVars, call>>

(* A draft and its pending payment; the stock is looked at, not reserved.  *)
Draft(o) ==
    /\ status[o] = "ABSENT"
    /\ Available(Qty[o])
    /\ status' = [status EXCEPT ![o] = "DRAFT"]
    /\ payment' = [payment EXCEPT ![o] = "PENDING"]

(* For a MoMo code the answer of the gateway changes nothing.              *)
CreateMomoPayment(o) ==
    /\ Channel[o] = "momo"
    /\ Draft(o)
    /\ UNCHANGED <<gateway, returnVars, ledgerVars, call>>

(* For a PayOS link the order is there, for anyone to confirm or cancel,   *)
(* while PayOS is asked.                                                   *)
CreatePaymentLink(c, o) ==
    /\ Channel[o] = "payos"
    /\ call[c] = Idle
    /\ Draft(o)
    /\ call' = [call EXCEPT ![c] = [op |-> "link", order |-> o, n |-> Zero, back |-> {}]]
    /\ UNCHANGED <<gateway, returnVars, ledgerVars>>

(* PayOS makes the link.  Whether the answer says so, is found by asking   *)
(* again or is lost, the order is kept; so is it when no answer comes and  *)
(* there is no link (Abandon).                                             *)
LinkMade(c) ==
    /\ Doing(c, "link")
    /\ gateway' = [gateway EXCEPT ![call[c].order] = "PENDING"]
    /\ Done(c)
    /\ UNCHANGED <<status, payment, returnVars, ledgerVars>>

(* PayOS refuses: the payment, then the lines and the order are deleted,   *)
(* whatever the order has become.  An error of one deletion is ignored,    *)
(* and the order takes its payment and lines with it.                      *)
LinkRefused(c) ==
    /\ Doing(c, "link")
    /\ call' = [call EXCEPT ![c].op = "discard"]
    /\ \/ payment' = [payment EXCEPT ![call[c].order] = "NONE"]
       \/ UNCHANGED payment
    /\ UNCHANGED <<status, gateway, returnVars, ledgerVars>>

Discard(c) ==
    /\ Doing(c, "discard")
    /\ status' = [status EXCEPT ![call[c].order] = "DELETED"]
    /\ payment' = [payment EXCEPT ![call[c].order] = "NONE"]
    /\ Done(c)
    /\ UNCHANGED <<gateway, returnVars, ledgerVars>>

(* The customer pays, or the link is cancelled or expires (external).      *)
GatewayDecides(o) ==
    /\ gateway[o] = "PENDING"
    /\ \E g \in {"PAID", "CLOSED"} : gateway' = [gateway EXCEPT ![o] = g]
    /\ UNCHANGED <<status, payment, returnVars, ledgerVars, call>>

(* A webhook, delivered once or several times, or a poll of the cashier    *)
(* that the gateway answers: what it will do depends on the gateway and, in*)
(* a webhook, on the payment and the order as first read.  A poll only     *)
(* stops when the order is settled.                                        *)
Settled(o) == payment[o] = "PAID" /\ status[o] = "FULFILLED"

SettleRead(c, o) ==
    /\ Channel[o] = "payos"
    /\ gateway[o] = "PAID"
    /\ ~Settled(o)
    /\ Begin(c, "settle", o, Qty[o], {})

CloseRead(c, o) ==
    /\ Channel[o] = "payos"
    /\ gateway[o] = "CLOSED"
    /\ Begin(c, "close", o, Zero, {})

PayosKeys(c) == MovementKeys("POS_PAYOS_DEDUCT", call[c].order, call[c].n)

(* Mutants of Settle: without the condition that the payment is pending;   *)
(* with the condition that the order is still a draft.                     *)
SettleUnguarded(c) ==
    /\ Doing(c, "settle")
    /\ LET o == call[c].order
       IN  /\ HandedOver(o)
           /\ Deduct(o, call[c].n, PayosKeys(c))
    /\ Done(c)
    /\ UNCHANGED <<gateway, returnVars>>

SettleDraftOnly(c) ==
    /\ Doing(c, "settle")
    /\ status[call[c].order] = "DRAFT"
    /\ payment[call[c].order] = "PENDING"
    /\ SettleUnguarded(c)

Settle(c) ==
    /\ Doing(c, "settle")
    /\ LET o == call[c].order
       IN  /\ payment[o] = "PENDING"
           /\ HandedOver(o)
           /\ Deduct(o, call[c].n, PayosKeys(c))
    /\ Done(c)
    /\ UNCHANGED <<gateway, returnVars>>

(* The conditional update matched nothing, or a unique key was taken: the  *)
(* settlement is taken to have been made by another webhook or poll, and   *)
(* reported as done, though it may be a cancellation that came first.      *)
SettleLate(c) ==
    /\ Doing(c, "settle")
    /\ payment[call[c].order] # "PENDING" \/ ~Fresh(PayosKeys(c))
    /\ Done(c)
    /\ UNCHANGED <<status, payment, gateway, returnVars, ledgerVars>>

Close(c) ==
    /\ Doing(c, "close")
    /\ LET o == call[c].order
       IN  /\ payment' = [payment EXCEPT ![o] = IF @ = "PENDING" THEN "CANCELED" ELSE @]
           /\ status' = [status EXCEPT ![o] = IF @ = "DRAFT" THEN "CANCELED" ELSE @]
    /\ Done(c)
    /\ UNCHANGED <<gateway, returnVars, ledgerVars>>

(* MoMo: an IPN, the cashier's confirmation or a status poll.  Nothing is  *)
(* checked again after the read, and the deduction carries no key.         *)
MomoRead(c, o) ==
    /\ Channel[o] = "momo"
    /\ Exists(o)
    /\ status[o] # "FULFILLED"
    /\ Begin(c, "momo", o, Qty[o], {})

MomoConfirm(c) ==
    /\ Doing(c, "momo")
    /\ LET o == call[c].order
       IN  /\ HandedOver(o)
           /\ Deduct(o, call[c].n, {})
    /\ Done(c)
    /\ UNCHANGED <<gateway, returnVars>>
-----------------------------------------------------------------------------
(* A call ends without effect: its transaction is refused by the state it  *)
(* finds, is rolled back, or the process stops.                            *)
Abandon(c) ==
    /\ call[c] # Idle
    /\ Done(c)
    /\ UNCHANGED <<status, payment, gateway, returnVars, ledgerVars>>

End(c) ==
    \/ Cancel(c) \/ Return(c) \/ LinkMade(c) \/ LinkRefused(c) \/ Discard(c)
    \/ Settle(c) \/ SettleLate(c) \/ Close(c) \/ MomoConfirm(c)

(* The returns a caller may ask for: up to what was sold of each line.     *)
Asked(o) == {n \in [Item -> 0..MaxQty] : \A i \in Item : n[i] <= Qty[o][i]}

Read(c, o) ==
    \/ CreatePaymentLink(c, o)
    \/ CancelRead(c, o) \/ SettleRead(c, o) \/ CloseRead(c, o) \/ MomoRead(c, o)
    \/ \E n \in Asked(o) : \E back \in SUBSET LinesOf(n) : ReturnRead(c, o, n, back)

Sell(o) ==
    \/ CreateDraft(o) \/ Confirm(o) \/ Fulfill(o) \/ CashSale(o)
    \/ CreateMomoPayment(o) \/ GatewayDecides(o)

Next ==
    \/ \E o \in Order : Sell(o) \/ \E c \in Call : Read(c, o)
    \/ \E c \in Call : End(c) \/ Abandon(c)

Spec == Init /\ [][Next]_vars

(* Every call ends, PayOS delivers a webhook again until it is acknowledged*)
(* and not every delivery is interrupted.                                  *)
SettleOf(c, o) == call[c] # Idle /\ call[c].order = o /\ (Settle(c) \/ SettleLate(c))
FairSpec ==
    /\ Spec
    /\ \A c \in Call : WF_vars(End(c) \/ Abandon(c))
    /\ \A o \in Order : SF_vars(\E c \in Call : SettleRead(c, o))
    /\ \A o \in Order : SF_vars(\E c \in Call : SettleOf(c, o))
-----------------------------------------------------------------------------
Units == [Item -> Nat]
KeyType == {"ORDER_CONFIRM", "ORDER_CANCEL", "STOCK", "POS_PAYOS_DEDUCT"}
CallType == {Idle} \cup [op : {"cancel", "return", "link", "discard",
                                "settle", "close", "momo"},
                        order : Order, n : Units, back : SUBSET Item]

(* Types; in particular no balance, and no remaining quantity that a call  *)
(* acts on, is ever negative.                                              *)
TypeOK ==
    /\ status \in [Order -> Status]
    /\ payment \in [Order -> {"NONE", "PENDING", "PAID", "CANCELED"}]
    /\ gateway \in [Order -> {"NONE", "PENDING", "PAID", "CLOSED"}]
    /\ returned \in [Order -> Units]
    /\ refunded \in [Order -> Units]
    /\ sold \in [Order -> Units]
    /\ restocked \in [Order -> Units]
    /\ stock \in Units
    /\ keys \subseteq (KeyType \X Order) \cup (KeyType \X Order \X Item)
    /\ call \in [Call -> CallType]

(* RET-001, RET-002: overlapping returns of an order never take back more  *)
(* than was sold nor refund more than was paid, and a line returned in     *)
(* parts is refunded to the last hundredth with its last unit, whatever    *)
(* the rounding of the parts was.                                          *)
ReturnsWithinSale ==
    \A o \in Order : \A i \in Item :
        /\ returned[o][i] <= Qty[o][i]
        /\ refunded[o][i] <= Refundable[o][i]
        /\ returned[o][i] > 0 /\ returned[o][i] = Qty[o][i] => refunded[o][i] = Refundable[o][i]

(* ORD-004: the goods of an order sold over the counter or for cash have   *)
(* left the stock exactly once while it is confirmed or fulfilled, and no  *)
(* draft has touched the stock, whoever confirms it and how often.         *)
DeductedOnce ==
    \A o \in Order :
        /\ status[o] \in {"ABSENT", "DRAFT"} => sold[o] = Zero
        /\ Channel[o] \in {"counter", "cash"} /\ Physical(o) => sold[o] = Qty[o]

(* A payment is PAID exactly for orders whose goods were handed over: the  *)
(* two are settled together and undone together.                           *)
PaidIsFulfilled == \A o \in Order : payment[o] = "PAID" => status[o] = "FULFILLED"

(* Cancellation is final for orders not paid by MoMo: no settlement,       *)
(* confirmation or poll that was under way sells the goods afterwards.     *)
CancellationStays ==
    \A o \in Order :
        status[o] = "CANCELED" /\ Channel[o] # "momo"
        => status'[o] \in {"CANCELED", "DELETED"} /\ sold'[o] = sold[o] /\ payment'[o] # "PAID"

CanceledIsFinal == [][CancellationStays]_vars

(* What is put back into stock for an order is what its returns brought    *)
(* back, and after a cancellation no more than one line besides: restocks  *)
(* are not repeated.                                                       *)
RestockBounded ==
    \A o \in Order : \A i \in Item :
        \/ Channel[o] = "momo"
        \/ restocked[o][i] <= returned[o][i]
        \/ status[o] \in {"CANCELED", "DELETED"} /\ restocked[o][i] <= Qty[o][i] + returned[o][i]

(* A payment made at PayOS is settled or found canceled in the end, unless *)
(* the goods are sold out: webhooks and polls that race, fail or repeat do *)
(* not lose it.                                                            *)
PaidIsSettled ==
    \A o \in {p \in Order : Channel[p] = "payos"} :
        gateway[o] = "PAID" ~> payment[o] # "PENDING" \/ ~Available(Qty[o])

(* ORD-002, "An order cannot be fulfilled twice": the goods of an order    *)
(* that is paid and fulfilled are not deducted again.                      *)
FulfilledOnce == [][\A o \in Order : Settled(o) => sold'[o] = sold[o]]_vars

(* "A return can only be created for a FULFILLED order": the order of a    *)
(* return is fulfilled when the return takes effect.                       *)
ReturnOfFulfilled ==
    [][\A o \in Order : returned'[o] # returned[o] => status[o] = "FULFILLED"]_vars
=============================================================================
