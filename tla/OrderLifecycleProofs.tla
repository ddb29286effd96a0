------------------------ MODULE OrderLifecycleProofs ------------------------
(***************************************************************************)
(* What holds of orders, returns and payments for every set of orders,     *)
(* items and calls, whatever is ordered and in stock; and of the sums of   *)
(* money of the shops: shares of a discount, the revenue tracker, the book.*)
(***************************************************************************)
EXTENDS MCShops, FiniteSetTheorems, SequenceTheorems, NaturalsInduction, WellFoundedInduction, TLAPS

(* Calls know what they are about: those of PayOS and MoMo belong to       *)
(* orders paid there, and a cancellation puts back no more than was sold.  *)
CallsFit ==
    \A c \in Call :
        /\ call[c].op \in {"link", "discard", "settle", "close"} => Channel[call[c].order] = "payos"
        /\ call[c].op = "momo" => Channel[call[c].order] = "momo"
        /\ call[c].op = "cancel" => \A i \in Item : call[c].n[i] <= Qty[call[c].order][i]

(* Nothing is left to settle for an order that was canceled or deleted.    *)
NothingOwed == \A o \in Order : status[o] \in {"CANCELED", "DELETED"} => payment[o] # "PENDING"

(* The inductive invariant.                                                *)
OrdersSafe ==
    /\ TypeOK
    /\ ReturnsWithinSale
    /\ CallsFit
    /\ NothingOwed
    /\ DeductedOnce
    /\ PaidIsFulfilled
    /\ RestockBounded
-----------------------------------------------------------------------------
(* The pieces actions are made of.                                         *)

(* What is ordered and what may be refunded are quantities.                *)
LEMMA Amounts ==
    ASSUME NEW o \in Order
    PROVE  /\ Qty[o] \in Units
           /\ Refundable[o] \in Units
           /\ Zero \in Units
           /\ \A i \in Item : Qty[o][i] \in 0..MaxQty
BY AmountAssumption DEF Units, Zero

(* A call under way is about an order of the shop.                         *)
LEMMA Busy ==
    ASSUME TypeOK, NEW c \in Call, call[c].op # "idle"
    PROVE  /\ call[c] \in [op : {"cancel", "return", "link", "discard", "settle", "close", "momo"},
                           order : Order, n : Units, back : SUBSET Item]
           /\ call[c].order \in Order
           /\ call[c].n \in Units
           /\ call[c].back \in SUBSET Item
BY DEF TypeOK, CallType, Idle

(* The movement keys of an order name it.                                  *)
LEMMA KeysTyped ==
    ASSUME NEW kind \in KeyType, NEW o \in Order, NEW n
    PROVE  MovementKeys(kind, o, n) \subseteq (KeyType \X Order) \cup (KeyType \X Order \X Item)
BY DEF MovementKeys, LinesOf

(* Stock, and what was sold or put back, in the terms of one order.        *)
LEMMA Deducted ==
    ASSUME TypeOK, NEW o \in Order, NEW n \in Units, NEW ks, Deduct(o, n, ks)
    PROVE  /\ stock' \in Units
           /\ sold' \in [Order -> Units]
           /\ restocked' = restocked
           /\ keys' = keys \cup ks
           /\ \A i \in Item : sold'[o][i] = sold[o][i] + n[i]
           /\ \A p \in Order \ {o} : sold'[p] = sold[p]
<1>1. stock \in Units /\ sold \in [Order -> Units] /\ sold[o] \in Units
  BY DEF TypeOK
<1>2. stock' \in Units
  BY <1>1 DEF Deduct, Available, Units
<1>3. [i \in Item |-> sold[o][i] + n[i]] \in Units
  BY <1>1 DEF Units
<1>4. sold' = [sold EXCEPT ![o] = [i \in Item |-> sold[o][i] + n[i]]]
  BY <1>1 DEF Deduct
<1> QED
  BY <1>1, <1>2, <1>3, <1>4 DEF Deduct

(* What is put back is a part of what was to be.                           *)
LEMMA PutBackTyped ==
    ASSUME NEW o \in Order, NEW n \in Units, NEW back
    PROVE  /\ PutBack(o, n, back) \in Units
           /\ \A i \in Item : PutBack(o, n, back)[i] <= n[i]
BY DEF PutBack, Units

(* Units put back are added to the stock and to what came back.            *)
LEMMA Restocked ==
    ASSUME TypeOK, NEW o \in Order, NEW n \in Units, NEW ks, Restock(o, n, ks)
    PROVE  /\ stock' \in Units
           /\ restocked' \in [Order -> Units]
           /\ sold' = sold
           /\ keys' = keys \cup ks
           /\ \A i \in Item : restocked'[o][i] = restocked[o][i] + n[i]
           /\ \A p \in Order \ {o} : restocked'[p] = restocked[p]
<1>1. stock \in Units /\ restocked \in [Order -> Units] /\ restocked[o] \in Units
  BY DEF TypeOK
<1>2. stock' \in Units
  BY <1>1 DEF Restock, Units
<1>3. [i \in Item |-> restocked[o][i] + n[i]] \in Units
  BY <1>1 DEF Units
<1>4. restocked' = [restocked EXCEPT ![o] = [i \in Item |-> restocked[o][i] + n[i]]]
  BY <1>1 DEF Restock
<1> QED
  BY <1>1, <1>2, <1>3, <1>4 DEF Restock

(* A share rounded to the hundredth is a natural number.                   *)
LEMMA ShareIsNatural ==
    ASSUME NEW amount \in Nat, NEW q \in Nat, NEW of \in Nat \ {0}
    PROVE  RoundedShare(amount, q, of) \in Nat
<1>1. /\ 2 * amount * q + of \in Nat
      /\ 2 * of \in Nat \ {0}
  OBVIOUS
<1>2. \A a \in Nat : \A b \in Nat \ {0} : a \div b \in Nat
  OBVIOUS
<1> QED
  BY <1>1, <1>2 DEF RoundedShare

(* A refund takes no more than is left, and all of it with the last unit.  *)
LEMMA RefundFits ==
    ASSUME TypeOK, ReturnsWithinSale, NEW o \in Order, NEW i \in Item,
           NEW q \in Nat \ {0}, q <= Qty[o][i] - returned[o][i]
    PROVE  /\ Refund(o, i, q) \in Nat
           /\ refunded[o][i] + Refund(o, i, q) <= Refundable[o][i]
           /\ q = Qty[o][i] - returned[o][i] => refunded[o][i] + Refund(o, i, q) = Refundable[o][i]
<1>1. /\ Qty[o][i] \in Nat /\ Refundable[o][i] \in Nat
      /\ returned[o][i] \in Nat /\ refunded[o][i] \in Nat
  BY Amounts DEF TypeOK, Units
<1>2. refunded[o][i] <= Refundable[o][i]
  BY DEF ReturnsWithinSale
<1>3. Qty[o][i] \in Nat \ {0}
  BY <1>1
<1>4. RoundedShare(Refundable[o][i], q, Qty[o][i]) \in Nat
  BY <1>1, <1>3, ShareIsNatural
<1> QED
  BY <1>1, <1>2, <1>4 DEF Refund
-----------------------------------------------------------------------------
(* The steps of Next, and what each kind of step may touch.                *)

(* The disjuncts of Next, with the calls they are of.                      *)
LEMMA Steps ==
    ASSUME Next
    PROVE  \/ \E o \in Order : \/ CreateDraft(o) \/ Confirm(o) \/ Fulfill(o) \/ CashSale(o)
                               \/ CreateMomoPayment(o) \/ GatewayDecides(o)
           \/ \E c \in Call, o \in Order :
                  \/ CreatePaymentLink(c, o) \/ CancelRead(c, o) \/ SettleRead(c, o)
                  \/ CloseRead(c, o) \/ MomoRead(c, o)
                  \/ \E n \in Asked(o), back \in SUBSET Item : ReturnRead(c, o, n, back)
           \/ \E c \in Call :
                  \/ Cancel(c) \/ Return(c) \/ LinkMade(c) \/ LinkRefused(c) \/ Discard(c)
                  \/ Settle(c) \/ SettleLate(c) \/ Close(c) \/ MomoConfirm(c) \/ Abandon(c)
BY DEF Next, Sell, Read, End, LinesOf

(* A call that begins keeps the types.                                     *)
LEMMA BeginTyped ==
    ASSUME TypeOK, NEW c \in Call, NEW o \in Order, NEW n \in Units, NEW back \in SUBSET Item,
           NEW op \in {"cancel", "return", "settle", "close", "momo"},
           Begin(c, op, o, n, back)
    PROVE  TypeOK'
BY DEF Begin, TypeOK, CallType

(* A call that ends leaves typed calls.                                    *)
LEMMA DoneTyped ==
    ASSUME TypeOK, NEW c \in Call, Done(c)
    PROVE  call' \in [Call -> CallType]
BY DEF Done, TypeOK, CallType

(* Types and the limits of returns are kept together: a refund is a number *)
(* because it fits, and a cancellation puts back what was not returned.    *)
LEMMA TypeStep ==
    ASSUME TypeOK, ReturnsWithinSale, [Next]_vars
    PROVE  TypeOK'
<1>1. ASSUME NEW o \in Order, CreateDraft(o)
      PROVE  TypeOK'
  BY <1>1 DEF CreateDraft, TypeOK, Status, returnVars, ledgerVars
<1>2. ASSUME NEW o \in Order, Confirm(o)
      PROVE  TypeOK'
  <2>1. Deduct(o, Qty[o], MovementKeys("ORDER_CONFIRM", o, Qty[o])) /\ Qty[o] \in Units
    BY <1>2, Amounts DEF Confirm
  <2>2. /\ stock' \in Units /\ sold' \in [Order -> Units] /\ restocked' = restocked
        /\ keys' = keys \cup MovementKeys("ORDER_CONFIRM", o, Qty[o])
    BY <2>1, Deducted
  <2>3. MovementKeys("ORDER_CONFIRM", o, Qty[o]) \subseteq (KeyType \X Order) \cup (KeyType \X Order \X Item)
    BY KeysTyped DEF KeyType
  <2> QED
    BY <1>2, <2>2, <2>3 DEF Confirm, TypeOK, Status, returnVars
<1>3. ASSUME NEW o \in Order, Fulfill(o)
      PROVE  TypeOK'
  BY <1>3 DEF Fulfill, TypeOK, Status, returnVars, ledgerVars
<1>4. ASSUME NEW o \in Order, CashSale(o)
      PROVE  TypeOK'
  <2>1. Deduct(o, Qty[o], MovementKeys("STOCK", o, Qty[o])) /\ Qty[o] \in Units
    BY <1>4, Amounts DEF CashSale
  <2>2. /\ stock' \in Units /\ sold' \in [Order -> Units] /\ restocked' = restocked
        /\ keys' = keys \cup MovementKeys("STOCK", o, Qty[o])
    BY <2>1, Deducted
  <2>3. MovementKeys("STOCK", o, Qty[o]) \subseteq (KeyType \X Order) \cup (KeyType \X Order \X Item)
    BY KeysTyped DEF KeyType
  <2> QED
    BY <1>4, <2>2, <2>3 DEF CashSale, HandedOver, TypeOK, Status, returnVars
<1>5. ASSUME NEW o \in Order, CreateMomoPayment(o) \/ GatewayDecides(o)
      PROVE  TypeOK'
  BY <1>5 DEF CreateMomoPayment, Draft, GatewayDecides, TypeOK, Status, returnVars, ledgerVars
<1>6. ASSUME NEW c \in Call, NEW o \in Order, CreatePaymentLink(c, o)
      PROVE  TypeOK'
  <2>1. [op |-> "link", order |-> o, n |-> Zero, back |-> {}] \in CallType
    BY Amounts DEF CallType
  <2> QED
    BY <1>6, <2>1 DEF CreatePaymentLink, Draft, TypeOK, Status, returnVars, ledgerVars
<1>7. ASSUME NEW c \in Call, NEW o \in Order, CancelRead(c, o)
      PROVE  TypeOK'
  <2>1. [i \in Item |-> Qty[o][i] - returned[o][i]] \in Units
    BY Amounts DEF TypeOK, ReturnsWithinSale, Units
  <2> QED
    BY <1>7, <2>1, BeginTyped DEF CancelRead
<1>8. ASSUME NEW c \in Call, NEW o \in Order, SettleRead(c, o) \/ CloseRead(c, o) \/ MomoRead(c, o)
      PROVE  TypeOK'
  BY <1>8, Amounts, BeginTyped DEF SettleRead, CloseRead, MomoRead
<1>9. ASSUME NEW c \in Call, NEW o \in Order, NEW n \in Asked(o), NEW back \in SUBSET Item,
             ReturnRead(c, o, n, back)
      PROVE  TypeOK'
  <2>1. n \in Units
    BY AmountAssumption DEF Asked, Units
  <2> QED
    BY <1>9, <2>1, BeginTyped DEF ReturnRead
<1>10. ASSUME NEW c \in Call, Cancel(c)
       PROVE  TypeOK'
  <2> DEFINE o == call[c].order
             n == call[c].n
  <2>1. o \in Order /\ n \in Units
    BY <1>10, Busy DEF Cancel, Doing
  <2>2. /\ stock' \in Units /\ restocked' \in [Order -> Units] /\ sold' \in [Order -> Units]
        /\ keys' \subseteq (KeyType \X Order) \cup (KeyType \X Order \X Item)
    <3>1. CASE Physical(o)
      <4>1. Restock(o, n, MovementKeys("ORDER_CANCEL", o, n))
        BY <1>10, <3>1 DEF Cancel
      <4>2. /\ stock' \in Units /\ restocked' \in [Order -> Units] /\ sold' = sold
            /\ keys' = keys \cup MovementKeys("ORDER_CANCEL", o, n)
        BY <2>1, <4>1, Restocked
      <4>3. MovementKeys("ORDER_CANCEL", o, n) \subseteq (KeyType \X Order) \cup (KeyType \X Order \X Item)
        BY <2>1, KeysTyped DEF KeyType
      <4> QED
        BY <4>2, <4>3 DEF TypeOK
    <3>2. CASE ~Physical(o)
      BY <1>10, <3>2 DEF Cancel, ledgerVars, TypeOK
    <3> QED
      BY <3>1, <3>2
  <2>3. call' \in [Call -> CallType]
    BY <1>10, DoneTyped DEF Cancel
  <2> QED
    BY <1>10, <2>1, <2>2, <2>3 DEF Cancel, TypeOK, Status, returnVars
<1>11. ASSUME NEW c \in Call, Return(c)
       PROVE  TypeOK'
  <2> DEFINE o == call[c].order
             n == call[c].n
             back == call[c].back
  <2>1. o \in Order /\ n \in Units /\ back \in SUBSET Item
    BY <1>11, Busy DEF Return, Doing
  <2>2. Restock(o, PutBack(o, n, back), {}) /\ PutBack(o, n, back) \in Units
    BY <1>11, <2>1, PutBackTyped DEF Return
  <2>3. /\ stock' \in Units /\ restocked' \in [Order -> Units] /\ sold' = sold
        /\ keys' = keys \cup {}
    BY <2>1, <2>2, Restocked
  <2>4. returned' \in [Order -> Units]
    BY <1>11, <2>1 DEF Return, TypeOK, Units
  <2>5. ASSUME NEW i \in Item, n[i] > 0
        PROVE  refunded[o][i] + Refund(o, i, n[i]) \in Nat
    <3>1. n[i] \in Nat \ {0} /\ n[i] <= Qty[o][i] - returned[o][i]
      BY <1>11, <2>1, <2>5 DEF Return, CanReturn, LinesOf, Units
    <3>2. Refund(o, i, n[i]) \in Nat
      BY <2>1, <3>1, RefundFits
    <3> QED
      BY <2>1, <3>2 DEF TypeOK, Units
  <2>6. [i \in Item |-> IF n[i] > 0 THEN refunded[o][i] + Refund(o, i, n[i]) ELSE refunded[o][i]] \in Units
    BY <2>1, <2>5 DEF TypeOK, Units
  <2>7. refunded' = [refunded EXCEPT ![o] = [i \in Item |->
                       IF n[i] > 0 THEN refunded[o][i] + Refund(o, i, n[i]) ELSE refunded[o][i]]]
    BY <1>11, <2>1 DEF Return, TypeOK
  <2>8. refunded' \in [Order -> Units]
    BY <2>1, <2>6, <2>7 DEF TypeOK
  <2>9. call' \in [Call -> CallType]
    BY <1>11, DoneTyped DEF Return
  <2> QED
    BY <1>11, <2>3, <2>4, <2>8, <2>9 DEF Return, TypeOK
<1>12. ASSUME NEW c \in Call, LinkMade(c) \/ Close(c) \/ Discard(c)
       PROVE  TypeOK'
  <2>1. call[c].order \in Order
    BY <1>12, Busy DEF LinkMade, Close, Discard, Doing
  <2>2. call' \in [Call -> CallType]
    BY <1>12, DoneTyped DEF LinkMade, Close, Discard
  <2> QED
    BY <1>12, <2>1, <2>2 DEF LinkMade, Close, Discard, TypeOK, Status, returnVars, ledgerVars
<1>13. ASSUME NEW c \in Call, LinkRefused(c)
       PROVE  TypeOK'
  <2>1. /\ call[c].order \in Order
        /\ call[c] \in [op : {"cancel", "return", "link", "discard", "settle", "close", "momo"},
                        order : Order, n : Units, back : SUBSET Item]
    BY <1>13, Busy DEF LinkRefused, Doing
  <2>2. [call[c] EXCEPT !.op = "discard"] \in CallType
    BY <2>1 DEF CallType
  <2>3. call' \in [Call -> CallType]
    BY <1>13, <2>2 DEF LinkRefused, TypeOK
  <2> QED
    BY <1>13, <2>1, <2>3 DEF LinkRefused, TypeOK, returnVars, ledgerVars
<1>14. ASSUME NEW c \in Call, Settle(c)
       PROVE  TypeOK'
  <2> DEFINE o == call[c].order
             n == call[c].n
  <2>1. o \in Order /\ n \in Units
    BY <1>14, Busy DEF Settle, Doing
  <2>2. Deduct(o, n, PayosKeys(c))
    BY <1>14 DEF Settle
  <2>3. /\ stock' \in Units /\ sold' \in [Order -> Units] /\ restocked' = restocked
        /\ keys' = keys \cup PayosKeys(c)
    BY <2>1, <2>2, Deducted
  <2>4. PayosKeys(c) \subseteq (KeyType \X Order) \cup (KeyType \X Order \X Item)
    BY <2>1, KeysTyped DEF PayosKeys, KeyType
  <2>5. call' \in [Call -> CallType]
    BY <1>14, DoneTyped DEF Settle
  <2> QED
    BY <1>14, <2>1, <2>3, <2>4, <2>5 DEF Settle, HandedOver, TypeOK, Status, returnVars
<1>15. ASSUME NEW c \in Call, MomoConfirm(c)
       PROVE  TypeOK'
  <2> DEFINE o == call[c].order
             n == call[c].n
  <2>1. o \in Order /\ n \in Units
    BY <1>15, Busy DEF MomoConfirm, Doing
  <2>2. Deduct(o, n, {})
    BY <1>15 DEF MomoConfirm
  <2>3. /\ stock' \in Units /\ sold' \in [Order -> Units] /\ restocked' = restocked
        /\ keys' = keys \cup {}
    BY <2>1, <2>2, Deducted
  <2>4. call' \in [Call -> CallType]
    BY <1>15, DoneTyped DEF MomoConfirm
  <2> QED
    BY <1>15, <2>1, <2>3, <2>4 DEF MomoConfirm, HandedOver, TypeOK, Status, returnVars
<1>16. ASSUME NEW c \in Call, SettleLate(c) \/ Abandon(c)
       PROVE  TypeOK'
  <2>1. call' \in [Call -> CallType]
    BY <1>16, DoneTyped DEF SettleLate, Abandon
  <2> QED
    BY <1>16, <2>1 DEF SettleLate, Abandon, TypeOK, returnVars, ledgerVars
<1>17. CASE UNCHANGED vars
  BY <1>17 DEF vars, TypeOK
<1> QED
  BY <1>1, <1>2, <1>3, <1>4, <1>5, <1>6, <1>7, <1>8, <1>9, <1>10, <1>11, <1>12, <1>13, <1>14,
     <1>15, <1>16, <1>17, Steps

-----------------------------------------------------------------------------
(* Only a return moves the quantities and amounts returned, and it checks  *)
(* them against the lines it has locked.                                   *)
LEMMA ReturnsStep ==
    ASSUME TypeOK, ReturnsWithinSale, [Next]_vars
    PROVE  ReturnsWithinSale'
<1>1. CASE UNCHANGED returnVars
  BY <1>1 DEF ReturnsWithinSale, returnVars
<1>2. ASSUME NEW c \in Call, Return(c)
      PROVE  ReturnsWithinSale'
  <2> DEFINE o == call[c].order
             n == call[c].n
  <2>1. o \in Order /\ n \in Units
    BY <1>2, Busy DEF Return, Doing
  <2>2. /\ \A i \in Item : returned'[o][i] = returned[o][i] + n[i]
        /\ \A p \in Order \ {o} : returned'[p] = returned[p] /\ refunded'[p] = refunded[p]
    BY <1>2, <2>1 DEF Return, TypeOK, Units
  <2>3. \A i \in Item : refunded'[o][i] = IF n[i] > 0 THEN refunded[o][i] + Refund(o, i, n[i])
                                                      ELSE refunded[o][i]
    BY <1>2, <2>1 DEF Return, TypeOK, Units
  <2>4. ASSUME NEW i \in Item
        PROVE  /\ returned'[o][i] <= Qty[o][i]
               /\ refunded'[o][i] <= Refundable[o][i]
               /\ returned'[o][i] > 0 /\ returned'[o][i] = Qty[o][i]
                  => refunded'[o][i] = Refundable[o][i]
    <3>1. /\ n[i] \in Nat /\ Qty[o][i] \in Nat /\ Refundable[o][i] \in Nat
          /\ returned[o][i] \in Nat /\ refunded[o][i] \in Nat
      BY <2>1, Amounts DEF TypeOK, Units
    <3>2. CASE n[i] > 0
      <4>1. n[i] \in Nat \ {0} /\ n[i] <= Qty[o][i] - returned[o][i]
        BY <1>2, <2>1, <3>1, <3>2 DEF Return, CanReturn, LinesOf
      <4>2. /\ Refund(o, i, n[i]) \in Nat
            /\ refunded[o][i] + Refund(o, i, n[i]) <= Refundable[o][i]
            /\ n[i] = Qty[o][i] - returned[o][i]
               => refunded[o][i] + Refund(o, i, n[i]) = Refundable[o][i]
        BY <2>1, <4>1, RefundFits
      <4>3. /\ returned'[o][i] = returned[o][i] + n[i]
            /\ refunded'[o][i] = refunded[o][i] + Refund(o, i, n[i])
        BY <2>2, <2>3, <3>2
      <4> HIDE DEF n, o
      <4> QED
        BY <3>1, <4>1, <4>2, <4>3
    <3>3. CASE n[i] = 0
      BY <2>1, <2>2, <2>3, <3>1, <3>3 DEF ReturnsWithinSale
    <3> QED
      BY <3>1, <3>2, <3>3
  <2> QED
    BY <2>1, <2>2, <2>4 DEF ReturnsWithinSale
<1>3. Next => UNCHANGED returnVars \/ \E c \in Call : Return(c)
  BY Steps, SMTT(30) DEF CreateDraft, Confirm, Fulfill, CashSale, CreateMomoPayment, GatewayDecides,
               CreatePaymentLink, CancelRead, SettleRead, CloseRead, MomoRead, ReturnRead, Begin,
               Cancel, LinkMade, LinkRefused, Discard, Settle, SettleLate, Close, MomoConfirm,
               Abandon, returnVars
<1> QED
  BY <1>1, <1>2, <1>3 DEF vars, returnVars

(* A call that begins is about an order of its kind, and only the refusal  *)
(* of a link makes one call into another.                                  *)
LEMMA CallsStep ==
    ASSUME TypeOK, CallsFit, [Next]_vars
    PROVE  CallsFit'
<1>1. ASSUME NEW c \in Call, Done(c)
      PROVE  CallsFit'
  BY <1>1 DEF Done, CallsFit, TypeOK, Idle
<1>2. ASSUME NEW c \in Call, NEW o \in Order,
             \/ CreatePaymentLink(c, o) \/ SettleRead(c, o) \/ CloseRead(c, o) \/ MomoRead(c, o)
             \/ \E n \in Asked(o), back \in SUBSET Item : ReturnRead(c, o, n, back)
      PROVE  CallsFit'
  BY <1>2 DEF CreatePaymentLink, SettleRead, CloseRead, MomoRead, ReturnRead, Begin, CallsFit, TypeOK
<1>3. ASSUME NEW c \in Call, NEW o \in Order, CancelRead(c, o)
      PROVE  CallsFit'
  <2> DEFINE n == [i \in Item |-> Qty[o][i] - returned[o][i]]
  <2>1. \A i \in Item : n[i] <= Qty[o][i]
    BY Amounts DEF TypeOK, Units
  <2>2. call' = [call EXCEPT ![c] = [op |-> "cancel", order |-> o, n |-> n, back |-> {}]]
    BY <1>3 DEF CancelRead, Begin
  <2> HIDE DEF n
  <2> QED
    BY <2>1, <2>2 DEF CallsFit, TypeOK
<1>4. ASSUME NEW c \in Call, LinkRefused(c)
      PROVE  CallsFit'
  <2>1. /\ call[c].op = "link" /\ Channel[call[c].order] = "payos"
        /\ call'[c].op = "discard" /\ call'[c].order = call[c].order
        /\ \A d \in Call \ {c} : call'[d] = call[d]
    BY <1>4, Busy DEF LinkRefused, Doing, CallsFit, TypeOK
  <2> QED
    BY <2>1 DEF CallsFit
<1>5. CASE UNCHANGED call
  BY <1>5 DEF CallsFit
<1>6. Next => \/ UNCHANGED call
              \/ \E c \in Call : Done(c) \/ LinkRefused(c)
              \/ \E c \in Call, o \in Order :
                     \/ CreatePaymentLink(c, o) \/ CancelRead(c, o) \/ SettleRead(c, o)
                     \/ CloseRead(c, o) \/ MomoRead(c, o)
                     \/ \E n \in Asked(o), back \in SUBSET Item : ReturnRead(c, o, n, back)
  BY Steps DEF CreateDraft, Confirm, Fulfill, CashSale, CreateMomoPayment, GatewayDecides,
               Cancel, Return, LinkMade, Discard, Settle, SettleLate, Close, MomoConfirm, Abandon
<1> QED
  BY <1>1, <1>2, <1>3, <1>4, <1>5, <1>6 DEF vars

(* The status of an order and of its payment.                              *)
LEMMA PaymentsStep ==
    ASSUME TypeOK, CallsFit, NothingOwed, PaidIsFulfilled, [Next]_vars
    PROVE  NothingOwed' /\ PaidIsFulfilled'
<1>1. CASE UNCHANGED <<status, payment>>
  BY <1>1 DEF NothingOwed, PaidIsFulfilled
<1>2. ASSUME NEW o \in Order, \/ CreateDraft(o) \/ Confirm(o) \/ Fulfill(o) \/ CashSale(o)
                              \/ Draft(o)
      PROVE  NothingOwed' /\ PaidIsFulfilled'
  BY <1>2 DEF CreateDraft, Confirm, Fulfill, CashSale, HandedOver, Draft,
              NothingOwed, PaidIsFulfilled, TypeOK
<1>3. ASSUME NEW c \in Call, Cancel(c) \/ Close(c) \/ Discard(c) \/ LinkRefused(c)
      PROVE  NothingOwed' /\ PaidIsFulfilled'
  <2>1. call[c].order \in Order
    BY <1>3, Busy DEF Cancel, Close, Discard, LinkRefused, Doing
  <2>2. CASE Cancel(c)
    BY <2>1, <2>2 DEF Cancel, NothingOwed, PaidIsFulfilled, TypeOK
  <2>3. CASE Close(c)
    BY <2>1, <2>3 DEF Close, NothingOwed, PaidIsFulfilled, TypeOK
  <2>4. CASE Discard(c) \/ LinkRefused(c)
    BY <2>1, <2>4 DEF Discard, LinkRefused, NothingOwed, PaidIsFulfilled, TypeOK
  <2> QED
    BY <1>3, <2>2, <2>3, <2>4
<1>4. ASSUME NEW c \in Call, Settle(c) \/ MomoConfirm(c)
      PROVE  NothingOwed' /\ PaidIsFulfilled'
  <2>1. call[c].order \in Order /\ HandedOver(call[c].order)
    BY <1>4, Busy DEF Settle, MomoConfirm, Doing
  <2> QED
    BY <2>1 DEF HandedOver, NothingOwed, PaidIsFulfilled, TypeOK
<1>5. Next => \/ UNCHANGED <<status, payment>>
              \/ \E o \in Order : \/ CreateDraft(o) \/ Confirm(o) \/ Fulfill(o) \/ CashSale(o)
                                  \/ Draft(o)
              \/ \E c \in Call : \/ Cancel(c) \/ Close(c) \/ Discard(c) \/ LinkRefused(c)
                                 \/ Settle(c) \/ MomoConfirm(c)
  BY Steps, ZenonT(60) DEF CreateMomoPayment, GatewayDecides, CreatePaymentLink, CancelRead, SettleRead,
               CloseRead, MomoRead, ReturnRead, Begin, Return, LinkMade, SettleLate, Abandon
<1> QED
  BY <1>1, <1>2, <1>3, <1>4, <1>5 DEF vars

(* What was deducted and put back for one order.                           *)
StockFits(o) ==
    /\ status[o] \in {"ABSENT", "DRAFT"} => sold[o] = Zero
    /\ Channel[o] \in {"counter", "cash"} /\ Physical(o) => sold[o] = Qty[o]
    /\ \A i \in Item :
           \/ Channel[o] = "momo"
           \/ restocked[o][i] <= returned[o][i]
           \/ status[o] \in {"CANCELED", "DELETED"} /\ restocked[o][i] <= Qty[o][i] + returned[o][i]

(* The goods of a draft are deducted as ordered.                           *)
LEMMA FirstDeduction ==
    ASSUME TypeOK, NEW o \in Order, NEW ks, sold[o] = Zero, Deduct(o, Qty[o], ks)
    PROVE  /\ sold'[o] = Qty[o]
           /\ \A p \in Order \ {o} : sold'[p] = sold[p]
           /\ restocked' = restocked
<1>1. /\ Qty[o] \in Units /\ Qty[o] = [i \in Item |-> Qty[o][i]]
      /\ sold' \in [Order -> Units] /\ sold'[o] = [i \in Item |-> sold'[o][i]]
      /\ \A i \in Item : sold'[o][i] = sold[o][i] + Qty[o][i]
      /\ \A p \in Order \ {o} : sold'[p] = sold[p]
      /\ restocked' = restocked
  BY Amounts, Deducted DEF Units
<1>2. \A i \in Item : sold'[o][i] = Qty[o][i]
  BY <1>1 DEF Zero, Units
<1> QED
  BY <1>1, <1>2

(* No step takes or puts back the goods of an order once too often.        *)
LEMMA StockStep ==
    ASSUME OrdersSafe, [Next]_vars
    PROVE  \A o \in Order : StockFits(o)'
<1> USE DEF OrdersSafe
<1>0. \A p \in Order : StockFits(p)
  BY DEF DeductedOnce, RestockBounded, StockFits
<1>1. ASSUME UNCHANGED <<sold, restocked, returned>>,
             \A p \in Order : \/ status'[p] = status[p]
                              \/ status[p] = "ABSENT" /\ status'[p] = "DRAFT"
                              \/ status[p] = "CONFIRMED" /\ status'[p] = "FULFILLED"
                              \/ status'[p] \in {"CANCELED", "DELETED"}
      PROVE  \A p \in Order : StockFits(p)'
  <2>1. \A p \in Order : \A i \in Item :
            Qty[p][i] \in Nat /\ returned[p][i] \in Nat /\ restocked[p][i] \in Nat
    BY Amounts DEF TypeOK, Units
  <2> QED
    BY <1>0, <1>1, <2>1 DEF StockFits, Physical
<1>2. ASSUME NEW o \in Order, Confirm(o) \/ CashSale(o)
      PROVE  \A p \in Order : StockFits(p)'
  <2>1. sold[o] = Zero /\ \A i \in Item : \/ Channel[o] = "momo"
                                          \/ restocked[o][i] <= returned[o][i]
    BY <1>0, <1>2 DEF StockFits, Confirm, CashSale
  <2>2. \E ks : Deduct(o, Qty[o], ks)
    BY <1>2 DEF Confirm, CashSale
  <2>3. /\ sold'[o] = Qty[o]
        /\ \A p \in Order \ {o} : sold'[p] = sold[p]
        /\ restocked' = restocked
    BY <2>1, <2>2, FirstDeduction
  <2>4. /\ status'[o] \in {"CONFIRMED", "FULFILLED"} /\ returned' = returned
        /\ \A p \in Order \ {o} : status'[p] = status[p]
    BY <1>2 DEF Confirm, CashSale, HandedOver, TypeOK, returnVars
  <2> QED
    BY <1>0, <2>1, <2>3, <2>4 DEF StockFits, Physical
<1>3. ASSUME NEW c \in Call, Cancel(c)
      PROVE  \A p \in Order : StockFits(p)'
  <2> DEFINE o == call[c].order
             n == call[c].n
  <2>1. o \in Order /\ n \in Units /\ \A i \in Item : n[i] <= Qty[o][i]
    BY <1>3, Busy DEF Cancel, Doing, CallsFit
  <2>2. /\ status'[o] = "CANCELED" /\ returned' = returned
        /\ \A p \in Order \ {o} : status'[p] = status[p]
    BY <1>3, <2>1 DEF Cancel, TypeOK, returnVars
  <2>3. \A i \in Item : Channel[o] = "momo" \/ restocked[o][i] <= returned[o][i]
    BY <1>0, <1>3, <2>1 DEF StockFits, Cancel, CanCancel, Exists
  <2>4. CASE Physical(o)
    <3>1. Restock(o, n, MovementKeys("ORDER_CANCEL", o, n))
      BY <1>3, <2>4 DEF Cancel
    <3>2. /\ sold' = sold
          /\ \A i \in Item : restocked'[o][i] = restocked[o][i] + n[i]
          /\ \A p \in Order \ {o} : restocked'[p] = restocked[p]
      BY <2>1, <3>1, Restocked
    <3>3. \A i \in Item : /\ restocked[o][i] \in Nat /\ n[i] \in Nat
                          /\ returned[o][i] \in Nat /\ Qty[o][i] \in Nat
      BY <2>1, Amounts DEF TypeOK, Units
    <3>4. ASSUME NEW p \in Order, p = o
          PROVE  StockFits(p)'
      <4> HIDE DEF n, o
      <4> QED
        BY <2>1, <2>2, <2>3, <3>2, <3>3, <3>4 DEF StockFits, Physical
    <3>5. \A p \in Order \ {o} : StockFits(p)'
      BY <1>0, <2>2, <3>2 DEF StockFits, Physical
    <3> QED
      BY <3>4, <3>5
  <2>5. CASE ~Physical(o)
    <3>1. UNCHANGED <<sold, restocked, returned>>
      BY <1>3, <2>5 DEF Cancel, ledgerVars, returnVars
    <3> QED
      BY <1>1, <2>1, <2>2, <3>1
  <2> QED
    BY <2>4, <2>5
<1>4. ASSUME NEW c \in Call, Return(c)
      PROVE  \A p \in Order : StockFits(p)'
  <2> DEFINE o == call[c].order
             n == call[c].n
             back == PutBack(o, n, call[c].back)
  <2>1. /\ o \in Order /\ n \in Units /\ back \in Units
        /\ \A i \in Item : back[i] <= n[i]
    BY <1>4, Busy, PutBackTyped DEF Return, Doing
  <2>2. Restock(o, back, {})
    BY <1>4 DEF Return
  <2>3. /\ sold' = sold
        /\ \A i \in Item : restocked'[o][i] = restocked[o][i] + back[i]
        /\ \A p \in Order \ {o} : restocked'[p] = restocked[p]
    BY <2>1, <2>2, Restocked
  <2>4. /\ status' = status
        /\ \A i \in Item : returned'[o][i] = returned[o][i] + n[i]
        /\ \A p \in Order \ {o} : returned'[p] = returned[p]
    BY <1>4, <2>1 DEF Return, TypeOK, Units
  <2>5. \A i \in Item : /\ restocked[o][i] \in Nat /\ n[i] \in Nat /\ back[i] \in Nat
                        /\ returned[o][i] \in Nat /\ Qty[o][i] \in Nat
    BY <2>1, Amounts DEF TypeOK, Units
  <2> HIDE DEF o, n, back
  <2>6. ASSUME NEW p \in Order, p = o
        PROVE  StockFits(p)'
    BY <1>0, <2>1, <2>3, <2>4, <2>5, <2>6 DEF StockFits, Physical
  <2>7. \A p \in Order \ {o} : StockFits(p)'
    BY <1>0, <2>3, <2>4 DEF StockFits, Physical
  <2> QED
    BY <2>6, <2>7
<1>5. ASSUME NEW c \in Call, Settle(c) \/ MomoConfirm(c)
      PROVE  \A p \in Order : StockFits(p)'
  <2> DEFINE o == call[c].order
  <2>1. /\ o \in Order /\ Channel[o] \in {"payos", "momo"}
        /\ Channel[o] = "payos" => status[o] \notin {"CANCELED", "DELETED"}
    BY <1>5, Busy DEF Settle, MomoConfirm, Doing, CallsFit, NothingOwed
  <2>2. /\ status'[o] = "FULFILLED" /\ returned' = returned
        /\ \A p \in Order \ {o} : status'[p] = status[p]
    BY <1>5, <2>1 DEF Settle, MomoConfirm, HandedOver, TypeOK, returnVars
  <2>3. \E ks : Deduct(o, call[c].n, ks)
    BY <1>5 DEF Settle, MomoConfirm
  <2>4. restocked' = restocked /\ \A p \in Order \ {o} : sold'[p] = sold[p]
    BY <1>5, <2>1, <2>3, Busy, Deducted DEF Settle, MomoConfirm, Doing
  <2> QED
    BY <1>0, <2>1, <2>2, <2>4 DEF StockFits, Physical
<1>6. ASSUME NEW o \in Order, \/ CreateDraft(o) \/ Fulfill(o) \/ Draft(o)
      PROVE  \A p \in Order : \/ status'[p] = status[p]
                              \/ status[p] = "ABSENT" /\ status'[p] = "DRAFT"
                              \/ status[p] = "CONFIRMED" /\ status'[p] = "FULFILLED"
  BY <1>6 DEF CreateDraft, Fulfill, Draft, TypeOK
<1>7. ASSUME NEW c \in Call, Close(c) \/ Discard(c)
      PROVE  \A p \in Order : status'[p] = status[p] \/ status'[p] \in {"CANCELED", "DELETED"}
  BY <1>7, Busy DEF Close, Discard, Doing, TypeOK
<1>8. Next => \/ \E o \in Order : Confirm(o) \/ CashSale(o)
              \/ \E c \in Call : Cancel(c) \/ Return(c) \/ Settle(c) \/ MomoConfirm(c)
              \/ UNCHANGED <<sold, restocked, returned>>
                 /\ \/ UNCHANGED status
                    \/ \E o \in Order : CreateDraft(o) \/ Fulfill(o) \/ Draft(o)
                    \/ \E c \in Call : Close(c) \/ Discard(c)
  BY Steps, SMTT(30) DEF CreateDraft, Fulfill, CreateMomoPayment, GatewayDecides, CreatePaymentLink,
               CancelRead, SettleRead, CloseRead, MomoRead, ReturnRead, Begin, LinkMade,
               LinkRefused, Discard, Close, SettleLate, Abandon, returnVars, ledgerVars
<1> QED
  BY <1>1, <1>2, <1>3, <1>4, <1>5, <1>6, <1>7, <1>8 DEF vars

(* Every step keeps orders safe.                                           *)
LEMMA OrdersSafeStep ==
    ASSUME OrdersSafe, [Next]_vars
    PROVE  OrdersSafe'
<1>1. TypeOK' /\ ReturnsWithinSale' /\ CallsFit' /\ NothingOwed' /\ PaidIsFulfilled'
  BY TypeStep, ReturnsStep, CallsStep, PaymentsStep DEF OrdersSafe
<1>2. DeductedOnce' /\ RestockBounded'
  BY StockStep DEF StockFits, DeductedOnce, RestockBounded
<1> QED
  BY <1>1, <1>2 DEF OrdersSafe

(* The initial state is safe.                                              *)
LEMMA OrdersSafeInit == Init => OrdersSafe
<1>1. Init => TypeOK
  BY Amounts, AmountAssumption DEF Init, TypeOK, Status, CallType, Units, Idle, Zero
<1>2. Init => ReturnsWithinSale
  BY Amounts DEF Init, ReturnsWithinSale, Units, Zero
<1>3. Init => CallsFit /\ NothingOwed /\ DeductedOnce /\ PaidIsFulfilled /\ RestockBounded
  BY Amounts DEF Init, CallsFit, NothingOwed, DeductedOnce, PaidIsFulfilled, RestockBounded,
                 Physical, Idle, Units, Zero
<1> QED
  BY <1>1, <1>2, <1>3 DEF OrdersSafe

(* Every step but a MoMo confirmation leaves a canceled order canceled and *)
(* what was sold of it as it is.                                           *)
LEMMA CanceledStep ==
    ASSUME OrdersSafe, [Next]_vars
    PROVE  CancellationStays
<1> USE DEF OrdersSafe
<1> SUFFICES ASSUME NEW p \in Order, status[p] = "CANCELED", Channel[p] # "momo"
             PROVE  status'[p] \in {"CANCELED", "DELETED"} /\ sold'[p] = sold[p] /\ payment'[p] # "PAID"
  BY DEF CancellationStays
<1>1. /\ payment[p] # "PENDING" /\ payment[p] # "PAID"
      /\ payment' = payment => payment'[p] # "PAID"
  BY DEF NothingOwed, PaidIsFulfilled
<1>2. ASSUME NEW o \in Order, Confirm(o) \/ CashSale(o)
      PROVE  status'[p] = "CANCELED" /\ sold'[p] = sold[p] /\ payment'[p] # "PAID"
  <2>1. p # o /\ status'[p] = status[p] /\ payment'[p] = payment[p]
    BY <1>2 DEF Confirm, CashSale, HandedOver, TypeOK
  <2>2. (\E ks : Deduct(o, Qty[o], ks)) /\ Qty[o] \in Units
    BY <1>2, Amounts DEF Confirm, CashSale
  <2> QED
    BY <1>1, <2>1, <2>2, Deducted
<1>3. ASSUME NEW c \in Call, Settle(c) \/ MomoConfirm(c)
      PROVE  status'[p] = "CANCELED" /\ sold'[p] = sold[p] /\ payment'[p] # "PAID"
  <2>1. /\ call[c].order \in Order /\ call[c].n \in Units
        /\ p # call[c].order
    BY <1>1, <1>3, Busy DEF Settle, MomoConfirm, Doing, CallsFit
  <2>2. status'[p] = status[p] /\ payment'[p] = payment[p]
    BY <1>3, <2>1 DEF Settle, MomoConfirm, HandedOver, TypeOK
  <2>3. \E ks : Deduct(call[c].order, call[c].n, ks)
    BY <1>3 DEF Settle, MomoConfirm
  <2> QED
    BY <1>1, <2>1, <2>2, <2>3, Deducted
<1>4. ASSUME NEW c \in Call, Cancel(c) \/ Close(c) \/ Discard(c) \/ LinkRefused(c)
      PROVE  /\ status'[p] \in {"CANCELED", "DELETED"}
             /\ sold'[p] = sold[p]
             /\ payment'[p] # "PAID"
  <2>1. call[c].order \in Order
    BY <1>4, Busy DEF Cancel, Close, Discard, LinkRefused, Doing
  <2>2. /\ Cancel(c) => call[c].order # p
        /\ sold'[p] = sold[p]
    BY <1>4 DEF Cancel, CanCancel, Restock, Close, Discard, LinkRefused, ledgerVars
  <2> QED
    BY <1>1, <1>4, <2>1, <2>2 DEF Cancel, Close, Discard, LinkRefused, TypeOK
<1>5. ASSUME NEW o \in Order, \/ CreateDraft(o) \/ Fulfill(o) \/ Draft(o)
      PROVE  status'[p] = "CANCELED" /\ payment'[p] # "PAID"
  BY <1>1, <1>5 DEF CreateDraft, Fulfill, Draft, TypeOK
<1>6. Next => \/ \E o \in Order : Confirm(o) \/ CashSale(o)
              \/ \E c \in Call : \/ Settle(c) \/ MomoConfirm(c) \/ Cancel(c) \/ Close(c)
                                 \/ Discard(c) \/ LinkRefused(c)
              \/ UNCHANGED sold /\ \/ UNCHANGED <<status, payment>>
                                   \/ \E o \in Order : CreateDraft(o) \/ Fulfill(o) \/ Draft(o)
  BY Steps, ZenonT(60) DEF CreateDraft, Fulfill, CreateMomoPayment, GatewayDecides, CreatePaymentLink,
               CancelRead, SettleRead, CloseRead, MomoRead, ReturnRead, Begin, LinkMade,
               Return, Restock, SettleLate, Abandon, returnVars, ledgerVars
<1> QED
  BY <1>1, <1>2, <1>3, <1>4, <1>5, <1>6 DEF vars
-----------------------------------------------------------------------------
(* The inductive invariant holds in every reachable state.                 *)
THEOREM OrdersStaySafe == Spec => []OrdersSafe
BY OrdersSafeInit, OrdersSafeStep, PTL DEF Spec

(* No balance and no quantity of a call is ever negative, whatever the     *)
(* handlers of order, return and point of sale do between each other.      *)
THEOREM OrderTypes == Spec => []TypeOK
<1>1. OrdersSafe => TypeOK
  BY DEF OrdersSafe
<1> QED
  BY <1>1, OrdersStaySafe, PTL

(* Overlapping returns never take back or refund more than was sold, and   *)
(* the last unit of a line brings its refund to the last hundredth.        *)
THEOREM ReturnsStayWithinSale == Spec => []ReturnsWithinSale
<1>1. OrdersSafe => ReturnsWithinSale
  BY DEF OrdersSafe
<1> QED
  BY <1>1, OrdersStaySafe, PTL

(* Counter and cash orders have their goods deducted exactly once while    *)
(* they are confirmed or fulfilled, and drafts never.                      *)
THEOREM GoodsDeductedOnce == Spec => []DeductedOnce
<1>1. OrdersSafe => DeductedOnce
  BY DEF OrdersSafe
<1> QED
  BY <1>1, OrdersStaySafe, PTL

(* Returns and a cancellation that overlap do not repeat a restock.        *)
THEOREM RestocksBounded == Spec => []RestockBounded
<1>1. OrdersSafe => RestockBounded
  BY DEF OrdersSafe
<1> QED
  BY <1>1, OrdersStaySafe, PTL

(* A payment is PAID only for an order whose goods were handed over.       *)
THEOREM PaidStaysFulfilled == Spec => []PaidIsFulfilled
<1>1. OrdersSafe => PaidIsFulfilled
  BY DEF OrdersSafe
<1> QED
  BY <1>1, OrdersStaySafe, PTL

(* No settlement, confirmation or poll that was under way revives an order *)
(* that was canceled, unless it is paid by MoMo.                           *)
THEOREM CancellationIsFinal == Spec => CanceledIsFinal
<1>1. OrdersSafe /\ [Next]_vars => [CancellationStays]_vars
  BY CanceledStep
<1> QED
  BY <1>1, OrdersStaySafe, PTL DEF Spec, CanceledIsFinal
-----------------------------------------------------------------------------
(* Sums over finite sets.  A set that is least by inclusion in a family.   *)
LeastOf(A, F) == A \in F /\ \A B \in F : B \subseteq A => B = A

(* A family of subsets of a finite set has a least one.                    *)
LEMMA LeastOfExists ==
    ASSUME NEW S, IsFiniteSet(S), NEW F, F \subseteq SUBSET S, F # {}
    PROVE  \E A : LeastOf(A, F)
<1>1. IsWellFoundedOn(StrictSubsetOrdering(S), SUBSET S)
  BY FS_FiniteSubsetsOfFinite, FS_StrictSubsetOrderingWellFounded
<1>2. \E A \in F : \A B \in F : ~ (<<B, A>> \in StrictSubsetOrdering(S))
  BY <1>1, WFMin
<1> QED
  BY <1>2 DEF StrictSubsetOrdering, LeastOf

(* The partial sums of weights, taking elements as the folds choose them.  *)
Some(T) == CHOOSE x \in T : TRUE
Adds(g, w, S) ==
    g = [T \in SUBSET S |-> IF T = {} THEN 0 ELSE w[Some(T)] + g[T \ {Some(T)}]]
Weighs(w, S) == \A x \in S : w[x] \in Int

(* What a partial sum is, set by set.                                      *)
LEMMA SumOfNone ==
    ASSUME NEW S, NEW w, NEW g, Adds(g, w, S)
    PROVE  g[{}] = 0
BY DEF Adds

(* Of some elements: that of the chosen one and of those left.             *)
LEMMA SumOfSome ==
    ASSUME NEW S, NEW w, NEW g, Adds(g, w, S), NEW T \in SUBSET S, T # {}, NEW c, c = Some(T)
    PROVE  /\ c \in T /\ T \ {c} \in SUBSET S
           /\ g[T] = w[c] + g[T \ {c}]
<1>1. c \in T
  BY DEF Some
<1>2. g[T] = IF T = {} THEN 0 ELSE w[Some(T)] + g[T \ {Some(T)}]
  BY DEF Adds
<1> QED
  BY <1>1, <1>2

(* Sums of integers are integers.                                          *)
LEMMA SumIsNumber ==
    ASSUME NEW S, IsFiniteSet(S), NEW w, Weighs(w, S), NEW g, Adds(g, w, S)
    PROVE  \A T \in SUBSET S : g[T] \in Int
<1>1. PICK Wrong : Wrong = {T \in SUBSET S : g[T] \notin Int}
  OBVIOUS
<1>2. ASSUME NEW T, LeastOf(T, Wrong) PROVE FALSE
  <2>1. T \in SUBSET S /\ g[T] \notin Int
    BY <1>1, <1>2 DEF LeastOf
  <2>2. T # {}
    BY <2>1, SumOfNone
  <2>3. PICK c : c = Some(T)
    OBVIOUS
  <2>4. c \in T /\ T \ {c} \in SUBSET S /\ g[T] = w[c] + g[T \ {c}]
    BY <2>1, <2>2, <2>3, SumOfSome
  <2>5. g[T \ {c}] \in Int
    <3>1. T \ {c} \notin Wrong
      BY <1>2, <2>4 DEF LeastOf
    <3> QED
      BY <1>1, <2>4, <3>1
  <2>6. w[c] \in Int
    BY <2>1, <2>4 DEF Weighs
  <2> QED
    BY <2>1, <2>4, <2>5, <2>6
<1>3. Wrong = {}
  <2> SUFFICES ASSUME Wrong # {} PROVE FALSE
    OBVIOUS
  <2>1. Wrong \subseteq SUBSET S
    BY <1>1
  <2> QED
    BY <1>2, <2>1, LeastOfExists
<1> QED
  BY <1>1, <1>3

(* Sums of the same weights are the same.                                  *)
LEMMA SumsAgree ==
    ASSUME NEW S, IsFiniteSet(S), NEW R, NEW w, NEW v, NEW g, NEW h,
           Adds(g, w, S), Adds(h, v, R), S \subseteq R, \A x \in S : w[x] = v[x]
    PROVE  \A T \in SUBSET S : g[T] = h[T]
<1>1. PICK Wrong : Wrong = {T \in SUBSET S : g[T] # h[T]}
  OBVIOUS
<1>2. ASSUME NEW T, LeastOf(T, Wrong) PROVE FALSE
  <2>1. T \in SUBSET S /\ T \in SUBSET R /\ g[T] # h[T]
    BY <1>1, <1>2 DEF LeastOf
  <2>2. T # {}
    BY <2>1, SumOfNone
  <2>3. PICK c : c = Some(T)
    OBVIOUS
  <2>4. c \in T /\ T \ {c} \in SUBSET S /\ g[T] = w[c] + g[T \ {c}]
    BY <2>1, <2>2, <2>3, SumOfSome
  <2>5. h[T] = v[c] + h[T \ {c}]
    BY <2>1, <2>2, <2>3, SumOfSome
  <2>6. g[T \ {c}] = h[T \ {c}]
    <3>1. T \ {c} \notin Wrong
      BY <1>2, <2>4 DEF LeastOf
    <3> QED
      BY <1>1, <2>4, <3>1
  <2>7. w[c] = v[c]
    BY <2>1, <2>4
  <2> QED
    BY <2>1, <2>4, <2>5, <2>6, <2>7
<1>3. Wrong = {}
  <2> SUFFICES ASSUME Wrong # {} PROVE FALSE
    OBVIOUS
  <2>1. Wrong \subseteq SUBSET S
    BY <1>1
  <2> QED
    BY <1>2, <2>1, LeastOfExists
<1> QED
  BY <1>1, <1>3

(* Partial sums exist: a least set without them would get them from those  *)
(* of the sets below it.                                                   *)
LEMMA PartialSumsExist ==
    ASSUME NEW S, IsFiniteSet(S), NEW w
    PROVE  \E g : Adds(g, w, S)
<1> DEFINE Sum(T) == CHOOSE g : Adds(g, w, T)
<1>1. PICK Wrong : Wrong = {T \in SUBSET S : ~\E g : Adds(g, w, T)}
  OBVIOUS
<1>2. ASSUME NEW T, LeastOf(T, Wrong) PROVE FALSE
  <2>1. T \in SUBSET S /\ ~\E g : Adds(g, w, T)
    BY <1>1, <1>2 DEF LeastOf
  <2>2. ASSUME NEW U \in SUBSET T, U # T PROVE Adds(Sum(U), w, U)
    <3>1. U \notin Wrong /\ U \in SUBSET S
      BY <1>2, <2>1, <2>2 DEF LeastOf
    <3>2. \E g : Adds(g, w, U)
      BY <1>1, <3>1
    <3> QED
      BY <3>2
  <2>3. PICK below : below = [U \in SUBSET T |-> Sum(U)[U]]
    OBVIOUS
  <2>4. PICK h : h = [U \in SUBSET T |-> IF U = {} THEN 0 ELSE w[Some(U)] + below[U \ {Some(U)}]]
    OBVIOUS
  <2>5. ASSUME NEW U \in SUBSET T, U # T PROVE h[U] = below[U]
    <3>0. PICK g : g = Sum(U)
      OBVIOUS
    <3>1. Adds(g, w, U) /\ below[U] = g[U] /\ U \in SUBSET U
      BY <2>2, <2>3, <2>5, <3>0
    <3>2. CASE U = {}
      <4>1. g[{}] = 0
        BY <3>1, SumOfNone
      <4> QED
        BY <2>4, <2>5, <3>1, <3>2, <4>1
    <3>3. CASE U # {}
      <4>1. PICK c : c = Some(U)
        OBVIOUS
      <4>2. PICK V : V = U \ {c}
        OBVIOUS
      <4>3. c \in U /\ V \in SUBSET U /\ g[U] = w[c] + g[V]
        BY <3>1, <3>3, <4>1, <4>2, SumOfSome
      <4>4. V \in SUBSET T /\ V # T /\ V \subseteq U
        BY <2>5, <4>2, <4>3
      <4>5. PICK f : f = Sum(V)
        OBVIOUS
      <4>6. Adds(f, w, V) /\ below[V] = f[V]
        BY <2>2, <2>3, <4>4, <4>5
      <4>7. IsFiniteSet(V)
        BY <2>1, <4>4, FS_Subset
      <4>8. f[V] = g[V]
        <5>1. \A x \in V : w[x] = w[x]
          OBVIOUS
        <5> QED
          BY <3>1, <4>4, <4>6, <4>7, <5>1, SumsAgree
      <4>9. h[U] = w[c] + below[V]
        BY <2>4, <3>3, <4>1, <4>2
      <4> QED
        BY <3>1, <4>3, <4>6, <4>8, <4>9
    <3> QED
      BY <3>2, <3>3
  <2>6. Adds(h, w, T)
    <3>1. ASSUME NEW U \in SUBSET T, U # {} PROVE below[U \ {Some(U)}] = h[U \ {Some(U)}]
      <4>1. Some(U) \in U
        BY <3>1 DEF Some
      <4>2. PICK V : V = U \ {Some(U)}
        OBVIOUS
      <4>3. V \in SUBSET T /\ V # T
        BY <4>1, <4>2
      <4> QED
        BY <2>5, <4>2, <4>3
    <3>2. h = [U \in SUBSET T |-> IF U = {} THEN 0 ELSE w[Some(U)] + h[U \ {Some(U)}]]
      BY <2>4, <3>1
    <3> QED
      BY <3>2 DEF Adds
  <2> QED
    BY <2>1, <2>6
<1>3. Wrong = {}
  <2> SUFFICES ASSUME Wrong # {} PROVE FALSE
    OBVIOUS
  <2>1. Wrong \subseteq SUBSET S
    BY <1>1
  <2> QED
    BY <1>2, <2>1, LeastOfExists
<1> QED
  BY <1>1, <1>3

(* Whichever element is taken last, the sum is the same.                   *)
LEMMA SumTakesAny ==
    ASSUME NEW S, IsFiniteSet(S), NEW w, Weighs(w, S), NEW g, Adds(g, w, S)
    PROVE  \A T \in SUBSET S : \A x \in T : g[T] = w[x] + g[T \ {x}]
<1>1. PICK Wrong : Wrong = {T \in SUBSET S : ~\A x \in T : g[T] = w[x] + g[T \ {x}]}
  OBVIOUS
<1>2. ASSUME NEW T, LeastOf(T, Wrong) PROVE FALSE
  <2>1. T \in SUBSET S /\ T \in Wrong
    BY <1>1, <1>2 DEF LeastOf
  <2>2. PICK x \in T : g[T] # w[x] + g[T \ {x}]
    BY <1>1, <2>1
  <2>3. PICK c : c = Some(T)
    OBVIOUS
  <2>0. T # {}
    BY <2>2
  <2>4. c \in T /\ T \ {c} \in SUBSET S /\ g[T] = w[c] + g[T \ {c}]
    BY <2>0, <2>1, <2>3, SumOfSome
  <2>5. c # x
    BY <2>2, <2>4
  <2>6. PICK U : U = T \ {c}
    OBVIOUS
  <2>7. PICK V : V = T \ {x}
    OBVIOUS
  <2>8. PICK R : R = U \ {x}
    OBVIOUS
  <2>9. R = V \ {c} /\ x \in U /\ c \in V /\ U \in SUBSET S /\ V \in SUBSET S /\ R \in SUBSET S
    BY <2>1, <2>2, <2>4, <2>5, <2>6, <2>7, <2>8
  <2>10. U \notin Wrong /\ V \notin Wrong
    BY <1>2, <2>2, <2>4, <2>6, <2>7 DEF LeastOf
  <2>11. g[U] = w[x] + g[R]
    BY <1>1, <2>8, <2>9, <2>10
  <2>12. g[V] = w[c] + g[R]
    BY <1>1, <2>9, <2>10
  <2>13. g[R] \in Int /\ w[x] \in Int /\ w[c] \in Int
    BY <2>1, <2>2, <2>4, <2>9, SumIsNumber DEF Weighs
  <2>14. g[T] = w[c] + g[U] /\ g[T] # w[x] + g[V]
    BY <2>2, <2>4, <2>6, <2>7
  <2> QED
    BY <2>11, <2>12, <2>13, <2>14
<1>3. Wrong = {}
  <2> SUFFICES ASSUME Wrong # {} PROVE FALSE
    OBVIOUS
  <2>1. Wrong \subseteq SUBSET S
    BY <1>1
  <2> QED
    BY <1>2, <2>1, LeastOfExists
<1> QED
  BY <1>1, <1>3

(* The sum of the weights of a set.                                        *)
SumOf(w, S) == (CHOOSE g : Adds(g, w, S))[S]

(* It is the last partial sum.                                             *)
LEMMA SumIsLast ==
    ASSUME NEW S, IsFiniteSet(S), NEW w, NEW g, Adds(g, w, S)
    PROVE  g[S] = SumOf(w, S)
<1>1. PICK h : h = CHOOSE f : Adds(f, w, S)
  OBVIOUS
<1>2. Adds(h, w, S)
  BY <1>1
<1>3. g[S] = h[S]
  <2>1. \A x \in S : w[x] = w[x]
    OBVIOUS
  <2>2. S \subseteq S /\ S \in SUBSET S
    OBVIOUS
  <2> QED
    BY <1>2, <2>1, <2>2, SumsAgree
<1> QED
  BY <1>1, <1>3 DEF SumOf

(* Sums are numbers, of nothing zero, and agree for weights that do.       *)
LEMMA SumIsInt ==
    ASSUME NEW S, IsFiniteSet(S), NEW w, Weighs(w, S)
    PROVE  SumOf(w, S) \in Int
<1>1. PICK g : Adds(g, w, S)
  BY PartialSumsExist
<1>2. g[S] \in Int
  BY <1>1, SumIsNumber
<1> QED
  BY <1>1, <1>2, SumIsLast

(* Nothing adds up to zero.                                                *)
LEMMA SumOfNothing ==
    ASSUME NEW w
    PROVE  SumOf(w, {}) = 0
<1>1. IsFiniteSet({})
  BY FS_EmptySet
<1>2. PICK g : Adds(g, w, {})
  BY <1>1, PartialSumsExist
<1>3. g[{}] = 0
  BY <1>2, SumOfNone
<1> QED
  BY <1>1, <1>2, <1>3, SumIsLast

(* Equal weights, equal sums.                                              *)
LEMMA SumOfSame ==
    ASSUME NEW S, IsFiniteSet(S), NEW w, NEW v, \A x \in S : w[x] = v[x]
    PROVE  SumOf(w, S) = SumOf(v, S)
<1>1. PICK g : Adds(g, w, S)
  BY PartialSumsExist
<1>2. PICK h : Adds(h, v, S)
  BY PartialSumsExist
<1>3. g[S] = h[S]
  <2>1. S \subseteq S /\ S \in SUBSET S
    OBVIOUS
  <2> QED
    BY <1>1, <1>2, <2>1, SumsAgree
<1> QED
  BY <1>1, <1>2, <1>3, SumIsLast

(* One more element adds its weight.                                       *)
LEMMA SumOfOneMore ==
    ASSUME NEW S, IsFiniteSet(S), NEW w, Weighs(w, S), NEW x \in S
    PROVE  SumOf(w, S) = w[x] + SumOf(w, S \ {x})
<1>1. PICK g : Adds(g, w, S)
  BY PartialSumsExist
<1>2. PICK R : R = S \ {x}
  OBVIOUS
<1>3. IsFiniteSet(R) /\ R \subseteq S /\ R \in SUBSET R
  BY <1>2, FS_Subset
<1>4. PICK h : Adds(h, w, R)
  BY <1>3, PartialSumsExist
<1>5. h[R] = g[R]
  <2>1. \A y \in R : w[y] = w[y]
    OBVIOUS
  <2> QED
    BY <1>1, <1>3, <1>4, <2>1, SumsAgree
<1>6. g[S] = w[x] + g[R]
  BY <1>1, <1>2, SumTakesAny
<1>7. g[S] = SumOf(w, S)
  BY <1>1, SumIsLast
<1>8. h[R] = SumOf(w, R)
  BY <1>3, <1>4, SumIsLast
<1> QED
  BY <1>2, <1>5, <1>6, <1>7, <1>8

-----------------------------------------------------------------------------
(* The folds of the models are such sums.                                  *)
LEMMA SumSeqIsSum ==
    ASSUME NEW s
    PROVE  Shares!SumSeq(s) = SumOf(s, DOMAIN s)
BY DEF SumOf, Adds, Some, Shares!SumSeq, Shares!FoldSeq, Shares!FoldFunction,
       Shares!FoldFunctionOnSet, Shares!MapThenFoldSet

(* What documents add up to, signed.                                       *)
Signs(docs) == [n \in DOMAIN docs |-> IF docs[n].kind = "return" THEN -docs[n].amount ELSE docs[n].amount]
NetOf(docs, S) == SumOf(Signs(docs), S)

(* Partial sums of the weights of elements of a set only.                  *)
LEMMA NetIsSum ==
    ASSUME NEW S, IsFiniteSet(S), S \subseteq DOMAIN doc
    PROVE  Revenue!Net(S) = NetOf(doc, S)
<1>1. PICK w : w = Signs(doc)
  OBVIOUS
<1>2. ASSUME NEW T \in SUBSET S, T # {}
      PROVE  w[Some(T)] = Revenue!Signed(Some(T))
  <2>1. Some(T) \in DOMAIN doc
    BY <1>2 DEF Some
  <2> QED
    BY <1>1, <2>1 DEF Signs, Revenue!Signed
<1>3. PICK g : Adds(g, w, S)
  BY PartialSumsExist
<1>4. PICK f : /\ f = CHOOSE h : h = [T \in SUBSET S |-> IF T = {} THEN 0
                                      ELSE Revenue!Signed(Some(T)) + h[T \ {Some(T)}]]
               /\ Revenue!Net(S) = f[S]
  BY DEF Some, Revenue!Net, Revenue!MapThenSumSet, Revenue!MapThenFoldSet
<1>5. g = [T \in SUBSET S |-> IF T = {} THEN 0 ELSE Revenue!Signed(Some(T)) + g[T \ {Some(T)}]]
  BY <1>2, <1>3 DEF Adds
<1>6. f = [T \in SUBSET S |-> IF T = {} THEN 0 ELSE Revenue!Signed(Some(T)) + f[T \ {Some(T)}]]
  BY <1>4, <1>5
<1>7. Adds(f, w, S)
  BY <1>2, <1>6 DEF Adds
<1>8. f[S] = SumOf(w, S)
  BY <1>7, SumIsLast
<1> QED
  BY <1>1, <1>4, <1>8 DEF NetOf

(* A sum over one more place of a sequence.                                *)
LEMMA SumUpTo ==
    ASSUME NEW s, NEW k \in Nat, \A n \in 1..(k + 1) : s[n] \in Int
    PROVE  /\ SumOf(s, 1..k) \in Int
           /\ SumOf(s, 1..(k + 1)) = SumOf(s, 1..k) + s[k + 1]
<1>1. PICK m \in Nat : m = k + 1
  OBVIOUS
<1>2. IsFiniteSet(1..k) /\ IsFiniteSet(1..m) /\ m \in 1..m /\ (1..m) \ {m} = 1..k
  BY <1>1, FS_Interval
<1>3. Weighs(s, 1..k) /\ Weighs(s, 1..m)
  BY <1>1 DEF Weighs
<1>4. SumOf(s, 1..k) \in Int
  BY <1>2, <1>3, SumIsInt
<1>5. SumOf(s, 1..m) = s[m] + SumOf(s, 1..k)
  <2>1. PICK S : S = 1..m
    OBVIOUS
  <2>2. IsFiniteSet(S) /\ Weighs(s, S) /\ m \in S /\ S \ {m} = 1..k
    BY <1>2, <1>3, <2>1
  <2>3. SumOf(s, S) = s[m] + SumOf(s, S \ {m})
    BY <2>2, SumOfOneMore
  <2> QED
    BY <2>1, <2>2, <2>3
<1>6. s[m] \in Int
  BY <1>2, <1>3 DEF Weighs
<1> QED
  BY <1>1, <1>4, <1>5, <1>6

(* Of sequences: of none zero, and the appended number is added.           *)
LEMMA SumSeqOfNone == Shares!SumSeq(<<>>) = 0
<1>1. DOMAIN <<>> = {}
  OBVIOUS
<1> QED
  BY <1>1, SumSeqIsSum, SumOfNothing

(* The appended number is added.                                           *)
LEMMA SumSeqOfAppend ==
    ASSUME NEW s \in Seq(Int), NEW x \in Int
    PROVE  Shares!SumSeq(s) \in Int /\ Shares!SumSeq(Append(s, x)) = Shares!SumSeq(s) + x
<1>1. PICK t : t = Append(s, x)
  OBVIOUS
<1>2. PICK k \in Nat : k = Len(s)
  OBVIOUS
<1>3. /\ DOMAIN s = 1..k /\ DOMAIN t = 1..(k + 1) /\ t[k + 1] = x
      /\ \A n \in 1..(k + 1) : t[n] \in Int
      /\ \A n \in 1..k : s[n] = t[n]
  BY <1>1, <1>2
<1>4. SumOf(t, 1..k) = SumOf(s, 1..k)
  <2>1. PICK S : S = 1..k
    OBVIOUS
  <2>2. IsFiniteSet(S) /\ \A n \in S : t[n] = s[n]
    BY <1>3, <2>1, FS_Interval
  <2> QED
    BY <2>1, <2>2, SumOfSame
<1>5. SumOf(t, 1..k) \in Int /\ SumOf(t, 1..(k + 1)) = SumOf(t, 1..k) + t[k + 1]
  BY <1>3, SumUpTo
<1>6. Shares!SumSeq(s) = SumOf(s, 1..k) /\ Shares!SumSeq(t) = SumOf(t, 1..(k + 1))
  BY <1>3, SumSeqIsSum
<1> QED
  BY <1>1, <1>3, <1>4, <1>5, <1>6

-----------------------------------------------------------------------------
(* The shares of a total.                                                  *)
(* Dividing loses less than one part.                                      *)
LEMMA Division ==
    ASSUME NEW a \in Int, NEW b \in Nat \ {0}, NEW q, q = a \div b
    PROVE  q \in Int /\ b * q <= a /\ a < b * q + b
OBVIOUS

(* Rounding moves by a half at most.                                       *)
Halfway(r, a, b) == r \in Int /\ 2 * (r * b) - 2 * a <= b /\ 2 * a - 2 * (r * b) <= b

(* So what is rounded is half a divisor off.                               *)
LEMMA RoundedIsNear ==
    ASSUME NEW a \in Int, NEW b \in Nat \ {0}
    PROVE  Halfway(Shares!Rounded(a, b), a, b)
<1>1. PICK c \in Int : c = 2 * a + b
  OBVIOUS
<1>2. PICK d \in Nat \ {0} : d = 2 * b
  OBVIOUS
<1>3. PICK q : q = c \div d
  OBVIOUS
<1>4. q \in Int /\ d * q <= c /\ c < d * q + d
  BY <1>3, Division
<1>5. Shares!Rounded(a, b) = q
  BY <1>1, <1>2, <1>3 DEF Shares!Rounded
<1>6. PICK z \in Int : z = q * b
  BY <1>4
<1>7. d * q = 2 * z
  BY <1>2, <1>4, <1>6
<1>8. 2 * z - 2 * a <= b /\ 2 * a - 2 * z <= b
  BY <1>1, <1>2, <1>4, <1>6, <1>7
<1> QED
  BY <1>4, <1>5, <1>6, <1>8 DEF Halfway

Near(x, e) == x \in Int /\ x <= e /\ -e <= x

(* A share is off its exact part by a hundredth at most.                   *)
LEMMA ShareIsNear ==
    ASSUME NEW l \in Int, NEW s \in Nat \ {0}, NEW d \in Int, NEW t \in Int,
           NEW a, Halfway(a, d * l, s), NEW b, Halfway(b, t * l, s)
    PROVE  l - a + b \in Int /\ Near((l - a + b) * s - l * (s - d + t), s)
<1>0. a \in Int /\ b \in Int
  BY DEF Halfway
<1>1. PICK p \in Int : p = a * s
  BY <1>0
<1>2. PICK q \in Int : q = b * s
  BY <1>0
<1>3. PICK u \in Int : u = d * l
  OBVIOUS
<1>4. PICK v \in Int : v = t * l
  OBVIOUS
<1>5. 2 * p - 2 * u <= s /\ 2 * u - 2 * p <= s /\ 2 * q - 2 * v <= s /\ 2 * v - 2 * q <= s
  BY <1>1, <1>2, <1>3, <1>4 DEF Halfway
<1>6. (l - a + b) * s = l * s - p + q
  BY <1>0, <1>1, <1>2
<1>7. l * (s - d + t) = l * s - u + v
  BY <1>3, <1>4
<1>8. PICK w \in Int : w = l * s
  OBVIOUS
<1>9. (l - a + b) * s - l * (s - d + t) = (q - v) - (p - u)
  BY <1>6, <1>7, <1>8
<1>10. PICK x \in Int : x = (q - v) - (p - u)
  OBVIOUS
<1>11. x <= s /\ -s <= x
  BY <1>5, <1>10
<1> QED
  BY <1>0, <1>9, <1>10, <1>11 DEF Near

(* The last share is off by what the others were.                          *)
LEMMA LastIsNear ==
    ASSUME NEW l \in Int, NEW s \in Int, NEW total \in Int, NEW before \in Int, NEW allocated \in Int,
           s = before + l, NEW e \in Int, Near(allocated * s - before * total, e)
    PROVE  Near((total - allocated) * s - l * total, e)
<1>1. l = s - before
  OBVIOUS
<1>2. PICK u \in Int : u = allocated * s
  OBVIOUS
<1>3. PICK v \in Int : v = before * total
  OBVIOUS
<1>4. PICK w \in Int : w = total * s
  OBVIOUS
<1>5. (total - allocated) * s = w - u
  BY <1>2, <1>4
<1>6. l * total = w - v
  BY <1>1, <1>3, <1>4
<1> QED
  BY <1>2, <1>3, <1>4, <1>5, <1>6 DEF Near

(* One more share adds its error.                                          *)
LEMMA ErrorsAdd ==
    ASSUME NEW l \in Int, NEW s \in Int, NEW total \in Int, NEW before \in Int, NEW allocated \in Int,
           NEW share \in Int, NEW e \in Int,
           Near(allocated * s - before * total, e), Near(share * s - l * total, s)
    PROVE  Near((allocated + share) * s - (before + l) * total, e + s)
<1>1. PICK u \in Int : u = allocated * s
  OBVIOUS
<1>2. PICK v \in Int : v = before * total
  OBVIOUS
<1>3. PICK w \in Int : w = share * s
  OBVIOUS
<1>4. PICK x \in Int : x = l * total
  OBVIOUS
<1>5. (allocated + share) * s = u + w /\ (before + l) * total = v + x
  BY <1>1, <1>2, <1>3, <1>4
<1> QED
  BY <1>1, <1>2, <1>3, <1>4, <1>5 DEF Near

(* An order has lines, a discount and a tax; shares are given out from the *)
(* first line on; every share is near its exact part, those given out are  *)
(* together, and when all are they are what is charged: the total, unless a*)
(* client of MoMo asked for another, and then the last takes the rest.     *)
Share(l, d, t, s, n) == IF s > 0 THEN l[n] - Shares!Rounded(d * l[n], s) + Shares!Rounded(t * l[n], s) ELSE 0
OrderFits(l, d, t) == l \in Seq(Nat) /\ Len(l) > 0 /\ d \in Nat /\ t \in Nat
Given(r, l, charged) ==
    /\ r \in Seq(Int) /\ Len(r) <= Len(l) /\ charged \in Int
    /\ Len(r) = Len(l) => Shares!SumSeq(r) = charged
Rest(l, n, rest) == IF n = Len(l) THEN rest ELSE 0
NearParts(r, l, s, total, rest) ==
    \A n \in 1..Len(r) : Near((r[n] - Rest(l, n, rest)) * s - l[n] * total, Len(l) * s)
NearSum(r, l, s, total) ==
    Len(r) < Len(l) => Near(Shares!SumSeq(r) * s - SumOf(l, 1..Len(r)) * total, Len(r) * s)
GivenNear(r, l, s, total, charged) ==
    s > 0 => NearParts(r, l, s, total, charged - total) /\ NearSum(r, l, s, total)
SharesSafe ==
    /\ OrderFits(order.lines, order.discount, order.tax)
    /\ Given(refundable, order.lines, Shares!Total)
    /\ GivenNear(refundable, order.lines, Shares!Subtotals, Shares!Computed, Shares!Total)

(* The lines add up to a number, which is that of the last and the others. *)
LEMMA LinesAddUp ==
    ASSUME NEW l \in Seq(Nat), NEW k \in Nat, k < Len(l)
    PROVE  /\ SumOf(l, 1..k) \in Int /\ l[k + 1] \in Nat
           /\ SumOf(l, 1..(k + 1)) = SumOf(l, 1..k) + l[k + 1]
<1>1. \A n \in 1..(k + 1) : l[n] \in Nat
  OBVIOUS
<1>2. \A n \in 1..(k + 1) : l[n] \in Int
  BY <1>1
<1>3. l[k + 1] \in Nat
  BY <1>1
<1> QED
  BY <1>2, <1>3, SumUpTo

(* The sum of the lines of an order is that over their positions.          *)
LEMMA SumOfLines ==
    ASSUME NEW l \in Seq(Nat)
    PROVE  Shares!SumSeq(l) \in Int /\ Shares!SumSeq(l) = SumOf(l, 1..Len(l))
<1>1. DOMAIN l = 1..Len(l) /\ Len(l) \in Nat
  OBVIOUS
<1>2. PICK S : S = 1..Len(l)
  OBVIOUS
<1>3. IsFiniteSet(S) /\ Weighs(l, S)
  BY <1>1, <1>2, FS_Interval DEF Weighs
<1>4. SumOf(l, S) \in Int
  BY <1>3, SumIsInt
<1> QED
  BY <1>1, <1>2, <1>4, SumSeqIsSum

(* The share that the code computes is a number near its part.             *)
LEMMA ShareFits ==
    ASSUME NEW l, NEW d, NEW t, OrderFits(l, d, t), NEW s \in Int, NEW n \in 1..Len(l),
           NEW x, x = Share(l, d, t, s, n)
    PROVE  x \in Int /\ (s > 0 => Near(x * s - l[n] * (s - d + t), s))
<1>1. CASE ~(s > 0)
  BY <1>1 DEF Share
<1>2. CASE s > 0
  <2>1. PICK m \in Int : m = l[n]
    BY DEF OrderFits
  <2>2. PICK u \in Int : u = d * m
    BY DEF OrderFits
  <2>3. PICK v \in Int : v = t * m
    BY DEF OrderFits
  <2>4. PICK a : a = Shares!Rounded(u, s)
    OBVIOUS
  <2>5. PICK b : b = Shares!Rounded(v, s)
    OBVIOUS
  <2>6. s \in Nat \ {0}
    BY <1>2
  <2>7. Halfway(a, u, s) /\ Halfway(b, v, s)
    BY <2>4, <2>5, <2>6, RoundedIsNear
  <2>8. Halfway(a, d * m, s) /\ Halfway(b, t * m, s) /\ d \in Int /\ t \in Int
    BY <2>2, <2>3, <2>7 DEF OrderFits
  <2>9. m - a + b \in Int /\ Near((m - a + b) * s - m * (s - d + t), s)
    BY <2>6, <2>8, ShareIsNear
  <2>10. x = m - a + b
    BY <1>2, <2>1, <2>2, <2>3, <2>4, <2>5 DEF Share
  <2> QED
    BY <2>1, <2>9, <2>10
<1> QED
  BY <1>1, <1>2

(* A larger bound is kept too.                                             *)
LEMMA NearWider ==
    ASSUME NEW x, NEW e \in Int, NEW f \in Int, Near(x, e), e <= f
    PROVE  Near(x, f)
BY DEF Near

(* More of a number is no less.                                            *)
LEMMA Multiples ==
    ASSUME NEW k \in Nat, NEW n \in Nat, k <= n, NEW s \in Nat
    PROVE  k * s \in Nat /\ n * s \in Nat /\ k * s <= n * s
<1>1. PICK j \in Nat : n = k + j
  <2>1. n - k \in Nat /\ n = k + (n - k)
    OBVIOUS
  <2> QED
    BY <2>1
<1>2. PICK u \in Nat : u = j * s
  OBVIOUS
<1>3. PICK v \in Nat : v = k * s
  OBVIOUS
<1>4. n * s = v + u
  BY <1>1, <1>2, <1>3
<1> QED
  BY <1>2, <1>3, <1>4

(* The next share, which is not the last, keeps all that.                  *)
LEMMA NextShare ==
    ASSUME NEW l, NEW d, NEW t, OrderFits(l, d, t), NEW s, s = Shares!SumSeq(l),
           NEW total, total = s - d + t,
           NEW charged, NEW r, Given(r, l, charged), GivenNear(r, l, s, total, charged),
           NEW k \in Nat, k = Len(r), k + 1 < Len(l),
           NEW x, x = Share(l, d, t, s, k + 1), NEW q, q = Append(r, x)
    PROVE  Given(q, l, charged) /\ GivenNear(q, l, s, total, charged)
<1>1. /\ l \in Seq(Nat) /\ d \in Nat /\ t \in Nat /\ s \in Int /\ total \in Int
      /\ k + 1 \in 1..Len(l) /\ Len(l) \in Nat /\ k < Len(l)
  BY SumOfLines DEF OrderFits
<1>2. x \in Int /\ (s > 0 => Near(x * s - l[k + 1] * total, s))
  <2>1. PICK n \in 1..Len(l) : n = k + 1
    BY <1>1
  <2>2. x = Share(l, d, t, s, n)
    BY <2>1
  <2>3. x \in Int /\ (s > 0 => Near(x * s - l[n] * (s - d + t), s))
    BY <1>1, <2>2, ShareFits
  <2> QED
    BY <2>1, <2>3
<1>3. r \in Seq(Int)
  BY DEF Given
<1>4. q \in Seq(Int) /\ Len(q) = k + 1 /\ q[k + 1] = x /\ \A n \in 1..k : q[n] = r[n]
  BY <1>2, <1>3
<1>5. Shares!SumSeq(r) \in Int /\ Shares!SumSeq(q) = Shares!SumSeq(r) + x
  BY <1>2, <1>3, SumSeqOfAppend
<1>6. Given(q, l, charged)
  BY <1>1, <1>4 DEF Given
<1>7. ASSUME s > 0 PROVE NearParts(q, l, s, total, charged - total)
  <2>1. NearParts(r, l, s, total, charged - total) /\ s \in Nat
    BY <1>1, <1>7 DEF GivenNear
  <2>2. Near(x * s - l[k + 1] * total, Len(l) * s)
    <3>0. PICK one \in Nat : one = 1
      OBVIOUS
    <3>1. PICK len \in Nat : len = Len(l)
      BY <1>1
    <3>2. PICK e \in Int : e = len * s
      BY <1>1
    <3>3. s <= e
      <4>1. one <= len
        BY <1>1, <3>0, <3>1
      <4>2. one * s <= len * s
        BY <2>1, <4>1, Multiples
      <4> QED
        BY <2>1, <3>0, <3>2, <4>2
    <3>4. PICK y : y = x * s - l[k + 1] * total
      OBVIOUS
    <3>5. Near(y, s)
      BY <1>2, <1>7, <3>4
    <3> QED
      BY <1>1, <3>1, <3>2, <3>3, <3>4, <3>5, NearWider
  <2>3. ASSUME NEW n \in 1..k
        PROVE  Near((q[n] - Rest(l, n, charged - total)) * s - l[n] * total, Len(l) * s)
    BY <1>4, <2>1 DEF NearParts
  <2>4. \A n \in 1..Len(q) : n = k + 1 \/ n \in 1..k
    BY <1>4
  <2>5. Rest(l, k + 1, charged - total) = 0 /\ q[k + 1] - 0 = x
    BY <1>1, <1>2, <1>4, SMTT(30) DEF Rest
  <2>6. Near((q[k + 1] - Rest(l, k + 1, charged - total)) * s - l[k + 1] * total, Len(l) * s)
    BY <2>2, <2>5
  <2> QED
    BY <1>4, <2>3, <2>4, <2>6 DEF NearParts
<1>8. ASSUME s > 0 PROVE NearSum(q, l, s, total)
  <2>1. Near(Shares!SumSeq(r) * s - SumOf(l, 1..k) * total, k * s)
    BY <1>1, <1>8 DEF GivenNear, NearSum
  <2>2. PICK before \in Int : before = SumOf(l, 1..k)
    BY <1>1, LinesAddUp
  <2>3. PICK allocated \in Int : allocated = Shares!SumSeq(r)
    BY <1>5
  <2>4. PICK m \in Int : m = l[k + 1]
    BY <1>1
  <2>5. SumOf(l, 1..(k + 1)) = before + m
    BY <1>1, <2>2, <2>4, LinesAddUp
  <2>6. PICK e \in Int : e = k * s
    BY <1>1
  <2>7. Near(allocated * s - before * total, e) /\ Near(x * s - m * total, s)
    BY <1>2, <1>8, <2>1, <2>2, <2>3, <2>4, <2>6
  <2>8. Near((allocated + x) * s - (before + m) * total, e + s)
    BY <1>1, <1>2, <2>7, ErrorsAdd
  <2>9. e + s = (k + 1) * s
    BY <1>1, <2>6
  <2>10. Near(Shares!SumSeq(q) * s - SumOf(l, 1..(k + 1)) * total, (k + 1) * s)
    BY <1>5, <2>3, <2>5, <2>8, <2>9
  <2> QED
    BY <1>4, <2>10 DEF NearSum
<1> QED
  BY <1>6, <1>7, <1>8 DEF GivenNear

(* So does the last, which is what is left of what is charged.             *)
LEMMA FinalShare ==
    ASSUME NEW l, NEW d, NEW t, OrderFits(l, d, t), NEW s, s = Shares!SumSeq(l),
           NEW total, total = s - d + t,
           NEW charged, NEW r, Given(r, l, charged), GivenNear(r, l, s, total, charged),
           NEW k \in Nat, k = Len(r), k + 1 = Len(l),
           NEW x, x = charged - Shares!SumSeq(r), NEW q, q = Append(r, x)
    PROVE  Given(q, l, charged) /\ GivenNear(q, l, s, total, charged)
<1>1. l \in Seq(Nat) /\ d \in Nat /\ t \in Nat /\ s \in Int /\ total \in Int /\ k < Len(l) /\ Len(l) \in Nat
  BY SumOfLines DEF OrderFits
<1>2. r \in Seq(Int)
  BY DEF Given
<1>3. Shares!SumSeq(r) \in Int
  BY <1>2, SumSeqOfAppend
<1>4. x \in Int /\ charged \in Int
  BY <1>1, <1>3 DEF Given
<1>5. q \in Seq(Int) /\ Len(q) = k + 1 /\ q[k + 1] = x /\ \A n \in 1..k : q[n] = r[n]
  BY <1>2, <1>4
<1>6. Shares!SumSeq(q) = Shares!SumSeq(r) + x
  BY <1>2, <1>4, SumSeqOfAppend
<1>7. Given(q, l, charged)
  <2>1. PICK a \in Int : a = Shares!SumSeq(r)
    BY <1>3
  <2>2. Shares!SumSeq(q) = a + (charged - a)
    BY <1>6, <2>1
  <2>3. Shares!SumSeq(q) = charged
    BY <1>4, <2>1, <2>2
  <2> QED
    BY <1>1, <1>4, <1>5, <2>3 DEF Given
<1>8. ASSUME s > 0 PROVE NearParts(q, l, s, total, charged - total)
  <2>1. NearParts(r, l, s, total, charged - total) /\ NearSum(r, l, s, total) /\ s \in Nat
    BY <1>1, <1>8 DEF GivenNear
  <2>2. PICK before \in Int : before = SumOf(l, 1..k)
    BY <1>1, LinesAddUp
  <2>3. PICK m \in Int : m = l[k + 1]
    BY <1>1, LinesAddUp
  <2>4. s = before + m
    BY <1>1, <2>2, <2>3, LinesAddUp, SumOfLines
  <2>5. PICK allocated \in Int : allocated = Shares!SumSeq(r)
    BY <1>3
  <2>6. PICK e \in Int : e = k * s
    BY <1>1
  <2>7. Near(allocated * s - before * total, e)
    BY <1>1, <2>1, <2>2, <2>5, <2>6 DEF NearSum
  <2>8. Near((total - allocated) * s - m * total, e)
    BY <1>1, <2>4, <2>7, LastIsNear
  <2>9. PICK z \in Int : z = x - (charged - total)
    BY <1>1, <1>4, SMTT(30)
  <2>10. PICK y : y = z * s - m * total
    OBVIOUS
  <2>17. z = total - allocated
    BY <1>1, <1>4, <2>5, <2>9
  <2>18. Near(y, e)
    BY <2>8, <2>10, <2>17
  <2>11. PICK f \in Int : f = Len(l) * s
    BY <1>1
  <2>12. e <= f
    <3>1. PICK len \in Nat : len = Len(l) /\ k <= len
      BY <1>1
    <3>2. k * s <= len * s
      BY <2>1, <3>1, Multiples
    <3> QED
      BY <2>6, <2>11, <3>1, <3>2
  <2>13. Near(y, f)
    BY <2>18, <2>12, NearWider
  <2>19. Rest(l, k + 1, charged - total) = charged - total
    BY DEF Rest
  <2>14. Near((q[k + 1] - Rest(l, k + 1, charged - total)) * s - l[k + 1] * total, Len(l) * s)
    BY <1>5, <2>3, <2>9, <2>10, <2>11, <2>13, <2>19
  <2>15. ASSUME NEW n \in 1..k
         PROVE  Near((q[n] - Rest(l, n, charged - total)) * s - l[n] * total, Len(l) * s)
    BY <1>5, <2>1 DEF NearParts
  <2>16. \A n \in 1..Len(q) : n = k + 1 \/ n \in 1..k
    BY <1>5
  <2> QED
    BY <1>5, <2>14, <2>15, <2>16 DEF NearParts
<1>9. NearSum(q, l, s, total)
  BY <1>1, <1>5 DEF NearSum
<1> QED
  BY <1>7, <1>8, <1>9 DEF GivenNear

(* At first no share is given out.                                         *)
LEMMA SharesInit == Shares!Init => SharesSafe
<1> SUFFICES ASSUME Shares!Init PROVE SharesSafe
  OBVIOUS
<1>1. PICK l : l = order.lines
  OBVIOUS
<1>2. PICK len \in LineCount : l \in [1..len -> Subtotal]
  BY <1>1 DEF Shares!Init
<1>3. l \in Seq(Nat) /\ Len(l) > 0
  <2>1. len \in Nat \ {0} /\ Subtotal \subseteq Nat
    BY <1>2, ShareAssumption
  <2>2. l \in [1..len -> Nat]
    BY <1>2, <2>1
  <2>3. l \in Seq(Nat) /\ Len(l) = len
    BY <2>1, <2>2
  <2> QED
    BY <2>1, <2>3
<1>4. OrderFits(order.lines, order.discount, order.tax)
  BY <1>1, <1>3, ShareAssumption DEF Shares!Init, OrderFits
<1>5. refundable = <<>> /\ refundable \in Seq(Int) /\ Len(refundable) = 0 /\ Len(l) \in Nat
  BY <1>3 DEF Shares!Init
<1>7. PICK s : s = Shares!Subtotals
  OBVIOUS
<1>8. PICK total : total = Shares!Computed
  OBVIOUS
<1>9. s \in Int /\ total \in Int
  BY <1>3, <1>1, <1>4, <1>7, <1>8, SumOfLines DEF Shares!Subtotals, Shares!Computed, OrderFits
<1>12. Shares!Total \in Int
  <2>1. order.asked \in ClientTotal
    BY DEF Shares!Init
  <2>2. ClientTotal \subseteq Int
    BY ShareAssumption
  <2>3. order.asked \in Int
    BY <2>1, <2>2, Zenon
  <2> QED
    BY <1>8, <1>9, <2>3 DEF Shares!Total
<1>6. Given(refundable, order.lines, Shares!Total)
  BY <1>1, <1>3, <1>5, <1>12 DEF Given
<1>10. NearParts(refundable, l, s, total, Shares!Total - total)
  BY <1>5 DEF NearParts
<1>11. NearSum(refundable, l, s, total)
  <2>1. Shares!SumSeq(refundable) = 0
    BY <1>5, SumSeqOfNone
  <2>2. PICK S : S = 1..0
    OBVIOUS
  <2>3. SumOf(l, S) = 0
    <3>1. S = {}
      BY <2>2
    <3> QED
      BY <3>1, SumOfNothing
  <2>4. Near(0 * s - 0 * total, 0 * s)
    BY <1>9 DEF Near
  <2> QED
    BY <1>5, <2>1, <2>2, <2>3, <2>4 DEF NearSum
<1> QED
  BY <1>1, <1>4, <1>6, <1>7, <1>8, <1>10, <1>11 DEF SharesSafe, GivenNear

(* And every share that is given out keeps that.                           *)
LEMMA SharesStep == SharesSafe /\ [Shares!Next]_(Shares!vars) => SharesSafe'
<1> SUFFICES ASSUME SharesSafe, [Shares!Next]_(Shares!vars)
             PROVE  SharesSafe'
  OBVIOUS
<1>1. CASE UNCHANGED Shares!vars
  BY <1>1 DEF Shares!vars, SharesSafe, Shares!Total, Shares!Computed, Shares!Subtotals
<1>2. CASE Shares!Allocate
  <2>1. order' = order
    BY <1>2 DEF Shares!Allocate
  <2>2. PICK l : l = order.lines
    OBVIOUS
  <2>3. PICK d : d = order.discount
    OBVIOUS
  <2>4. PICK t : t = order.tax
    OBVIOUS
  <2>5. PICK s : s = Shares!SumSeq(l)
    OBVIOUS
  <2>6. PICK total : total = s - d + t
    OBVIOUS
  <2>18. PICK charged : charged = Shares!Total
    OBVIOUS
  <2>7. /\ Shares!Subtotals = s /\ Shares!Computed = total
        /\ Shares!Subtotals' = s /\ Shares!Computed' = total /\ Shares!Total' = charged
    BY <2>1, <2>2, <2>3, <2>4, <2>5, <2>6, <2>18
       DEF Shares!Subtotals, Shares!Computed, Shares!Total
  <2>8. PICK r : r = refundable
    OBVIOUS
  <2>9. OrderFits(l, d, t) /\ Given(r, l, charged) /\ GivenNear(r, l, s, total, charged)
    BY <2>2, <2>3, <2>4, <2>7, <2>8, <2>18 DEF SharesSafe
  <2>10. PICK k \in Nat : k = Len(r)
    BY <2>9 DEF Given
  <2>11. k + 1 <= Len(l)
    BY <1>2, <2>2, <2>8, <2>10 DEF Shares!Allocate
  <2>12. PICK q : q = refundable'
    OBVIOUS
  <2>13. PICK x : x = IF k + 1 = Len(l) THEN charged - Shares!SumSeq(r) ELSE Share(l, d, t, s, k + 1)
    OBVIOUS
  <2>14. q = Append(r, x)
    BY <1>2, <2>2, <2>3, <2>4, <2>7, <2>8, <2>10, <2>12, <2>13, <2>18
       DEF Shares!Allocate, Shares!LastShare, Shares!ShareOf, Share
  <2>15. Len(l) \in Nat
    BY <2>9 DEF OrderFits
  <2>16. CASE k + 1 < Len(l)
    <3>1. x = Share(l, d, t, s, k + 1)
      BY <2>13, <2>15, <2>16
    <3>2. Given(q, l, charged) /\ GivenNear(q, l, s, total, charged)
      BY <2>5, <2>6, <2>9, <2>10, <2>14, <2>16, <3>1, NextShare
    <3> QED
      BY <2>1, <2>2, <2>3, <2>4, <2>7, <2>9, <2>12, <3>2 DEF SharesSafe
  <2>17. CASE k + 1 = Len(l)
    <3>1. x = charged - Shares!SumSeq(r)
      BY <2>13, <2>17
    <3>2. Given(q, l, charged) /\ GivenNear(q, l, s, total, charged)
      BY <2>5, <2>6, <2>9, <2>10, <2>14, <2>17, <3>1, FinalShare
    <3> QED
      BY <2>1, <2>2, <2>3, <2>4, <2>7, <2>9, <2>12, <3>2 DEF SharesSafe
  <2> QED
    BY <2>11, <2>15, <2>16, <2>17
<1> QED
  BY <1>1, <1>2 DEF Shares!Next

(* That is what the shares are to be.                                      *)
LEMMA SharesAreExact == SharesSafe => Shares!AllocationExact
<1> SUFFICES ASSUME SharesSafe, Len(refundable) = Len(order.lines)
             PROVE  /\ Shares!SumSeq(refundable) = Shares!Total
                    /\ Shares!Subtotals > 0 => \A n \in DOMAIN refundable :
                          Shares!Off(n) \in
                             -(Len(order.lines) * Shares!Subtotals)..(Len(order.lines) * Shares!Subtotals)
  BY DEF Shares!AllocationExact
<1>1. PICK l : l = order.lines
  OBVIOUS
<1>2. PICK s : s = Shares!Subtotals
  OBVIOUS
<1>3. PICK total : total = Shares!Computed
  OBVIOUS
<1>8. PICK charged : charged = Shares!Total
  OBVIOUS
<1>4. PICK r : r = refundable
  OBVIOUS
<1>5. /\ l \in Seq(Nat) /\ s \in Int
      /\ Given(r, l, charged) /\ GivenNear(r, l, s, total, charged)
  BY <1>1, <1>2, <1>3, <1>4, <1>8, SumOfLines DEF SharesSafe, OrderFits, Shares!Subtotals
<1>6. Shares!SumSeq(r) = charged
  BY <1>1, <1>4, <1>5 DEF Given
<1>7. ASSUME s > 0, NEW n \in DOMAIN r
      PROVE  (r[n] - Rest(l, n, charged - total)) * s - l[n] * total \in -(Len(l) * s)..(Len(l) * s)
  <2>1. n \in 1..Len(r)
    BY <1>5 DEF Given
  <2>2. PICK e \in Int : e = Len(l) * s
    BY <1>5
  <2>3. PICK y : y = (r[n] - Rest(l, n, charged - total)) * s - l[n] * total
    OBVIOUS
  <2>4. Near(y, e)
    BY <1>5, <1>7, <2>1, <2>2, <2>3 DEF GivenNear, NearParts
  <2>5. y \in -e..e
    BY <2>4 DEF Near
  <2> QED
    BY <2>2, <2>3, <2>5
<1> QED
  BY <1>1, <1>2, <1>3, <1>4, <1>6, <1>7, <1>8 DEF Shares!Off, Shares!Charged, Rest

-----------------------------------------------------------------------------
(* The books.  What is recorded: orders, returns, rows of files, and        *)
(* cancellations of orders.                                                *)
Record == [kind : {"sale", "return", "import", "cancel"}, at : Nat, amount : Nat, of : Nat]
DocsFit(docs) == docs \in Seq(Record)

(* What a record says.                                                     *)
LEMMA DocumentFits ==
    ASSUME NEW docs, DocsFit(docs)
    PROVE  /\ Len(docs) \in Nat /\ DOMAIN docs = 1..Len(docs)
           /\ \A n \in DOMAIN docs : /\ docs[n].kind \in {"sale", "return", "import", "cancel"}
                                    /\ docs[n].at \in Nat /\ docs[n].amount \in Nat
<1>1. Len(docs) \in Nat /\ DOMAIN docs = 1..Len(docs)
  BY DEF DocsFit
<1>2. ASSUME NEW n \in DOMAIN docs
      PROVE  docs[n] \in Record
  BY DEF DocsFit
<1> QED
  BY <1>1, <1>2 DEF Record

(* Sets of natural numbers have a least element, which Min finds.          *)
LEMMA LeastExists ==
    ASSUME NEW S \in SUBSET Nat, S # {}
    PROVE  Revenue!Min(S) \in S /\ \A n \in S : Revenue!Min(S) <= n
<1> DEFINE Below == {ss \in Nat \X Nat : ss[1] < ss[2]}
<1>1. IsWellFoundedOn(Below, Nat)
  BY NatLessThanWellFounded DEF OpToRel
<1>2. PICK least \in S : \A k \in S : ~ (<<k, least>> \in Below)
  <2> HIDE DEF Below
  <2> QED
    BY <1>1, WFMin
<1>3. \A n \in S : least <= n
  <2> TAKE n \in S
  <2>1. ~ (n < least)
    BY <1>2
  <2> QED
    BY <2>1
<1>4. \E x \in S : \A y \in S : x <= y
  BY <1>3
<1> QED
  BY <1>4 DEF Revenue!Min

(* The orders that were canceled, and the first that was not, or never.    *)
Gone(docs) == {docs[c].of : c \in {c \in DOMAIN docs : docs[c].kind = "cancel"}}
SalesAt(docs) == {docs[n].at : n \in {m \in DOMAIN docs : m \notin Gone(docs) /\ docs[m].kind = "sale"}}
Starts(docs) == {Revenue!Never} \cup SalesAt(docs)
FirstSale(docs) == Revenue!Min(Starts(docs))

(* It is a moment, and before it is before them all.                       *)
LEMMA FirstSaleFits ==
    ASSUME NEW docs, DocsFit(docs)
    PROVE  /\ FirstSale(docs) \in Nat
           /\ \A x \in Nat : x < FirstSale(docs) <=> \A y \in Starts(docs) : x < y
<1>1. PICK S : S = Starts(docs)
  OBVIOUS
<1>2. Revenue!Never \in Nat
  BY RevenueAssumption DEF Revenue!Never
<1>3. S \in SUBSET Nat /\ S # {}
  BY <1>1, <1>2, DocumentFits DEF Starts, SalesAt
<1>4. PICK m : m = Revenue!Min(S)
  OBVIOUS
<1>5. m \in S /\ \A n \in S : m <= n
  BY <1>3, <1>4, LeastExists
<1>6. \A x \in Nat : x < m <=> \A y \in S : x < y
  BY <1>3, <1>5
<1> QED
  BY <1>1, <1>3, <1>4, <1>5, <1>6 DEF FirstSale

(* What counts in some days.                                               *)
Counts(docs, n, from, to) ==
    /\ n \notin Gone(docs) /\ docs[n].kind # "cancel"
    /\ docs[n].at \div 2 \in from..to
    /\ docs[n].kind = "import" => docs[n].at < FirstSale(docs)
LedgerOf(docs, from, to) == {n \in DOMAIN docs : Counts(docs, n, from, to)}

(* The first order and the ledger of the source, in terms of what is       *)
(* recorded.                                                               *)
LEMMA LedgerIs ==
    ASSUME DocsFit(doc), NEW from, NEW to
    PROVE  Revenue!Cutover = FirstSale(doc) /\ Revenue!Ledger(from, to) = LedgerOf(doc, from, to)
<1>0. DOMAIN doc = 1..Len(doc)
  BY DocumentFits
<1>1. Revenue!Canceled(Len(doc)) = Gone(doc)
  BY <1>0 DEF Revenue!Canceled, Gone
<1>2. ASSUME NEW k
      PROVE  Revenue!Kind(k, Len(doc)) = {n \in DOMAIN doc : n \notin Gone(doc) /\ doc[n].kind = k}
  BY <1>0, <1>1 DEF Revenue!Kind
<1>3. Revenue!CutoverSeen(Len(doc)) = FirstSale(doc)
  BY <1>2 DEF Revenue!CutoverSeen, FirstSale, Starts, SalesAt
<1>4. ASSUME NEW k \in {"sale", "return", "import"}, NEW n
      PROVE  n \in Revenue!InPeriod(k, from, to, FirstSale(doc), Len(doc))
             <=> n \in DOMAIN doc /\ doc[n].kind = k /\ Counts(doc, n, from, to)
  BY <1>2 DEF Revenue!InPeriod, Revenue!In, Revenue!DayOf, Counts
<1>5. \A n \in DOMAIN doc : doc[n].kind \in {"sale", "return", "import", "cancel"}
  BY DocumentFits
<1>6. Revenue!Ledger(from, to) =
        UNION {Revenue!InPeriod(k, from, to, FirstSale(doc), Len(doc)) : k \in Revenue!Sums}
  BY <1>3 DEF Revenue!Ledger, Revenue!LedgerSeen
<1>7. \A n : n \in Revenue!Ledger(from, to)
             <=> \E k \in {"sale", "return", "import"} :
                    n \in Revenue!InPeriod(k, from, to, FirstSale(doc), Len(doc))
  BY <1>6 DEF Revenue!Sums
<1>8. \A n : n \in Revenue!Ledger(from, to) <=> n \in LedgerOf(doc, from, to)
  BY <1>4, <1>5, <1>7 DEF LedgerOf, Counts
<1> QED
  BY <1>3, <1>8 DEF Revenue!Cutover

(* And the first order after a step.                                       *)
LEMMA CutoverIsNext ==
    ASSUME DocsFit(doc')
    PROVE  Revenue!Cutover' = FirstSale(doc')
<1>0. DOMAIN doc' = 1..Len(doc')
  BY DocumentFits
<1>1. Revenue!Canceled(Len(doc))' = Gone(doc')
  BY <1>0 DEF Revenue!Canceled, Gone
<1>2. Revenue!Kind("sale", Len(doc))' = {n \in DOMAIN doc' : n \notin Gone(doc') /\ doc'[n].kind = "sale"}
  BY <1>0, <1>1 DEF Revenue!Kind
<1> QED
  BY <1>2 DEF Revenue!Cutover, Revenue!CutoverSeen, FirstSale, Starts, SalesAt

(* Sums of documents are numbers.                                          *)
LEMMA NetFits ==
    ASSUME NEW docs, DocsFit(docs), NEW S, S \subseteq DOMAIN docs
    PROVE  IsFiniteSet(S) /\ NetOf(docs, S) \in Int
<1>1. Len(docs) \in Nat /\ DOMAIN docs = 1..Len(docs)
  BY DocumentFits
<1>2. IsFiniteSet(1..Len(docs))
  BY <1>1, FS_Interval
<1>3. IsFiniteSet(S)
  BY <1>1, <1>2, FS_Subset
<1>4. PICK w : w = Signs(docs)
  OBVIOUS
<1>5. Weighs(w, S)
  BY <1>4, DocumentFits DEF Weighs, Signs
<1>6. SumOf(w, S) \in Int
  BY <1>3, <1>5, SumIsInt
<1> QED
  BY <1>3, <1>4, <1>6 DEF NetOf

(* Equal documents, equal sums.                                            *)
LEMMA NetSame ==
    ASSUME NEW docs, DocsFit(docs), NEW more, NEW S, S \subseteq DOMAIN docs, S \subseteq DOMAIN more,
           \A n \in S : docs[n] = more[n]
    PROVE  NetOf(docs, S) = NetOf(more, S)
<1>1. IsFiniteSet(S)
  BY NetFits
<1>2. PICK w : w = Signs(docs)
  OBVIOUS
<1>3. PICK v : v = Signs(more)
  OBVIOUS
<1>4. \A n \in S : w[n] = v[n]
  BY <1>2, <1>3 DEF Signs
<1>5. SumOf(w, S) = SumOf(v, S)
  BY <1>1, <1>4, SumOfSame
<1> QED
  BY <1>2, <1>3, <1>5 DEF NetOf

(* The clock runs, what happens is recorded, a book that is being read was *)
(* begun with what was recorded then, and one that is done is complete.    *)
BookFits ==
    /\ book.st \in {"none", "reading", "done"}
    /\ book.st = "reading" => book.since \in Nat /\ book.since <= Len(doc)
    /\ Revenue!BookIsComplete
BooksSafe == now \in Nat /\ DocsFit(doc) /\ BookFits

(* There are no documents at first and no book.                            *)
LEMMA BooksInit == Revenue!Init => BooksSafe
<1> SUFFICES ASSUME Revenue!Init PROVE BooksSafe
  OBVIOUS
<1>1. doc = <<>> /\ doc \in Seq(Record)
  BY DEF Revenue!Init
<1> QED
  BY <1>1 DEF Revenue!Init, BooksSafe, BookFits, DocsFit, Revenue!BookIsComplete

(* What is recorded fits, of now or of the past, and nothing is lost.      *)
LEMMA Recorded ==
    ASSUME DocsFit(doc), NEW kind \in {"sale", "return", "import", "cancel"},
           NEW at \in Nat, NEW amount \in Nat, NEW of \in Nat, Revenue!Record(kind, at, amount, of)
    PROVE  /\ UNCHANGED <<now, book>> /\ book.st # "done"
           /\ DocsFit(doc') /\ Len(doc') = Len(doc) + 1
           /\ doc'[Len(doc) + 1].kind = kind /\ doc'[Len(doc) + 1].at = at /\ doc'[Len(doc) + 1].of = of
           /\ \A n \in DOMAIN doc : n \in DOMAIN doc' /\ doc'[n] = doc[n]
<1>1. doc' = Append(doc, [kind |-> kind, at |-> at, amount |-> amount, of |-> of])
  BY DEF Revenue!Record
<1>2. PICK x \in Record : x = [kind |-> kind, at |-> at, amount |-> amount, of |-> of]
  BY DEF Record
<1>3. x.kind = kind /\ x.at = at /\ x.of = of
  BY <1>2, Zenon
<1>4. doc \in Seq(Record)
  BY DEF DocsFit
<1>5. doc' = Append(doc, x)
  BY <1>1, <1>2
<1>6. /\ doc' \in Seq(Record) /\ Len(doc') = Len(doc) + 1 /\ doc'[Len(doc) + 1] = x
      /\ \A n \in DOMAIN doc : n \in DOMAIN doc' /\ doc'[n] = doc[n]
  BY <1>4, <1>5
<1> QED
  BY <1>3, <1>6 DEF DocsFit, Revenue!Record

(* What the queries of a book answer: each an own state of the records.    *)
Answers(view, during, from, to, cutover) ==
    \E v \in [Revenue!Sums -> during] :
       view = UNION {Revenue!InPeriod(k, from, to, cutover, v[k]) : k \in Revenue!Sums}

Whole(view, during, from, to, cutover) ==
    /\ \A n \in Revenue!In(from, to) :
         (\A u \in during : n \in Revenue!LedgerSeen(from, to, u)) => n \in view
    /\ \A n \in view :
         /\ n \in Revenue!In(from, to)
         /\ \E k \in Revenue!Sums, u \in during : n \in Revenue!Kind(k, u)
         /\ doc[n].kind = "import" => doc[n].at < cutover

(* Such answers hold what counted all the while, nothing that never did,   *)
(* and no history from after the first order that was known.               *)
LEMMA AnswersAreComplete ==
    ASSUME NEW during, NEW first \in during, NEW from, NEW to, NEW view,
           Answers(view, during, from, to, Revenue!CutoverSeen(first))
    PROVE  Whole(view, during, from, to, Revenue!CutoverSeen(first))
<1>1. PICK cutover : cutover = Revenue!CutoverSeen(first)
  OBVIOUS
<1>2. PICK v \in [Revenue!Sums -> during] :
        view = UNION {Revenue!InPeriod(k, from, to, cutover, v[k]) : k \in Revenue!Sums}
  BY <1>1 DEF Answers
<1>3. \A k, n, c, u : n \in Revenue!InPeriod(k, from, to, c, u)
        <=> /\ n \in Revenue!Kind(k, u) /\ n \in Revenue!In(from, to)
            /\ k = "import" => doc[n].at < c
  BY DEF Revenue!InPeriod
<1>4. \A k, n, u : n \in Revenue!Kind(k, u) => doc[n].kind = k
  BY DEF Revenue!Kind
<1>5. \A n, u : n \in Revenue!LedgerSeen(from, to, u)
        <=> \E k \in Revenue!Sums : n \in Revenue!InPeriod(k, from, to, Revenue!CutoverSeen(u), u)
  BY DEF Revenue!LedgerSeen
<1>6. ASSUME NEW n, \A u \in during : n \in Revenue!LedgerSeen(from, to, u)
      PROVE  n \in view
  <2>1. PICK k \in Revenue!Sums : n \in Revenue!InPeriod(k, from, to, cutover, first)
    BY <1>1, <1>5, <1>6
  <2>2. PICK u \in during : u = v[k]
    OBVIOUS
  <2>3. PICK j \in Revenue!Sums : n \in Revenue!InPeriod(j, from, to, Revenue!CutoverSeen(u), u)
    BY <1>5, <1>6
  <2>4. j = k
    BY <1>3, <1>4, <2>1, <2>3
  <2>5. n \in Revenue!InPeriod(k, from, to, cutover, v[k])
    BY <1>3, <2>1, <2>2, <2>3, <2>4
  <2> QED
    BY <1>2, <2>5
<1>7. ASSUME NEW n \in view
      PROVE  /\ \E k \in Revenue!Sums, u \in during : n \in Revenue!Kind(k, u)
             /\ n \in Revenue!In(from, to)
             /\ doc[n].kind = "import" => doc[n].at < cutover
  <2>1. PICK k \in Revenue!Sums : n \in Revenue!InPeriod(k, from, to, cutover, v[k])
    BY <1>2
  <2>2. v[k] \in during
    OBVIOUS
  <2> QED
    BY <1>3, <1>4, <2>1, <2>2
<1> QED
  BY <1>1, <1>6, <1>7 DEF Whole

(* A book that is finished is complete, whenever its queries were answered.*)
LEMMA BookFinished ==
    ASSUME BooksSafe, book.st = "reading",
           NEW first \in book.since..Len(doc), NEW n \in [Revenue!Queries -> book.since..Len(doc)],
           Revenue!FinishBook(first, n)
    PROVE  Revenue!BookIsComplete' /\ book'.st = "done" /\ UNCHANGED <<now, doc>>
<1>1. PICK from : from = book.period.from
  OBVIOUS
<1>2. PICK to : to = book.period.to
  OBVIOUS
<1>3. PICK during : during = book.since..Len(doc)
  OBVIOUS
<1>4. PICK cutover : cutover = Revenue!CutoverSeen(first)
  OBVIOUS
<1>5. PICK lines : lines = Revenue!Lines(cutover, n)
  OBVIOUS
<1>6. PICK breakdown : breakdown = Revenue!Breakdown(cutover, n)
  OBVIOUS
<1>7. book' = [st |-> "done", period |-> book.period, since |-> book.since, cutover |-> cutover,
               lines |-> lines, breakdown |-> breakdown]
  BY <1>4, <1>5, <1>6 DEF Revenue!FinishBook
<1>8. doc' = doc /\ now' = now
  BY DEF Revenue!FinishBook
<1>9. Revenue!Sums \subseteq Revenue!Queries
  BY DEF Revenue!Queries
<1>10. \A k, u : Revenue!Seen(k, u, cutover) = Revenue!InPeriod(k, from, to, cutover, u)
  BY <1>1, <1>2 DEF Revenue!Seen
<1>11. Answers(breakdown, during, from, to, cutover)
  <2>1. PICK v : v = [k \in Revenue!Sums |-> n[k]]
    OBVIOUS
  <2>2. v \in [Revenue!Sums -> during] /\ \A k \in Revenue!Sums : v[k] = n[k]
    BY <1>3, <1>9, <2>1
  <2>3. breakdown = UNION {Revenue!InPeriod(k, from, to, cutover, v[k]) : k \in Revenue!Sums}
    BY <1>6, <1>10, <2>2 DEF Revenue!Breakdown
  <2> QED
    BY <2>2, <2>3 DEF Answers
<1>12. Answers(lines, during, from, to, cutover)
  <2>1. CASE book.granularity # "order"
    BY <1>5, <1>6, <1>11, <2>1 DEF Revenue!Lines
  <2>2. CASE book.granularity = "order"
    <3>1. PICK v : v = [k \in Revenue!Sums |->
              IF k = "sale" THEN n["saleLine"] ELSE IF k = "return" THEN n["returnLine"] ELSE n["import"]]
      OBVIOUS
    <3>2. {"saleLine", "returnLine", "import"} \subseteq Revenue!Queries
      BY <2>2 DEF Revenue!Queries, Revenue!Sums
    <3>3. Revenue!Sums = {"sale", "return", "import"}
      BY DEF Revenue!Sums
    <3>4. /\ v["sale"] = n["saleLine"] /\ v["return"] = n["returnLine"] /\ v["import"] = n["import"]
          /\ v \in [Revenue!Sums -> during]
      BY <1>3, <3>1, <3>2, <3>3
    <3>5. lines = Revenue!InPeriod("sale", from, to, cutover, v["sale"])
                    \cup Revenue!InPeriod("return", from, to, cutover, v["return"])
                    \cup Revenue!InPeriod("import", from, to, cutover, v["import"])
      BY <1>5, <1>10, <2>2, <3>4 DEF Revenue!Lines
    <3>6. lines = UNION {Revenue!InPeriod(k, from, to, cutover, v[k]) : k \in Revenue!Sums}
      BY <3>3, <3>5
    <3> QED
      BY <3>4, <3>6 DEF Answers
  <2> QED
    BY <2>1, <2>2
<1>13. ASSUME NEW view \in {lines, breakdown}
       PROVE  Whole(view, during, from, to, cutover)
  <2>1. Answers(view, during, from, to, Revenue!CutoverSeen(first)) /\ first \in during
    BY <1>3, <1>4, <1>11, <1>12
  <2> QED
    BY <1>4, <2>1, AnswersAreComplete
<1>14. /\ book'.st = "done" /\ book'.lines = lines /\ book'.breakdown = breakdown
       /\ book'.period.from = from /\ book'.period.to = to /\ book'.cutover = cutover
       /\ book'.since..Len(doc') = during
  BY <1>1, <1>2, <1>3, <1>7, <1>8
<1>15. \A k, u : Revenue!Kind(k, u)' = Revenue!Kind(k, u)
  BY <1>8 DEF Revenue!Kind, Revenue!Canceled
<1>16. Revenue!In(from, to)' = Revenue!In(from, to)
  BY <1>8 DEF Revenue!In
<1>17. \A u : Revenue!LedgerSeen(from, to, u)' = Revenue!LedgerSeen(from, to, u)
  BY <1>8, <1>15 DEF Revenue!LedgerSeen, Revenue!InPeriod, Revenue!In, Revenue!CutoverSeen, Revenue!Kind,
                     Revenue!Canceled
<1>18. ASSUME NEW view \in {book'.lines, book'.breakdown}
       PROVE  LET sees == book'.since..Len(doc')
                  period == Revenue!In(book.period.from, book.period.to)'
                  ever == {i \in period : \E k \in Revenue!Sums, u \in sees : i \in Revenue!Kind(k, u)'}
                  always == {i \in period :
                     \A u \in sees : i \in Revenue!LedgerSeen(book.period.from, book.period.to, u)'}
              IN /\ always \subseteq view /\ view \subseteq ever
                 /\ \A i \in view : doc'[i].kind = "import" => doc'[i].at < book'.cutover
  BY <1>8, <1>13, <1>14, <1>15, <1>16, <1>17, ZenonT(60) DEF Whole
<1> QED
  BY <1>8, <1>14, <1>18 DEF Revenue!BookIsComplete

(* A step keeps all of that.                                               *)
LEMMA BooksStep == BooksSafe /\ [Revenue!Next]_(Revenue!vars) => BooksSafe'
<1> SUFFICES ASSUME BooksSafe, [Revenue!Next]_(Revenue!vars)
             PROVE  BooksSafe'
  OBVIOUS
<1>0. /\ now \in Nat /\ DocsFit(doc) /\ BookFits /\ Len(doc) \in Nat
      /\ Amount \subseteq Nat /\ FileMoment \subseteq Nat
  BY RevenueAssumption, DocumentFits DEF BooksSafe
<1>1. CASE UNCHANGED <<doc, book>> /\ now' \in Nat
  <2>1. \A k, u : Revenue!Kind(k, u)' = Revenue!Kind(k, u)
    BY <1>1 DEF Revenue!Kind, Revenue!Canceled
  <2>2. \A from, to, u : Revenue!LedgerSeen(from, to, u)' = Revenue!LedgerSeen(from, to, u)
    BY <1>1 DEF Revenue!LedgerSeen, Revenue!InPeriod, Revenue!In, Revenue!CutoverSeen, Revenue!Kind,
                Revenue!Canceled
  <2>3. \A from, to : Revenue!In(from, to)' = Revenue!In(from, to)
    BY <1>1 DEF Revenue!In
  <2>4. Revenue!BookIsComplete'
    BY <1>0, <1>1, <2>1, <2>2, <2>3 DEF BookFits, Revenue!BookIsComplete
  <2> QED
    BY <1>0, <1>1, <2>4 DEF BookFits, BooksSafe
<1>2. ASSUME NEW kind \in {"sale", "return", "import", "cancel"}, NEW at \in Nat, NEW amount \in Nat,
             NEW of \in Nat, Revenue!Record(kind, at, amount, of)
      PROVE  BooksSafe'
  <2>1. /\ UNCHANGED <<now, book>> /\ book.st # "done"
        /\ DocsFit(doc') /\ Len(doc') = Len(doc) + 1
    BY <1>0, <1>2, Recorded
  <2>2. BookFits'
    BY <1>0, <2>1 DEF BookFits, Revenue!BookIsComplete
  <2> QED
    BY <1>0, <2>1, <2>2 DEF BooksSafe
<1>3. ASSUME NEW p, NEW g, Revenue!BeginBook(p, g)
      PROVE  BooksSafe'
  <2>1. book'.st = "reading" /\ book'.since = Len(doc) /\ UNCHANGED <<now, doc>>
    BY <1>3 DEF Revenue!BeginBook
  <2> QED
    BY <1>0, <2>1 DEF BooksSafe, BookFits, Revenue!BookIsComplete
<1>4. ASSUME book.st = "reading",
             NEW first \in book.since..Len(doc), NEW n \in [Revenue!Queries -> book.since..Len(doc)],
             Revenue!FinishBook(first, n)
      PROVE  BooksSafe'
  <2>1. Revenue!BookIsComplete' /\ book'.st = "done" /\ UNCHANGED <<now, doc>>
    BY <1>4, BookFinished
  <2> QED
    BY <1>0, <2>1 DEF BooksSafe, BookFits
<1>5. CASE Revenue!PutAway
  <2>1. book'.st = "none" /\ UNCHANGED <<now, doc>>
    BY <1>5 DEF Revenue!PutAway
  <2> QED
    BY <1>0, <2>1 DEF BooksSafe, BookFits, Revenue!BookIsComplete
<1>6. CASE UNCHANGED Revenue!vars
  BY <1>0, <1>1, <1>6 DEF Revenue!vars
<1>7. CASE Revenue!Tick
  BY <1>0, <1>1, <1>7 DEF Revenue!Tick
<1>8. CASE \E a \in Amount : Revenue!Fulfil(a)
  BY <1>0, <1>2, <1>8 DEF Revenue!Fulfil
<1>9. ASSUME NEW n \in 1..MaxDocs, Revenue!Cancel(n)
      PROVE  BooksSafe'
  <2>1. n \in Nat
    BY <1>0, <1>9 DEF Revenue!Cancel, Revenue!Kind
  <2> QED
    BY <1>0, <1>2, <1>9, <2>1 DEF Revenue!Cancel
<1>10. ASSUME NEW n \in 1..MaxDocs, NEW a \in Amount, Revenue!Return(n, a)
       PROVE  BooksSafe'
  <2>1. n \in Nat
    BY <1>0, <1>10, DocumentFits DEF Revenue!Return
  <2> QED
    BY <1>0, <1>2, <1>10, <2>1 DEF Revenue!Return
<1>11. CASE \E a \in Amount, at \in FileMoment : Revenue!Import(at, a)
  BY <1>0, <1>2, <1>11 DEF Revenue!Import
<1> QED
  BY <1>3, <1>4, <1>5, <1>6, <1>7, <1>8, <1>9, <1>10, <1>11 DEF Revenue!Next

-----------------------------------------------------------------------------
(* The tracker: what was sold up to a day, and the days on which something *)
(* was.                                                                    *)
RunningOf(docs, start, d) == NetOf(docs, LedgerOf(docs, start, d))
DaysOf(docs, start, today) == {docs[n].at \div 2 : n \in LedgerOf(docs, start, today)}
CrossedDays(docs, start, today) ==
    {d \in DaysOf(docs, start, today) : RunningOf(docs, start, d) >= Threshold}

(* Today and the first day of its year are days.                           *)
LEMMA TodayFits ==
    ASSUME BooksSafe
    PROVE  Revenue!Today \in Nat /\ Revenue!YearStart(Revenue!Today) \in Nat
<1>1. PICK t : t = now \div 2
  OBVIOUS
<1>2. t \in Nat
  <2>1. t \in Int /\ now < 2 * t + 2
    BY <1>1, Division DEF BooksSafe
  <2> QED
    BY <2>1 DEF BooksSafe
<1>3. PICK y \in Nat \ {0} : y = YearDays
  BY RevenueAssumption
<1>4. PICK q : q = t \div y
  OBVIOUS
<1>5. q \in Nat
  <2>1. q \in Int /\ t < y * q + y
    BY <1>2, <1>4, Division
  <2>2. CASE q < 0
    <3>1. PICK r \in Nat : q = -1 - r
      <4>1. -1 - q \in Nat /\ q = -1 - (-1 - q)
        BY <2>1, <2>2
      <4> QED
        BY <4>1
    <3>2. y * r \in Nat
      OBVIOUS
    <3>3. y * q = -y - y * r
      BY <3>1
    <3> QED
      BY <1>2, <2>1, <3>2, <3>3
  <2> QED
    BY <2>1, <2>2
<1>6. q * y \in Nat
  BY <1>5
<1> QED
  BY <1>1, <1>2, <1>3, <1>4, <1>6 DEF Revenue!Today, Revenue!DayOf, Revenue!YearStart

(* They are the model's.                                                   *)
LEMMA TrackerIs ==
    ASSUME BooksSafe, NEW today, today = Revenue!Today, NEW start, start = Revenue!YearStart(today)
    PROVE  /\ \A d : Revenue!Running(d) = RunningOf(doc, start, d) /\ RunningOf(doc, start, d) \in Int
           /\ Revenue!ActiveDays = DaysOf(doc, start, today)
           /\ Revenue!YearToDate = RunningOf(doc, start, today)
<1>1. DocsFit(doc)
  BY DEF BooksSafe
<1>2. ASSUME NEW d
      PROVE  Revenue!Running(d) = RunningOf(doc, start, d) /\ RunningOf(doc, start, d) \in Int
  <2>1. PICK S : S = LedgerOf(doc, start, d)
    OBVIOUS
  <2>2. S \subseteq DOMAIN doc
    BY <2>1 DEF LedgerOf
  <2>3. IsFiniteSet(S) /\ NetOf(doc, S) \in Int
    BY <1>1, <2>2, NetFits
  <2>4. Revenue!Net(S) = NetOf(doc, S)
    BY <2>2, <2>3, NetIsSum
  <2>5. Revenue!Ledger(start, d) = S
    BY <1>1, <2>1, LedgerIs
  <2> QED
    BY <2>1, <2>3, <2>4, <2>5 DEF Revenue!Running, RunningOf
<1>3. Revenue!ActiveDays = DaysOf(doc, start, today)
  <2>1. Revenue!Ledger(start, today) = LedgerOf(doc, start, today)
    BY <1>1, LedgerIs
  <2> QED
    BY <2>1 DEF Revenue!ActiveDays, DaysOf, Revenue!DayOf
<1>4. Revenue!YearToDate = Revenue!Running(today)
  BY DEF Revenue!YearToDate
<1> QED
  BY <1>2, <1>3, <1>4

(* Days are numbered, up to today.                                         *)
LEMMA DaysFit ==
    ASSUME NEW docs, DocsFit(docs), NEW start \in Nat, NEW today \in Nat
    PROVE  DaysOf(docs, start, today) \subseteq 0..today
<1> SUFFICES ASSUME NEW n \in LedgerOf(docs, start, today)
             PROVE  docs[n].at \div 2 \in 0..today
  BY DEF DaysOf
<1>1. docs[n].at \div 2 \in start..today
  BY DEF LedgerOf, Counts
<1> QED
  BY <1>1

(* A set of days has a last one.                                           *)
LEMMA LastExists ==
    ASSUME NEW b \in Nat, NEW S \in SUBSET (0..b), S # {}
    PROVE  \E m \in S : \A d \in S : d <= m
<1>1. PICK R : R = {b - d : d \in S}
  OBVIOUS
<1>2. R \in SUBSET Nat /\ R # {}
  <2>1. \A d \in S : b - d \in Nat
    OBVIOUS
  <2>2. PICK d \in S : TRUE
    OBVIOUS
  <2>3. b - d \in R
    BY <1>1, <2>2
  <2> QED
    BY <1>1, <2>1, <2>3
<1>3. PICK r : r = Revenue!Min(R)
  OBVIOUS
<1>4. r \in R /\ \A n \in R : r <= n
  BY <1>2, <1>3, LeastExists
<1>5. PICK m \in S : r = b - m
  BY <1>1, <1>4
<1>6. \A d \in S : b - m <= b - d
  BY <1>1, <1>4, <1>5
<1> QED
  BY <1>5, <1>6

(* A year that has reached the threshold did so on the last day on which   *)
(* something was sold, if not before.                                      *)
LEMMA SomeDayCrosses ==
    ASSUME NEW docs, DocsFit(docs), NEW start \in Nat, NEW today \in Nat,
           RunningOf(docs, start, today) >= Threshold
    PROVE  CrossedDays(docs, start, today) # {}
<1>1. PICK S : S = DaysOf(docs, start, today)
  OBVIOUS
<1>2. S \subseteq 0..today
  BY <1>1, DaysFit
<1>3. PICK all : all = LedgerOf(docs, start, today)
  OBVIOUS
<1>4. Threshold \in Nat \ {0}
  BY RevenueAssumption
<1>5. S # {}
  <2> SUFFICES ASSUME S = {} PROVE FALSE
    OBVIOUS
  <2>1. all = {}
    BY <1>1, <1>3 DEF DaysOf
  <2>2. NetOf(docs, all) = 0
    BY <2>1, SumOfNothing DEF NetOf
  <2> QED
    BY <1>3, <1>4, <2>2 DEF RunningOf
<1>6. PICK m \in S : \A d \in S : d <= m
  BY <1>2, <1>5, LastExists
<1>7. m \in 0..today
  BY <1>2
<1>8. \A n \in all : docs[n].at \div 2 \in start..today /\ docs[n].at \div 2 <= m
  BY <1>1, <1>3, <1>6 DEF DaysOf, LedgerOf, Counts
<1>9. LedgerOf(docs, start, m) = all
  <2>1. \A n \in all : n \in LedgerOf(docs, start, m)
    <3> SUFFICES ASSUME NEW n \in all PROVE n \in LedgerOf(docs, start, m)
      OBVIOUS
    <3>1. PICK d : d = docs[n].at \div 2
      OBVIOUS
    <3>2. d \in start..today /\ d <= m
      BY <1>8, <3>1
    <3>3. d \in start..m
      BY <1>7, <3>2
    <3> QED
      BY <1>3, <3>1, <3>3 DEF LedgerOf, Counts
  <2>2. \A n \in LedgerOf(docs, start, m) : n \in all
    <3> SUFFICES ASSUME NEW n \in LedgerOf(docs, start, m) PROVE n \in all
      OBVIOUS
    <3>1. PICK d : d = docs[n].at \div 2
      OBVIOUS
    <3>2. d \in start..m
      BY <3>1 DEF LedgerOf, Counts
    <3>3. d \in start..today
      BY <1>7, <3>2
    <3> QED
      BY <1>3, <3>1, <3>3 DEF LedgerOf, Counts
  <2> QED
    BY <2>1, <2>2
<1>10. RunningOf(docs, start, m) = RunningOf(docs, start, today)
  BY <1>3, <1>9 DEF RunningOf
<1> QED
  BY <1>1, <1>6, <1>10 DEF CrossedDays

(* The day the threshold was crossed is the first such day, if there is.   *)
FirstOf(c, days) == c # Revenue!NoDay => c \in days /\ \A d \in days : c <= d
CrossedFits ==
    FirstOf(Revenue!CrossedOn, CrossedDays(doc, Revenue!YearStart(Revenue!Today), Revenue!Today))

(* The day the tracker says it crossed is the first whose running revenue  *)
(* reaches the threshold, and there is one once the year has reached it.   *)
LEMMA CrossedOnFits == BooksSafe => CrossedFits /\ (Revenue!Reached => Revenue!CrossedOn # Revenue!NoDay)
<1> SUFFICES ASSUME BooksSafe
             PROVE  CrossedFits /\ (Revenue!Reached => Revenue!CrossedOn # Revenue!NoDay)
  OBVIOUS
<1>1. PICK today \in Nat : today = Revenue!Today
  BY TodayFits
<1>2. PICK start \in Nat : start = Revenue!YearStart(today)
  BY <1>1, TodayFits
<1>3. PICK crossed : crossed = CrossedDays(doc, start, today)
  OBVIOUS
<1>4. crossed = {d \in Revenue!ActiveDays : Revenue!Running(d) >= Threshold}
  BY <1>1, <1>2, <1>3, TrackerIs DEF CrossedDays
<1>5. DocsFit(doc)
  BY DEF BooksSafe
<1>6. crossed \in SUBSET Nat
  BY <1>3, <1>5, DaysFit DEF CrossedDays
<1>7. PICK c : c = Revenue!CrossedOn
  OBVIOUS
<1>8. c = IF Revenue!Reached /\ crossed # {} THEN Revenue!Min(crossed) ELSE Revenue!NoDay
  BY <1>4, <1>7 DEF Revenue!CrossedOn
<1>9. Revenue!Reached => crossed # {}
  <2>1. Revenue!Reached => RunningOf(doc, start, today) >= Threshold
    BY <1>1, <1>2, TrackerIs DEF Revenue!Reached
  <2> QED
    BY <1>3, <1>5, <2>1, SomeDayCrosses
<1>10. FirstOf(c, crossed)
  BY <1>6, <1>8, LeastExists DEF FirstOf
<1>11. Revenue!Reached => c # Revenue!NoDay
  <2>1. Revenue!NoDay \notin Nat
    BY DEF Revenue!NoDay
  <2> QED
    BY <1>6, <1>8, <1>9, <2>1, LeastExists
<1> QED
  BY <1>1, <1>2, <1>3, <1>7, <1>10, <1>11 DEF CrossedFits

(* The quarter of a day ends with or after it.                             *)
LEMMA QuarterEndsLater ==
    ASSUME NEW d \in Nat
    PROVE  Revenue!QuarterEnd(d) \in Int /\ Revenue!QuarterEnd(d) >= d
<1>1. PICK n \in Nat \ {0} : n = QuarterDays
  BY RevenueAssumption
<1>2. PICK q : q = d \div n
  OBVIOUS
<1>3. q \in Int /\ d < n * q + n
  BY <1>2, Division
<1>4. (q + 1) * n = n * q + n
  BY <1>3
<1>5. n * q \in Int
  BY <1>3
<1>6. Revenue!QuarterEnd(d) = (q + 1) * n - 1
  BY <1>1, <1>2 DEF Revenue!QuarterEnd
<1> QED
  BY <1>3, <1>4, <1>5, <1>6

(* A year that was reached knows when, and by when to register.            *)
LEMMA ReachedYearHasDay ==
    ASSUME BooksSafe, Revenue!Level = "REACHED"
    PROVE  /\ Revenue!CrossedOn # Revenue!NoDay /\ Revenue!Running(Revenue!CrossedOn) >= Threshold
           /\ Revenue!Deadline > Revenue!CrossedOn
<1>1. Revenue!Reached
  BY DEF Revenue!Level
<1>2. PICK c : c = Revenue!CrossedOn
  OBVIOUS
<1>3. c # Revenue!NoDay
  BY <1>1, <1>2, CrossedOnFits
<1>4. PICK today \in Nat : today = Revenue!Today
  BY TodayFits
<1>5. PICK start \in Nat : start = Revenue!YearStart(today)
  BY <1>4, TodayFits
<1>6. c \in CrossedDays(doc, start, today)
  BY <1>2, <1>3, <1>4, <1>5, CrossedOnFits DEF CrossedFits, FirstOf
<1>7. c \in Nat /\ RunningOf(doc, start, c) >= Threshold
  BY <1>6, DaysFit DEF CrossedDays, BooksSafe
<1>8. Revenue!Running(c) >= Threshold
  BY <1>4, <1>5, <1>7, TrackerIs
<1>9. Revenue!Deadline = Revenue!QuarterEnd(c) + Grace
  BY <1>2, <1>3 DEF Revenue!Deadline
<1>10. Grace \in Nat \ {0}
  BY RevenueAssumption
<1>11. Revenue!Deadline > c
  BY <1>7, <1>9, <1>10, QuarterEndsLater
<1> QED
  BY <1>2, <1>3, <1>8, <1>11

(* A revenue that reaches the threshold by a day of this year ends it above*)
(* the threshold.                                                          *)
LEMMA ReachesByEnd ==
    ASSUME NEW t \in Nat, NEW y \in Int, NEW w \in Nat \ {0}, NEW n \in Nat \ {0}, NEW r \in Int,
           NEW k, k = ((t - y) * w + n - 1) \div n, k <= r
    PROVE  Revenue!Rounded(y * w + n * r, w) >= t
<1>1. PICK a \in Int : a = (t - y) * w
  OBVIOUS
<1>2. k \in Int /\ a <= n * k
  <2>1. PICK b \in Int : b = a + n - 1
    BY <1>1
  <2>2. k = b \div n
    BY <1>1, <2>1
  <2>3. k \in Int /\ b < n * k + n
    BY <2>2, Division
  <2>4. n * k \in Int
    BY <2>3
  <2> QED
    BY <1>1, <2>1, <2>3, <2>4
<1>3. n * k <= n * r
  <2>1. PICK j \in Nat : r = k + j
    <3>1. r - k \in Nat /\ r = k + (r - k)
      BY <1>2
    <3> QED
      BY <3>1
  <2>2. n * j \in Nat /\ n * r = n * k + n * j
    BY <1>2, <2>1
  <2>3. n * k \in Int
    BY <1>2
  <2> QED
    BY <2>2, <2>3
<1>4. PICK b \in Int : b = y * w + n * r
  OBVIOUS
<1>5. t * w <= b
  <2>1. PICK u \in Int : u = y * w
    OBVIOUS
  <2>2. PICK v \in Int : v = t * w
    OBVIOUS
  <2>3. a = v - u
    BY <1>1, <2>1, <2>2
  <2>4. PICK x \in Int : x = n * r
    OBVIOUS
  <2>5. a <= x
    <3>1. PICK z \in Int : z = n * k
      BY <1>2
    <3> QED
      BY <1>1, <1>2, <1>3, <2>4, <3>1
  <2> QED
    BY <1>4, <2>1, <2>2, <2>3, <2>4, <2>5
<1>6. PICK c \in Int : c = 2 * b + w
  OBVIOUS
<1>7. PICK d \in Nat \ {0} : d = 2 * w
  OBVIOUS
<1>8. PICK q : q = c \div d
  OBVIOUS
<1>9. q \in Int /\ c < d * q + d
  BY <1>8, Division
<1>10. q >= t
  <2> SUFFICES ASSUME ~(q >= t) PROVE FALSE
    OBVIOUS
  <2>1. PICK j \in Nat : t = q + 1 + j
    <3>1. t - q - 1 \in Nat /\ t = q + 1 + (t - q - 1)
      BY <1>9
    <3> QED
      BY <3>1
  <2>2. w * j \in Nat
    OBVIOUS
  <2>3. PICK p \in Int : p = w * q
    BY <1>9
  <2>4. t * w = p + w + w * j
    BY <1>9, <2>1, <2>3
  <2>5. d * q = 2 * p
    BY <1>7, <1>9, <2>3
  <2>6. PICK m \in Nat : m = w * j
    BY <2>2
  <2> QED
    BY <1>5, <1>6, <1>7, <1>9, <2>3, <2>4, <2>5, <2>6
<1>11. Revenue!Rounded(b, w) = q
  BY <1>6, <1>7, <1>8 DEF Revenue!Rounded
<1> QED
  BY <1>4, <1>10, <1>11

(* The days of the forecast and what was sold in them are numbers.         *)
LEMMA WindowFits ==
    ASSUME BooksSafe
    PROVE  Revenue!WindowDays \in Int /\ Revenue!WindowNet \in Int
<1>1. PICK today \in Nat : today = Revenue!Today
  BY TodayFits
<1>2. Revenue!FirstActivity \in Nat
  <2>1. PICK S : S = {Revenue!Never} \cup
                     {Revenue!DayOf(doc[n].at) :
                        n \in Revenue!Kind("sale", Len(doc)) \cup Revenue!Kind("import", Len(doc))}
    OBVIOUS
  <2>2. \A n \in 1..Len(doc) : doc[n].at \div 2 \in Nat
    BY DocumentFits DEF BooksSafe
  <2>3. S \in SUBSET Nat /\ S # {}
    BY <2>1, <2>2, RevenueAssumption DEF Revenue!Never, Revenue!DayOf, Revenue!Kind
  <2> QED
    BY <2>1, <2>3, LeastExists DEF Revenue!FirstActivity
<1>3. Revenue!WindowStart \in Int
  <2>1. PICK a \in Int : a = Revenue!FirstActivity
    BY <1>2
  <2>2. PICK b \in Int : b = today - (Window - 1)
    BY RevenueAssumption
  <2>3. Revenue!WindowStart = Revenue!Max({a, b})
    BY <1>1, <2>1, <2>2 DEF Revenue!WindowStart
  <2>4. \E x \in {a, b} : \A y \in {a, b} : x >= y
    OBVIOUS
  <2>5. Revenue!Max({a, b}) \in {a, b}
    BY <2>4 DEF Revenue!Max
  <2> QED
    BY <2>3, <2>5
<1>4. Revenue!WindowDays \in Int
  BY <1>1, <1>3 DEF Revenue!WindowDays
<1>5. Revenue!WindowNet \in Int
  <2>1. DocsFit(doc)
    BY DEF BooksSafe
  <2>2. PICK start : start = Revenue!WindowStart
    OBVIOUS
  <2>3. PICK S : S = LedgerOf(doc, start, today)
    OBVIOUS
  <2>4. S \subseteq DOMAIN doc
    BY <2>3 DEF LedgerOf
  <2>5. IsFiniteSet(S) /\ NetOf(doc, S) \in Int
    BY <2>1, <2>4, NetFits
  <2>6. Revenue!Net(S) = NetOf(doc, S)
    BY <2>4, <2>5, NetIsSum
  <2>7. Revenue!Ledger(start, today) = S
    BY <2>1, <2>3, LedgerIs
  <2> QED
    BY <1>1, <2>2, <2>5, <2>6, <2>7 DEF Revenue!WindowNet
<1> QED
  BY <1>4, <1>5

(* A year that is forecast to cross the threshold by a date is forecast to *)
(* end above it, and is watched.                                           *)
LEMMA ForecastIsWatched ==
    ASSUME BooksSafe, Revenue!ProjectedCrossDate # Revenue!NoDay
    PROVE  Revenue!ProjectedYearEnd >= Threshold /\ Revenue!Level # "NONE"
<1>1. PICK today \in Nat : today = Revenue!Today
  BY TodayFits
<1>2. PICK start \in Nat : start = Revenue!YearStart(today)
  BY <1>1, TodayFits
<1>3. PICK y \in Int : y = Revenue!YearToDate
  BY <1>1, <1>2, TrackerIs
<1>4. PICK w \in Int : w = Revenue!WindowDays
  BY WindowFits
<1>5. PICK n \in Int : n = Revenue!WindowNet
  BY WindowFits
<1>6. PICK t \in Nat : t = Threshold
  BY RevenueAssumption
<1>7. PICK k : k = ((t - y) * w + n - 1) \div n
  OBVIOUS
<1>8. PICK end : end = Revenue!YearEnd(today)
  OBVIOUS
<1>9. end \in Int
  BY <1>2, <1>8, RevenueAssumption DEF Revenue!YearEnd
<1>10. Revenue!DaysToGo(t - y) = k
  BY <1>4, <1>5, <1>7 DEF Revenue!DaysToGo
<1>11. Revenue!SufficientData /\ ~Revenue!Reached /\ n > 0 /\ today + k <= end
  BY <1>1, <1>3, <1>5, <1>6, <1>8, <1>10 DEF Revenue!ProjectedCrossDate
<1>12. w \in Nat \ {0} /\ n \in Nat \ {0}
  BY <1>4, <1>11, RevenueAssumption DEF Revenue!SufficientData
<1>13. PICK r \in Int : r = end - today
  BY <1>9
<1>14. k <= r
  <2>1. PICK a \in Int : a = (t - y) * w + n - 1
    OBVIOUS
  <2>2. k \in Int
    BY <1>7, <1>12, <2>1, Division
  <2> QED
    BY <1>9, <1>11, <1>13, <2>2
<1>15. Revenue!Rounded(y * w + n * r, w) >= t
  BY <1>7, <1>12, <1>14, ReachesByEnd
<1>16. Revenue!Max({0, n}) = n
  <2>1. \E x \in {0, n} : \A z \in {0, n} : x >= z
    BY <1>12
  <2> QED
    BY <1>12, <2>1 DEF Revenue!Max
<1>17. Revenue!ProjectedYearEnd = Revenue!Rounded(y * w + n * r, w)
  BY <1>1, <1>3, <1>4, <1>5, <1>8, <1>13, <1>16 DEF Revenue!ProjectedYearEnd, Revenue!Remaining
<1>18. Revenue!ProjectedYearEnd >= Threshold
  BY <1>6, <1>15, <1>17
<1>19. Revenue!Level # "NONE"
  BY <1>11, <1>18 DEF Revenue!Level, Revenue!Forecast
<1> QED
  BY <1>18, <1>19

(* The tracker agrees with itself.                                         *)
LEMMA TrackerFits == BooksSafe => Revenue!TrackerAgrees
BY ReachedYearHasDay, ForecastIsWatched DEF Revenue!TrackerAgrees

(* An order or a return that is recorded at a moment; an order that is      *)
(* canceled.                                                               *)
Longer(docs, more) ==
    /\ DocsFit(docs) /\ DocsFit(more) /\ Len(more) = Len(docs) + 1
    /\ \A n \in DOMAIN docs : n \in DOMAIN more /\ more[n] = docs[n]
Extends(docs, more, at) ==
    /\ Longer(docs, more) /\ at \in Nat
    /\ more[Len(docs) + 1].at = at /\ more[Len(docs) + 1].kind # "cancel"
Withdraws(docs, more, n) ==
    /\ Longer(docs, more) /\ n \in DOMAIN docs /\ docs[n].kind = "sale"
    /\ more[Len(docs) + 1].kind = "cancel" /\ more[Len(docs) + 1].of = n

(* Which leaves those that were canceled before, or adds it.               *)
LEMMA GoneAfter ==
    ASSUME NEW docs, NEW more, Longer(docs, more)
    PROVE  Gone(more) = IF more[Len(docs) + 1].kind = "cancel"
                          THEN Gone(docs) \cup {more[Len(docs) + 1].of} ELSE Gone(docs)
<1>1. PICK len \in Nat : len = Len(docs) /\ DOMAIN docs = 1..len /\ DOMAIN more = 1..(len + 1)
  BY DocumentFits DEF Longer
<1>2. \A n \in DOMAIN more : n \in DOMAIN docs \/ n = len + 1
  BY <1>1
<1>3. len + 1 \in DOMAIN more /\ \A n \in DOMAIN docs : n \in DOMAIN more /\ more[n] = docs[n]
  BY <1>1 DEF Longer
<1> QED
  BY <1>1, <1>2, <1>3 DEF Gone

(* What is recorded now changes no ledger of days before today.            *)
LEMMA EarlierLedgerStays ==
    ASSUME NEW docs, NEW more, NEW at, Extends(docs, more, at),
           NEW start \in Nat, NEW d \in Nat, d < at \div 2
    PROVE  /\ LedgerOf(docs, start, d) = LedgerOf(more, start, d)
           /\ RunningOf(docs, start, d) = RunningOf(more, start, d)
<1>0. DocsFit(docs) /\ DocsFit(more) /\ \A n \in DOMAIN docs : n \in DOMAIN more /\ more[n] = docs[n]
  BY DEF Extends, Longer
<1>1. PICK len \in Nat : len = Len(docs) /\ DOMAIN docs = 1..len /\ DOMAIN more = 1..(len + 1)
  BY <1>0, DocumentFits DEF Extends, Longer
<1>11. Gone(more) = Gone(docs)
  BY GoneAfter DEF Extends
<1>2. PICK t : t = at \div 2
  OBVIOUS
<1>3. t \in Int /\ 2 * t <= at /\ d < t /\ at \in Nat
  BY <1>2, Division DEF Extends
<1>4. ASSUME NEW x \in Nat, x \div 2 \in start..d PROVE x < at
  <2>1. PICK q : q = x \div 2
    OBVIOUS
  <2>2. q \in Int /\ x < 2 * q + 2
    BY <2>1, Division
  <2>3. q <= d
    BY <1>4, <2>1, <2>2
  <2> QED
    BY <1>3, <2>2, <2>3
<1>5. ASSUME NEW x \in Nat, x < at
      PROVE  x < FirstSale(docs) <=> x < FirstSale(more)
  <2>1. \A y \in Starts(more) : y \in Starts(docs) \/ y = at
    BY <1>0, <1>1, <1>11 DEF Starts, SalesAt, Extends
  <2>2. \A y \in Starts(docs) : y \in Starts(more)
    BY <1>0, <1>11 DEF Starts, SalesAt
  <2>3. x < FirstSale(docs) <=> \A y \in Starts(docs) : x < y
    BY <1>0, FirstSaleFits
  <2>4. x < FirstSale(more) <=> \A y \in Starts(more) : x < y
    BY <1>0, FirstSaleFits
  <2> QED
    BY <1>5, <2>1, <2>2, <2>3, <2>4
<1>6. ASSUME NEW n \in DOMAIN docs
      PROVE  Counts(docs, n, start, d) <=> Counts(more, n, start, d)
  <2>1. more[n] = docs[n] /\ docs[n].at \in Nat
    BY <1>0, <1>6, DocumentFits
  <2> QED
    BY <1>4, <1>5, <1>11, <2>1 DEF Counts
<1>7. ~ Counts(more, len + 1, start, d)
  <2>1. more[len + 1].at \div 2 = t
    BY <1>1, <1>2 DEF Extends
  <2>2. t \notin start..d
    BY <1>3
  <2> QED
    BY <2>1, <2>2 DEF Counts
<1>8. LedgerOf(docs, start, d) = LedgerOf(more, start, d)
  <2>1. \A n \in DOMAIN more : n \in DOMAIN docs \/ n = len + 1
    BY <1>1
  <2>2. \A n \in DOMAIN docs : n \in DOMAIN more
    BY <1>1
  <2> QED
    BY <1>6, <1>7, <2>1, <2>2 DEF LedgerOf
<1>9. PICK S : S = LedgerOf(docs, start, d)
  OBVIOUS
<1>10. NetOf(docs, S) = NetOf(more, S)
  <2>1. S \subseteq DOMAIN docs /\ S \subseteq DOMAIN more
    BY <1>8, <1>9 DEF LedgerOf
  <2>2. \A n \in S : docs[n] = more[n]
    BY <1>0, <2>1
  <2> QED
    BY <1>0, <2>1, <2>2, NetSame
<1> QED
  BY <1>8, <1>9, <1>10 DEF RunningOf

(* Days on which something was sold, up to a later day.                    *)
LEMMA DaysUpTo ==
    ASSUME NEW docs, DocsFit(docs), NEW start \in Nat, NEW today \in Nat, NEW d \in Nat, d <= today
    PROVE  d \in DaysOf(docs, start, today) <=> \E n \in LedgerOf(docs, start, d) : docs[n].at \div 2 = d
<1>1. ASSUME NEW n \in LedgerOf(docs, start, today), docs[n].at \div 2 = d
      PROVE  n \in LedgerOf(docs, start, d)
  <2>1. n \in DOMAIN docs /\ Counts(docs, n, start, today)
    BY DEF LedgerOf
  <2>2. d \in start..d
    BY <1>1, <2>1 DEF Counts
  <2> QED
    BY <1>1, <2>1, <2>2 DEF LedgerOf, Counts
<1>2. ASSUME NEW n \in LedgerOf(docs, start, d), docs[n].at \div 2 = d
      PROVE  n \in LedgerOf(docs, start, today)
  <2>1. n \in DOMAIN docs /\ Counts(docs, n, start, d)
    BY DEF LedgerOf
  <2>2. d \in start..today
    BY <1>2, <2>1 DEF Counts
  <2> QED
    BY <1>2, <2>1, <2>2 DEF LedgerOf, Counts
<1> QED
  BY <1>1, <1>2 DEF DaysOf

(* Days that crossed and are over stay such days.                          *)
LEMMA EarlierCrossingsStay ==
    ASSUME NEW docs, NEW more, NEW at, Extends(docs, more, at),
           NEW start \in Nat, NEW today \in Nat, today = at \div 2, NEW d \in Nat, d < today
    PROVE  d \in CrossedDays(docs, start, today) <=> d \in CrossedDays(more, start, today)
<1>1. /\ LedgerOf(docs, start, d) = LedgerOf(more, start, d)
      /\ RunningOf(docs, start, d) = RunningOf(more, start, d)
  BY EarlierLedgerStays
<1>2. PICK S : S = LedgerOf(docs, start, d)
  OBVIOUS
<1>3. \A n \in S : docs[n] = more[n]
  BY <1>2 DEF LedgerOf, Extends, Longer
<1>4. DocsFit(docs) /\ DocsFit(more)
  BY DEF Extends, Longer
<1>5. d \in DaysOf(docs, start, today) <=> \E n \in S : docs[n].at \div 2 = d
  BY <1>2, <1>4, DaysUpTo
<1>6. d \in DaysOf(more, start, today) <=> \E n \in S : more[n].at \div 2 = d
  BY <1>1, <1>2, <1>4, DaysUpTo
<1> QED
  BY <1>1, <1>3, <1>5, <1>6 DEF CrossedDays

(* Nor does midnight: a day before stays crossed or stays not.             *)
LEMMA CrossingsStayTomorrow ==
    ASSUME NEW docs, DocsFit(docs), NEW start \in Nat, NEW today \in Nat, NEW next \in Nat,
           today <= next, next <= today + 1, NEW d \in Nat, d < next
    PROVE  d \in CrossedDays(docs, start, today) <=> d \in CrossedDays(docs, start, next)
<1>1. d <= today /\ d <= next
  OBVIOUS
<1>2. d \in DaysOf(docs, start, today) <=> d \in DaysOf(docs, start, next)
  BY <1>1, DaysUpTo
<1> QED
  BY <1>2 DEF CrossedDays

(* If the days before today stay the same, so does the first of them.      *)
LEMMA FirstStays ==
    ASSUME NEW today \in Nat, NEW C \in SUBSET (0..today), NEW D \in SUBSET (0..today),
           \A d \in Nat : d < today => (d \in C <=> d \in D),
           NEW c \in C, \A d \in C : c <= d, NEW e \in D, \A d \in D : e <= d
    PROVE  e = c
<1>1. c \in 0..today /\ e \in 0..today
  OBVIOUS
<1>2. CASE c < today
  <2>1. c \in D
    BY <1>1, <1>2
  <2>2. e <= c
    BY <2>1
  <2>3. e \in C
    BY <1>1, <1>2, <2>2
  <2> QED
    BY <1>1, <2>2, <2>3
<1>3. CASE e < today
  <2>1. e \in C
    BY <1>1, <1>3
  <2>2. c <= e
    BY <2>1
  <2>3. c \in D
    BY <1>1, <1>3, <2>2
  <2> QED
    BY <1>1, <2>2, <2>3
<1> QED
  BY <1>1, <1>2, <1>3

(* While the first order stays the first, an order that is canceled only   *)
(* lowers what was sold up to a day.                                       *)
LEMMA WithdrawalLowers ==
    ASSUME NEW docs, NEW more, NEW n, Withdraws(docs, more, n), FirstSale(more) = FirstSale(docs),
           NEW start \in Nat, NEW d \in Nat
    PROVE  /\ LedgerOf(more, start, d) = LedgerOf(docs, start, d) \ {n}
           /\ RunningOf(more, start, d) <= RunningOf(docs, start, d)
<1>0. /\ DocsFit(docs) /\ DocsFit(more) /\ \A m \in DOMAIN docs : m \in DOMAIN more /\ more[m] = docs[m]
      /\ n \in DOMAIN docs /\ docs[n].kind = "sale"
  BY DEF Withdraws, Longer
<1>1. PICK len \in Nat : len = Len(docs) /\ DOMAIN docs = 1..len /\ DOMAIN more = 1..(len + 1)
  BY <1>0, DocumentFits DEF Withdraws, Longer
<1>2. Gone(more) = Gone(docs) \cup {n} /\ more[len + 1].kind = "cancel"
  BY <1>1, GoneAfter DEF Withdraws
<1>3. \A m \in DOMAIN more : m \in DOMAIN docs \/ m = len + 1
  BY <1>1
<1>4. LedgerOf(more, start, d) = LedgerOf(docs, start, d) \ {n}
  BY <1>0, <1>2, <1>3 DEF LedgerOf, Counts
<1>5. PICK S : S = LedgerOf(docs, start, d)
  OBVIOUS
<1>6. PICK T : T = S \ {n}
  OBVIOUS
<1>7. S \subseteq DOMAIN docs /\ T \subseteq DOMAIN docs /\ T \subseteq DOMAIN more
  BY <1>0, <1>5, <1>6 DEF LedgerOf
<1>8. NetOf(docs, T) = NetOf(more, T)
  BY <1>0, <1>7, NetSame
<1>9. NetOf(docs, S) \in Int /\ NetOf(docs, T) \in Int
  BY <1>0, <1>7, NetFits
<1>10. NetOf(docs, T) <= NetOf(docs, S)
  <2>1. CASE n \notin S
    BY <1>6, <1>9, <2>1
  <2>2. CASE n \in S
    <3>1. PICK w : w = Signs(docs)
      OBVIOUS
    <3>2. Weighs(w, S) /\ IsFiniteSet(S)
      BY <1>0, <1>7, <3>1, DocumentFits, NetFits DEF Weighs, Signs
    <3>3. SumOf(w, S) = w[n] + SumOf(w, T)
      BY <1>6, <2>2, <3>2, SumOfOneMore
    <3>4. w[n] \in Nat
      BY <1>0, <3>1, DocumentFits DEF Signs
    <3>5. PICK a \in Int : a = SumOf(w, T)
      BY <1>9, <3>1 DEF NetOf
    <3>6. a <= SumOf(w, S)
      BY <3>3, <3>4, <3>5
    <3> QED
      BY <3>1, <3>5, <3>6 DEF NetOf
  <2> QED
    BY <2>1, <2>2
<1>11. RunningOf(docs, start, d) = NetOf(docs, S) /\ RunningOf(more, start, d) = NetOf(more, T)
  BY <1>4, <1>5, <1>6 DEF RunningOf
<1> QED
  BY <1>4, <1>8, <1>10, <1>11

(* So that no day crosses the threshold that did not before.               *)
LEMMA WithdrawalDefers ==
    ASSUME NEW docs, NEW more, NEW n, Withdraws(docs, more, n), FirstSale(more) = FirstSale(docs),
           NEW start \in Nat, NEW today \in Nat, NEW e \in CrossedDays(more, start, today)
    PROVE  e \in CrossedDays(docs, start, today)
<1>1. /\ DocsFit(docs) /\ DocsFit(more)
      /\ \A m \in DOMAIN docs : more[m] = docs[m]
  BY DEF Withdraws, Longer
<1>2. e \in DaysOf(more, start, today) /\ RunningOf(more, start, e) >= Threshold
  BY DEF CrossedDays
<1>3. e \in Nat
  BY <1>1, <1>2, DaysFit
<1>4. LedgerOf(more, start, today) \subseteq LedgerOf(docs, start, today)
  BY WithdrawalLowers
<1>5. e \in DaysOf(docs, start, today)
  <2>1. PICK m \in LedgerOf(more, start, today) : e = more[m].at \div 2
    BY <1>2 DEF DaysOf
  <2>2. m \in LedgerOf(docs, start, today) /\ more[m] = docs[m]
    BY <1>1, <1>4, <2>1 DEF LedgerOf
  <2> QED
    BY <2>1, <2>2 DEF DaysOf
<1>6. RunningOf(docs, start, e) >= Threshold
  <2>1. RunningOf(more, start, e) <= RunningOf(docs, start, e)
    BY <1>3, WithdrawalLowers
  <2>2. RunningOf(docs, start, e) \in Int /\ RunningOf(more, start, e) \in Int
    BY <1>1, NetFits DEF RunningOf, LedgerOf
  <2>3. Threshold \in Int
    BY RevenueAssumption
  <2> QED
    BY <1>2, <2>1, <2>2, <2>3
<1> QED
  BY <1>5, <1>6 DEF CrossedDays

(* How the clock moves and things are recorded.                            *)
LEMMA ClockAndDocuments ==
    ASSUME BooksSafe, [Revenue!Next]_(Revenue!vars), ~ Revenue!Recorded("import")
    PROVE  \/ doc' = doc /\ now' \in {now, now + 1}
           \/ now' = now /\ Extends(doc, doc', now)
           \/ now' = now /\ Revenue!Recorded("cancel") /\ \E n : Withdraws(doc, doc', n)
<1>0. /\ now \in Nat /\ DocsFit(doc) /\ Len(doc) \in Nat
      /\ Amount \subseteq Nat /\ FileMoment \subseteq Nat
  BY RevenueAssumption, DocumentFits DEF BooksSafe
<1>1. ASSUME NEW kind \in {"sale", "return", "import", "cancel"}, NEW at \in Nat, NEW amount \in Nat,
             NEW of \in Nat, Revenue!Record(kind, at, amount, of)
      PROVE  /\ now' = now /\ kind # "import" /\ Revenue!Recorded(kind) /\ Longer(doc, doc')
             /\ doc'[Len(doc) + 1].kind = kind /\ doc'[Len(doc) + 1].at = at
             /\ doc'[Len(doc) + 1].of = of
  <2>1. /\ UNCHANGED <<now, book>>
        /\ DocsFit(doc') /\ Len(doc') = Len(doc) + 1
        /\ doc'[Len(doc) + 1].kind = kind /\ doc'[Len(doc) + 1].at = at /\ doc'[Len(doc) + 1].of = of
        /\ \A n \in DOMAIN doc : n \in DOMAIN doc' /\ doc'[n] = doc[n]
    BY <1>0, <1>1, Recorded
  <2>2. Revenue!Recorded(kind)
    BY <1>0, <2>1 DEF Revenue!Recorded
  <2>3. kind # "import"
    BY <2>2
  <2> QED
    BY <1>0, <2>1, <2>2, <2>3 DEF Longer
<1>2. ASSUME NEW p, NEW g, Revenue!BeginBook(p, g)
      PROVE  doc' = doc /\ now' = now
  BY <1>2 DEF Revenue!BeginBook
<1>3. ASSUME NEW first, NEW n, Revenue!FinishBook(first, n)
      PROVE  doc' = doc /\ now' = now
  BY <1>3 DEF Revenue!FinishBook
<1>4. CASE Revenue!PutAway
  BY <1>4 DEF Revenue!PutAway
<1>5. CASE UNCHANGED Revenue!vars
  BY <1>5 DEF Revenue!vars
<1>6. CASE Revenue!Tick
  BY <1>6 DEF Revenue!Tick
<1>7. ASSUME NEW a \in Amount, Revenue!Fulfil(a)
      PROVE  now' = now /\ Extends(doc, doc', now)
  <2>1. Revenue!Record("sale", now, a, 0) /\ a \in Nat
    BY <1>0, <1>7 DEF Revenue!Fulfil
  <2> QED
    BY <1>0, <1>1, <2>1 DEF Extends
<1>8. ASSUME NEW n \in 1..MaxDocs, Revenue!Cancel(n)
      PROVE  now' = now /\ Revenue!Recorded("cancel") /\ \E m : Withdraws(doc, doc', m)
  <2>1. Revenue!Record("cancel", now, 0, n)
    BY <1>8 DEF Revenue!Cancel
  <2>2. n \in DOMAIN doc /\ n \in Nat /\ doc[n].kind = "sale"
    BY <1>0, <1>8, DocumentFits DEF Revenue!Cancel, Revenue!Kind
  <2>3. /\ now' = now /\ Revenue!Recorded("cancel") /\ Longer(doc, doc')
        /\ doc'[Len(doc) + 1].kind = "cancel" /\ doc'[Len(doc) + 1].of = n
    BY <1>0, <1>1, <2>1, <2>2
  <2>4. Withdraws(doc, doc', n)
    BY <2>2, <2>3 DEF Withdraws
  <2> QED
    BY <2>3, <2>4
<1>9. ASSUME NEW n \in 1..MaxDocs, NEW a \in Amount, Revenue!Return(n, a)
      PROVE  now' = now /\ Extends(doc, doc', now)
  <2>1. Revenue!Record("return", now, a, n) /\ a \in Nat /\ n \in Nat
    BY <1>0, <1>9, DocumentFits DEF Revenue!Return
  <2> QED
    BY <1>0, <1>1, <2>1 DEF Extends
<1>10. ASSUME NEW a \in Amount, NEW at \in FileMoment, Revenue!Import(at, a)
       PROVE  FALSE
  <2>1. Revenue!Record("import", at, a, 0) /\ a \in Nat /\ at \in Nat
    BY <1>0, <1>10 DEF Revenue!Import
  <2> QED
    BY <1>1, <2>1
<1> QED
  BY <1>2, <1>3, <1>4, <1>5, <1>6, <1>7, <1>8, <1>9, <1>10 DEF Revenue!Next

(* The day the threshold was crossed does not move, but for a later one    *)
(* when an order is canceled that was not the first.                       *)
LEMMA CrossingStep ==
    ASSUME BooksSafe, BooksSafe', [Revenue!Next]_(Revenue!vars), CrossedFits, CrossedFits',
           ~ Revenue!Recorded("import"), Revenue!Recorded("cancel") => Revenue!Cutover' = Revenue!Cutover,
           Revenue!YearStart(Revenue!Today') = Revenue!YearStart(Revenue!Today),
           Revenue!CrossedOn # Revenue!NoDay, Revenue!CrossedOn' # Revenue!NoDay
    PROVE  \/ Revenue!CrossedOn' = Revenue!CrossedOn
           \/ Revenue!Recorded("cancel") /\ Revenue!CrossedOn' > Revenue!CrossedOn
<1>1. PICK today \in Nat : today = Revenue!Today
  BY TodayFits
<1>2. PICK start \in Nat : start = Revenue!YearStart(today)
  BY <1>1, TodayFits
<1>3. PICK next : next = Revenue!Today'
  OBVIOUS
<1>4. PICK c : c = Revenue!CrossedOn
  OBVIOUS
<1>5. PICK e : e = Revenue!CrossedOn'
  OBVIOUS
<1>6. PICK docs : docs = doc
  OBVIOUS
<1>7. PICK more : more = doc'
  OBVIOUS
<1>8. PICK C : C = CrossedDays(docs, start, today)
  OBVIOUS
<1>9. PICK D : D = CrossedDays(more, start, next)
  OBVIOUS
<1>10. c \in C /\ \A d \in C : c <= d
  BY <1>1, <1>2, <1>4, <1>6, <1>8 DEF CrossedFits, FirstOf
<1>11. e \in D /\ \A d \in D : e <= d
  <2>1. FirstOf(Revenue!CrossedOn', CrossedDays(doc', Revenue!YearStart(Revenue!Today'), Revenue!Today'))
    BY DEF CrossedFits
  <2>2. start = Revenue!YearStart(next)
    BY <1>1, <1>2, <1>3
  <2> QED
    BY <1>3, <1>5, <1>7, <1>9, <2>1, <2>2 DEF FirstOf
<1>12. DocsFit(docs) /\ DocsFit(more) /\ now \in Nat
  BY <1>6, <1>7 DEF BooksSafe
<1>13. next \in Nat /\ today <= next /\ next <= today + 1 /\ (now' = now => next = today)
  <2>1. now' \in {now, now + 1}
    BY <1>12, ClockAndDocuments
  <2>2. PICK n \in Nat : n = now
    BY <1>12
  <2>3. PICK m \in Nat : m = now' /\ m \in {n, n + 1}
    BY <2>1, <2>2
  <2>4. today = n \div 2 /\ next = m \div 2
    BY <1>1, <1>3, <2>2, <2>3 DEF Revenue!Today, Revenue!DayOf
  <2>5. next \in Int /\ 2 * next <= m /\ m < 2 * next + 2
    BY <2>4, Division
  <2>6. 2 * today <= n /\ n < 2 * today + 2
    BY <2>4, Division
  <2>7. next \in Nat /\ today <= next /\ next <= today + 1
    <3>1. m = n \/ m = n + 1
      BY <2>3
    <3> QED
      BY <2>5, <2>6, <3>1
  <2>8. now' = now => next = today
    BY <2>2, <2>3, <2>4
  <2> QED
    BY <2>7, <2>8
<1>14. C \subseteq 0..next /\ D \subseteq 0..next
  <2>1. DaysOf(docs, start, today) \subseteq 0..today
    BY <1>12, DaysFit
  <2>2. DaysOf(more, start, next) \subseteq 0..next
    BY <1>12, <1>13, DaysFit
  <2>3. 0..today \subseteq 0..next
    BY <1>13
  <2> QED
    BY <1>8, <1>9, <2>1, <2>2, <2>3 DEF CrossedDays
<1>15. CASE ~ Revenue!Recorded("cancel")
  <2>0. \/ doc' = doc
        \/ now' = now /\ Extends(doc, doc', now)
    BY <1>15, ClockAndDocuments
  <2>1. ASSUME NEW d \in Nat, d < next PROVE d \in C <=> d \in D
    <3>1. CASE doc' = doc
      BY <1>6, <1>7, <1>8, <1>9, <1>12, <1>13, <2>1, <3>1, CrossingsStayTomorrow
    <3>2. CASE now' = now /\ Extends(doc, doc', now)
      <4>1. next = today
        BY <1>13, <3>2
      <4>2. PICK at : at = now
        OBVIOUS
      <4>3. Extends(docs, more, at) /\ today = at \div 2
        BY <1>1, <1>6, <1>7, <3>2, <4>2 DEF Revenue!Today, Revenue!DayOf
      <4> QED
        BY <1>8, <1>9, <2>1, <4>1, <4>3, EarlierCrossingsStay
    <3> QED
      BY <2>0, <3>1, <3>2
  <2>2. e = c
    BY <1>10, <1>11, <1>13, <1>14, <2>1, FirstStays
  <2> QED
    BY <1>4, <1>5, <2>2
<1>16. CASE Revenue!Recorded("cancel")
  <2>1. FirstSale(more) = FirstSale(docs)
    BY <1>6, <1>7, <1>12, <1>16, LedgerIs, CutoverIsNext
  <2>2. PICK n : Withdraws(docs, more, n)
    <3>1. \A m : ~ Extends(doc, doc', m)
      BY <1>16, DocumentFits DEF Extends, Longer, Revenue!Recorded
    <3>2. doc' # doc
      BY <1>16, <1>12, <1>6, DocumentFits DEF Revenue!Recorded
    <3> QED
      BY <1>6, <1>7, <3>1, <3>2, ClockAndDocuments
  <2>3. next = today
    <3>1. now' = now
      <4>1. doc' # doc
        BY <1>16, <1>12, <1>6, DocumentFits DEF Revenue!Recorded
      <4> QED
        BY <4>1, ClockAndDocuments
    <3> QED
      BY <1>13, <3>1
  <2>4. e \in C
    BY <1>8, <1>9, <1>11, <2>1, <2>2, <2>3, WithdrawalDefers
  <2>5. c \in Nat /\ e \in Nat /\ c <= e
    BY <1>10, <1>13, <1>14, <2>4
  <2>6. e = c \/ e > c
    BY <2>5
  <2> QED
    BY <1>4, <1>5, <1>16, <2>6
<1> QED
  BY <1>15, <1>16

-----------------------------------------------------------------------------
(* A step of the shops is one of the orders, of the books or of the totals.*)
LEMMA StepOfShop ==
    ASSUME [MCNext]_MCVars
    PROVE  /\ UNCHANGED shop
           /\ [Next]_vars /\ [Revenue!Next]_(Revenue!vars)
           /\ shop = "totals" => [Shares!Next]_(Shares!vars)
<1>1. CASE ShopStep
  BY <1>1 DEF ShopStep, Next, revenue, shares, Revenue!vars, Shares!vars
<1>2. CASE Books /\ Revenue!Next
  BY <1>2 DEF Books, shares, Shares!vars
<1>3. CASE Totals /\ Shares!Next
  BY <1>3 DEF Totals, revenue, Revenue!vars
<1>4. CASE UNCHANGED MCVars
  BY <1>4 DEF MCVars, revenue, shares, Revenue!vars, Shares!vars
<1> QED
  BY <1>1, <1>2, <1>3, <1>4 DEF MCNext

(* The books and the totals of the shops.                                  *)
MoneySafe == BooksSafe /\ (shop = "totals" => SharesSafe)

(* Whatever is sold, returned, imported and shared out, and however the    *)
(* queries of a book interleave with it, what is stated of sums of money is*)
(* what was paid (order.service.ts:79, tax-support.service.ts,             *)
(* revenue-threshold.ts:94-113).                                           *)
THEOREM MoneyAlwaysAddsUp == MCSpec => MoneyAddsUp
<1>1. MCInit => MoneySafe
  BY BooksInit, SharesInit DEF MCInit, MoneySafe
<1>2. MoneySafe /\ [MCNext]_MCVars => MoneySafe'
  <2> SUFFICES ASSUME MoneySafe, [MCNext]_MCVars PROVE MoneySafe'
    OBVIOUS
  <2>1. UNCHANGED shop /\ [Revenue!Next]_(Revenue!vars) /\ (shop = "totals" => [Shares!Next]_(Shares!vars))
    BY StepOfShop
  <2>2. BooksSafe'
    BY <2>1, BooksStep DEF MoneySafe
  <2>3. shop' = "totals" => SharesSafe'
    BY <2>1, SharesStep DEF MoneySafe
  <2> QED
    BY <2>2, <2>3 DEF MoneySafe
<1>3. MoneySafe => /\ shop = "totals" => Shares!AllocationExact
                   /\ shop = "books" => Revenue!BookIsComplete
                   /\ shop = "books" /\ book.st = "none" => Revenue!TrackerAgrees
  BY SharesAreExact, TrackerFits DEF MoneySafe, BooksSafe, BookFits
<1>4. MoneySafe => CrossedFits
  BY CrossedOnFits DEF MoneySafe
<1>5. /\ MoneySafe /\ MoneySafe' /\ CrossedFits /\ CrossedFits' /\ [MCNext]_MCVars
      => [/\ Len(doc') > Len(doc) \/ Revenue!Today' > Revenue!Today
          /\ Revenue!YearStart(Revenue!Today') = Revenue!YearStart(Revenue!Today)
          /\ Revenue!CrossedOn # Revenue!NoDay /\ Revenue!CrossedOn' # Revenue!NoDay
          => \/ Revenue!CrossedOn' = Revenue!CrossedOn
             \/ Revenue!Recorded("import")
             \/ /\ Revenue!Recorded("cancel")
                /\ Revenue!Cutover' = Revenue!Cutover
                   => Revenue!CrossedOn' > Revenue!CrossedOn]_<<now, doc>>
  BY StepOfShop, CrossingStep DEF MoneySafe
<1> QED
  BY <1>1, <1>2, <1>3, <1>4, <1>5, PTL DEF MCSpec, MoneyAddsUp, Revenue!CrossingStays

(* The orders of the shops are orders.                                     *)
THEOREM OrdersAreAPart == MCSpec => Spec
<1>1. MCInit => Init
  BY DEF MCInit
<1>2. [MCNext]_MCVars => [Next]_vars
  BY StepOfShop
<1> QED
  BY <1>1, <1>2, PTL DEF MCSpec, Spec

(* What the run of the shops checks, but for payments that are settled in  *)
(* the end, of any shops, orders, calls and amounts.                       *)
THEOREM ShopsHold ==
    MCSpec => /\ [](ReturnsWithinSale /\ DeductedOnce /\ RestockBounded /\ PaidIsFulfilled)
              /\ CanceledIsFinal /\ MoneyAddsUp
BY OrdersAreAPart, ReturnsStayWithinSale, GoodsDeductedOnce, RestocksBounded, PaidStaysFulfilled,
   CancellationIsFinal, MoneyAlwaysAddsUp, PTL
=============================================================================
