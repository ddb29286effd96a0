------------------------------- MODULE MCShops -------------------------------
(***************************************************************************)
(* What goes over the counter, and the sums made of it. One of three small *)
(* shops, or of two kinds of sums, is chosen in the initial state and kept *)
(* in shop; what is not chosen rests:                                      *)
(*   - a till, where a counter order and a cash sale have two lines each;  *)
(*   - a shop paid by PayOS, where a cash sale competes for the goods;     *)
(*   - the same with MoMo;                                                 *)
(*   - the revenue of two years of two days each (Tax);                    *)
(*   - the sharing of totals of up to three lines (Allocation).            *)
(* The shops are restrictions of one instance of OrderLifecycle to some of *)
(* its orders.                                                             *)
(***************************************************************************)
EXTENDS OrderLifecycle, TLC

CONSTANTS YearDays, QuarterDays, Window, MinDays, Grace, Threshold,  \* of the tax papers
          Amount, FileMoment, MaxDocs, MaxBooked, MaxMeanwhile,      \* of the revenue
          Subtotal, LineCount, Discount, Levy, ClientTotal          \* of the totals shared out

(* A year, a quarter and the forecast's window have days, the threshold is *)
(* some revenue and there is time to register; documents have no negative  *)
(* amounts, and rows of a file have their moments.                         *)
ASSUME RevenueAssumption ==
    /\ YearDays \in Nat \ {0} /\ QuarterDays \in Nat \ {0}
    /\ Window \in Nat \ {0} /\ MinDays \in Nat \ {0}
    /\ Grace \in Nat \ {0} /\ Threshold \in Nat \ {0}
    /\ Amount \in SUBSET Nat /\ FileMoment \in SUBSET Nat

(* Lines, discounts and taxes are not negative, and an order has a line.   *)
ASSUME ShareAssumption ==
    /\ Subtotal \in SUBSET Nat /\ LineCount \in SUBSET (Nat \ {0})
    /\ Discount \in SUBSET Nat /\ Levy \in SUBSET Nat /\ ClientTotal \in SUBSET Nat

VARIABLES shop,
          now, doc, book,
          order, refundable

OrdersOf == [till |-> {"counter", "cash"}, payos |-> {"payos", "drink"}, momo |-> {"momo", "drink"}]
MCOrder == UNION {OrdersOf[s] : s \in DOMAIN OrdersOf}
Large(o) == o \in OrdersOf.till
MCChannel == [o \in Order |-> IF o = "drink" THEN "cash" ELSE o]
MCQty == [o \in Order |-> IF Large(o) THEN 1 :> 2 @@ 2 :> 1 ELSE 1 :> 1 @@ 2 :> 0]
MCRefundable ==    \* the second line is free
    [o \in Order |-> IF Large(o) THEN 1 :> 3 @@ 2 :> 0 ELSE 1 :> 1 @@ 2 :> 0]
MCOpening == 1 :> 2 @@ 2 :> 1

Revenue == INSTANCE Tax
Shares == INSTANCE Allocation WITH Lines <- LineCount, Tax <- Levy

revenue == <<now, doc, book>>
shares == <<order, refundable>>

(* A step of the orders of the shop that was chosen.                       *)
ShopStep ==
    /\ shop \in DOMAIN OrdersOf
    /\ \/ \E o \in Order \cap OrdersOf[shop] : Sell(o) \/ \E c \in Call : Read(c, o)
       \/ \E c \in Call : End(c) \/ Abandon(c)
    /\ UNCHANGED <<shop, revenue, shares>>
Books == shop = "books" /\ UNCHANGED <<shop, vars, shares>>
Totals == shop = "totals" /\ UNCHANGED <<shop, vars, revenue>>

MCInit ==
    /\ shop \in DOMAIN OrdersOf \cup {"books", "totals"}
    /\ Init
    /\ Revenue!Init
    /\ IF shop = "totals" THEN Shares!Init
       ELSE order = [lines |-> <<>>, discount |-> 0, tax |-> 0, asked |-> 0] /\ refundable = <<>>

MCNext ==
    \/ ShopStep
    \/ Books /\ Revenue!Next
    \/ Totals /\ Shares!Next

MCVars == <<vars, shop, revenue, shares>>

(* The fairness of FairSpec, where there are payments at PayOS to settle.  *)
AtPayos == shop = "payos" /\ UNCHANGED <<shop, revenue, shares>>
MCSpec ==
    /\ MCInit
    /\ [][MCNext]_MCVars
    /\ \A c \in Call : WF_MCVars(AtPayos /\ (End(c) \/ Abandon(c)))
    /\ SF_MCVars(AtPayos /\ \E c \in Call : SettleRead(c, "payos"))
    /\ SF_MCVars(AtPayos /\ \E c \in Call : SettleOf(c, "payos"))
-----------------------------------------------------------------------------
(* Totals are what their parts add up to: the shares of an order's lines,  *)
(* the lines of a revenue book, and the tracker's year, whose crossing of  *)
(* the threshold stays where it was. (No book enters the tracker.)         *)
MoneyAddsUp ==
    /\ [](/\ shop = "totals" => Shares!AllocationExact
          /\ shop = "books" => Revenue!BookIsComplete
          /\ shop = "books" /\ book.st = "none" => Revenue!TrackerAgrees)
    /\ Revenue!CrossingStays
=============================================================================
