----------------------------- MODULE Allocation -----------------------------
(***************************************************************************)
(* The total of an order shared out over its lines: each line is to be     *)
(* refunded its share, with its part of the discount and the tax rounded   *)
(* to the hundredth; the last line gets what is left. The draft order, the *)
(* till and the two wallets each have a copy of this code. Amounts are in  *)
(* hundredths and, like the till's, not negative.                          *)
(***************************************************************************)
EXTENDS Integers, Sequences, SequencesExt

CONSTANTS Subtotal,  \* what a line may come to
          Lines,     \* how many lines an order may have
          Discount, Tax,
          ClientTotal  \* the total a client may ask MoMo to charge, 0 for none

VARIABLES order,      \* the lines' subtotals, the discount, the tax and the total asked for
          refundable  \* the refundable amount of each line that was shared out

vars == <<order, refundable>>

SumSeq(s) == FoldSeq(+, 0, s)
Subtotals == SumSeq(order.lines)
Computed == Subtotals - order.discount + order.tax
Total == IF order.asked > 0 THEN order.asked ELSE Computed

(* Half a hundredth is rounded up.                                         *)
Rounded(a, b) == (2 * a + b) \div (2 * b)

(* MoMo asks for no limit to the discount, only for a total of a dong, and *)
(* cannot share by subtotals that come to nothing.                         *)
Init == /\ order \in [lines : UNION {[1..n -> Subtotal] : n \in Lines}, discount : Discount,
                      tax : Tax, asked : ClientTotal]
        /\ \/ order.asked = 0 /\ order.discount <= Subtotals
           \/ Rounded(Total, 100) > 0 /\ (Subtotals = 0 => Len(order.lines) = 1)
        /\ refundable = <<>>

ShareOf(n) == IF Subtotals > 0
                THEN order.lines[n] - Rounded(order.discount * order.lines[n], Subtotals)
                                    + Rounded(order.tax * order.lines[n], Subtotals)
                ELSE 0
LastShareRounded(allocated) == ShareOf(Len(order.lines))   \* mutant of LastShare
LastShare(allocated) == Total - allocated

Allocate == LET n == Len(refundable) + 1 IN
            /\ n <= Len(order.lines)
            /\ refundable' = Append(refundable, IF n = Len(order.lines) THEN LastShare(SumSeq(refundable))
                                                ELSE ShareOf(n))
            /\ UNCHANGED order

Next == Allocate
Spec == Init /\ [][Next]_vars

-----------------------------------------------------------------------------
(* What the lines may be refunded is what was paid, to the hundredth       *)
(* ("SUM(lineRefundable) == Order.totalAmount", order.service.ts:79), and  *)
(* no line is off its exact share by more than a hundredth for each line   *)
(* that was rounded. What a client of MoMo had charged differently goes to *)
(* the last line.                                                          *)
Charged(n) == IF n = Len(order.lines) THEN Total - Computed ELSE 0
Off(n) == (refundable[n] - Charged(n)) * Subtotals - order.lines[n] * Computed
AllocationExact ==
  Len(refundable) = Len(order.lines) =>
    /\ SumSeq(refundable) = Total
    /\ Subtotals > 0 => \A n \in DOMAIN refundable :
         Off(n) \in -(Len(order.lines) * Subtotals)..(Len(order.lines) * Subtotals)
=============================================================================
