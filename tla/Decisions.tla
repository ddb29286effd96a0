------------------------------ MODULE Decisions ------------------------------
(***************************************************************************)
(* One item under the decision engine: its stock, prices and days pass,    *)
(* the owner changes settings and follows the advice, and the analysis of  *)
(* EngineRules is a function of what is there at each moment.              *)
(***************************************************************************)
EXTENDS EngineRules

CONSTANTS Item, Config,   \* the items and settings to begin with
          Series,         \* the sales histories DEC-007 is compared over
          Quantity,       \* what is received, issued or sold in a day
          MaxSteps

VARIABLES item, config, up, steps

vars == <<item, config, up, steps>>

Init == item \in Item /\ config \in Config /\ up \in BOOLEAN /\ steps = 0

Step == steps < MaxSteps /\ steps' = steps + 1 /\ UNCHANGED up

Receive(q) ==
    /\ Step
    /\ item' = [item EXCEPT !.available = @ + q]
    /\ UNCHANGED config

Issue(q) ==
    /\ Step
    /\ item.available >= q
    /\ item' = [item EXCEPT !.available = @ - q]
    /\ UNCHANGED config

(* A business day ends, with the net sales of the item.                    *)
DayEnds(q) ==
    /\ Step
    /\ item' = [item EXCEPT !.series = Append(Tail(@), q), !.days = AtMost(90, @ + 1),
                            !.idle = IF q > 0 THEN 1 ELSE IF @ = NoDays THEN NoDays ELSE @ + 1]
    /\ UNCHANGED config

Configure ==
    /\ Step
    /\ \E c \in Config \ {config} : config' = c
    /\ UNCHANGED item

Follow ==
    /\ Step
    /\ Analysis(item, config, up).advice # NoAdvice
    /\ item' = [item EXCEPT !.price = Analysis(item, config, up).advice]
    /\ UNCHANGED config

Next ==
    \/ \E q \in Quantity : Receive(q) \/ Issue(q) \/ DayEnds(q)
    \/ DayEnds(0) \/ Configure \/ Follow

Spec == Init /\ [][Next]_vars
-----------------------------------------------------------------------------
(* More goods of the same item under the same settings never raise its     *)
(* stockout score or put it at risk of one, and never lower its overstock  *)
(* score or clear that risk.  The exception is a demand of about five units*)
(* a week: taken back from the rounded cover (risk-evaluator.ts:273), it   *)
(* may stop counting as enough to see it fall when goods arrive.           *)
ExpectsUnitsIn(i, analysis) == ExpectsUnits(i.available, analysis.cover)
RiskFollowsStock ==
    [][config' = config /\ item'.available > item.available =>
       \A before \in {Analysis(item, config, up)}, after \in {Analysis(item', config', up)} :
          /\ after.stockout <= before.stockout
          /\ after.risk.stockout => before.risk.stockout
          /\ (ExpectsUnitsIn(item, before) => ExpectsUnitsIn(item', after)) =>
                /\ after.overstock >= before.overstock
                /\ before.risk.overstock => after.risk.overstock]_vars

(* PRI-009.  A recommended price keeps the margin floor and the cost, and  *)
(* away from corrections stays within the markdown and markup of the       *)
(* settings, up to the rounding to thousands.  At a margin of 100 percent, *)
(* which the settings may have (decision-engine.schema.ts:29), the floor is*)
(* the cost itself, and the rounding may go below it.                      *)
AdviceIsSafe ==
    \A a \in {Analysis(item, config, up)} : a.advice # NoAdvice =>
        /\ a.advice # item.price
        /\ config.margin < 100 =>
               /\ a.advice >= a.floor /\ a.advice >= item.cost
               /\ Correction([item EXCEPT !.price = a.advice], a.floor) = NoAdvice
        /\ item.price >= a.floor =>
               /\ (a.advice + 500) * 100 >= item.price * (100 - config.maxMarkdown)
               /\ (a.advice - 500) * 100 <= item.price * (100 + config.maxMarkup)

(* DEC-007.  Without enough history the analysis does not depend on what   *)
(* was sold, but for the confidence it reports.                            *)
FactsOnlyWithoutHistory ==
    \A a \in {Analysis(item, config, up)} :
        ~a.enough => \A s \in Series : Analysis([item EXCEPT !.series = s], config, up) = a
=============================================================================
