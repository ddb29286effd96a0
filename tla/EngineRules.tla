----------------------------- MODULE EngineRules -----------------------------
(***************************************************************************)
(* The formulas of the decision engine (demand-metrics, risk-evaluator,    *)
(* risk-classification, pricing-evaluator and evaluateSku), in exact       *)
(* arithmetic: money in dong, rates in percent, demand in hundredths of a  *)
(* unit per day, days of cover in tenths of a day.  The safety stock,      *)
(* which needs a square root, is a fact of the item; everything the        *)
(* formulas make of it is here.  NoDays is the code's null.                *)
(***************************************************************************)
EXTENDS Integers, Sequences

NoDays == -1
AtLeast(a, b) == IF a < b THEN b ELSE a
AtMost(a, b) == IF a > b THEN b ELSE a
CeilDiv(a, b) == -((-a) \div b)
Rounded(a, b) == (2 * a + b) \div (2 * b)
-----------------------------------------------------------------------------
(* Demand, over the days of a series of net sales, oldest first, on which  *)
(* the item was exposed.                                                   *)

Tail7(s) == SubSeq(s, AtLeast(Len(s) - 6, 1), Len(s))
Tail30(s) == SubSeq(s, AtLeast(Len(s) - 29, 1), Len(s))
Sold(s) == LET sum[n \in 0..Len(s)] == IF n = 0 THEN 0 ELSE sum[n - 1] + s[n] IN sum[Len(s)]
Average(s) == IF s = <<>> THEN 0 ELSE Rounded(100 * Sold(s), Len(s))

Exposed(series, days) ==
    SubSeq(series, AtLeast(Len(series) - AtLeast(days, 0) + 1, 1), Len(series))

Demand(series, days) ==
    LET s == Exposed(series, days)
        avg7 == Average(Tail7(s))
        avg30 == Average(Tail30(s))
        ratio == IF avg30 # 0 THEN Rounded(100 * avg7 * avg30, avg30 * avg30)
                 ELSE IF avg7 > 0 THEN 200 ELSE 100 IN
    [avg |-> avg30,
     ratio |-> ratio,
     trend |-> IF avg30 = 0 THEN IF avg7 > 0 THEN "NEW_DEMAND_SPIKE" ELSE "STABLE_ZERO"
               ELSE IF ratio >= 150 THEN "STRONG_UP"
               ELSE IF ratio >= 115 THEN "UP"
               ELSE IF ratio >= 85 THEN "STABLE"
               ELSE IF ratio >= 50 THEN "DOWN" ELSE "STRONG_DOWN",
     sellingDays |-> Len(SelectSeq(s, LAMBDA x : x > 0))]

(* z = (recent - mean) / (sigma / sqrt(n)), compared by squares: the three *)
(* recent days against the mean and variance of the days before them.      *)
Unusual(series, days) ==
    LET s == Exposed(series, days)
        cut == AtLeast(Len(s) - 3, 0)
        recent == SubSeq(s, cut + 1, Len(s))
        base == SubSeq(s, AtLeast(Len(s) - 32, 1), cut)
        n == Len(recent)
        b == Len(base)
        sold == Sold(base)
        spread == b * (b * Sold([d \in 1..b |-> base[d] * base[d]]) - sold * sold)
        diff == b * Sold(recent) - n * sold
        Beyond(z) == diff * diff * (b - 1) >= z * z * n * spread
    IN  IF n = 0 THEN "NONE"
        ELSE IF b < 2 \/ sold * n < 5 * b \/ spread = 0
             THEN IF sold * 20 <= b /\ Sold(recent) >= 3 THEN "NEW_DEMAND_SPIKE" ELSE "NONE"
        ELSE IF diff > 0 /\ Beyond(3) THEN "CRITICAL_SPIKE"
        ELSE IF diff > 0 /\ Beyond(2) THEN "HIGH_SPIKE"
        ELSE IF diff < 0 /\ Beyond(2) THEN "DEMAND_DROP" ELSE "NONE"
-----------------------------------------------------------------------------
(* Replenishment and risk.                                                 *)

ReorderPoint(avg, lead, safety) == CeilDiv(avg * AtLeast(1, lead), 100) + safety

ReorderQuantity(f, c, point, enough, avg) ==
    LET cap == AtLeast(0, f.max - f.available)
        target == CeilDiv(avg * (AtLeast(1, c.lead) + c.target), 100) + f.safety - f.available IN
    IF f.available > point THEN 0
    ELSE IF ~enough THEN AtLeast(0, (IF f.max > 0 THEN f.max ELSE f.min) - f.available)
    ELSE IF f.max > 0 THEN AtMost(cap, AtLeast(0, target)) ELSE AtLeast(0, target)

DaysOfCover(available, avg) == IF avg <= 0 THEN NoDays ELSE Rounded(1000 * available, avg)

Confidence(days, minimum, sellingDays) ==
    LET coverage == Rounded(80 * AtMost(days, AtLeast(1, minimum)), AtLeast(1, minimum)) IN
    AtMost(100, coverage + IF sellingDays >= 5 THEN 20 ELSE 4 * sellingDays)

(* 100 (0.5 shortage + 0.35 coverage + 0.15 trend), at least the band of   *)
(* the shortage at or below the reorder point.                             *)
WeightedShortage(available, point, cover, ratio, c) ==
    LET base == AtLeast(point, 1)
        short == AtLeast(0, point - available)
        need == 10 * AtLeast(1, c.lead + c.safetyDays)
        uncovered == IF cover # NoDays THEN AtLeast(0, need - cover)
                     ELSE IF short > 0 THEN (7 * need) \div 10 ELSE 0
        rising == AtMost(AtLeast(ratio - 100, 0), 100) IN
    Rounded(5000 * short * need + 3500 * uncovered * base + 15 * rising * base * need,
            100 * base * need)

Band(available, point, c) ==
    LET short == AtLeast(0, point - available) IN
    IF 10 * short >= 7 * point THEN c.critical ELSE IF 10 * short >= 3 * point THEN c.high ELSE c.low

BandOnly(available, point, cover, ratio, c) ==     \* mutant of StockoutScore
    IF available <= 0 THEN 100
    ELSE IF available <= point THEN Band(available, point, c)
    ELSE WeightedShortage(available, point, cover, ratio, c)

StockoutScore(available, point, cover, ratio, c) ==
    LET weighted == WeightedShortage(available, point, cover, ratio, c) IN
    IF available <= 0 THEN 100
    ELSE AtMost(100, IF available <= point /\ point > 0 THEN AtLeast(weighted, Band(available, point, c))
                     ELSE weighted)

(* The excess above the owner's maximum and the excess of coverage, each   *)
(* saturated, combined as 1 - (1 - a)(1 - b) and amplified by a falling    *)
(* trend, if seven days expect five units; that demand is taken back from  *)
(* the rounded cover.  part and whole multiply 1 - a and 1 - b.            *)
UnitsAboveMax(available, max) == IF max > 0 THEN AtLeast(0, available - max) ELSE 0

CoverageCounts(available, cover, target, level) ==
    /\ cover > target
    /\ available > AtLeast(0, level)
    /\ available * (cover - target) >= cover

ExpectsUnits(available, cover) == cover > 0 /\ 14 * available >= cover

Decline(available, cover, ratio) ==
    IF ExpectsUnits(available, cover) THEN AtMost(AtLeast(100 - ratio, 0), 100) ELSE 0

Amplified(part, whole, decline) ==
    LET excess == whole - part IN
    AtMost(100, Rounded(excess * (400 + IF excess > 0 THEN decline ELSE 0), 4 * whole))

OverstockScore(available, max, cover, ratio, level, c) ==
    LET above == UnitsAboveMax(available, max)
        target == 10 * AtLeast(c.target, 1)
        counts == CoverageCounts(available, cover, target, level)
        part == (IF above > 0 THEN max ELSE 1) * (IF counts THEN 2 * target ELSE 1)
        whole == (IF above > 0 THEN 2 * above + max ELSE 1) * (IF counts THEN cover + target ELSE 1)
        score == Amplified(part, whole, Decline(available, cover, ratio))
    IN  IF above > 0 THEN AtLeast(score, IF 2 * above >= max THEN c.high ELSE c.low) ELSE score

Severity(score, c) ==
    IF score >= c.critical THEN "CRITICAL" ELSE IF score >= c.high THEN "HIGH"
    ELSE IF score >= c.low THEN "MEDIUM" ELSE "LOW"

SlowAndDead(available, idle, c) ==
    LET counted == available > 0 /\ idle # NoDays IN
    [slow |-> counted /\ idle >= c.slowMovingDays,
     dead |-> counted /\ idle >= c.deadStockDays,
     critical |-> counted /\ idle >= 2 * c.deadStockDays]

Classify(available, point, stockout, overstock, dead, high) ==
    [outOfStock |-> available <= 0,
     stockout |-> available <= 0 \/ available <= point \/ stockout >= high,
     overstock |-> overstock >= high,
     dead |-> dead]
-----------------------------------------------------------------------------
(* Prices.  The floor is a margin on the selling price, rounded up to      *)
(* thousands.  The code divides doubles, which may come out just above an  *)
(* exact multiple (700 / 0.7); up says whether this division does.         *)

MinimumPrice(cost, margin, up) ==
    LET exact == 1000 * CeilDiv(100 * cost, (100 - margin) * 1000) IN
    IF margin >= 100 THEN cost
    ELSE IF up /\ cost > 0 /\ exact * (100 - margin) = 100 * cost THEN exact + 1000 ELSE exact

Markdown(f, c) ==
    LET base == IF f.idle >= 2 * c.deadStockDays THEN 25 ELSE IF f.idle >= c.deadStockDays THEN 15 ELSE 10
        trend == CASE f.trend = "STRONG_DOWN" -> 5 [] f.trend = "DOWN" -> 3
                   [] f.trend \in {"UP", "STRONG_UP"} -> -5 [] OTHER -> 0
    IN  AtMost(c.maxMarkdown, AtLeast(5, base + trend))

MarkdownPriceUnfloored(f, c, floor) ==     \* mutant of MarkdownPrice
    1000 * Rounded(f.price * (100 - Markdown(f, c)), 100000)

MarkdownPrice(f, c, floor) ==
    1000 * Rounded(AtLeast(100 * floor, f.price * (100 - Markdown(f, c))), 100000)

MarkupPrice(f, c) ==
    1000 * Rounded(f.price * (100 + AtMost(c.maxMarkup, IF f.trend = "STRONG_UP" THEN 15 ELSE 8)), 100000)

MarkdownCandidate(f, c) ==
    /\ f.available > 0
    /\ \/ f.idle >= c.slowMovingDays
       \/ f.overstock >= c.high
       \/ 2 * f.cover > 3 * 10 * c.target

(* The price to recommend, or none: price corrections are facts and come   *)
(* first, demand-based changes need history and confidence.                *)
NoAdvice == 0
Correction(f, floor) ==
    IF f.cost > 0 /\ f.price < f.cost THEN AtLeast(floor, 1000 * CeilDiv(115 * f.cost, 100000))
    ELSE IF f.cost > 0 /\ f.price < floor THEN floor ELSE NoAdvice

DemandAdvice(f, c, floor) ==
    IF MarkdownCandidate(f, c) /\ MarkdownPrice(f, c, floor) < f.price THEN MarkdownPrice(f, c, floor)
    ELSE IF f.stockout >= c.high /\ f.trend \in {"UP", "STRONG_UP"} /\ MarkupPrice(f, c) > f.price
         THEN MarkupPrice(f, c)
    ELSE NoAdvice

AdviceUngated(f, c, floor) ==     \* mutant of Advice
    IF Correction(f, floor) # NoAdvice THEN Correction(f, floor) ELSE DemandAdvice(f, c, floor)

Advice(f, c, floor) ==
    IF Correction(f, floor) # NoAdvice THEN Correction(f, floor)
    ELSE IF ~f.enough \/ f.confidence < 40 THEN NoAdvice
    ELSE DemandAdvice(f, c, floor)
-----------------------------------------------------------------------------
(* The analysis of an item (evaluateSku): with too little history no       *)
(* estimate enters, only the levels set by the owner.                      *)
Analysis(i, c, up) ==
    LET enough == i.days >= c.minimumHistory
        d == Demand(i.series, i.days)
        point == AtLeast(i.min, IF enough THEN ReorderPoint(d.avg, c.lead, i.safety) ELSE 0)
        cover == IF enough THEN DaysOfCover(i.available, d.avg) ELSE NoDays
        ratio == IF enough THEN d.ratio ELSE 100
        confidence == Confidence(i.days, c.minimumHistory, d.sellingDays)
        stockout == StockoutScore(i.available, point, cover, ratio, c)
        overstock == OverstockScore(i.available, i.max, cover, ratio, point, c)
        idle == SlowAndDead(i.available, i.idle, c)
        floor == MinimumPrice(i.cost, c.margin, up)
        facts == [price |-> i.price, cost |-> i.cost, available |-> i.available, idle |-> i.idle,
                  cover |-> cover, stockout |-> stockout, overstock |-> overstock,
                  trend |-> d.trend, enough |-> enough, confidence |-> confidence] IN
    [enough |-> enough,
     cover |-> cover,
     reorderPoint |-> point,
     reorderQuantity |->
         ReorderQuantity([available |-> i.available, min |-> i.min, max |-> i.max,
                          safety |-> IF enough THEN i.safety ELSE 0], c, point, enough, d.avg),
     stockout |-> stockout, stockoutSeverity |-> Severity(stockout, c),
     overstock |-> overstock, overstockSeverity |-> Severity(overstock, c),
     slow |-> idle.slow, dead |-> idle.dead, deadCritical |-> idle.critical,
     unusual |-> IF enough THEN Unusual(i.series, i.days) ELSE "NONE",
     risk |-> Classify(i.available, point, stockout, overstock, idle.dead, c.high),
     floor |-> floor,
     advice |-> Advice(facts, c, floor)]
=============================================================================
