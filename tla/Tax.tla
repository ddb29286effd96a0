-------------------------------- MODULE Tax ---------------------------------
(***************************************************************************)
(* The revenue of a store as its tax papers tell it: fulfilled orders that *)
(* were not canceled since, completed returns, and the imported history    *)
(* from before the first of those orders. From it come the tracker of the  *)
(* e-invoice threshold and the revenue book, which is put together from    *)
(* queries that run beside each other, each with a snapshot of its own. A  *)
(* day has two moments; years, quarters, the forecast's window and the     *)
(* amounts are scaled down.                                                *)
(***************************************************************************)
EXTENDS Integers, Sequences, FiniteSets, FiniteSetsExt

CONSTANTS YearDays, QuarterDays,  \* the calendar; two years of it are modelled
          Window, MinDays, Grace, \* FORECAST_WINDOW_DAYS, MIN_FORECAST_DAYS, REGISTRATION_GRACE_DAYS
          Threshold,              \* tax.eInvoiceRevenueThreshold
          Amount,                 \* what a document may amount to
          FileMoment,             \* the moments an imported row may be dated at
          MaxDocs,                \* bound: what is recorded
          MaxBooked,              \* bound: what is recorded when a book is begun
          MaxMeanwhile            \* bound: what is recorded while it is drawn up

VARIABLES now,  \* the moment
          doc,  \* orders, returns, imported rows and cancellations as recorded
          book  \* the revenue book being drawn up

vars == <<now, doc, book>>

Moment == 0..(4 * YearDays - 1)
Never == 4 * YearDays
DayOf(m) == m \div 2
Today == DayOf(now)
YearStart(d) == (d \div YearDays) * YearDays
YearEnd(d) == YearStart(d) + YearDays - 1
QuarterEnd(d) == (d \div QuarterDays + 1) * QuarterDays - 1

(* What the queries find in the first v of the records. A cancellation     *)
(* takes its order out, and leaves what came back of it before.            *)
Sums == {"sale", "return", "import"}
Canceled(v) == {doc[c].of : c \in {c \in 1..v : doc[c].kind = "cancel"}}
Kind(k, v) == {n \in (1..v) \ Canceled(v) : doc[n].kind = k}
Signed(n) == IF doc[n].kind = "return" THEN -doc[n].amount ELSE doc[n].amount
Net(S) == MapThenSumSet(Signed, S)

(* The first order fulfilled here; history from then on is not counted.    *)
CutoverSeen(v) == Min({Never} \cup {doc[n].at : n \in Kind("sale", v)})
In(from, to) == {n \in DOMAIN doc : DayOf(doc[n].at) \in from..to}
InAll(k, from, to, cutover, v) == Kind(k, v) \cap In(from, to)  \* mutant of InPeriod
InPeriod(k, from, to, cutover, v) ==
  {n \in Kind(k, v) \cap In(from, to) : k = "import" => doc[n].at < cutover}
LedgerSeen(from, to, v) == UNION {InPeriod(k, from, to, CutoverSeen(v), v) : k \in Sums}
Ledger(from, to) == LedgerSeen(from, to, Len(doc))
Cutover == CutoverSeen(Len(doc))

Init == now = 0 /\ doc = <<>> /\ book = [st |-> "none"]

-----------------------------------------------------------------------------
(* The tracker.                                                            *)
NoDay == -1
Running(d) == Net(Ledger(YearStart(Today), d))
YearToDate == Running(Today)
PriorYear == Net(Ledger(YearStart(Today) - YearDays, YearStart(Today) - 1))
ActiveDays == {DayOf(doc[n].at) : n \in Ledger(YearStart(Today), Today)}
Reached == YearToDate >= Threshold
CrossedOn == LET crossed == {d \in ActiveDays : Running(d) >= Threshold}
             IN IF Reached /\ crossed # {} THEN Min(crossed) ELSE NoDay

(* The run rate of the recent days, from the first activity on: revenue    *)
(* over days, a fraction.                                                  *)
FirstActivity ==
  Min({Never} \cup {DayOf(doc[n].at) : n \in Kind("sale", Len(doc)) \cup Kind("import", Len(doc))})
WindowStart == Max({FirstActivity, Today - (Window - 1)})
WindowDays == IF FirstActivity <= Today THEN Today - WindowStart + 1 ELSE 0
SufficientData == WindowDays >= MinDays
WindowNet == Net(Ledger(WindowStart, Today))
Remaining == YearEnd(Today) - Today
Rounded(a, b) == (2 * a + b) \div (2 * b)
ProjectedYearEnd == Rounded(YearToDate * WindowDays + Max({0, WindowNet}) * Remaining, WindowDays)
DaysToGoCut(left) == (left * WindowDays) \div WindowNet  \* mutant of DaysToGo: rounded down
DaysToGo(left) == (left * WindowDays + WindowNet - 1) \div WindowNet
ProjectedCrossDate ==
  IF SufficientData /\ ~Reached /\ WindowNet > 0
       /\ Today + DaysToGo(Threshold - YearToDate) <= YearEnd(Today)
    THEN Today + DaysToGo(Threshold - YearToDate) ELSE NoDay

Nearing(tenths) == 10 * YearToDate >= tenths * Threshold
Forecast == SufficientData /\ ProjectedYearEnd >= Threshold
Level == IF PriorYear >= Threshold THEN "PRIOR_YEAR_REACHED"
         ELSE IF Reached THEN "REACHED"
         ELSE IF Nearing(9) THEN "WARNING"
         ELSE IF Nearing(7) \/ Forecast THEN "WATCH" ELSE "NONE"
Deadline == IF Level = "REACHED" /\ CrossedOn # NoDay THEN QuarterEnd(CrossedOn) + Grace ELSE NoDay

-----------------------------------------------------------------------------
(* Orders are fulfilled, canceled and returned now. A return of an order   *)
(* that is canceled meanwhile is still completed. A file's rows have its   *)
(* dates and were held against the first order when it was previewed, up to*)
(* an hour before. A finished book is put away before anything else.       *)
Record(kind, at, amount, of) ==
  /\ Len(doc) < MaxDocs
  /\ book.st = "reading" => Len(doc) < book.since + MaxMeanwhile
  /\ book.st # "done"
  /\ doc' = Append(doc, [kind |-> kind, at |-> at, amount |-> amount, of |-> of])
  /\ UNCHANGED <<now, book>>
Fulfil(amount) == Record("sale", now, amount, 0)
Cancel(n) == n \in Kind("sale", Len(doc)) /\ Record("cancel", now, 0, n)
ReturnsOf(n) == {m \in DOMAIN doc : doc[m].kind = "return" /\ doc[m].of = n}
Return(n, amount) == /\ n \in DOMAIN doc /\ doc[n].kind = "sale"
                     /\ doc[n].amount + Net(ReturnsOf(n)) >= amount
                     /\ Record("return", now, amount, n)
Import(at, amount) == Record("import", at, amount, 0)

Tick == book.st # "done" /\ now + 1 \in Moment /\ now' = now + 1 /\ UNCHANGED <<doc, book>>

(* A quarter or a year that has begun, up to today.                        *)
Period == {p \in {[from |-> q * QuarterDays, to |-> (q + 1) * QuarterDays - 1] :
                    q \in 0..((2 * YearDays) \div QuarterDays - 1)}
                 \cup {[from |-> y * YearDays, to |-> (y + 1) * YearDays - 1] : y \in 0..1} :
             p.from <= Today}
ResolvePeriod(p) == [from |-> p.from, to |-> Min({p.to, Today})]

Granularity == {"day", "order"}
BeginBook(p, granularity) ==
  /\ book = [st |-> "none"] /\ Len(doc) <= MaxBooked
  /\ book' = [st |-> "reading", period |-> ResolvePeriod(p), granularity |-> granularity,
              since |-> Len(doc)]
  /\ UNCHANGED <<now, doc>>

(* Each of the queries sees the records up to one of its own; the cutover  *)
(* is read before the three sums.                                          *)
Seen(k, v, cutover) == InPeriod(k, book.period.from, book.period.to, cutover, v)
Breakdown(cutover, v) == UNION {Seen(k, v[k], cutover) : k \in Sums}

(* One line for each day or for each order and return; history by day.     *)
Lines(cutover, v) ==
  IF book.granularity = "order"
    THEN Seen("sale", v["saleLine"], cutover) \cup Seen("return", v["returnLine"], cutover)
           \cup Seen("import", v["import"], cutover)
    ELSE Breakdown(cutover, v)
Queries == IF book.granularity = "order" THEN Sums \cup {"saleLine", "returnLine"} ELSE Sums
FinishBook(first, v) ==
  /\ book.st = "reading"
  /\ first \in book.since..Len(doc)
  /\ \A k \in Sums : v[k] >= first
  /\ LET cutover == CutoverSeen(first)
     IN book' = [st |-> "done", period |-> book.period, since |-> book.since, cutover |-> cutover,
                 lines |-> Lines(cutover, v), breakdown |-> Breakdown(cutover, v)]
  /\ UNCHANGED <<now, doc>>
PutAway == book.st = "done" /\ book' = [st |-> "none"] /\ UNCHANGED <<now, doc>>

Next == \/ Tick
        \/ \E a \in Amount : Fulfil(a)
        \/ \E n \in 1..MaxDocs : Cancel(n) \/ \E a \in Amount : Return(n, a)
        \/ \E a \in Amount, at \in FileMoment : Import(at, a)
        \/ \E p \in Period, g \in Granularity : BeginBook(p, g)
        \/ /\ book.st = "reading"
           /\ \E first \in book.since..Len(doc), v \in [Queries -> book.since..Len(doc)] :
                FinishBook(first, v)
        \/ PutAway

Spec == Init /\ [][Next]_vars

-----------------------------------------------------------------------------
(* The clock, the records and the book are well formed.                    *)
TypeOK == /\ now \in Moment
          /\ doc \in Seq([kind : Sums \cup {"cancel"}, at : Moment, amount : Amount \cup {0}, of : Nat])
          /\ book.st \in {"none", "reading", "done"}

(* A book, in each of its forms, holds what counted in its period all the  *)
(* while it was drawn up, and nothing that never did, so that the forms    *)
(* agree unless something was recorded or canceled meanwhile; and no       *)
(* history from after the first order it knows of.                         *)
BookIsComplete ==
  book.st = "done" =>
    LET during == book.since..Len(doc)
        period == In(book.period.from, book.period.to)
        ever == {n \in period : \E k \in Sums, v \in during : n \in Kind(k, v)}
        always == {n \in period : \A v \in during : n \in LedgerSeen(book.period.from, book.period.to, v)}
    IN \A view \in {book.lines, book.breakdown} :
         /\ always \subseteq view /\ view \subseteq ever
         /\ \A n \in view : doc[n].kind = "import" => doc[n].at < book.cutover

(* A year that has reached the threshold has the day it did and a date to  *)
(* register by; a year that is forecast to reach it by a date is forecast  *)
(* to end above it and is at least watched (revenue-threshold.ts:94-110).  *)
TrackerAgrees ==
  /\ Level = "REACHED" => CrossedOn # NoDay /\ Running(CrossedOn) >= Threshold /\ Deadline > CrossedOn
  /\ ProjectedCrossDate # NoDay => ProjectedYearEnd >= Threshold /\ Level # "NONE"

(* The day the threshold was crossed does not move while orders are        *)
(* fulfilled and goods come back: "the hint follows the current total"     *)
(* (revenue-threshold.ts:113), but only by coming and going. An order that *)
(* is canceled may defer it, unless it was the first and makes older rows  *)
(* of imported files count.                                                *)
Recorded(kind) == Len(doc') > Len(doc) /\ doc'[Len(doc')].kind = kind
CrossingStays ==
  [][/\ Len(doc') > Len(doc) \/ Today' > Today
     /\ YearStart(Today') = YearStart(Today) /\ CrossedOn # NoDay /\ CrossedOn' # NoDay
     => \/ CrossedOn' = CrossedOn
        \/ Recorded("import")
        \/ Recorded("cancel") /\ (Cutover' = Cutover => CrossedOn' > CrossedOn)]_<<now, doc>>
=============================================================================
