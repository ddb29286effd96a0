----------------------------- MODULE MCDecisions -----------------------------
(***************************************************************************)
(* What the program advises and derives, in parts that share no state, of  *)
(* which a behaviour is about one, part:                                   *)
(*   - the price of an item and its recommendations, with a product edit   *)
(*     or an import (Pricing, which this module extends);                  *)
(*   - the alerts of an item, which an owner and a member of staff handle  *)
(*     while it may be low or out of stock (Alerts);                       *)
(*   - items under the rules of the engine, with seven sales histories and *)
(*     two sets of settings (Decisions);                                   *)
(*   - the summaries of some days, rebuilt by several processes at once    *)
(*     (SalesSummary);                                                     *)
(*   - the list of next actions on some items (Suggestions).               *)
(***************************************************************************)
EXTENDS Pricing

CONSTANTS Owner, Staff, Condition, MaxChanges, MaxActs,
          Good, Setting, History, Quantity, MaxSteps,  \* of the items under the engine
          LastDay, Rebuilder, MaxAsked, MaxTries,
          ListItem, Score, MaxSuggestions, MaxPerKind, MaxCandidates

(* Items and settings as the engine has them: the settings are those that  *)
(* the schema and the consistency check let through.                       *)
Goods == [available : Nat, price : Nat, cost : Nat, min : Nat, max : Nat, safety : Nat,
          series : Seq(Int), days : Nat, idle : Int]
Settings == {c \in [lead : 1..365, safetyDays : 0..365, target : 1..365, slowMovingDays : 1..365,
                    deadStockDays : 1..730, minimumHistory : 1..365, margin : 0..100,
                    maxMarkdown : 0..100, maxMarkup : 0..100,
                    low : 0..100, high : 0..100, critical : 0..100] :
                /\ c.low < c.high /\ c.high < c.critical
                /\ c.slowMovingDays < c.deadStockDays}
ASSUME EngineAssumption ==
    /\ Good \subseteq Goods /\ \A i \in Good : i.series # <<>>
    /\ Setting \subseteq Settings /\ Quantity \subseteq Nat

ASSUME DaysAssumption == LastDay \in Nat \ {0}
ASSUME ListAssumption ==
    /\ ListItem \subseteq Int /\ IsFiniteSet(ListItem) /\ Score \subseteq Int
    /\ MaxSuggestions \in Nat \ {0} /\ MaxPerKind \in Nat \ {0} /\ MaxCandidates \in Nat

VARIABLES part,
          condition, alert, sync, act, changes, acts, disturbed, byHand,
          sku, settings, above, steps,
          today, source, summary, trigger, asked, rb, salesChanges, asks,
          candidates, picked

Bell == INSTANCE Alerts

(* The items of the run: histories of 36 days, of which none sold, rising, *)
(* falling, new, returned, alternating, and ten sold before the last week. *)
Flat(old, mid, new) == [d \in 1..36 |-> IF d > 33 THEN new ELSE IF d > 29 THEN mid ELSE old]
MCHistory == {Flat(0, 0, 0), Flat(1, 2, 4), Flat(3, 1, 0), Flat(0, 0, 2), Flat(0, 0, -1),
              [d \in 1..36 |-> IF d % 2 = 0 THEN 2 ELSE 1],
              [d \in 1..36 |-> IF d \in 23..29 THEN IF d > 26 THEN 2 ELSE 1 ELSE 0]}

MCGood == [available : {0, 4, 12}, price : {900, 10500}, cost : {0, 7000, 10400}, min : {4},
         max : {0, 1, 10}, safety : {2}, series : MCHistory, days : {14, 36},
         idle : {NoDays, 95, 185}]
MCSetting == {[lead |-> 7, safetyDays |-> 3, target |-> 30, slowMovingDays |-> 60,
             deadStockDays |-> 90, minimumHistory |-> 14, margin |-> 30, maxMarkdown |-> 30,
             maxMarkup |-> 20, low |-> 25, high |-> 50, critical |-> 75],
            [lead |-> 1, safetyDays |-> 6, target |-> 5, slowMovingDays |-> 30,
             deadStockDays |-> 90, minimumHistory |-> 30, margin |-> 100, maxMarkdown |-> 10,
             maxMarkup |-> 5, low |-> 20, high |-> 40, critical |-> 60]}

Engine == INSTANCE Decisions WITH
    Item <- Good, Config <- Setting, Series <- History, item <- sku, config <- settings, up <- above

Days == INSTANCE SalesSummary WITH changes <- salesChanges

List == INSTANCE Suggestions WITH Item <- ListItem

alerts == <<condition, alert, sync, act, changes, acts, disturbed, byHand>>
engine == <<sku, settings, above, steps>>
daily == <<today, source, summary, trigger, asked, rb, salesChanges, asks>>
list == <<candidates, picked>>

Others(p) ==
    /\ IF p = "pricing" THEN TRUE ELSE UNCHANGED vars
    /\ IF p = "alerts" THEN TRUE ELSE UNCHANGED alerts
    /\ IF p = "engine" THEN TRUE ELSE UNCHANGED engine
    /\ IF p = "days" THEN TRUE ELSE UNCHANGED daily
    /\ IF p = "list" THEN TRUE ELSE UNCHANGED list
Only(p, Action) == part = p /\ Action /\ Others(p) /\ UNCHANGED part

Some(S) == CHOOSE x \in S : TRUE

(* The parts that a behaviour is not about rest in one state.              *)
MCInit ==
    /\ part \in {"pricing", "alerts", "engine", "days", "list"}
    /\ Init /\ (part # "pricing" => /\ price = Some(Price) /\ cost = Some(Cost)
                                    /\ margin = Some(Margin) /\ ~up)
    /\ Bell!Init /\ (part # "alerts" => condition = Some(Condition))
    /\ IF part = "engine" THEN Engine!Init
       ELSE sku = [available |-> 0] /\ settings = "none" /\ above = FALSE /\ steps = 0
    /\ Days!Init
    /\ IF part = "list" THEN List!Init ELSE candidates = {} /\ picked = <<>>

MCNext ==
    \/ Only("pricing", Next)
    \/ Only("alerts", Bell!Next)
    \/ Only("engine", Engine!Next)
    \/ Only("days", Days!Next)
    \/ Only("list", List!Next)

MCVars == <<part, vars, alerts, engine, daily, list>>

(* The fairness of the summaries.                                          *)
MCFairness ==
    /\ \A r \in Rebuilder : /\ WF_MCVars(Only("days", Days!Rebuild(r)))
                          /\ WF_MCVars(Only("days", Days!FromQueue(r)))
    /\ SF_MCVars(Only("days", \E r \in Rebuilder : Days!Nightly(r)))

MCSpec == MCInit /\ [][MCNext]_MCVars /\ MCFairness
-----------------------------------------------------------------------------
(* ALR-003.  What is wrong with an item is what its active alerts say,     *)
(* after every synchronisation that no operator wrote into.                *)
AlertsFollowCondition == Bell!AlertsFollowCondition

(* More goods never raise the stockout risk nor lower the overstock risk.  *)
RiskFollowsStock == Engine!RiskFollowsStock

(* PRI-009, DEC-007.  A recommended price keeps the floor and the limits   *)
(* of the settings, nothing but facts counts without enough history, and   *)
(* the list of next actions is the best of every kind.                     *)
AdviceIsSafe ==
    /\ part = "engine" => Engine!AdviceIsSafe /\ Engine!FactsOnlyWithoutHistory
    /\ part = "list" => List!SuggestionsVaried

(* No rebuild of a day's summary replaces a row by an older state.         *)
SummaryNeverRegresses == Days!SummaryNeverRegresses

(* The last three days' summaries come to agree with their sources.        *)
RecentDaysCatchUp == part = "days" => Days!RecentDaysCatchUp
=============================================================================
