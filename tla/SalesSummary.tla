---------------------------- MODULE SalesSummary ----------------------------
(***************************************************************************)
(* The daily sales summaries of a store.  A rebuild of a range of days     *)
(* deletes them, reads the sources and writes the days that have any, in   *)
(* one InnoDB transaction: the delete locks the rows it finds exclusively, *)
(* and the gap where it finds none in a mode that other deletes share, so  *)
(* that two rebuilds of an empty day may block each other's inserts.  The  *)
(* snapshot is taken by the first read, after the delete.                  *)
(***************************************************************************)
EXTENDS Integers, FiniteSets

CONSTANTS LastDay, Rebuilder, MaxChanges, MaxAsked,
          MaxTries      \* MAX_RETRIES of a rebuild

VARIABLES today,
          source,     \* [Day -> the lines of its sales and returns, and a version of them]
          summary,    \* [Day -> what the committed row says, 0 lines being no row]
          trigger,    \* a change has been committed and not yet queued
          asked,      \* the days queued for a rebuild
          rb,         \* [Rebuilder -> its transaction]
          changes, asks

vars == <<today, source, summary, trigger, asked, rb, changes, asks>>
data == <<source, summary>>
work == <<trigger, asked>>
bounds == <<changes, asks>>

Day == 1..LastDay
NoLines == [lines |-> 0, version |-> 0]
Idle == [at |-> "idle", days |-> {}, rows |-> {}, gaps |-> {}, seen |-> [d \in Day |-> NoLines],
         next |-> 0, tries |-> 0]

Init ==
    /\ today = 1
    /\ source = [d \in Day |-> NoLines] /\ summary = source
    /\ trigger = FALSE /\ asked = {}
    /\ rb = [r \in Rebuilder |-> Idle]
    /\ changes = 0 /\ asks = 0

Midnight ==
    /\ today < LastDay
    /\ today' = today + 1
    /\ UNCHANGED <<data, work, rb, bounds>>
-----------------------------------------------------------------------------
(* The sources.  A sale or a return is a line of the day it happens on, a  *)
(* cancellation takes the lines of the order from the day it was fulfilled.*)

Change(d, lines) ==
    /\ changes < MaxChanges
    /\ changes' = changes + 1
    /\ source' = [source EXCEPT ![d] = [lines |-> lines, version |-> @.version + 1]]

SellOrReturn ==
    /\ Change(today, source[today].lines + 1)
    /\ trigger' = TRUE
    /\ UNCHANGED <<today, summary, asked, rb, asks>>

Cancel(d) ==
    /\ d <= today /\ source[d].lines > 0
    /\ Change(d, source[d].lines - 1)
    /\ trigger' = TRUE
    /\ UNCHANGED <<today, summary, asked, rb, asks>>

(* Historical sales ask for the range of their days.                       *)
ImportHistory(d) ==
    /\ d < today
    /\ Change(d, source[d].lines + 1)
    /\ asked' = asked \cup {d}
    /\ UNCHANGED <<today, summary, trigger, rb, asks>>

(* After the commit, and after midnight for a late sale, the day of the    *)
(* trigger is queued; a process that dies takes the trigger with it.       *)
Trigger ==
    /\ trigger
    /\ trigger' = FALSE
    /\ asked' = asked \cup {today} \/ asked' = asked
    /\ UNCHANGED <<today, data, rb, bounds>>
-----------------------------------------------------------------------------
(* The rebuilds.                                                           *)

Span(days) == {d \in Day : \E a, b \in days : a <= d /\ d <= b}
TwoDays == {d \in Day : d <= today /\ d + 1 >= today}     \* mutant of Recent
Recent == {d \in Day : d <= today /\ d + 2 >= today}

Start(r, days) ==
    /\ rb[r].at = "idle"
    /\ rb' = [rb EXCEPT ![r].at = "begin", ![r].days = days]

FromQueue(r) ==
    /\ asked # {}
    /\ Start(r, Span(asked))
    /\ asked' = {}
    /\ UNCHANGED <<today, data, trigger, bounds>>

Nightly(r) ==
    /\ \A o \in Rebuilder : rb[o].at = "idle"
    /\ Start(r, Recent)
    /\ UNCHANGED <<today, data, work, bounds>>

Recalculate(r) ==
    /\ asks < MaxAsked
    /\ asks' = asks + 1
    /\ Start(r, 1..today)
    /\ UNCHANGED <<today, data, work, changes>>

Present(d) == summary[d].lines > 0

LeastOf(S) == IF S = {} THEN 0 ELSE CHOOSE d \in S : \A e \in S : d <= e
Lines(seen, days) == {d \in days : seen[d].lines > 0}

ReadThenDelete(r) ==     \* mutant of Delete: the sources are read before the rows are locked
    /\ \/ /\ rb[r].at = "begin" /\ rb[r].seen # source
          /\ rb' = [rb EXCEPT ![r].seen = source]
       \/ /\ rb[r].at = "begin"
          /\ \A o \in Rebuilder \ {r} : rb[o].rows \cap rb[r].days = {}
          /\ rb' = [rb EXCEPT ![r].at = "write", ![r].rows = {d \in rb[r].days : Present(d)},
                              ![r].gaps = {d \in rb[r].days : ~Present(d)},
                              ![r].next = LeastOf(Lines(rb[r].seen, rb[r].days))]
    /\ UNCHANGED <<today, data, work, bounds>>

Delete(r) ==
    /\ rb[r].at = "begin"
    /\ \A o \in Rebuilder \ {r} : rb[o].rows \cap rb[r].days = {}
    /\ rb' = [rb EXCEPT ![r].at = "deleted",
                        ![r].rows = {d \in rb[r].days : Present(d)},
                        ![r].gaps = {d \in rb[r].days : ~Present(d)}]
    /\ UNCHANGED <<today, data, work, bounds>>

Read(r) ==
    /\ rb[r].at = "deleted"
    /\ rb' = [rb EXCEPT ![r].at = "write", ![r].seen = source, ![r].next = LeastOf(Lines(source, rb[r].days))]
    /\ UNCHANGED <<today, data, work, bounds>>

Blocking(r) ==
    {o \in Rebuilder \ {r} : rb[r].at = "write" /\ rb[r].next \in rb[o].gaps \cup rb[o].rows}

Insert(r) ==
    /\ rb[r].at = "write" /\ rb[r].next # 0 /\ Blocking(r) = {}
    /\ rb' = [rb EXCEPT ![r].rows = @ \cup {rb[r].next},
                        ![r].next = LeastOf({d \in Lines(rb[r].seen, rb[r].days) : d > rb[r].next})]
    /\ UNCHANGED <<today, data, work, bounds>>

Commit(r) ==
    /\ rb[r].at = "write" /\ rb[r].next = 0
    /\ summary' = [d \in Day |-> IF d \in rb[r].days THEN rb[r].seen[d] ELSE summary[d]]
    /\ rb' = [rb EXCEPT ![r] = Idle]
    /\ UNCHANGED <<today, source, work, bounds>>

(* InnoDB rolls one of two deadlocked rebuilds back; it tries again with a *)
(* delay, and gives up after its last try.                                 *)
Deadlocked(r) == \E o \in Blocking(r) : r \in Blocking(o)

Victim(r) ==
    /\ Deadlocked(r)
    /\ rb' = [rb EXCEPT ![r] = IF rb[r].tries + 1 < MaxTries
                               THEN [Idle EXCEPT !.at = "begin", !.days = rb[r].days, !.tries = rb[r].tries + 1]
                               ELSE Idle]
    /\ UNCHANGED <<today, data, work, bounds>>
-----------------------------------------------------------------------------
Rebuild(r) == Delete(r) \/ Read(r) \/ Insert(r) \/ Commit(r) \/ Victim(r)

Next ==
    \/ Midnight \/ SellOrReturn \/ Trigger
    \/ \E d \in Day : Cancel(d) \/ ImportHistory(d)
    \/ \E r \in Rebuilder : FromQueue(r) \/ Nightly(r) \/ Recalculate(r) \/ Rebuild(r)

(* Transactions go on, and there is a next night.                          *)
Fairness ==
    /\ \A r \in Rebuilder : WF_vars(Rebuild(r)) /\ WF_vars(FromQueue(r))
    /\ SF_vars(\E r \in Rebuilder : Nightly(r))

Spec == Init /\ [][Next]_vars /\ Fairness
-----------------------------------------------------------------------------
(* Whichever rebuilds overlap, and whoever is rolled back, the row of a    *)
(* day is never replaced by what an earlier state of the day gives.        *)
SummaryNeverRegresses ==
    [][\A d \in Day : Present(d) => summary'[d].version >= summary[d].version]_vars

(* The summaries of the last three days come to agree with their sources   *)
(* although triggers are lost or name the day after: the nightly window.   *)
RecentDaysCatchUp == <>[](\A d \in (today - 2)..today : d >= 1 => summary[d] = source[d])
=============================================================================
