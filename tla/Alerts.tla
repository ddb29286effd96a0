------------------------------- MODULE Alerts -------------------------------
(***************************************************************************)
(* The alerts of one stock item (alert.service.ts).  The engine brings     *)
(* them up to date in the transaction of recomputeSku, which holds the row *)
(* of the item, so there is one synchronisation at a time; acknowledging   *)
(* and resolving are transactions that do not take that lock.  Each        *)
(* decides from a snapshot, writes later, and writes the whole lifecycle   *)
(* it has read.  The notifications that go with it are in Notifications.   *)
(***************************************************************************)
EXTENDS Naturals, FiniteSets

CONSTANTS Owner, Staff,     \* the operators of the store
          Condition,        \* what an evaluation may find, see Triggers
          MaxChanges, MaxActs

VARIABLES condition,  \* what an evaluation of the item finds
          alert,      \* [Type -> the alert of this fingerprint]
          sync,       \* the synchronisation under way
          act,        \* [User -> the transaction of the operator]
          changes, acts,
          disturbed,  \* history: an operator wrote during the synchronisation
          byHand      \* history: resolved by hand and still triggered since

vars == <<condition, alert, sync, act, changes, acts, disturbed, byHand>>
history == <<disturbed, byHand>>

User == Owner \cup Staff
Type == {"LOW_STOCK", "STOCKOUT", "OVERSTOCK", "SLOW_MOVING", "DEAD_STOCK", "UNUSUAL_DEMAND"}
Active == {"OPEN", "ACKNOWLEDGED"}
NoAlert == [status |-> "none", resolvedBy |-> "nobody", acknowledged |-> FALSE]
Nothing == [kind |-> "none", type |-> "STOCKOUT", seen |-> NoAlert]
Idle == [on |-> FALSE, triggers |-> {}, seen |-> [t \in Type |-> NoAlert]]

Init ==
    /\ condition \in Condition
    /\ alert = [t \in Type |-> NoAlert]
    /\ sync = Idle
    /\ act = [u \in User |-> Nothing]
    /\ changes = 0 /\ acts = 0 /\ disturbed = FALSE /\ byHand = {}

(* The active types of a finding: out of stock before low stock, dead      *)
(* stock before overstock and slow moving.                                 *)
Triggers(c) ==
    {t \in Type :
        CASE t = "STOCKOUT" -> "out" \in c
          [] t = "LOW_STOCK" -> "out" \notin c /\ "low" \in c
          [] t = "DEAD_STOCK" -> "dead" \in c
          [] t = "OVERSTOCK" -> "dead" \notin c /\ "over" \in c
          [] t = "SLOW_MOVING" -> "dead" \notin c /\ "slow" \in c
          [] OTHER -> "unusual" \in c}

Change ==
    /\ changes < MaxChanges
    /\ \E c \in Condition \ {condition} : condition' = c
    /\ changes' = changes + 1
    /\ UNCHANGED <<alert, sync, act, acts, history>>
-----------------------------------------------------------------------------
(* The engine.                                                             *)

Evaluate ==
    /\ ~sync.on
    /\ sync' = [on |-> TRUE, triggers |-> Triggers(condition), seen |-> alert]
    /\ disturbed' = FALSE
    /\ UNCHANGED <<condition, alert, act, changes, acts, byHand>>

(* An active trigger opens a new alert, reopens one it had resolved itself *)
(* and otherwise rewrites it with the lifecycle of the snapshot.           *)
Left(t) == sync.seen[t].status = "RESOLVED" /\ sync.seen[t].resolvedBy = "USER"
Opens(t) == t \in sync.triggers /\ ~Left(t) /\ sync.seen[t].status \in {"none", "RESOLVED"}

Triggered(t) ==
    CASE Left(t) -> alert[t]
      [] Opens(t) -> [status |-> "OPEN", resolvedBy |-> "nobody", acknowledged |-> FALSE]
      [] OTHER -> [sync.seen[t] EXCEPT !.status = alert[t].status]

(* Any other alert is resolved, and handed back to the engine if an        *)
(* operator had resolved it; both look at the row as it is now.            *)
ClearedNotHandedBack(t) ==     \* mutant of Cleared
    IF alert[t].status \in Active THEN [alert[t] EXCEPT !.status = "RESOLVED"] ELSE alert[t]

Cleared(t) ==
    LET a == alert[t] IN
    [status |-> IF a.status \in Active THEN "RESOLVED" ELSE a.status,
     resolvedBy |-> IF a.resolvedBy = "USER" /\ a.status # "none" THEN "ENGINE" ELSE a.resolvedBy,
     acknowledged |-> a.acknowledged]

Synchronize ==
    /\ sync.on
    /\ alert' = [t \in Type |-> IF t \in sync.triggers THEN Triggered(t) ELSE Cleared(t)]
    /\ sync' = Idle
    /\ byHand' = {t \in byHand : t \in sync.triggers /\ alert'[t].status = "RESOLVED"}
    /\ UNCHANGED <<condition, act, changes, acts, disturbed>>
-----------------------------------------------------------------------------
(* The operators.                                                          *)

Begin(u, kind, t) ==
    /\ act[u] = Nothing
    /\ acts < MaxActs
    /\ kind = "resolve" => u \in Owner
    /\ alert[t].status # "none"
    /\ acts' = acts + 1
    /\ act' = [act EXCEPT ![u] = [kind |-> kind, type |-> t, seen |-> alert[t]]]
    /\ UNCHANGED <<condition, alert, sync, changes, history>>

(* Refused with 409, or nothing to do.                                     *)
Decline(u) ==
    /\ \/ act[u].kind # "none" /\ act[u].seen.status = "RESOLVED"
       \/ act[u].kind = "acknowledge" /\ act[u].seen.status = "ACKNOWLEDGED"
    /\ act' = [act EXCEPT ![u] = Nothing]
    /\ UNCHANGED <<condition, alert, sync, changes, acts, history>>

(* On an acknowledged alert only an acknowledgement with a note is written.*)
Acknowledge(u) ==
    LET t == act[u].type IN
    /\ act[u].kind \in {"acknowledge", "note"}
    /\ act[u].seen.status \in IF act[u].kind = "note" THEN Active ELSE {"OPEN"}
    /\ alert' = [alert EXCEPT ![t] = [status |-> "ACKNOWLEDGED",
                                      resolvedBy |-> act[u].seen.resolvedBy, acknowledged |-> TRUE]]
    /\ act' = [act EXCEPT ![u] = Nothing]
    /\ disturbed' = TRUE
    /\ UNCHANGED <<condition, sync, changes, acts, byHand>>

Resolve(u) ==
    /\ act[u].kind = "resolve"
    /\ act[u].seen.status # "RESOLVED"
    /\ alert' = [alert EXCEPT ![act[u].type] = [status |-> "RESOLVED", resolvedBy |-> "USER",
                                                acknowledged |-> act[u].seen.acknowledged]]
    /\ act' = [act EXCEPT ![u] = Nothing]
    /\ disturbed' = TRUE
    /\ byHand' = byHand \cup {act[u].type}
    /\ UNCHANGED <<condition, sync, changes, acts>>
-----------------------------------------------------------------------------
Next ==
    \/ Change \/ Evaluate \/ Synchronize
    \/ \E u \in User :
          \/ \E t \in Type, k \in {"acknowledge", "note", "resolve"} : Begin(u, k, t)
          \/ Decline(u) \/ Acknowledge(u) \/ Resolve(u)

Spec == Init /\ [][Next]_vars
-----------------------------------------------------------------------------
TypeOK ==
    /\ condition \in Condition
    /\ alert \in [Type -> [status : Active \cup {"none", "RESOLVED"},
                           resolvedBy : {"nobody", "USER", "ENGINE"}, acknowledged : BOOLEAN]]
    /\ \A u \in User : act[u].kind \in {"none", "acknowledge", "note", "resolve"}

(* ALR-003.  Whatever races went before, a synchronisation that no         *)
(* operator wrote into leaves exactly the alerts of its triggers active,   *)
(* but for those an owner has resolved by hand, and all others with the    *)
(* engine, so that a later occurrence opens them again.                    *)
AlertsFollowCondition ==
    [][sync.on /\ ~sync'.on /\ ~disturbed
         => \A t \in Type :
               IF t \in sync.triggers
               THEN alert'[t].status \in Active \/ (alert'[t] = alert[t] /\ alert[t].resolvedBy = "USER")
               ELSE alert'[t].status \notin Active /\ alert'[t].resolvedBy # "USER"]_vars

(* ALR-003: "A manually resolved alert is not reopened while its condition *)
(* persists."                                                              *)
ManualResolutionHolds ==
    [][\A t \in byHand : ~(alert[t].status = "RESOLVED" /\ alert'[t].status = "OPEN")]_vars
=============================================================================
