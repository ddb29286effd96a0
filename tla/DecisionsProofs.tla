---------------------------- MODULE DecisionsProofs ----------------------------
(***************************************************************************)
(* What holds of the decisions, for all sets of prices, costs, margins and *)
(* editors, any users and conditions, any items, histories and settings    *)
(* the engine may have, any days and rebuilders, and any list of           *)
(* candidates: of an item's recommendations (Pricing), its alerts (Alerts),*)
(* the daily summaries (SalesSummary), the advice of the engine (Decisions,*)
(* EngineRules) and the list of next actions (Suggestions).                *)
(***************************************************************************)
EXTENDS MCDecisions, FiniteSetTheorems, SequenceTheorems, WellFoundedInduction, TLAPS

(* OnePending without its count.                                           *)
NoTwoPending == \A r, s \in Pending : r = s

(* An evaluation that saw no pending recommendation still has none: under  *)
(* the lock of the item, recommendations can only cease to be pending.     *)
NoneSinceSeen == run.on /\ run.pending = 0 => Pending = {}

(* The inductive invariant.                                                *)
PricesSafe == TypeOK /\ NoTwoPending /\ NoneSinceSeen
-----------------------------------------------------------------------------
(* A set of recommendations has at most one element if no two differ.      *)
LEMMA OnePendingIsNoTwo == ASSUME TypeOK PROVE OnePending <=> NoTwoPending
<1>1. IsFiniteSet(Pending)
  <2>1. Len(recs) \in Nat
    BY LenProperties DEF TypeOK
  <2>2. IsFiniteSet(1..Len(recs))
    BY <2>1, FS_Interval
  <2> QED
    BY <2>2, FS_Subset DEF Pending, Rec
<1>2. Cardinality(Pending) \in Nat
  BY <1>1, FS_CardinalityType
<1>3. ASSUME OnePending
      PROVE  NoTwoPending
  <2>1. Cardinality(Pending) = 0 \/ Cardinality(Pending) = 1
    BY <1>2, <1>3 DEF OnePending
  <2>2. Pending = {} \/ \E r : Pending = {r}
    BY <1>1, <2>1, FS_EmptySet, FS_Singleton
  <2> QED
    BY <2>2 DEF NoTwoPending
<1>4. ASSUME NoTwoPending
      PROVE  OnePending
  <2>1. Pending = {} \/ \E r : Pending = {r}
    BY <1>4 DEF NoTwoPending
  <2>2. Cardinality(Pending) = 0 \/ Cardinality(Pending) = 1
    BY <1>1, <2>1, FS_EmptySet, FS_Singleton
  <2> QED
    BY <2>2 DEF OnePending
<1> QED
  BY <1>3, <1>4

(* Giving a status to some recommendations changes nothing else.           *)
LEMMA StatusGiven ==
    ASSUME TypeOK, NEW rs, NEW st \in {"ACCEPTED", "MODIFIED", "REJECTED", "EXPIRED"},
           recs' = WithStatus(rs, st)
    PROVE  /\ recs' \in Seq(Recommendation) /\ Len(recs') = Len(recs)
           /\ \A r \in Rec : recs'[r] = IF r \in rs THEN [recs[r] EXCEPT !.status = st] ELSE recs[r]
           /\ Pending' \subseteq Pending
<1>1. Len(recs) \in Nat /\ \A r \in Rec : recs[r] \in Recommendation
  BY LenProperties, ElementOfSeq DEF TypeOK, Rec
<1>2. \A r \in Rec : (IF r \in rs THEN [recs[r] EXCEPT !.status = st] ELSE recs[r]) \in Recommendation
  BY <1>1 DEF Recommendation
<1>3. recs' = [r \in 1..Len(recs) |-> IF r \in rs THEN [recs[r] EXCEPT !.status = st] ELSE recs[r]]
  BY DEF WithStatus, Rec
<1>4. recs' \in Seq(Recommendation) /\ Len(recs') = Len(recs)
  BY <1>1, <1>2, <1>3, IsASeq, LenProperties DEF Rec
<1>5. \A r \in Rec : recs'[r] = IF r \in rs THEN [recs[r] EXCEPT !.status = st] ELSE recs[r]
  BY <1>3 DEF Rec
<1>6. \A r \in Rec : recs'[r].status = "PENDING" => recs[r].status = "PENDING"
  BY <1>1, <1>5 DEF Recommendation
<1>7. Pending' \subseteq Pending
  BY <1>4, <1>6 DEF Pending, Rec
<1> QED
  BY <1>4, <1>5, <1>7

(* The latest pending recommendation that an evaluation sees.              *)
LEMMA SeenIsPending ==
    ASSUME TypeOK, NoTwoPending
    PROVE  Seen \in 0..Len(recs) /\ (Seen = 0 => Pending = {})
<1>1. Len(recs) \in Nat
  BY LenProperties DEF TypeOK
<1>2. CASE Pending = {}
  BY <1>1, <1>2 DEF Seen
<1>3. CASE Pending # {}
  <2>1. \E r \in Pending : \A s \in Pending : s <= r
    BY <1>1, <1>3 DEF NoTwoPending, Pending, Rec
  <2>2. Seen \in Pending
    BY <1>3, <2>1 DEF Seen
  <2> QED
    BY <1>1, <2>2 DEF Pending, Rec
<1> QED
  BY <1>2, <1>3

(* The engine either refreshes the recommendation it saw, whose status it  *)
(* keeps, or adds one.                                                     *)
LEMMA Refreshed ==
    ASSUME TypeOK, NEW p \in Price, Recommend(p), run.pending # 0
    PROVE  /\ recs' \in Seq(Recommendation) /\ Len(recs') = Len(recs)
           /\ \A r \in Rec : recs'[r].status = recs[r].status
           /\ Pending' = Pending
<1> DEFINE k == run.pending
           fresh == [New(p) EXCEPT !.status = recs[k].status]
<1>1. Len(recs) \in Nat /\ k \in 1..Len(recs) /\ \A r \in Rec : recs[r] \in Recommendation
  BY LenProperties, ElementOfSeq DEF TypeOK, Rec, Recommend
<1>2. fresh \in Recommendation /\ fresh.status = recs[k].status
  BY <1>1 DEF New, Recommendation, TypeOK, Recommend, Rec
<1>3. recs' = [recs EXCEPT ![k] = fresh]
  BY DEF Recommend
<1> HIDE DEF fresh
<1>4. recs' \in Seq(Recommendation) /\ Len(recs') = Len(recs)
  BY <1>1, <1>2, <1>3, ExceptSeq DEF TypeOK
<1>5. \A r \in Rec : recs'[r] = IF r = k THEN fresh ELSE recs[r]
  BY <1>1, <1>2, <1>3, ExceptSeq DEF TypeOK, Rec
<1>6. \A r \in Rec : recs'[r].status = recs[r].status
  BY <1>2, <1>5
<1> QED
  BY <1>4, <1>6 DEF Pending, Rec

(* A new recommendation is the only one that becomes pending.              *)
LEMMA Added ==
    ASSUME TypeOK, NEW p \in Price, Recommend(p), run.pending = 0
    PROVE  /\ recs' \in Seq(Recommendation) /\ Len(recs') = Len(recs) + 1
           /\ \A r \in Rec : recs'[r] = recs[r]
           /\ Pending' = Pending \cup {Len(recs) + 1}
<1>1. Len(recs) \in Nat
  BY LenProperties DEF TypeOK
<1>2. New(p) \in Recommendation /\ New(p).status = "PENDING"
  BY DEF New, Recommendation, TypeOK, Recommend
<1>3. recs' = Append(recs, New(p))
  BY DEF Recommend
<1>4. /\ recs' \in Seq(Recommendation) /\ Len(recs') = Len(recs) + 1
      /\ \A r \in Rec : recs'[r] = recs[r]
      /\ recs'[Len(recs) + 1] = New(p)
  BY <1>2, <1>3, AppendProperties DEF TypeOK, Rec
<1> QED
  BY <1>1, <1>2, <1>4 DEF Pending, Rec

(* Growing old changes the status of no recommendation.                    *)
LEMMA Aged ==
    ASSUME TypeOK, NEW r \in Rec, Age(r)
    PROVE  /\ recs' \in Seq(Recommendation) /\ Len(recs') = Len(recs)
           /\ \A s \in Rec : recs'[s].status = recs[s].status
           /\ Pending' = Pending
<1> DEFINE older == [recs[r] EXCEPT !.overdue = TRUE]
<1>1. Len(recs) \in Nat /\ \A s \in Rec : recs[s] \in Recommendation
  BY LenProperties, ElementOfSeq DEF TypeOK, Rec
<1>2. older \in Recommendation /\ older.status = recs[r].status
  BY <1>1 DEF Recommendation
<1>3. recs' = [recs EXCEPT ![r] = older]
  BY <1>1 DEF Age
<1> HIDE DEF older
<1>4. recs' \in Seq(Recommendation) /\ Len(recs') = Len(recs)
  BY <1>1, <1>2, <1>3, ExceptSeq DEF TypeOK, Rec
<1>5. \A s \in Rec : recs'[s] = IF s = r THEN older ELSE recs[s]
  BY <1>1, <1>2, <1>3, ExceptSeq DEF TypeOK, Rec
<1> QED
  BY <1>2, <1>4, <1>5 DEF Pending, Rec
-----------------------------------------------------------------------------
(* The initial states are safe.                                            *)
LEMMA PricesSafeInit == Init => PricesSafe
<1> SUFFICES ASSUME Init PROVE PricesSafe
  OBVIOUS
<1>1. recs \in Seq(Recommendation) /\ Len(recs) = 0
  BY EmptySeq DEF Init
<1>2. Pending = {}
  BY <1>1 DEF Pending, Rec
<1>3. TypeOK
  BY <1>1 DEF Init, TypeOK, Idle
<1> QED
  BY <1>2, <1>3 DEF PricesSafe, NoTwoPending, NoneSinceSeen

(* Nothing but the recommendations: their number does not shrink while the *)
(* engine is at work, and a decision waits until it is done.               *)
LEMMA PricesTyped ==
    ASSUME PricesSafe, Next
    PROVE  TypeOK'
<1> USE DEF PricesSafe
<1>0. Len(recs) \in Nat
  BY LenProperties DEF TypeOK
<1>1. CASE Evaluate
  <2>1. Seen \in 0..Len(recs)
    BY SeenIsPending
  <2>2. run' = [on |-> TRUE, price |-> price, cost |-> cost, floor |-> Floor, pending |-> Seen]
    BY <1>1 DEF Evaluate
  <2>3. /\ run'.on = TRUE
        /\ run'.price \in Price /\ run'.cost \in Cost /\ run'.pending \in 0..Len(recs)
    BY <2>1, <2>2 DEF TypeOK
  <2>4. UNCHANGED <<price, cost, margin, up, recorded, recs, edit, edits, failures>> /\ due' = FALSE
    BY <1>1 DEF Evaluate, item, bounds
  <2> QED
    BY <2>3, <2>4 DEF TypeOK
<1>2. ASSUME NEW p \in Price, Recommend(p)
      PROVE  TypeOK'
  <2>1. recs' \in Seq(Recommendation)
    BY <1>2, Refreshed, Added
  <2> QED
    BY <1>2, <2>1 DEF Recommend, TypeOK, Idle, item, bounds
<1>3. CASE Maintain
  <2>1. recs' \in Seq(Recommendation)
    BY <1>3, StatusGiven DEF Maintain, ExpirePending
  <2> QED
    BY <1>3, <2>1 DEF Maintain, TypeOK, Idle, item, bounds
<1>4. CASE Fail \/ Nightly
  <2>1. CASE Fail
    BY <2>1 DEF Fail, TypeOK, Idle, item
  <2>2. CASE Nightly
    BY <2>2 DEF Nightly, TypeOK, item, bounds
  <2> QED
    BY <1>4, <2>1, <2>2
<1>5. CASE ExpireOverdue
  <2>1. recs' \in Seq(Recommendation) /\ Len(recs') = Len(recs)
    BY <1>5, StatusGiven DEF ExpireOverdue
  <2> QED
    BY <1>5, <2>1 DEF ExpireOverdue, TypeOK, item, bounds
<1>6. ASSUME NEW r \in Rec, Age(r)
      PROVE  TypeOK'
  <2>1. recs' \in Seq(Recommendation) /\ Len(recs') = Len(recs)
    BY <1>6, Aged
  <2> QED
    BY <1>6, <2>1 DEF Age, TypeOK, item, bounds
<1>7. ASSUME NEW r \in Rec, Accept(r) \/ Reject(r) \/ \E p \in Price : Modify(r, p)
      PROVE  TypeOK'
  <2>1. recs' \in Seq(Recommendation) /\ Len(recs') = Len(recs)
    BY <1>7, StatusGiven DEF Accept, Reject, Modify
  <2>2. recs[r] \in Recommendation
    BY <1>0, ElementOfSeq DEF TypeOK, Rec
  <2>3. recs[r].to \in Price
    BY <2>2 DEF Recommendation
  <2> QED
    BY <1>7, <2>1, <2>3 DEF Accept, Reject, Modify, Apply, TypeOK, item, bounds
<1>8. ASSUME NEW e \in Editor, NEW k \in {"product", "import"}, NEW p \in Price \cup {Keep},
             NEW c \in Cost \cup {Keep}, BeginEdit(e, k, p, c)
      PROVE  TypeOK'
  <2>1. [kind |-> k, price |-> price, cost |-> cost, newPrice |-> p, newCost |-> c] \in Edit
    BY DEF TypeOK, Edit
  <2> QED
    BY <1>8, <2>1 DEF BeginEdit, TypeOK, item
<1>9. ASSUME NEW e \in Editor, CommitEdit(e)
      PROVE  TypeOK'
  <2>1. recs' \in Seq(Recommendation) /\ Len(recs') = Len(recs)
    <3>1. CASE Invalidates(e)
      BY <1>9, <3>1, StatusGiven DEF CommitEdit, ExpirePending
    <3>2. CASE ~Invalidates(e)
      BY <1>9, <3>2 DEF CommitEdit, TypeOK
    <3> QED
      BY <3>1, <3>2
  <2>2. edit[e] \in Edit
    BY <1>9 DEF CommitEdit, TypeOK
  <2>3. price' \in Price /\ cost' \in Cost /\ recorded' \in Price
    BY <1>9, <2>2 DEF CommitEdit, Edit, TypeOK
  <2> QED
    BY <1>9, <2>1, <2>3 DEF CommitEdit, TypeOK, bounds
<1>10. CASE ChangeMargin
  BY <1>10 DEF ChangeMargin, TypeOK
<1> QED
  BY <1>1, <1>2, <1>3, <1>4, <1>5, <1>6, <1>7, <1>8, <1>9, <1>10 DEF Next, Advise

(* A recommendation becomes pending only by the engine, which saw none.    *)
LEMMA PendingStep ==
    ASSUME PricesSafe, Next
    PROVE  NoTwoPending' /\ NoneSinceSeen'
<1> USE DEF PricesSafe
<1>1. CASE Evaluate
  <2>1. Pending' = Pending
    BY <1>1 DEF Evaluate, Pending, Rec
  <2> QED
    BY <1>1, <2>1, SeenIsPending DEF Evaluate, NoTwoPending, NoneSinceSeen
<1>2. ASSUME Pending' \subseteq Pending, UNCHANGED run \/ run' = Idle
      PROVE  NoTwoPending' /\ NoneSinceSeen'
  BY <1>2 DEF NoTwoPending, NoneSinceSeen, Idle
<1>3. ASSUME NEW p \in Price, Recommend(p)
      PROVE  NoTwoPending' /\ NoneSinceSeen'
  <2>1. CASE run.pending # 0
    BY <1>2, <1>3, <2>1, Refreshed DEF Recommend
  <2>2. CASE run.pending = 0
    <3>1. Pending' = {Len(recs) + 1}
      BY <1>3, <2>2, Added DEF NoneSinceSeen, Recommend
    <3> QED
      BY <1>3, <3>1 DEF Recommend, NoTwoPending, NoneSinceSeen, Idle
  <2> QED
    BY <2>1, <2>2
<1>4. CASE Maintain \/ ExpireOverdue
  BY <1>2, <1>4, StatusGiven DEF Maintain, ExpireOverdue, ExpirePending
<1>5. ASSUME NEW r \in Rec, Age(r) \/ Accept(r) \/ Reject(r) \/ \E p \in Price : Modify(r, p)
      PROVE  NoTwoPending' /\ NoneSinceSeen'
  <2>1. Pending' \subseteq Pending
    BY <1>5, Aged, StatusGiven DEF Accept, Reject, Modify
  <2> QED
    BY <1>2, <1>5, <2>1 DEF Age, Accept, Reject, Modify
<1>6. ASSUME NEW e \in Editor, CommitEdit(e), Invalidates(e)
      PROVE  NoTwoPending' /\ NoneSinceSeen'
  BY <1>2, <1>6, StatusGiven DEF CommitEdit, ExpirePending
<1>7. ASSUME UNCHANGED recs, UNCHANGED run \/ run' = Idle
      PROVE  NoTwoPending' /\ NoneSinceSeen'
  BY <1>2, <1>7 DEF Pending, Rec
<1>8. Fail \/ Nightly \/ ChangeMargin => UNCHANGED recs /\ (UNCHANGED run \/ run' = Idle)
  BY DEF Fail, Nightly, ChangeMargin
<1>9. \A e \in Editor :
         /\ CommitEdit(e) /\ ~Invalidates(e) => UNCHANGED <<recs, run>>
         /\ \A k, p, c : BeginEdit(e, k, p, c) => UNCHANGED <<recs, run>>
  BY DEF CommitEdit, BeginEdit
<1> QED
  BY <1>1, <1>3, <1>4, <1>5, <1>6, <1>7, <1>8, <1>9 DEF Next, Advise

(* Every step keeps the recommendations safe.                              *)
LEMMA PricesSafeStep ==
    ASSUME PricesSafe, [Next]_vars
    PROVE  PricesSafe'
<1>1. CASE Next
  BY <1>1, PricesTyped, PendingStep DEF PricesSafe
<1>2. CASE UNCHANGED vars
  BY <1>2 DEF vars, item, bounds, PricesSafe, TypeOK, NoTwoPending, NoneSinceSeen, Pending, Rec
<1> QED
  BY <1>1, <1>2

(* Of all steps only an acceptance makes a recommendation accepted.        *)
LEMMA AcceptedStep ==
    ASSUME PricesSafe, [Next]_vars
    PROVE  AcceptsOnBasis
<1> USE DEF PricesSafe
<1>1. \A r \in Rec : recs[r] \in Recommendation
  BY LenProperties, ElementOfSeq DEF TypeOK, Rec
<1>2. ASSUME \A r \in Rec : recs'[r].status = recs[r].status
      PROVE  AcceptsOnBasis
  BY <1>2 DEF AcceptsOnBasis
<1>3. ASSUME NEW rs, NEW st \in {"MODIFIED", "REJECTED", "EXPIRED"}, recs' = WithStatus(rs, st)
      PROVE  AcceptsOnBasis
  <2>0. \A r \in Rec : recs'[r] = IF r \in rs THEN [recs[r] EXCEPT !.status = st] ELSE recs[r]
    BY <1>3, StatusGiven
  <2>1. \A r \in Rec : recs'[r].status = recs[r].status \/ recs'[r].status = st
    BY <1>1, <2>0 DEF Recommendation
  <2> QED
    BY <2>1 DEF AcceptsOnBasis
<1>4. ASSUME NEW r \in Rec, Accept(r)
      PROVE  AcceptsOnBasis
  <2>1. \A s \in Rec : recs'[s] = IF s \in {r} THEN [recs[s] EXCEPT !.status = "ACCEPTED"] ELSE recs[s]
    BY <1>4, StatusGiven DEF Accept
  <2>2. /\ recs'[r].basis = recs[r].basis /\ recs'[r].cost = recs[r].cost /\ recs'[r].to = recs[r].to
        /\ \A s \in Rec : s # r => recs'[s] = recs[s]
    BY <1>1, <2>1 DEF Recommendation
  <2>3. recs[r].basis = price /\ recs[r].cost = cost /\ recs[r].to >= Floor
    BY <1>4 DEF Accept
  <2> QED
    BY <2>2, <2>3 DEF AcceptsOnBasis
<1>5. ASSUME NEW p \in Price, Recommend(p)
      PROVE  AcceptsOnBasis
  BY <1>2, <1>5, Refreshed, Added
<1>6. ASSUME NEW r \in Rec, Age(r)
      PROVE  AcceptsOnBasis
  BY <1>2, <1>6, Aged
<1>7. ASSUME NEW r \in Rec, Reject(r) \/ \E p \in Price : Modify(r, p)
      PROVE  AcceptsOnBasis
  BY <1>3, <1>7 DEF Reject, Modify
<1>8. ASSUME NEW e \in Editor, CommitEdit(e)
      PROVE  AcceptsOnBasis
  BY <1>2, <1>3, <1>8 DEF CommitEdit, ExpirePending
<1>9. CASE Maintain \/ ExpireOverdue
  BY <1>3, <1>9 DEF Maintain, ExpireOverdue, ExpirePending
<1>10. UNCHANGED recs => AcceptsOnBasis
  BY <1>2
<1>11. /\ Evaluate \/ Fail \/ Nightly \/ ChangeMargin => UNCHANGED recs
       /\ \A e, k, p, c : BeginEdit(e, k, p, c) => UNCHANGED recs
       /\ UNCHANGED vars => UNCHANGED recs
  BY DEF Evaluate, Fail, Nightly, ChangeMargin, BeginEdit, vars
<1> QED
  BY <1>4, <1>5, <1>6, <1>7, <1>8, <1>9, <1>10, <1>11 DEF Next, Advise
-----------------------------------------------------------------------------
(* The inductive invariant holds in every reachable state.                 *)
THEOREM PricesStaySafe == Spec => []PricesSafe
BY PricesSafeInit, PricesSafeStep, PTL DEF Spec

(* However recomputations, decisions, edits and the nightly run meet, an   *)
(* item has at most one pending recommendation.                            *)
THEOREM AtMostOnePending == Spec => []OnePending
<1>1. PricesSafe => OnePending
  BY OnePendingIsNoTwo DEF PricesSafe
<1> QED
  BY <1>1, PricesStaySafe, PTL

(* No step accepts a recommendation on another price or cost than it was   *)
(* made for, or below the floor of that moment.                            *)
THEOREM AcceptanceIsCurrent == Spec => AcceptedOnBasis
<1>1. PricesSafe /\ [Next]_vars => [AcceptsOnBasis]_vars
  BY AcceptedStep
<1> QED
  BY <1>1, PricesStaySafe, PTL DEF Spec, AcceptedOnBasis
-----------------------------------------------------------------------------
(* Alerts.  What an alert is; the states and the transactions under way,   *)
(* which are about an alert that exists; and what a synchronisation has    *)
(* seen is what is there, unless an operator wrote since.                  *)
AlertRecord == [status : {"none", "OPEN", "ACKNOWLEDGED", "RESOLVED"},
                resolvedBy : {"nobody", "USER", "ENGINE"}, acknowledged : BOOLEAN]

AlertsTyped ==
    /\ alert \in [Bell!Type -> AlertRecord]
    /\ sync.on \in BOOLEAN /\ sync.seen \in [Bell!Type -> AlertRecord]
    /\ DOMAIN act = Bell!User
    /\ \A u \in Bell!User : act[u].seen \in AlertRecord /\ act[u].type \in Bell!Type
Unborn(a) == a.status = "none" => a.resolvedBy # "USER"
NoneUnborn ==
    /\ \A t \in Bell!Type : Unborn(alert[t]) /\ Unborn(sync.seen[t])
    /\ \A t \in Bell!Type : sync.on /\ sync.seen[t].status # "none" => alert[t].status # "none"
SeenIsThere == sync.on /\ ~disturbed => sync.seen = alert

AlertsSafe == AlertsTyped /\ NoneUnborn /\ SeenIsThere

(* A step is what ALR-003 asks of a synchronisation.                       *)
FollowsCondition ==
    sync.on /\ ~sync'.on /\ ~disturbed
      => \A t \in Bell!Type :
            IF t \in sync.triggers
            THEN alert'[t].status \in Bell!Active \/ (alert'[t] = alert[t] /\ alert[t].resolvedBy = "USER")
            ELSE alert'[t].status \notin Bell!Active /\ alert'[t].resolvedBy # "USER"

(* The initial states are safe.                                            *)
LEMMA AlertsSafeInit == Bell!Init => AlertsSafe
<1> SUFFICES ASSUME Bell!Init PROVE AlertsSafe
  OBVIOUS
<1> DEFINE none == [status |-> "none", resolvedBy |-> "nobody", acknowledged |-> FALSE]
<1>1. none \in AlertRecord /\ "STOCKOUT" \in Bell!Type /\ Unborn(none)
  BY DEF AlertRecord, Bell!Type, Unborn
<1>2. alert = [t \in Bell!Type |-> none]
  BY DEF Bell!Init, Bell!NoAlert
<1>3. sync.on = FALSE /\ sync.seen = [t \in Bell!Type |-> none]
  BY DEF Bell!Init, Bell!Idle, Bell!NoAlert
<1>4. act = [u \in Bell!User |-> [kind |-> "none", type |-> "STOCKOUT", seen |-> none]]
  BY DEF Bell!Init, Bell!Nothing, Bell!NoAlert
<1> HIDE DEF none
<1>5. AlertsTyped
  BY <1>1, <1>2, <1>3, <1>4 DEF AlertsTyped
<1>6. NoneUnborn /\ SeenIsThere
  BY <1>1, <1>2, <1>3 DEF NoneUnborn, SeenIsThere
<1> QED
  BY <1>5, <1>6 DEF AlertsSafe

(* What an operator writes on an alert.                                    *)
LEMMA OperatorWrites ==
    ASSUME AlertsSafe, NEW u \in Bell!User, Bell!Acknowledge(u) \/ Bell!Resolve(u)
    PROVE  AlertsSafe'
<1> USE DEF AlertsSafe
<1>1. PICK t \in Bell!Type, w \in AlertRecord :
         w.status # "none" /\ alert' = [alert EXCEPT ![t] = w]
  <2>1. act[u].type \in Bell!Type /\ act[u].seen \in AlertRecord
    BY DEF AlertsTyped
  <2>2. CASE Bell!Acknowledge(u)
    <3>1. [status |-> "ACKNOWLEDGED", resolvedBy |-> act[u].seen.resolvedBy, acknowledged |-> TRUE]
             \in AlertRecord
      BY <2>1 DEF AlertRecord
    <3> QED
      BY <2>1, <2>2, <3>1 DEF Bell!Acknowledge
  <2>3. CASE Bell!Resolve(u)
    <3>1. [status |-> "RESOLVED", resolvedBy |-> "USER", acknowledged |-> act[u].seen.acknowledged]
             \in AlertRecord
      BY <2>1 DEF AlertRecord
    <3> QED
      BY <2>1, <2>3, <3>1 DEF Bell!Resolve
  <2> QED
    BY <2>2, <2>3
<1>2. UNCHANGED sync /\ disturbed' = TRUE /\ act' = [act EXCEPT ![u] = Bell!Nothing]
  BY DEF Bell!Acknowledge, Bell!Resolve
<1>3. Bell!Nothing.seen \in AlertRecord /\ Bell!Nothing.type \in Bell!Type
  BY DEF Bell!Nothing, Bell!NoAlert, AlertRecord, Bell!Type
<1>4. AlertsTyped'
  BY <1>1, <1>2, <1>3 DEF AlertsTyped
<1>5. NoneUnborn'
  BY <1>1, <1>2 DEF AlertsTyped, NoneUnborn, Unborn
<1> QED
  BY <1>2, <1>4, <1>5 DEF SeenIsThere

(* A synchronisation leaves what its triggers ask for, whatever came in    *)
(* between.                                                                *)
LEMMA SynchronizeSafe ==
    ASSUME AlertsSafe, Bell!Synchronize
    PROVE  AlertsSafe' /\ FollowsCondition
<1> USE DEF AlertsSafe
<1>1. /\ alert' = [t \in Bell!Type |-> IF t \in sync.triggers THEN Bell!Triggered(t) ELSE Bell!Cleared(t)]
      /\ sync.on /\ sync' = Bell!Idle /\ UNCHANGED act
  BY DEF Bell!Synchronize
<1>2. sync'.on = FALSE /\ sync'.seen = [t \in Bell!Type |-> Bell!NoAlert] /\ Bell!NoAlert \in AlertRecord
  BY <1>1 DEF Bell!Idle, Bell!NoAlert, AlertRecord
<1>3. ASSUME NEW t \in Bell!Type
      PROVE  /\ Bell!Cleared(t) \in AlertRecord /\ Unborn(Bell!Cleared(t))
             /\ Bell!Cleared(t).status \notin Bell!Active /\ Bell!Cleared(t).resolvedBy # "USER"
  <2>1. alert[t] \in AlertRecord /\ Unborn(alert[t])
    BY DEF AlertsTyped, NoneUnborn
  <2> QED
    BY <2>1 DEF Bell!Cleared, AlertRecord, Unborn, Bell!Active
<1>4. ASSUME NEW t \in Bell!Type
      PROVE  /\ Bell!Triggered(t) \in AlertRecord /\ Unborn(Bell!Triggered(t))
             /\ ~disturbed /\ t \in sync.triggers =>
                   \/ Bell!Triggered(t).status \in Bell!Active
                   \/ Bell!Triggered(t) = alert[t] /\ alert[t].resolvedBy = "USER"
  <2>1. /\ alert[t] \in AlertRecord /\ Unborn(alert[t])
        /\ sync.seen[t] \in AlertRecord /\ Unborn(sync.seen[t])
        /\ sync.seen[t].status # "none" => alert[t].status # "none"
        /\ ~disturbed => sync.seen[t] = alert[t]
    BY <1>1 DEF AlertsTyped, NoneUnborn, SeenIsThere
  <2>2. CASE Bell!Left(t)
    <3>1. Bell!Triggered(t) = alert[t]
      BY <2>2 DEF Bell!Triggered, Bell!Opens
    <3> QED
      BY <2>1, <2>2, <3>1 DEF Bell!Left
  <2>3. CASE Bell!Opens(t)
    <3>1. Bell!Triggered(t) = [status |-> "OPEN", resolvedBy |-> "nobody", acknowledged |-> FALSE]
      BY <2>3 DEF Bell!Triggered, Bell!Opens
    <3> QED
      BY <3>1 DEF AlertRecord, Unborn, Bell!Active
  <2>4. CASE ~Bell!Left(t) /\ ~Bell!Opens(t)
    <3>1. Bell!Triggered(t) = [sync.seen[t] EXCEPT !.status = alert[t].status]
      BY <2>4 DEF Bell!Triggered
    <3>2. /\ Bell!Triggered(t) \in AlertRecord
          /\ Bell!Triggered(t).status = alert[t].status
          /\ Bell!Triggered(t).resolvedBy = sync.seen[t].resolvedBy
      BY <2>1, <3>1 DEF AlertRecord
    <3> QED
      BY <2>1, <2>4, <3>2 DEF AlertRecord, Unborn, Bell!Left, Bell!Opens, Bell!Active
  <2> QED
    BY <2>2, <2>3, <2>4
<1>5. AlertsTyped'
  BY <1>1, <1>2, <1>3, <1>4 DEF AlertsTyped
<1>6. NoneUnborn'
  <2>1. \A t \in Bell!Type : Unborn(alert[t])'
    BY <1>1, <1>3, <1>4 DEF Unborn
  <2>2. \A t \in Bell!Type : Unborn(sync.seen[t])'
    BY <1>2 DEF Unborn, Bell!NoAlert
  <2> QED
    BY <1>2, <2>1, <2>2 DEF NoneUnborn
<1>7. FollowsCondition
  BY <1>1, <1>3, <1>4 DEF FollowsCondition
<1> QED
  BY <1>2, <1>5, <1>6, <1>7 DEF SeenIsThere

(* Every step keeps the alerts safe, and follows the condition.            *)
LEMMA AlertsSafeStep ==
    ASSUME AlertsSafe, [Bell!Next]_alerts
    PROVE  AlertsSafe' /\ [FollowsCondition]_alerts
<1> USE DEF AlertsSafe
<1>1. CASE UNCHANGED alerts
  BY <1>1 DEF alerts, AlertsTyped, NoneUnborn, Unborn, SeenIsThere
<1>2. CASE Bell!Change
  BY <1>2 DEF Bell!Change, Bell!history, AlertsTyped, NoneUnborn, Unborn, SeenIsThere, FollowsCondition
<1>3. CASE Bell!Evaluate
  <2>1. sync'.on = TRUE /\ sync'.seen = alert /\ UNCHANGED <<alert, act>> /\ sync.on = FALSE
    BY <1>3 DEF Bell!Evaluate, AlertsTyped
  <2> QED
    BY <2>1 DEF AlertsTyped, NoneUnborn, Unborn, SeenIsThere, FollowsCondition
<1>4. CASE Bell!Synchronize
  BY <1>4, SynchronizeSafe
<1>5. ASSUME NEW u \in Bell!User, NEW t \in Bell!Type, NEW k, Bell!Begin(u, k, t)
      PROVE  AlertsSafe' /\ FollowsCondition
  <2>1. /\ UNCHANGED <<alert, sync, disturbed>>
        /\ act' = [act EXCEPT ![u] = [kind |-> k, type |-> t, seen |-> alert[t]]]
    BY <1>5 DEF Bell!Begin, Bell!history
  <2> QED
    BY <2>1 DEF AlertsTyped, NoneUnborn, Unborn, SeenIsThere, FollowsCondition
<1>6. ASSUME NEW u \in Bell!User, Bell!Decline(u)
      PROVE  AlertsSafe' /\ FollowsCondition
  <2>1. UNCHANGED <<alert, sync, disturbed>> /\ act' = [act EXCEPT ![u] = Bell!Nothing]
    BY <1>6 DEF Bell!Decline, Bell!history
  <2>2. Bell!Nothing.seen \in AlertRecord /\ Bell!Nothing.type \in Bell!Type
    BY DEF Bell!Nothing, Bell!NoAlert, AlertRecord, Bell!Type
  <2> QED
    BY <2>1, <2>2 DEF AlertsTyped, NoneUnborn, Unborn, SeenIsThere, FollowsCondition
<1>7. ASSUME NEW u \in Bell!User, Bell!Acknowledge(u) \/ Bell!Resolve(u)
      PROVE  AlertsSafe' /\ FollowsCondition
  BY <1>7, OperatorWrites DEF Bell!Acknowledge, Bell!Resolve, FollowsCondition
<1> QED
  BY <1>1, <1>2, <1>3, <1>4, <1>5, <1>6, <1>7 DEF Bell!Next
-----------------------------------------------------------------------------
(* A set of natural numbers that is not empty has a least one.             *)
LEMMA LeastNatural ==
    ASSUME NEW S \in SUBSET Nat, S # {}
    PROVE  \E m \in S : \A n \in S : m <= n
<1> DEFINE Below == OpToRel(<, Nat)
<1>1. IsWellFoundedOn(Below, Nat)
  BY NatLessThanWellFounded
<1>2. PICK m \in S : \A n \in S : ~ (<<n, m>> \in Below)
  <2> HIDE DEF Below
  <2> QED
    BY <1>1, WFMin
<1>3. \A n \in S : ~ (n < m)
  BY <1>2 DEF OpToRel
<1> QED
  BY <1>3
-----------------------------------------------------------------------------
(* Daily summaries.  What a rebuild holds: the rows that were there when it*)
(* deleted and those it has inserted, and the gaps of its other days.      *)
Row == [lines : Nat, version : Nat]
DaysTyped ==
    /\ today \in Days!Day
    /\ source \in [Days!Day -> Row] /\ summary \in [Days!Day -> Row]
    /\ DOMAIN rb = Rebuilder
    /\ \A r \in Rebuilder :
          /\ rb[r].at \in {"idle", "begin", "deleted", "write"}
          /\ rb[r].seen \in [Days!Day -> Row]
          /\ rb[r].days \subseteq Days!Day /\ rb[r].next \in Nat

Working(r) == rb[r].at \in {"deleted", "write"}

(* A rebuild at work holds every row of its days; what it has read is no   *)
(* older than what they say, and what it will write is locked or to come.  *)
HoldsItsDays(r) ==
    /\ ~Working(r) => rb[r].rows = {}
    /\ Working(r) => /\ rb[r].days \subseteq rb[r].rows \cup rb[r].gaps
                     /\ \A d \in rb[r].days : Days!Present(d) => d \in rb[r].rows
ReadsTheLatest(r) ==
    rb[r].at = "write" =>
        \A d \in rb[r].days :
           /\ rb[r].seen[d].version <= source[d].version
           /\ Days!Present(d) => summary[d].version <= rb[r].seen[d].version
           /\ rb[r].seen[d].lines > 0 => d \in rb[r].rows \/ (rb[r].next # 0 /\ rb[r].next <= d)
RowsApart(o, r) == Working(o) /\ Working(r) => rb[o].rows \cap rb[r].days = {}

DaysSafe ==
    /\ DaysTyped
    /\ \A d \in Days!Day : summary[d].version <= source[d].version
    /\ \A r \in Rebuilder : HoldsItsDays(r) /\ ReadsTheLatest(r)
    /\ \A o, r \in Rebuilder : o # r => RowsApart(o, r)

NoneRegresses == \A d \in Days!Day : Days!Present(d) => summary'[d].version >= summary[d].version

(* The day that LeastOf finds.                                             *)
LEMMA LeastDay ==
    ASSUME NEW S \in SUBSET Days!Day
    PROVE  /\ Days!LeastOf(S) \in Nat
           /\ \A d \in S : Days!LeastOf(S) # 0 /\ Days!LeastOf(S) <= d
           /\ Days!LeastOf(S) # 0 => Days!LeastOf(S) \in S
<1>1. CASE S = {}
  BY <1>1 DEF Days!LeastOf
<1>2. CASE S # {}
  <2>1. S \subseteq Nat /\ 0 \notin S
    BY DaysAssumption DEF Days!Day
  <2>2. \E m \in S : \A n \in S : m <= n
    BY <1>2, <2>1, LeastNatural
  <2>3. Days!LeastOf(S) \in S /\ \A d \in S : Days!LeastOf(S) <= d
    BY <1>2, <2>2 DEF Days!LeastOf
  <2> QED
    BY <2>1, <2>3
<1> QED
  BY <1>1, <1>2

(* The initial states are safe.                                            *)
LEMMA DaysSafeInit == Days!Init => DaysSafe
<1> SUFFICES ASSUME Days!Init PROVE DaysSafe
  OBVIOUS
<1>1. Days!NoLines \in Row /\ Days!NoLines.lines = 0 /\ Days!NoLines.version = 0
  BY DEF Days!NoLines, Row
<1>2. source = [d \in Days!Day |-> Days!NoLines] /\ summary = [d \in Days!Day |-> Days!NoLines]
  BY DEF Days!Init
<1>3. DOMAIN rb = Rebuilder
  BY DEF Days!Init
<1>4. \A r \in Rebuilder : /\ rb[r].at = "idle" /\ rb[r].days = {} /\ rb[r].rows = {} /\ rb[r].next = 0
                           /\ rb[r].seen = [d \in Days!Day |-> Days!NoLines]
  BY DEF Days!Init, Days!Idle
<1>5. DaysTyped
  <2>1. today \in Days!Day
    BY DaysAssumption DEF Days!Init, Days!Day
  <2> QED
    BY <1>1, <1>2, <1>3, <1>4, <2>1 DEF DaysTyped
<1>6. \A r \in Rebuilder : HoldsItsDays(r) /\ ReadsTheLatest(r) /\ ~Working(r)
  BY <1>4 DEF HoldsItsDays, ReadsTheLatest, Working
<1> QED
  BY <1>1, <1>2, <1>5, <1>6 DEF DaysSafe, RowsApart

(* A sale, a return or a cancellation makes a day's version newer.         *)
LEMMA ChangeSafe ==
    ASSUME DaysSafe, NEW day \in Days!Day, NEW lines \in Nat, Days!Change(day, lines),
           UNCHANGED <<today, summary, rb>>
    PROVE  DaysSafe'
<1> USE DEF DaysSafe
<1>1. source' = [source EXCEPT ![day] = [lines |-> lines, version |-> source[day].version + 1]]
  BY DEF Days!Change
<1>2. [lines |-> lines, version |-> source[day].version + 1] \in Row
  BY DEF DaysTyped, Row
<1>3. DaysTyped'
  BY <1>1, <1>2 DEF DaysTyped
<1>4. \A d \in Days!Day : /\ source[d].version \in Nat /\ source'[d].version \in Nat
                          /\ summary[d].version \in Nat
                          /\ source[d].version <= source'[d].version
                          /\ summary[d].version <= source[d].version
  <2>1. \A d \in Days!Day : /\ source[d] \in Row /\ summary[d] \in Row /\ source'[d] \in Row
    BY <1>3 DEF DaysTyped
  <2>2. \A d \in Days!Day : source[d].version \in Nat /\ source'[d].version \in Nat /\ summary[d].version \in Nat
    BY <2>1 DEF Row
  <2>3. ASSUME NEW d \in Days!Day
        PROVE  source[d].version <= source'[d].version
    <3>1. CASE d = day
      <4>1. source'[d].version = source[d].version + 1
        BY <1>1, <3>1 DEF DaysTyped
      <4> QED
        BY <4>1, <2>2
    <3>2. CASE d # day
      <4>1. source'[d] = source[d]
        BY <1>1, <3>2 DEF DaysTyped
      <4> QED
        BY <4>1, <2>2
    <3> QED
      BY <3>1, <3>2
  <2> QED
    BY <2>2, <2>3
<1>5. ASSUME NEW d \in Days!Day
      PROVE  summary'[d].version <= source'[d].version
  <2>1. summary' = summary
    OBVIOUS
  <2> QED
    BY <1>4, <2>1
<1>6. ASSUME NEW r \in Rebuilder
      PROVE  HoldsItsDays(r)' /\ ReadsTheLatest(r)'
  <2>1. HoldsItsDays(r)'
    BY DEF HoldsItsDays, Working, Days!Present
  <2>2. \A d \in rb[r].days : d \in Days!Day /\ rb[r].seen[d].version \in Nat
    BY DEF DaysTyped, Row
  <2>3. ASSUME NEW d \in rb[r].days, rb[r].at = "write"
        PROVE  rb[r].seen[d].version <= source'[d].version
    <3>1. rb[r].seen[d].version <= source[d].version
      BY <2>3 DEF ReadsTheLatest
    <3> QED
      BY <3>1, <2>2, <1>4
  <2>4. ReadsTheLatest(r)'
    <3>1. rb' = rb /\ summary' = summary
      OBVIOUS
    <3> QED
      BY <2>3, <3>1 DEF ReadsTheLatest, Days!Present
  <2> QED
    BY <2>1, <2>4
<1>7. \A o, r \in Rebuilder : o # r => RowsApart(o, r)'
  BY DEF RowsApart, Working
<1> QED
  BY <1>3, <1>5, <1>6, <1>7

(* One rebuild moves on without committing: what the others hold and have  *)
(* read stays, so that only its own part is to be shown.                   *)
OnlyMoves(r) ==
    /\ UNCHANGED <<today, source, summary>>
    /\ DOMAIN rb' = Rebuilder
    /\ \A o \in Rebuilder : o # r => rb'[o] = rb[o]
TransactionTyped(t) ==
    /\ t.at \in {"idle", "begin", "deleted", "write"}
    /\ t.seen \in [Days!Day -> Row]
    /\ t.days \subseteq Days!Day /\ t.next \in Nat

(* A rebuild that moves on without touching rows keeps the summaries safe. *)
LEMMA MoveSafe ==
    ASSUME DaysSafe, NEW r \in Rebuilder, OnlyMoves(r), TransactionTyped(rb'[r]),
           HoldsItsDays(r)', ReadsTheLatest(r)',
           \A o \in Rebuilder : o # r => RowsApart(o, r)' /\ RowsApart(r, o)'
    PROVE  DaysSafe'
<1> USE DEF DaysSafe
<1>1. DaysTyped'
  BY DEF DaysTyped, OnlyMoves, TransactionTyped
<1>2. \A o \in Rebuilder : o # r => HoldsItsDays(o)' /\ ReadsTheLatest(o)'
  BY DEF OnlyMoves, HoldsItsDays, ReadsTheLatest, Working, Days!Present
<1>3. \A o, p \in Rebuilder : o # r /\ p # r /\ o # p => RowsApart(o, p)'
  BY DEF OnlyMoves, RowsApart, Working
<1> QED
  BY <1>1, <1>2, <1>3 DEF OnlyMoves

(* A rebuild that begins, or is rolled back, holds nothing.                *)
LEMMA RestSafe ==
    ASSUME DaysSafe, NEW r \in Rebuilder, OnlyMoves(r), TransactionTyped(rb'[r]),
           rb'[r].at \in {"idle", "begin"}, rb'[r].rows = {}
    PROVE  DaysSafe'
<1>1. HoldsItsDays(r)' /\ ReadsTheLatest(r)'
  BY DEF HoldsItsDays, ReadsTheLatest, Working
<1>2. \A o \in Rebuilder : o # r => RowsApart(o, r)' /\ RowsApart(r, o)'
  BY DEF RowsApart, Working
<1> QED
  BY <1>1, <1>2, MoveSafe

(* What a rebuild that begins looks like.                                  *)
LEMMA StartSafe ==
    ASSUME DaysSafe, NEW r \in Rebuilder, NEW days \in SUBSET Days!Day, Days!Start(r, days),
           UNCHANGED <<today, source, summary>>
    PROVE  DaysSafe'
<1>1. DOMAIN rb = Rebuilder /\ rb[r].at = "idle" /\ rb[r].seen \in [Days!Day -> Row] /\ rb[r].next \in Nat
  BY DEF DaysSafe, DaysTyped, Days!Start
<1>2. rb[r].rows = {}
  BY <1>1 DEF DaysSafe, HoldsItsDays, Working
<1>3. rb' = [rb EXCEPT ![r].at = "begin", ![r].days = days]
  BY DEF Days!Start
<1>4. OnlyMoves(r)
  BY <1>1, <1>3 DEF OnlyMoves
<1>5. /\ rb'[r].at = "begin" /\ rb'[r].days = days /\ rb'[r].rows = rb[r].rows
      /\ rb'[r].seen = rb[r].seen /\ rb'[r].next = rb[r].next
  BY <1>1, <1>3
<1>6. TransactionTyped(rb'[r])
  BY <1>1, <1>5 DEF TransactionTyped
<1> QED
  BY <1>2, <1>4, <1>5, <1>6, RestSafe

(* A rebuild deletes its days: no other has one of them locked.            *)
LEMMA DeleteSafe ==
    ASSUME DaysSafe, NEW r \in Rebuilder, Days!Delete(r)
    PROVE  DaysSafe'
<1> USE DEF DaysSafe
<1>1. DOMAIN rb = Rebuilder /\ rb[r].seen \in [Days!Day -> Row] /\ rb[r].next \in Nat /\ rb[r].days \subseteq Days!Day
  BY DEF DaysTyped
<1>a. PICK rows : rows = {d \in rb[r].days : Days!Present(d)}
  OBVIOUS
<1>b. PICK gaps : gaps = {d \in rb[r].days : ~Days!Present(d)}
  OBVIOUS
<1>2. /\ \A o \in Rebuilder \ {r} : rb[o].rows \cap rb[r].days = {}
      /\ rb' = [rb EXCEPT ![r].at = "deleted", ![r].rows = rows, ![r].gaps = gaps]
      /\ UNCHANGED <<today, source, summary>>
  BY <1>a, <1>b DEF Days!Delete, Days!data
<1>3. OnlyMoves(r)
  BY <1>1, <1>2 DEF OnlyMoves
<1>4. /\ rb'[r].at = "deleted" /\ rb'[r].days = rb[r].days
      /\ rb'[r].rows = rows /\ rb'[r].gaps = gaps
      /\ rb'[r].seen = rb[r].seen /\ rb'[r].next = rb[r].next
  BY <1>1, <1>2
<1>5. TransactionTyped(rb'[r])
  BY <1>1, <1>4 DEF TransactionTyped
<1>6. HoldsItsDays(r)'
  BY <1>a, <1>b, <1>2, <1>4 DEF HoldsItsDays, Working, Days!Present
<1>7. ReadsTheLatest(r)'
  BY <1>4 DEF ReadsTheLatest
<1>8. ASSUME NEW o \in Rebuilder, o # r
      PROVE  RowsApart(o, r)' /\ RowsApart(r, o)'
  <2>1. rb'[o] = rb[o] /\ rb[o].rows \cap rb[r].days = {}
    BY <1>2, <1>3, <1>8 DEF OnlyMoves
  <2>2. RowsApart(o, r)'
    BY <1>4, <2>1 DEF RowsApart
  <2>3. Working(o) => \A d \in rb[o].days : Days!Present(d) => d \in rb[o].rows
    BY DEF HoldsItsDays
  <2>4. RowsApart(r, o)'
    BY <1>a, <1>4, <2>1, <2>3 DEF RowsApart, Working
  <2> QED
    BY <2>2, <2>4
<1> QED
  BY <1>3, <1>5, <1>6, <1>7, <1>8, MoveSafe

(* It reads the sources, and is to insert the days that have lines.        *)
LEMMA ReadSafe ==
    ASSUME DaysSafe, NEW r \in Rebuilder, Days!Read(r)
    PROVE  DaysSafe'
<1> USE DEF DaysSafe
<1>1. DOMAIN rb = Rebuilder /\ source \in [Days!Day -> Row] /\ summary \in [Days!Day -> Row]
      /\ rb[r].days \subseteq Days!Day
  BY DEF DaysTyped
<1>2. PICK S : S = Days!Lines(source, rb[r].days)
  OBVIOUS
<1>3. S = {d \in rb[r].days : source[d].lines > 0} /\ S \in SUBSET Days!Day
  BY <1>1, <1>2 DEF Days!Lines
<1>4. PICK least : least = Days!LeastOf(S)
  OBVIOUS
<1>5. least \in Nat /\ \A d \in S : least # 0 /\ least <= d
  BY <1>3, <1>4, LeastDay
<1>6. /\ rb[r].at = "deleted"
      /\ rb' = [rb EXCEPT ![r].at = "write", ![r].seen = source, ![r].next = least]
      /\ UNCHANGED <<today, source, summary>>
  BY <1>2, <1>4 DEF Days!Read, Days!data
<1>7. OnlyMoves(r)
  BY <1>1, <1>6 DEF OnlyMoves
<1>8. /\ rb'[r].at = "write" /\ rb'[r].days = rb[r].days /\ rb'[r].rows = rb[r].rows
      /\ rb'[r].gaps = rb[r].gaps /\ rb'[r].seen = source /\ rb'[r].next = least
  BY <1>1, <1>6
<1>9. TransactionTyped(rb'[r])
  BY <1>1, <1>5, <1>8 DEF TransactionTyped
<1>10. HoldsItsDays(r)'
  BY <1>6, <1>8 DEF HoldsItsDays, Working, Days!Present
<1>11. ReadsTheLatest(r)'
  <2>1. \A d \in rb[r].days : source[d].version \in Nat /\ summary[d].version <= source[d].version
    BY <1>1 DEF Row
  <2>2. \A d \in rb[r].days : source[d].lines > 0 => least # 0 /\ least <= d
    BY <1>3, <1>5
  <2> QED
    BY <1>6, <1>8, <2>1, <2>2 DEF ReadsTheLatest, Days!Present
<1>12. ASSUME NEW o \in Rebuilder, o # r
       PROVE  RowsApart(o, r)' /\ RowsApart(r, o)'
  BY <1>6, <1>7, <1>8, <1>12 DEF RowsApart, Working, OnlyMoves
<1> QED
  BY <1>7, <1>9, <1>10, <1>11, <1>12, MoveSafe

(* It inserts a row that no other holds, nor the gap it falls in.          *)
LEMMA InsertSafe ==
    ASSUME DaysSafe, NEW r \in Rebuilder, Days!Insert(r)
    PROVE  DaysSafe'
<1> USE DEF DaysSafe
<1>1. /\ DOMAIN rb = Rebuilder /\ rb[r].seen \in [Days!Day -> Row]
      /\ rb[r].days \subseteq Days!Day /\ rb[r].next \in Nat
  BY DEF DaysTyped
<1>2. PICK next : next = rb[r].next
  OBVIOUS
<1>3. PICK S : S = {d \in Days!Lines(rb[r].seen, rb[r].days) : d > next}
  OBVIOUS
<1>4. S = {d \in rb[r].days : rb[r].seen[d].lines > 0 /\ d > next} /\ S \in SUBSET Days!Day
  BY <1>1, <1>3 DEF Days!Lines
<1>5. PICK least : least = Days!LeastOf(S)
  OBVIOUS
<1>6. least \in Nat /\ \A d \in S : least # 0 /\ least <= d
  BY <1>4, <1>5, LeastDay
<1>7. /\ rb[r].at = "write" /\ Days!Blocking(r) = {}
      /\ rb' = [rb EXCEPT ![r].rows = @ \cup {next}, ![r].next = least]
      /\ UNCHANGED <<today, source, summary>>
  BY <1>2, <1>3, <1>5 DEF Days!Insert, Days!data
<1>8. OnlyMoves(r)
  BY <1>1, <1>7 DEF OnlyMoves
<1>9. /\ rb'[r].at = "write" /\ rb'[r].days = rb[r].days /\ rb'[r].rows = rb[r].rows \cup {next}
      /\ rb'[r].gaps = rb[r].gaps /\ rb'[r].seen = rb[r].seen /\ rb'[r].next = least
  BY <1>1, <1>7
<1>10. TransactionTyped(rb'[r])
  BY <1>1, <1>6, <1>9 DEF TransactionTyped
<1>11. HoldsItsDays(r)'
  BY <1>7, <1>9 DEF HoldsItsDays, Working, Days!Present
<1>12. ReadsTheLatest(r)'
  <2>1. ASSUME NEW d \in rb[r].days, rb[r].seen[d].lines > 0
        PROVE  d \in rb[r].rows \cup {next} \/ (least # 0 /\ least <= d)
    <3>1. d \in rb[r].rows \/ next <= d
      BY <1>2, <1>7, <2>1 DEF ReadsTheLatest
    <3>2. next <= d => d = next \/ d > next
      BY <1>1, <1>2, DaysAssumption DEF Days!Day
    <3>3. d > next => d \in S
      BY <1>4, <2>1
    <3> QED
      BY <1>6, <3>1, <3>2, <3>3
  <2> QED
    BY <1>7, <1>9, <2>1 DEF ReadsTheLatest, Days!Present
<1>13. ASSUME NEW o \in Rebuilder, o # r
       PROVE  RowsApart(o, r)' /\ RowsApart(r, o)'
  <2>1. rb'[o] = rb[o]
    BY <1>8, <1>13 DEF OnlyMoves
  <2>2. next \notin rb[o].rows \cup rb[o].gaps
    BY <1>2, <1>7, <1>13 DEF Days!Blocking
  <2>3. Working(o) => next \notin rb[o].days
    BY <2>2 DEF HoldsItsDays
  <2>4. RowsApart(o, r)'
    BY <1>7, <1>9, <1>13, <2>1 DEF RowsApart, Working
  <2>5. RowsApart(r, o)'
    BY <1>7, <1>9, <1>13, <2>1, <2>3 DEF RowsApart, Working
  <2> QED
    BY <2>4, <2>5
<1> QED
  BY <1>8, <1>10, <1>11, <1>12, <1>13, MoveSafe

(* The victim of a deadlock begins again, or is done.                      *)
LEMMA VictimSafe ==
    ASSUME DaysSafe, NEW r \in Rebuilder, Days!Victim(r)
    PROVE  DaysSafe'
<1>1. DOMAIN rb = Rebuilder /\ rb[r].days \subseteq Days!Day
  BY DEF DaysSafe, DaysTyped
<1>2. PICK again : again = [Days!Idle EXCEPT !.at = "begin", !.days = rb[r].days, !.tries = rb[r].tries + 1]
  OBVIOUS
<1>3. /\ rb' = [rb EXCEPT ![r] = IF rb[r].tries + 1 < MaxTries THEN again ELSE Days!Idle]
      /\ UNCHANGED <<today, source, summary>>
  BY <1>2 DEF Days!Victim, Days!data
<1>4. OnlyMoves(r)
  BY <1>1, <1>3 DEF OnlyMoves
<1>5. rb'[r] = again \/ rb'[r] = Days!Idle
  BY <1>1, <1>3
<1>6. [d \in Days!Day |-> Days!NoLines] \in [Days!Day -> Row]
  BY DEF Days!NoLines, Row
<1>7. TransactionTyped(Days!Idle) /\ Days!Idle.at = "idle" /\ Days!Idle.rows = {}
  BY <1>6 DEF TransactionTyped, Days!Idle
<1>8. TransactionTyped(again) /\ again.at = "begin" /\ again.rows = {}
  BY <1>1, <1>2, <1>6 DEF TransactionTyped, Days!Idle
<1>9. TransactionTyped(rb'[r]) /\ rb'[r].at \in {"idle", "begin"} /\ rb'[r].rows = {}
  BY <1>5, <1>7, <1>8
<1> QED
  BY DaysSafe, <1>4, <1>9, RestSafe

(* A commit writes what the rebuild read: a day another rebuild is at work *)
(* on and that has lines is a row this one holds, which that one waits for.*)
LEMMA CommitSafe ==
    ASSUME DaysSafe, NEW r \in Rebuilder, Days!Commit(r)
    PROVE  DaysSafe' /\ NoneRegresses
<1> USE DEF DaysSafe
<1>1. /\ DOMAIN rb = Rebuilder /\ rb[r].seen \in [Days!Day -> Row]
      /\ rb[r].days \subseteq Days!Day /\ summary \in [Days!Day -> Row]
  BY DEF DaysTyped
<1>2. /\ rb[r].at = "write" /\ rb[r].next = 0
      /\ summary' = [d \in Days!Day |-> IF d \in rb[r].days THEN rb[r].seen[d] ELSE summary[d]]
      /\ rb' = [rb EXCEPT ![r] = Days!Idle]
      /\ UNCHANGED <<today, source>>
  BY DEF Days!Commit
<1>3. \A d \in rb[r].days : d \in Days!Day /\ summary'[d] = rb[r].seen[d]
  BY <1>1, <1>2
<1>4. \A d \in Days!Day : d \notin rb[r].days => summary'[d] = summary[d]
  BY <1>2
<1>5. \A o \in Rebuilder : o # r => rb'[o] = rb[o]
  BY <1>1, <1>2
<1>6. /\ rb'[r].at = "idle" /\ rb'[r].days = {} /\ rb'[r].rows = {} /\ rb'[r].next = 0
      /\ rb'[r].seen = [d \in Days!Day |-> Days!NoLines]
  BY <1>1, <1>2 DEF Days!Idle
<1>7. summary' \in [Days!Day -> Row]
  BY <1>1, <1>2
<1>8. DaysTyped'
  <2>1. [d \in Days!Day |-> Days!NoLines] \in [Days!Day -> Row]
    BY DEF Days!NoLines, Row
  <2>2. DOMAIN rb' = Rebuilder
    BY <1>1, <1>2
  <2>3. ASSUME NEW o \in Rebuilder
        PROVE  TransactionTyped(rb'[o])
    <3>1. CASE o = r
      BY <1>6, <2>1, <3>1 DEF TransactionTyped
    <3>2. CASE o # r
      BY <1>5, <3>2 DEF TransactionTyped, DaysTyped
    <3> QED
      BY <3>1, <3>2
  <2> QED
    BY <1>2, <1>7, <2>2, <2>3 DEF DaysTyped, TransactionTyped
<1>9. \A d \in rb[r].days : /\ rb[r].seen[d].version <= source[d].version
                            /\ Days!Present(d) => summary[d].version <= rb[r].seen[d].version
                            /\ rb[r].seen[d].lines > 0 => d \in rb[r].rows
  BY <1>2 DEF ReadsTheLatest
<1>10. ASSUME NEW d \in Days!Day
       PROVE  summary'[d].version <= source'[d].version
  <2>1. CASE d \in rb[r].days
    BY <1>2, <1>3, <1>9, <2>1
  <2>2. CASE d \notin rb[r].days
    BY <1>2, <1>4, <2>2
  <2> QED
    BY <2>1, <2>2
<1>11. ASSUME NEW o \in Rebuilder, o # r, Working(o), NEW d \in rb[o].days, Days!Present(d)'
       PROVE  summary'[d] = summary[d] /\ Days!Present(d)
  <2>1. d \in Days!Day
    BY DEF DaysTyped
  <2>2. d \notin rb[r].days
    <3> SUFFICES ASSUME d \in rb[r].days PROVE FALSE
      OBVIOUS
    <3>1. d \in rb[r].rows
      BY <1>3, <1>9, <1>11 DEF Days!Present
    <3> QED
      BY <1>2, <1>11, <3>1 DEF RowsApart, Working
  <2> QED
    BY <1>4, <1>11, <2>1, <2>2 DEF Days!Present
<1>12. ASSUME NEW o \in Rebuilder
       PROVE  HoldsItsDays(o)' /\ ReadsTheLatest(o)'
  <2>1. CASE o = r
    BY <1>6, <2>1 DEF HoldsItsDays, ReadsTheLatest, Working
  <2>2. CASE o # r
    <3>1. rb'[o] = rb[o]
      BY <1>5, <2>2
    <3>2. HoldsItsDays(o) /\ ReadsTheLatest(o)
      OBVIOUS
    <3>3. HoldsItsDays(o)'
      BY <1>11, <2>2, <3>1, <3>2 DEF HoldsItsDays, Working
    <3>4. ReadsTheLatest(o)'
      <4>1. ASSUME NEW d \in rb[o].days, rb[o].at = "write", Days!Present(d)'
            PROVE  summary'[d].version <= rb[o].seen[d].version
        <5>1. summary'[d] = summary[d] /\ Days!Present(d)
          BY <1>11, <2>2, <4>1 DEF Working
        <5> QED
          BY <3>2, <4>1, <5>1 DEF ReadsTheLatest
      <4> QED
        BY <1>2, <3>1, <3>2, <4>1 DEF ReadsTheLatest
    <3> QED
      BY <3>3, <3>4
  <2> QED
    BY <2>1, <2>2
<1>13. \A o, p \in Rebuilder : o # p => RowsApart(o, p)'
  BY <1>5, <1>6 DEF RowsApart, Working
<1>14. NoneRegresses
  <2>1. \A d \in Days!Day : summary[d].version \in Nat /\ summary'[d].version \in Nat
    BY <1>1, <1>7 DEF Row
  <2>2. ASSUME NEW d \in Days!Day, Days!Present(d)
        PROVE  summary'[d].version >= summary[d].version
    <3>1. CASE d \in rb[r].days
      BY <1>3, <1>9, <2>1, <2>2, <3>1
    <3>2. CASE d \notin rb[r].days
      BY <1>4, <2>1, <3>2
    <3> QED
      BY <3>1, <3>2
  <2> QED
    BY <2>2 DEF NoneRegresses
<1> QED
  BY <1>8, <1>10, <1>12, <1>13, <1>14

(* Every step of the summaries keeps their invariant, and no row is        *)
(* replaced by an older one.                                               *)
LEMMA DaysSafeStep ==
    ASSUME DaysSafe, [Days!Next]_(Days!vars)
    PROVE  DaysSafe' /\ NoneRegresses
<1>0. ASSUME summary' = summary PROVE NoneRegresses
  <2>1. \A d \in Days!Day : summary[d].version \in Nat
    BY DEF DaysSafe, DaysTyped, Row
  <2> QED
    BY <1>0, <2>1 DEF NoneRegresses
<1>a. ASSUME UNCHANGED <<source, summary, rb>>, today' \in Days!Day PROVE DaysSafe'
  BY <1>a DEF DaysSafe, DaysTyped, HoldsItsDays, ReadsTheLatest, RowsApart, Working, Days!Present
<1>b. /\ today \in Days!Day /\ today \in Nat /\ \A d \in Days!Day : d \in Nat /\ source[d].lines \in Nat
  BY DaysAssumption DEF DaysSafe, DaysTyped, Days!Day, Row
<1>1. CASE UNCHANGED Days!vars
  BY <1>0, <1>a, <1>b, <1>1 DEF Days!vars
<1>2. CASE Days!Midnight
  <2>1. today' \in Days!Day
    BY <1>2, <1>b, DaysAssumption DEF Days!Midnight, Days!Day
  <2> QED
    BY <1>0, <1>a, <1>2, <2>1 DEF Days!Midnight, Days!data
<1>3. CASE Days!SellOrReturn
  <2>1. source[today].lines + 1 \in Nat
    BY <1>b
  <2> QED
    BY <1>0, <1>b, <1>3, <2>1, ChangeSafe DEF Days!SellOrReturn
<1>4. CASE Days!Trigger
  BY <1>0, <1>a, <1>b, <1>4 DEF Days!Trigger, Days!data
<1>5. ASSUME NEW d \in Days!Day, Days!Cancel(d)
      PROVE  DaysSafe' /\ NoneRegresses
  <2>1. source[d].lines - 1 \in Nat
    <3>1. source[d].lines \in Nat /\ source[d].lines > 0
      BY <1>b, <1>5 DEF Days!Cancel
    <3> QED
      BY <3>1
  <2> QED
    BY <1>0, <1>5, <2>1, ChangeSafe DEF Days!Cancel
<1>6. ASSUME NEW d \in Days!Day, Days!ImportHistory(d)
      PROVE  DaysSafe' /\ NoneRegresses
  <2>1. source[d].lines + 1 \in Nat
    BY <1>b
  <2> QED
    BY <1>0, <1>6, <2>1, ChangeSafe DEF Days!ImportHistory
<1>7. ASSUME NEW r \in Rebuilder, Days!FromQueue(r)
      PROVE  DaysSafe' /\ NoneRegresses
  <2>1. Days!Span(asked) \in SUBSET Days!Day
    BY DEF Days!Span
  <2> QED
    BY <1>0, <1>7, <2>1, StartSafe DEF Days!FromQueue, Days!data
<1>8. ASSUME NEW r \in Rebuilder, Days!Nightly(r)
      PROVE  DaysSafe' /\ NoneRegresses
  <2>1. Days!Recent \in SUBSET Days!Day
    BY DEF Days!Recent
  <2> QED
    BY <1>0, <1>8, <2>1, StartSafe DEF Days!Nightly, Days!data
<1>9. ASSUME NEW r \in Rebuilder, Days!Recalculate(r)
      PROVE  DaysSafe' /\ NoneRegresses
  <2>1. 1..today \in SUBSET Days!Day
    BY <1>b, DaysAssumption DEF Days!Day
  <2> QED
    BY <1>0, <1>9, <2>1, StartSafe DEF Days!Recalculate, Days!data
<1>10. ASSUME NEW r \in Rebuilder, Days!Rebuild(r)
       PROVE  DaysSafe' /\ NoneRegresses
  <2>1. CASE Days!Commit(r)
    BY <2>1, CommitSafe
  <2>2. CASE Days!Delete(r)
    BY <1>0, <2>2, DeleteSafe DEF Days!Delete, Days!data
  <2>3. CASE Days!Read(r)
    BY <1>0, <2>3, ReadSafe DEF Days!Read, Days!data
  <2>4. CASE Days!Insert(r)
    BY <1>0, <2>4, InsertSafe DEF Days!Insert, Days!data
  <2>5. CASE Days!Victim(r)
    BY <1>0, <2>5, VictimSafe DEF Days!Victim, Days!data
  <2> QED
    BY <1>10, <2>1, <2>2, <2>3, <2>4, <2>5 DEF Days!Rebuild
<1> QED
  BY <1>1, <1>2, <1>3, <1>4, <1>5, <1>6, <1>7, <1>8, <1>9, <1>10 DEF Days!Next
-----------------------------------------------------------------------------
(* Rounding: to the nearest, and up.                                       *)
LEMMA Division ==
    ASSUME NEW a \in Int, NEW b \in Int, b > 0
    PROVE  a \div b \in Int /\ b * (a \div b) <= a /\ a < b * (a \div b) + b
OBVIOUS

(* Rounding goes to the nearest whole, half a divisor away at most.        *)
LEMMA RoundedNear ==
    ASSUME NEW a \in Int, NEW b \in Int, b > 0
    PROVE  /\ Engine!Rounded(a, b) \in Int
           /\ 2 * (b * Engine!Rounded(a, b)) <= 2 * a + b
           /\ 2 * a < 2 * (b * Engine!Rounded(a, b)) + b
<1>1. PICK q : q = Engine!Rounded(a, b)
  OBVIOUS
<1>2. q = (2 * a + b) \div (2 * b)
  BY <1>1 DEF Engine!Rounded
<1>3. q \in Int /\ (2 * b) * q <= 2 * a + b /\ 2 * a + b < (2 * b) * q + 2 * b
  BY <1>2, Division
<1> QED
  BY <1>1, <1>3

(* Rounding up reaches what was divided.                                   *)
LEMMA RoundedUp ==
    ASSUME NEW a \in Int, NEW b \in Int, b > 0
    PROVE  Engine!CeilDiv(a, b) \in Int /\ a <= b * Engine!CeilDiv(a, b)
<1>1. PICK q : q = (-a) \div b
  OBVIOUS
<1>2. q \in Int /\ b * q <= -a
  BY <1>1, Division
<1> QED
  BY <1>1, <1>2 DEF Engine!CeilDiv

(* The floor covers the cost, in thousands unless the margin is all of it. *)
Covers(floor, k, m) ==
    /\ floor \in Nat /\ floor >= k
    /\ m < 100 => \E n \in Nat : floor = 1000 * n
    /\ k = 0 => floor = 0

(* MinimumPrice covers the cost whichever way its division comes out.      *)
LEMMA FloorCovers ==
    ASSUME NEW cost_ \in Nat, NEW m \in 0..100, NEW u \in BOOLEAN
    PROVE  Covers(Engine!MinimumPrice(cost_, m, u), cost_, m)
<1>0. PICK floor : floor = Engine!MinimumPrice(cost_, m, u)
  OBVIOUS
<1>1. CASE m >= 100
  BY <1>0, <1>1, SMT DEF Engine!MinimumPrice, Covers
<1>2. CASE m < 100
  <2>1. PICK b \in Nat : b = (100 - m) * 1000 /\ b > 0 /\ b <= 100000
    BY <1>2
  <2>2. PICK q : q = Engine!CeilDiv(100 * cost_, b)
    OBVIOUS
  <2>3. q \in Int /\ 100 * cost_ <= b * q
    BY <2>1, <2>2, RoundedUp
  <2>4. q >= 0
    <3>1. q < 0 => b * q < 0
      BY <2>1, <2>3
    <3> QED
      BY <2>3, <3>1
  <2>5. b * q <= 100000 * q
    BY <2>1, <2>3, <2>4
  <2>6. cost_ <= 1000 * q
    BY <2>1, <2>3, <2>4, <2>5
  <2>7. cost_ = 0 => q = 0
    <3>1. ASSUME cost_ = 0 PROVE q = -(0 \div b)
      BY <2>2, <3>1 DEF Engine!CeilDiv
    <3>2. 0 \div b = 0
      BY <2>1
    <3> QED
      BY <3>1, <3>2
  <2>8. floor = 1000 * q \/ (cost_ > 0 /\ floor = 1000 * q + 1000)
    BY <1>0, <1>2, <2>1, <2>2, SMT DEF Engine!MinimumPrice
  <2>9. q \in Nat /\ q + 1 \in Nat
    BY <2>3, <2>4
  <2>10. floor = 1000 * q \/ floor = 1000 * (q + 1)
    BY <2>8, <2>9
  <2>11. floor \in Nat /\ floor >= cost_
    BY <2>6, <2>9, <2>10
  <2>12. cost_ = 0 => floor = 0
    BY <2>7, <2>8
  <2>13. \E k \in Nat : floor = 1000 * k
    <3>1. CASE floor = 1000 * q
      BY <2>9, <3>1, SMT
    <3>2. CASE floor = 1000 * (q + 1)
      BY <2>9, <3>2, SMT
    <3> QED
      BY <2>10, <3>1, <3>2, SMT
  <2> QED
    BY <1>0, <2>11, <2>12, <2>13, SMT DEF Covers
<1> QED
  BY <1>1, <1>2

(* What may be advised: a correction of a price below the cost or below    *)
(* the floor, or a markdown or markup of one that is neither.              *)
Advisable(f, c, floor, advice) ==
    /\ advice \in Nat /\ advice # f.price
    /\ c.margin < 100 => advice >= floor /\ advice >= f.cost
    /\ f.price >= floor => /\ (advice + 500) * 100 >= f.price * (100 - c.maxMarkdown)
                           /\ (advice - 500) * 100 <= f.price * (100 + c.maxMarkup)

(* A correction lifts a price below the floor to the floor or above it.    *)
LEMMA CorrectionAdvisable ==
    ASSUME NEW f, f.price \in Nat, f.cost \in Nat, NEW c \in Settings, NEW u \in BOOLEAN, NEW floor,
           floor = Engine!MinimumPrice(f.cost, c.margin, u), Engine!Correction(f, floor) # Engine!NoAdvice
    PROVE  Advisable(f, c, floor, Engine!Correction(f, floor)) /\ f.price < floor
<1>1. c.margin \in 0..100
  BY DEF Settings
<1>2. floor \in Nat /\ floor >= f.cost
  <2>1. PICK m : m = c.margin
    OBVIOUS
  <2>2. PICK z : z = f.cost
    OBVIOUS
  <2>3. z \in Nat /\ m \in 0..100 /\ floor = Engine!MinimumPrice(z, m, u)
    BY <1>1, <2>1, <2>2
  <2>4. Covers(floor, f.cost, c.margin)
    BY <2>1, <2>2, <2>3, FloorCovers
  <2> QED
    BY <2>4, SMT DEF Covers
<1>3. PICK advice : advice = Engine!Correction(f, floor)
  OBVIOUS
<1>4. CASE f.cost > 0 /\ f.price < f.cost
  <2>1. PICK q : q = Engine!CeilDiv(115 * f.cost, 100000)
    OBVIOUS
  <2>2. q \in Int /\ 115 * f.cost <= 100000 * q
    <3>1. PICK a \in Int : a = 115 * f.cost
      OBVIOUS
    <3>2. PICK b \in Int : b = 100000
      OBVIOUS
    <3>3. q = Engine!CeilDiv(a, b)
      BY <2>1, <3>1, <3>2, SMT
    <3>4. b > 0
      BY <3>2, SMT
    <3>5. q \in Int /\ a <= b * q
      BY <3>3, <3>4, RoundedUp
    <3>6. a <= 100000 * q
      BY <3>2, <3>5, SMT
    <3> QED
      BY <3>1, <3>5, <3>6, SMT
  <2>a. PICK least : least = Engine!AtLeast(floor, 1000 * Engine!CeilDiv(115 * f.cost, 100000))
    OBVIOUS
  <2>b. advice = least
    BY <1>3, <1>4, <2>a, SMT DEF Engine!Correction
  <2>3. advice = Engine!AtLeast(floor, 1000 * q)
    BY <2>1, <2>a, <2>b, SMT
  <2>4. advice = floor \/ advice = 1000 * q
    BY <2>3 DEF Engine!AtLeast
  <2>5. advice >= floor /\ advice \in Nat /\ 1000 * q >= f.cost
    BY <1>2, <2>2, <2>3 DEF Engine!AtLeast
  <2>6. f.price < floor /\ advice # f.price /\ advice >= f.cost
    BY <1>2, <1>4, <2>4, <2>5
  <2> QED
    BY <1>2, <1>3, <2>5, <2>6 DEF Advisable
<1>5. CASE ~(f.cost > 0 /\ f.price < f.cost)
  <2>1. f.cost > 0 /\ f.price < floor /\ advice = floor
    BY <1>3, <1>5 DEF Engine!Correction
  <2> QED
    BY <1>2, <1>3, <2>1 DEF Advisable
<1> QED
  BY <1>4, <1>5

(* A markdown or markup starts from a price that covers the floor, and     *)
(* rounding to thousands cannot take it below one in thousands.            *)
LEMMA DemandAdvisable ==
    ASSUME NEW f, f.price \in Nat, f.cost \in Nat, NEW c \in Settings, NEW u \in BOOLEAN, NEW floor,
           floor = Engine!MinimumPrice(f.cost, c.margin, u),
           Engine!Correction(f, floor) = Engine!NoAdvice,
           Engine!DemandAdvice(f, c, floor) # Engine!NoAdvice
    PROVE  Advisable(f, c, floor, Engine!DemandAdvice(f, c, floor))
<1>1. c.margin \in 0..100 /\ c.maxMarkdown \in 0..100 /\ c.maxMarkup \in 0..100
  BY DEF Settings
<1>2. /\ floor \in Nat /\ floor >= f.cost /\ (f.cost = 0 => floor = 0)
      /\ c.margin < 100 => \E k \in Nat : floor = 1000 * k
  <2>1. PICK m : m = c.margin
    OBVIOUS
  <2>2. PICK z : z = f.cost
    OBVIOUS
  <2>3. z \in Nat /\ m \in 0..100 /\ floor = Engine!MinimumPrice(z, m, u)
    BY <1>1, <2>1, <2>2
  <2>4. Covers(floor, f.cost, c.margin)
    BY <2>1, <2>2, <2>3, FloorCovers
  <2> QED
    BY <2>4, SMT DEF Covers
<1>3. f.price >= floor
  <2>1. ASSUME f.cost > 0, f.price < floor PROVE FALSE
    <3>1. f.price >= f.cost
      <4>1. PICK q : q = Engine!CeilDiv(115 * f.cost, 100000)
        OBVIOUS
      <4>2. q \in Int /\ 115 * f.cost <= 100000 * q
        <5>1. PICK a \in Int : a = 115 * f.cost
          OBVIOUS
        <5>2. PICK b \in Int : b = 100000
          OBVIOUS
        <5>3. q = Engine!CeilDiv(a, b)
          BY <4>1, <5>1, <5>2, SMT
        <5>4. b > 0
          BY <5>2, SMT
        <5>5. q \in Int /\ a <= b * q
          BY <5>3, <5>4, RoundedUp
        <5>6. a <= 100000 * q
          BY <5>2, <5>5, SMT
        <5> QED
          BY <5>1, <5>5, <5>6, SMT
      <4>a. PICK least : least = Engine!AtLeast(floor, 1000 * Engine!CeilDiv(115 * f.cost, 100000))
        OBVIOUS
      <4>b. f.price < f.cost => Engine!Correction(f, floor) = least
        BY <2>1, <4>a, SMT DEF Engine!Correction
      <4>3. f.price < f.cost => Engine!Correction(f, floor) = Engine!AtLeast(floor, 1000 * q)
        BY <4>1, <4>a, <4>b, SMT
      <4>4. Engine!AtLeast(floor, 1000 * q) >= floor /\ Engine!AtLeast(floor, 1000 * q) \in Int
        BY <1>2, <4>2 DEF Engine!AtLeast
      <4> QED
        BY <1>2, <2>1, <4>3, <4>4 DEF Engine!NoAdvice
    <3>2. Engine!Correction(f, floor) = floor
      BY <2>1, <3>1 DEF Engine!Correction
    <3> QED
      BY <1>2, <2>1, <3>2 DEF Engine!NoAdvice
  <2> QED
    BY <1>2, <2>1
<1>4. PICK down : down = Engine!MarkdownPrice(f, c, floor)
  OBVIOUS
<1>5. PICK rise : rise = Engine!MarkupPrice(f, c)
  OBVIOUS
<1>6. PICK advice : advice = Engine!DemandAdvice(f, c, floor)
  OBVIOUS
<1>7. (advice = down /\ down < f.price) \/ (advice = rise /\ rise > f.price)
  BY <1>4, <1>5, <1>6 DEF Engine!DemandAdvice
<1>8. CASE advice = down /\ down < f.price
  <2>1. PICK m : m = Engine!Markdown(f, c)
    OBVIOUS
  <2>2. m \in Int /\ m <= c.maxMarkdown
    <3> DEFINE base == IF f.idle >= 2 * c.deadStockDays THEN 25 ELSE IF f.idle >= c.deadStockDays THEN 15 ELSE 10
               trend == CASE f.trend = "STRONG_DOWN" -> 5 [] f.trend = "DOWN" -> 3
                          [] f.trend \in {"UP", "STRONG_UP"} -> -5 [] OTHER -> 0
    <3>1. base \in Int /\ trend \in Int
      OBVIOUS
    <3>2. m = Engine!AtMost(c.maxMarkdown, Engine!AtLeast(5, base + trend))
      BY <2>1 DEF Engine!Markdown
    <3> HIDE DEF base, trend
    <3> QED
      BY <1>1, <3>1, <3>2 DEF Engine!AtMost, Engine!AtLeast
  <2>3. PICK p : p = f.price * (100 - m)
    OBVIOUS
  <2>4. p \in Int /\ p >= f.price * (100 - c.maxMarkdown)
    <3>1. PICK a \in Int : a = 100 - m
      BY <2>2
    <3>2. PICK b \in Int : b = 100 - c.maxMarkdown /\ b <= a
      BY <1>1, <2>2, <3>1
    <3>3. f.price * b <= f.price * a
      BY <3>1, <3>2
    <3> QED
      BY <2>3, <3>1, <3>2, <3>3
  <2>5. PICK x : x = Engine!AtLeast(100 * floor, p)
    OBVIOUS
  <2>6. x \in Int /\ x >= 100 * floor /\ x >= p
    BY <1>2, <2>4, <2>5 DEF Engine!AtLeast
  <2>7. PICK q : q = Engine!Rounded(x, 100000)
    OBVIOUS
  <2>8. q \in Int /\ 2 * x < 2 * (100000 * q) + 100000
    BY <2>6, <2>7, RoundedNear
  <2>9. advice = 1000 * q
    BY <1>4, <1>8, <2>1, <2>3, <2>5, <2>7 DEF Engine!MarkdownPrice
  <2>10. advice \in Nat
    BY <1>2, <2>6, <2>8, <2>9
  <2>11. c.margin < 100 => advice >= floor
    BY <1>2, <2>6, <2>8, <2>9
  <2>12. (advice + 500) * 100 >= f.price * (100 - c.maxMarkdown)
    <3>1. f.price * (100 - c.maxMarkdown) \in Int
      BY <1>1
    <3> QED
      BY <2>4, <2>6, <2>8, <2>9, <3>1
  <2>13. (advice - 500) * 100 <= f.price * (100 + c.maxMarkup)
    <3>1. f.price * (100 + c.maxMarkup) \in Int /\ f.price * 100 <= f.price * (100 + c.maxMarkup)
      BY <1>1
    <3> QED
      BY <1>8, <2>10, <3>1
  <2> QED
    BY <1>2, <1>3, <1>6, <1>8, <2>10, <2>11, <2>12, <2>13 DEF Advisable
<1>9. CASE advice = rise /\ rise > f.price
  <2>1. PICK m : m = Engine!AtMost(c.maxMarkup, IF f.trend = "STRONG_UP" THEN 15 ELSE 8)
    OBVIOUS
  <2>2. m \in Int /\ m <= c.maxMarkup
    BY <1>1, <2>1 DEF Engine!AtMost
  <2>3. PICK p : p = f.price * (100 + m)
    OBVIOUS
  <2>4. p \in Int /\ p <= f.price * (100 + c.maxMarkup)
    BY <1>1, <2>2, <2>3
  <2>5. PICK q : q = Engine!Rounded(p, 100000)
    OBVIOUS
  <2>6. q \in Int /\ 2 * (100000 * q) <= 2 * p + 100000
    BY <2>4, <2>5, RoundedNear
  <2>7. advice = 1000 * q
    BY <1>5, <1>9, <2>1, <2>3, <2>5 DEF Engine!MarkupPrice
  <2>8. advice \in Nat /\ advice > f.price
    BY <1>9, <2>6, <2>7
  <2>9. (advice + 500) * 100 >= f.price * (100 - c.maxMarkdown)
    <3>1. f.price * (100 - c.maxMarkdown) \in Int /\ f.price * (100 - c.maxMarkdown) <= f.price * 100
      BY <1>1
    <3> QED
      BY <2>8, <3>1
  <2>10. (advice - 500) * 100 <= f.price * (100 + c.maxMarkup)
    <3>1. f.price * (100 + c.maxMarkup) \in Int
      BY <1>1
    <3> QED
      BY <2>4, <2>6, <2>7, <3>1
  <2> QED
    BY <1>2, <1>3, <1>6, <2>8, <2>9, <2>10 DEF Advisable
<1> QED
  BY <1>7, <1>8, <1>9

(* Of an item and settings as the engine has them, whatever the analysis   *)
(* advises is advisable, and the advised price asks for no correction.     *)
LEMMA AdviceAdvisable ==
    ASSUME NEW f, f.price \in Nat, f.cost \in Nat, NEW c \in Settings, NEW u \in BOOLEAN, NEW floor,
           floor = Engine!MinimumPrice(f.cost, c.margin, u),
           Engine!Advice(f, c, floor) # Engine!NoAdvice
    PROVE  Advisable(f, c, floor, Engine!Advice(f, c, floor))
<1>1. CASE Engine!Correction(f, floor) # Engine!NoAdvice
  <2>1. Engine!Advice(f, c, floor) = Engine!Correction(f, floor)
    BY <1>1 DEF Engine!Advice
  <2> QED
    BY <1>1, <2>1, CorrectionAdvisable
<1>2. CASE Engine!Correction(f, floor) = Engine!NoAdvice
  <2>1. Engine!Advice(f, c, floor) = Engine!DemandAdvice(f, c, floor)
    BY <1>2 DEF Engine!Advice
  <2> QED
    BY <1>2, <2>1, DemandAdvisable
<1> QED
  BY <1>1, <1>2

(* What the analysis says of its advice.                                   *)
LEMMA AnalysisAdvises ==
    ASSUME NEW i, NEW c, NEW u
    PROVE  \E f : /\ f.price = i.price /\ f.cost = i.cost
                  /\ Engine!Analysis(i, c, u).floor = Engine!MinimumPrice(i.cost, c.margin, u)
                  /\ Engine!Analysis(i, c, u).advice
                       = Engine!Advice(f, c, Engine!MinimumPrice(i.cost, c.margin, u))
<1> DEFINE enough == i.days >= c.minimumHistory
           d == Engine!Demand(i.series, i.days)
           point == Engine!AtLeast(i.min, IF enough THEN Engine!ReorderPoint(d.avg, c.lead, i.safety) ELSE 0)
           cover == IF enough THEN Engine!DaysOfCover(i.available, d.avg) ELSE Engine!NoDays
           ratio == IF enough THEN d.ratio ELSE 100
           confidence == Engine!Confidence(i.days, c.minimumHistory, d.sellingDays)
           stockout == Engine!StockoutScore(i.available, point, cover, ratio, c)
           overstock == Engine!OverstockScore(i.available, i.max, cover, ratio, point, c)
           facts == [price |-> i.price, cost |-> i.cost, available |-> i.available, idle |-> i.idle,
                     cover |-> cover, stockout |-> stockout, overstock |-> overstock,
                     trend |-> d.trend, enough |-> enough, confidence |-> confidence]
<1>1. Engine!Analysis(i, c, u).floor = Engine!MinimumPrice(i.cost, c.margin, u)
  BY DEF Engine!Analysis
<1>2. Engine!Analysis(i, c, u).advice = Engine!Advice(facts, c, Engine!MinimumPrice(i.cost, c.margin, u))
  BY DEF Engine!Analysis
<1>3. facts.price = i.price /\ facts.cost = i.cost
  OBVIOUS
<1> HIDE DEF facts
<1> QED
  BY <1>1, <1>2, <1>3

(* An analysis is its fields.                                              *)
Fields(a) ==
    [enough |-> a.enough, cover |-> a.cover, reorderPoint |-> a.reorderPoint,
     reorderQuantity |-> a.reorderQuantity, stockout |-> a.stockout,
     stockoutSeverity |-> a.stockoutSeverity, overstock |-> a.overstock,
     overstockSeverity |-> a.overstockSeverity, slow |-> a.slow, dead |-> a.dead,
     deadCritical |-> a.deadCritical, unusual |-> a.unusual, risk |-> a.risk,
     floor |-> a.floor, advice |-> a.advice]
(* Two analyses with the same fields are the same.                         *)
LEMMA AnalysisFields ==
    ASSUME NEW i, NEW c, NEW u
    PROVE  Engine!Analysis(i, c, u) = Fields(Engine!Analysis(i, c, u))
BY ZenonT(60) DEF Engine!Analysis, Fields

(* With too little history neither the demand nor the confidence enters    *)
(* what is advised.                                                        *)
LEMMA NoHistoryNoEstimate ==
    ASSUME NEW i \in Goods, NEW s, NEW c, NEW u, ~Engine!Analysis(i, c, u).enough
    PROVE  Engine!Analysis([i EXCEPT !.series = s], c, u) = Engine!Analysis(i, c, u)
<1>1. PICK j : j = [i EXCEPT !.series = s]
  OBVIOUS
<1>2. /\ j.available = i.available /\ j.price = i.price /\ j.cost = i.cost /\ j.min = i.min /\ j.max = i.max
      /\ j.safety = i.safety /\ j.days = i.days /\ j.idle = i.idle
  BY <1>1 DEF Goods
<1>3. ~(i.days >= c.minimumHistory)
  BY DEF Engine!Analysis
<1> DEFINE point == Engine!AtLeast(i.min, 0)
           stockout == Engine!StockoutScore(i.available, point, Engine!NoDays, 100, c)
           overstock == Engine!OverstockScore(i.available, i.max, Engine!NoDays, 100, point, c)
           idle == Engine!SlowAndDead(i.available, i.idle, c)
           floor == Engine!MinimumPrice(i.cost, c.margin, u)
           advice == Engine!Correction([price |-> i.price, cost |-> i.cost], floor)
           wanted == Engine!ReorderQuantity([available |-> i.available, min |-> i.min, max |-> i.max,
                                             safety |-> 0], c, point, FALSE, 0)
           Facts == [enough |-> FALSE, cover |-> Engine!NoDays, reorderPoint |-> point,
                     reorderQuantity |-> wanted,
                     stockout |-> stockout, stockoutSeverity |-> Engine!Severity(stockout, c),
                     overstock |-> overstock, overstockSeverity |-> Engine!Severity(overstock, c),
                     slow |-> idle.slow, dead |-> idle.dead, deadCritical |-> idle.critical,
                     unusual |-> "NONE",
                     risk |-> Engine!Classify(i.available, point, stockout, overstock, idle.dead, c.high),
                     floor |-> floor, advice |-> advice]
<1>4. \A f, avg : Engine!ReorderQuantity(f, c, point, FALSE, avg) = Engine!ReorderQuantity(f, c, point, FALSE, 0)
  BY Zenon DEF Engine!ReorderQuantity
<1>5. \A f : f.price = i.price /\ f.cost = i.cost /\ f.enough = FALSE
                => Engine!Advice(f, c, floor) = advice
  BY DEF Engine!Advice, Engine!Correction, Engine!NoAdvice
<1>6. ASSUME NEW k, k = i \/ k = j
      PROVE  Engine!Analysis(k, c, u) = Facts
  <2>1. /\ k.available = i.available /\ k.price = i.price /\ k.cost = i.cost /\ k.min = i.min /\ k.max = i.max
        /\ k.safety = i.safety /\ k.days = i.days /\ k.idle = i.idle
    BY <1>2, <1>6
  <2>2. (k.days >= c.minimumHistory) = FALSE
    BY <1>3, <2>1
  <2>3. Engine!Analysis(k, c, u).enough = FALSE
    BY <2>2 DEF Engine!Analysis
  <2>4. Engine!Analysis(k, c, u).cover = Engine!NoDays
    BY <2>2 DEF Engine!Analysis
  <2>5. Engine!Analysis(k, c, u).reorderPoint = point
    BY <2>1, <2>2 DEF Engine!Analysis
  <2>6. Engine!Analysis(k, c, u).stockout = stockout
    BY <2>1, <2>2 DEF Engine!Analysis
  <2>7. Engine!Analysis(k, c, u).overstock = overstock
    BY <2>1, <2>2 DEF Engine!Analysis
  <2>8. Engine!Analysis(k, c, u).floor = floor
    BY <2>1 DEF Engine!Analysis
  <2>9. Engine!Analysis(k, c, u).unusual = "NONE"
    BY <2>1, <2>2 DEF Engine!Analysis
  <2>10. /\ Engine!Analysis(k, c, u).slow = idle.slow
         /\ Engine!Analysis(k, c, u).dead = idle.dead
         /\ Engine!Analysis(k, c, u).deadCritical = idle.critical
    BY <2>1 DEF Engine!Analysis
  <2>11. Engine!Analysis(k, c, u).risk = Engine!Classify(i.available, point, stockout, overstock, idle.dead, c.high)
    BY <2>1, <2>2 DEF Engine!Analysis
  <2>12. Engine!Analysis(k, c, u).stockoutSeverity = Engine!Severity(stockout, c)
    BY <2>1, <2>2 DEF Engine!Analysis
  <2>13. Engine!Analysis(k, c, u).overstockSeverity = Engine!Severity(overstock, c)
    BY <2>1, <2>2 DEF Engine!Analysis
  <2>14. Engine!Analysis(k, c, u).reorderQuantity = wanted
    BY <1>4, <2>1, <2>2 DEF Engine!Analysis
  <2>15. Engine!Analysis(k, c, u).advice = advice
    BY <1>5, <2>1, <2>2 DEF Engine!Analysis
  <2> HIDE DEF advice, wanted, floor, idle, overstock, stockout, point
  <2> QED
    BY <2>3, <2>4, <2>5, <2>6, <2>7, <2>8, <2>9, <2>10, <2>11, <2>12, <2>13, <2>14, <2>15,
       AnalysisFields DEF Fields
<1> QED
  BY <1>1, <1>6, ZenonT(60)

(* The items and settings are of this kind, and stay it.                   *)
EngineSafe == sku \in Goods /\ sku.series # <<>> /\ settings \in Settings /\ above \in BOOLEAN

(* An item begins as one, under settings that are let through.             *)
LEMMA EngineSafeInit == Engine!Init => EngineSafe
<1> SUFFICES ASSUME Engine!Init PROVE EngineSafe
  OBVIOUS
<1>1. sku \in Good /\ settings \in Setting /\ above \in BOOLEAN
  BY DEF Engine!Init
<1>2. sku \in Goods /\ sku.series # <<>>
  BY <1>1, EngineAssumption
<1>3. settings \in Settings
  BY <1>1, EngineAssumption
<1> QED
  BY <1>1, <1>2, <1>3 DEF EngineSafe

(* Stock, days, settings and followed advice leave an item of this kind.   *)
LEMMA EngineSafeStep ==
    ASSUME EngineSafe, [Engine!Next]_engine
    PROVE  EngineSafe'
<1> USE DEF EngineSafe
<1>0. Quantity \subseteq Nat
  BY EngineAssumption
<1>1. CASE UNCHANGED engine
  BY <1>1 DEF engine
<1>2. ASSUME NEW q \in Quantity, Engine!Receive(q)
      PROVE  EngineSafe'
  <2>1. sku' = [sku EXCEPT !.available = sku.available + q] /\ sku.available + q \in Nat
        /\ UNCHANGED <<settings, above>>
    BY <1>0, <1>2 DEF Engine!Receive, Engine!Step, Goods
  <2> QED
    BY <2>1 DEF Goods
<1>3. ASSUME NEW q \in Quantity, Engine!Issue(q)
      PROVE  EngineSafe'
  <2>1. sku' = [sku EXCEPT !.available = sku.available - q] /\ sku.available - q \in Nat
        /\ UNCHANGED <<settings, above>>
    BY <1>0, <1>3 DEF Engine!Issue, Engine!Step, Goods
  <2> QED
    BY <2>1 DEF Goods
<1>4. ASSUME NEW q \in Quantity \cup {0}, Engine!DayEnds(q)
      PROVE  EngineSafe'
  <2>1. PICK series : series = Append(Tail(sku.series), q)
    OBVIOUS
  <2>2. PICK days : days = Engine!AtMost(90, sku.days + 1)
    OBVIOUS
  <2>3. PICK idle : idle = (IF q > 0 THEN 1 ELSE IF sku.idle = Engine!NoDays THEN Engine!NoDays ELSE sku.idle + 1)
    OBVIOUS
  <2>4. sku' = [sku EXCEPT !.series = series, !.days = days, !.idle = idle] /\ UNCHANGED <<settings, above>>
    BY <1>4, <2>1, <2>2, <2>3 DEF Engine!DayEnds, Engine!Step
  <2>5. series \in Seq(Int) /\ days \in Nat /\ idle \in Int
    <3>1. sku.series \in Seq(Int) /\ sku.days \in Nat /\ sku.idle \in Int
      BY DEF Goods
    <3> QED
      BY <1>0, <2>1, <2>2, <2>3, <3>1 DEF Engine!AtMost, Engine!NoDays
  <2>a. series # <<>>
    <3>1. Tail(sku.series) \in Seq(Int)
      BY DEF Goods
    <3> QED
      BY <1>0, <2>1, <3>1
  <2>6. PICK one : one = [sku EXCEPT !.series = series]
    OBVIOUS
  <2>7. PICK two : two = [one EXCEPT !.days = days]
    OBVIOUS
  <2>8. one \in Goods /\ two \in Goods /\ sku' = [two EXCEPT !.idle = idle]
    BY <2>4, <2>5, <2>6, <2>7 DEF Goods
  <2>9. sku' \in Goods /\ sku'.series = series
    BY <2>5, <2>6, <2>7, <2>8 DEF Goods
  <2> QED
    BY <2>4, <2>9, <2>a
<1>5. CASE Engine!Configure
  <2>1. settings' \in Setting /\ UNCHANGED <<sku, above>>
    BY <1>5 DEF Engine!Configure, Engine!Step
  <2> QED
    BY <2>1, EngineAssumption
<1>6. CASE Engine!Follow
  <2>1. PICK advice : advice = Engine!Analysis(sku, settings, above).advice
    OBVIOUS
  <2>2. advice # Engine!NoAdvice /\ sku' = [sku EXCEPT !.price = advice] /\ UNCHANGED <<settings, above>>
    BY <1>6, <2>1 DEF Engine!Follow, Engine!Step
  <2>3. advice \in Nat
    <3>1. PICK f : /\ f.price = sku.price /\ f.cost = sku.cost
                   /\ advice = Engine!Advice(f, settings, Engine!MinimumPrice(sku.cost, settings.margin, above))
      BY <2>1, AnalysisAdvises
    <3>2. f.price \in Nat /\ f.cost \in Nat
      BY <3>1 DEF Goods
    <3>3. PICK floor : floor = Engine!MinimumPrice(f.cost, settings.margin, above)
      OBVIOUS
    <3>4. Advisable(f, settings, floor, advice)
      BY <2>2, <3>1, <3>2, <3>3, AdviceAdvisable
    <3> QED
      BY <3>4 DEF Advisable
  <2> QED
    BY <2>2, <2>3 DEF Goods
<1> QED
  BY <1>1, <1>2, <1>3, <1>4, <1>5, <1>6 DEF Engine!Next, engine

(* Whatever is advised is safe, and without enough history the analysis    *)
(* does not depend on what was sold.                                       *)
LEMMA AdviceIsAlwaysSafe ==
    ASSUME EngineSafe
    PROVE  Engine!AdviceIsSafe /\ Engine!FactsOnlyWithoutHistory
<1>1. PICK a : a = Engine!Analysis(sku, settings, above)
  OBVIOUS
<1>2. ASSUME a.advice # Engine!NoAdvice
      PROVE  /\ Advisable(sku, settings, a.floor, a.advice)
             /\ settings.margin < 100 =>
                   Engine!Correction([sku EXCEPT !.price = a.advice], a.floor) = Engine!NoAdvice
  <2>1. PICK f : /\ f.price = sku.price /\ f.cost = sku.cost
                 /\ a.floor = Engine!MinimumPrice(sku.cost, settings.margin, above)
                 /\ a.advice = Engine!Advice(f, settings, Engine!MinimumPrice(sku.cost, settings.margin, above))
    BY <1>1, AnalysisAdvises
  <2>2. f.price \in Nat /\ f.cost \in Nat /\ settings \in Settings /\ above \in BOOLEAN
    BY <2>1 DEF EngineSafe, Goods
  <2>3. PICK floor : floor = a.floor
    OBVIOUS
  <2>4. floor = Engine!MinimumPrice(f.cost, settings.margin, above) /\ a.advice = Engine!Advice(f, settings, floor)
    BY <2>1, <2>3
  <2>5. Advisable(f, settings, floor, a.advice)
    BY <1>2, <2>2, <2>4, AdviceAdvisable
  <2>6. Advisable(sku, settings, floor, a.advice)
    BY <2>1, <2>5 DEF Advisable
  <2>7. ASSUME settings.margin < 100
        PROVE  Engine!Correction([sku EXCEPT !.price = a.advice], a.floor) = Engine!NoAdvice
    <3>1. PICK k : k = [sku EXCEPT !.price = a.advice]
      OBVIOUS
    <3>2. k.price = a.advice /\ k.cost = sku.cost
      BY <3>1 DEF EngineSafe, Goods
    <3>3. floor \in Nat
      <4>1. PICK m : m = settings.margin
        OBVIOUS
      <4>2. PICK z : z = f.cost
        OBVIOUS
      <4>3. z \in Nat /\ m \in 0..100 /\ floor = Engine!MinimumPrice(z, m, above)
        BY <2>2, <2>4, <4>1, <4>2 DEF Settings
      <4>4. Covers(floor, z, m)
        BY <2>2, <4>3, FloorCovers
      <4> QED
        BY <4>4 DEF Covers
    <3>4. a.advice \in Nat /\ a.advice >= floor /\ a.advice >= sku.cost /\ sku.cost \in Nat
      BY <2>1, <2>2, <2>6, <2>7 DEF Advisable
    <3>5. ~(k.price < k.cost) /\ ~(k.price < floor)
      BY <3>2, <3>3, <3>4
    <3>6. Engine!Correction(k, floor) = Engine!NoAdvice
      BY <3>5, SMT DEF Engine!Correction
    <3> QED
      BY <2>3, <3>1, <3>6
  <2> QED
    BY <2>3, <2>6, <2>7
<1>3. Engine!AdviceIsSafe
  BY <1>1, <1>2, SMT DEF Engine!AdviceIsSafe, Advisable
<1>4. ASSUME ~a.enough, NEW s \in History
      PROVE  Engine!Analysis([sku EXCEPT !.series = s], settings, above) = a
  BY <1>1, <1>4, NoHistoryNoEstimate DEF EngineSafe
<1> QED
  BY <1>1, <1>3, <1>4 DEF Engine!FactsOnlyWithoutHistory
-----------------------------------------------------------------------------
(* The demand of an item is a number.  A partial sum of a series, up to n. *)
IsSum(f, s, n) ==
    /\ f \in [0..n -> Int] /\ f[0] = 0
    /\ \A m \in 1..n : f[m] = f[m - 1] + s[m]

(* Every series of numbers has its sums: the first length without them     *)
(* would be one more than a length with them.                              *)
LEMMA SumsExist ==
    ASSUME NEW s \in Seq(Int), NEW n \in 0..Len(s)
    PROVE  \E f : IsSum(f, s, n)
<1>0. Len(s) \in Nat /\ \A m \in 1..Len(s) : s[m] \in Int
  BY LenProperties, ElementOfSeq
<1>1. PICK Missing : Missing = {m \in 0..Len(s) : ~\E f : IsSum(f, s, m)}
  OBVIOUS
<1>2. ASSUME NEW m \in Missing, \A k \in Missing : m <= k
      PROVE  FALSE
  <2>1. m \in 0..Len(s) /\ ~\E f : IsSum(f, s, m)
    BY <1>1
  <2>2. m # 0
    <3>1. PICK g : g = [k \in 0..0 |-> 0]
      OBVIOUS
    <3>2. IsSum(g, s, 0)
      BY <3>1 DEF IsSum
    <3> QED
      BY <2>1, <3>2
  <2>3. m - 1 \in 0..Len(s) /\ m - 1 \notin Missing
    BY <1>0, <1>2, <2>1, <2>2
  <2>4. PICK f : IsSum(f, s, m - 1)
    BY <1>1, <2>3
  <2>5. PICK g : g = [k \in 0..m |-> IF k = m THEN f[m - 1] + s[m] ELSE f[k]]
    OBVIOUS
  <2>6. m \in 1..Len(s) /\ s[m] \in Int /\ f \in [0..(m - 1) -> Int] /\ f[m - 1] \in Int
    BY <1>0, <2>1, <2>2, <2>4 DEF IsSum
  <2>7. g \in [0..m -> Int] /\ g[0] = 0
    BY <2>4, <2>5, <2>6 DEF IsSum
  <2>8. ASSUME NEW k \in 1..m PROVE g[k] = g[k - 1] + s[k]
    <3>1. CASE k = m
      BY <2>5, <2>6, <3>1
    <3>2. CASE k # m
      <4>1. k \in 1..(m - 1) /\ k \in 0..m /\ k - 1 \in 0..m /\ k - 1 # m
        BY <2>6, <3>2
      <4> QED
        BY <2>4, <2>5, <3>2, <4>1 DEF IsSum
    <3> QED
      BY <3>1, <3>2
  <2> QED
    BY <2>1, <2>7, <2>8 DEF IsSum
<1>3. Missing = {}
  <2> SUFFICES ASSUME Missing # {} PROVE FALSE
    OBVIOUS
  <2>1. Missing \in SUBSET Nat
    BY <1>0, <1>1
  <2> QED
    BY <1>2, <2>1, LeastNatural
<1> QED
  BY <1>1, <1>3

(* What is sold over a series is a number.                                 *)
LEMMA SoldIsNumber ==
    ASSUME NEW s \in Seq(Int)
    PROVE  Engine!Sold(s) \in Int
<1> DEFINE Step(f) == [n \in 0..Len(s) |-> IF n = 0 THEN 0 ELSE f[n - 1] + s[n]]
<1>0. Len(s) \in Nat /\ \A m \in 1..Len(s) : s[m] \in Int
  BY LenProperties, ElementOfSeq
<1>1. PICK sum : sum = CHOOSE f : f = Step(f)
  OBVIOUS
<1>2. Engine!Sold(s) = sum[Len(s)]
  BY <1>1 DEF Engine!Sold
<1>3. sum = Step(sum)
  <2>1. PICK g : IsSum(g, s, Len(s))
    BY <1>0, SumsExist
  <2>2. g = Step(g)
    <3>1. g = [n \in 0..Len(s) |-> g[n]]
      BY <2>1 DEF IsSum
    <3>2. ASSUME NEW n \in 0..Len(s) PROVE g[n] = IF n = 0 THEN 0 ELSE g[n - 1] + s[n]
      <4>1. n = 0 \/ n \in 1..Len(s)
        BY <1>0
      <4> QED
        BY <2>1, <4>1 DEF IsSum
    <3> QED
      BY <3>1, <3>2
  <2> HIDE DEF Step
  <2> QED
    BY <1>1, <2>2
<1>4. \A n \in 0..Len(s) : sum[n] = IF n = 0 THEN 0 ELSE sum[n - 1] + s[n]
  BY <1>3
<1>5. PICK Wrong : Wrong = {n \in 0..Len(s) : sum[n] \notin Int}
  OBVIOUS
<1>6. ASSUME NEW m \in Wrong, \A k \in Wrong : m <= k
      PROVE  FALSE
  <2>1. m \in 0..Len(s) /\ sum[m] \notin Int
    BY <1>5
  <2>2. m # 0
    BY <1>4, <2>1
  <2>3. m \in 1..Len(s) /\ m - 1 \in 0..Len(s) /\ m - 1 \notin Wrong
    BY <1>0, <1>6, <2>1, <2>2
  <2>4. sum[m - 1] \in Int /\ s[m] \in Int
    BY <1>0, <1>5, <2>3
  <2> QED
    BY <1>4, <2>1, <2>2, <2>4
<1>7. Wrong = {}
  <2> SUFFICES ASSUME Wrong # {} PROVE FALSE
    OBVIOUS
  <2>1. Wrong \in SUBSET Nat
    BY <1>0, <1>5
  <2> QED
    BY <1>6, <2>1, LeastNatural
<1> QED
  BY <1>0, <1>2, <1>5, <1>7

(* Part of a series is a series.                                           *)
LEMMA PartOfSeries ==
    ASSUME NEW s \in Seq(Int), NEW m \in Int, m >= 1, m <= Len(s) + 1
    PROVE  SubSeq(s, m, Len(s)) \in Seq(Int)
<1>1. Len(s) \in Nat
  BY LenProperties
<1>2. m \in 1..(Len(s) + 1) /\ Len(s) \in (m - 1)..Len(s)
  BY <1>1
<1> QED
  BY <1>2, SubSeqProperties

(* Rates and trends of demand are numbers.                                 *)
LEMMA DemandIsNumber ==
    ASSUME NEW s \in Seq(Int), NEW n \in Nat
    PROVE  Engine!Demand(s, n).avg \in Int /\ Engine!Demand(s, n).ratio \in Int
<1>1. ASSUME NEW t \in Seq(Int)
      PROVE  Engine!Average(t) \in Int
  <2>1. CASE t = <<>>
    BY <2>1 DEF Engine!Average
  <2>2. CASE t # <<>>
    <3>1. Len(t) \in Nat /\ Len(t) # 0
      BY <2>2, LenProperties, EmptySeq
    <3>2. PICK a \in Int : a = 100 * Engine!Sold(t)
      BY SoldIsNumber
    <3>3. PICK l \in Int : l = Len(t) /\ l > 0
      BY <3>1
    <3>4. Engine!Rounded(a, l) \in Int
      BY <3>3, RoundedNear
    <3> QED
      BY <2>2, <3>2, <3>3, <3>4 DEF Engine!Average
  <2> QED
    BY <2>1, <2>2
<1>2. PICK e : e = Engine!Exposed(s, n)
  OBVIOUS
<1>3. e \in Seq(Int)
  <2>1. PICK m : m = Engine!AtLeast(Len(s) - Engine!AtLeast(n, 0) + 1, 1)
    OBVIOUS
  <2>2. m \in Int /\ m >= 1 /\ m <= Len(s) + 1
    BY <2>1, LenProperties DEF Engine!AtLeast
  <2> QED
    BY <1>2, <2>1, <2>2, PartOfSeries DEF Engine!Exposed
<1>4. Engine!Tail7(e) \in Seq(Int) /\ Engine!Tail30(e) \in Seq(Int)
  <2>1. ASSUME NEW k \in {6, 29}
        PROVE  SubSeq(e, Engine!AtLeast(Len(e) - k, 1), Len(e)) \in Seq(Int)
    <3>1. PICK m : m = Engine!AtLeast(Len(e) - k, 1)
      OBVIOUS
    <3>2. m \in Int /\ m >= 1 /\ m <= Len(e) + 1
      BY <1>3, <3>1, LenProperties DEF Engine!AtLeast
    <3> QED
      BY <1>3, <3>1, <3>2, PartOfSeries
  <2> QED
    BY <2>1 DEF Engine!Tail7, Engine!Tail30
<1>5. PICK week : week = Engine!Average(Engine!Tail7(e))
  OBVIOUS
<1>6. PICK month : month = Engine!Average(Engine!Tail30(e))
  OBVIOUS
<1>7. week \in Int /\ month \in Int
  BY <1>1, <1>4, <1>5, <1>6
<1>8. PICK ratio : ratio = IF month # 0 THEN Engine!Rounded(100 * week * month, month * month)
                           ELSE IF week > 0 THEN 200 ELSE 100
  OBVIOUS
<1>9. ratio \in Int
  <2>1. PICK a \in Int : a = 100 * week * month
    BY <1>7
  <2>2. PICK b \in Int : b = month * month
    BY <1>7
  <2>3. month # 0 => b > 0
    BY <1>7, <2>2
  <2>4. month # 0 => Engine!Rounded(a, b) \in Int
    BY <2>3, RoundedNear
  <2> QED
    BY <1>8, <2>1, <2>2, <2>4
<1>10. Engine!Demand(s, n).avg = month /\ Engine!Demand(s, n).ratio = ratio
  BY <1>2, <1>5, <1>6, <1>8 DEF Engine!Demand
<1> QED
  BY <1>7, <1>9, <1>10
-----------------------------------------------------------------------------
(* How the risks follow the stock.  A product grows with each factor.      *)
LEMMA ProductGrows ==
    ASSUME NEW a \in Nat, NEW b \in Nat, NEW k \in Nat, NEW m \in Nat, a <= b, k <= m
    PROVE  a * k \in Nat /\ b * m \in Nat /\ a * k <= b * m
<1>1. a * k <= b * k
  OBVIOUS
<1>2. b * k <= b * m
  OBVIOUS
<1> QED
  BY <1>1, <1>2

(* Rounding keeps the order of fractions.                                  *)
LEMMA RoundedGrows ==
    ASSUME NEW a \in Int, NEW b \in Nat \ {0}, NEW c \in Int, NEW d \in Nat \ {0}, a * d <= c * b
    PROVE  /\ Engine!Rounded(a, b) \in Int /\ Engine!Rounded(c, d) \in Int
           /\ Engine!Rounded(a, b) <= Engine!Rounded(c, d)
<1>1. PICK p : p = Engine!Rounded(a, b)
  OBVIOUS
<1>2. PICK q : q = Engine!Rounded(c, d)
  OBVIOUS
<1>3. p \in Int /\ 2 * (b * p) <= 2 * a + b
  BY <1>1, RoundedNear
<1>4. q \in Int /\ 2 * c < 2 * (d * q) + d
  BY <1>2, RoundedNear
<1>5. ASSUME q + 1 <= p PROVE FALSE
  <2>1. PICK x \in Int : x = b * p
    BY <1>3
  <2>2. PICK y \in Int : y = d * q
    BY <1>4
  <2>3. (2 * x) * d <= (2 * a + b) * d
    BY <1>3, <2>1
  <2>4. (2 * c) * b < (2 * y + d) * b
    BY <1>4, <2>2
  <2>5. (b * d) * (q + 1) <= (b * d) * p
    BY <1>3, <1>4, <1>5
  <2>6. x * d = (b * d) * p /\ y * b + b * d = (b * d) * (q + 1)
    BY <1>3, <1>4, <2>1, <2>2
  <2>7. PICK bd \in Int : bd = b * d
    OBVIOUS
  <2>8. PICK xd \in Int : xd = x * d
    OBVIOUS
  <2>9. PICK yb \in Int : yb = y * b
    OBVIOUS
  <2>10. PICK ad \in Int : ad = a * d
    OBVIOUS
  <2>11. PICK cb \in Int : cb = c * b
    OBVIOUS
  <2>12. 2 * xd <= 2 * ad + bd
    BY <2>3, <2>7, <2>8, <2>10
  <2>13. 2 * cb < 2 * yb + bd
    BY <2>4, <2>7, <2>9, <2>11
  <2>14. yb + bd <= xd
    BY <2>5, <2>6, <2>7, <2>8, <2>9
  <2>15. ad <= cb
    BY <2>10, <2>11
  <2> QED
    BY <2>12, <2>13, <2>14, <2>15
<1> QED
  BY <1>1, <1>2, <1>3, <1>4, <1>5

(* The cover of more goods is no shorter, and is a number as soon as there *)
(* is demand.                                                              *)
LEMMA CoverGrows ==
    ASSUME NEW x \in Nat, NEW y \in Nat, x <= y, NEW avg \in Int
    PROVE  \/ Engine!DaysOfCover(x, avg) = Engine!NoDays /\ Engine!DaysOfCover(y, avg) = Engine!NoDays
           \/ /\ Engine!DaysOfCover(x, avg) \in Nat /\ Engine!DaysOfCover(y, avg) \in Nat
              /\ Engine!DaysOfCover(x, avg) <= Engine!DaysOfCover(y, avg)
<1>1. CASE avg <= 0
  BY <1>1 DEF Engine!DaysOfCover
<1>2. CASE avg > 0
  <2>0. PICK v \in Nat \ {0} : v = avg
    BY <1>2
  <2>1. PICK a \in Nat : a = 1000 * x
    OBVIOUS
  <2>2. PICK b \in Nat : b = 1000 * y
    OBVIOUS
  <2>3. a * v <= b * v
    <3>1. a <= b
      BY <2>1, <2>2
    <3> QED
      BY <3>1
  <2>4. /\ Engine!Rounded(a, v) \in Int /\ Engine!Rounded(b, v) \in Int
        /\ Engine!Rounded(a, v) <= Engine!Rounded(b, v)
    <3>1. a \in Int /\ b \in Int
      OBVIOUS
    <3> QED
      BY <2>3, <3>1, RoundedGrows
  <2>5. Engine!Rounded(a, v) >= 0
    <3>1. PICK z : z = Engine!Rounded(a, v)
      OBVIOUS
    <3>2. z \in Int /\ 2 * a < 2 * (v * z) + v
      BY <3>1, RoundedNear
    <3>3. ASSUME z <= -1 PROVE FALSE
      <4>1. v * z <= v * (-1)
        BY <3>2, <3>3
      <4>2. PICK w \in Int : w = v * z
        BY <3>2
      <4> QED
        BY <3>2, <4>1, <4>2
    <3> QED
      BY <3>1, <3>2, <3>3
  <2>6. Engine!DaysOfCover(x, avg) = Engine!Rounded(a, v) /\ Engine!DaysOfCover(y, avg) = Engine!Rounded(b, v)
    BY <1>2, <2>0, <2>1, <2>2 DEF Engine!DaysOfCover
  <2> QED
    BY <2>4, <2>5, <2>6
<1> QED
  BY <1>1, <1>2


(* Covers, of two amounts of goods of one demand.                          *)
Longer(cx, cy) ==
    \/ cx = Engine!NoDays /\ cy = Engine!NoDays
    \/ cx \in Nat /\ cy \in Nat /\ cx <= cy

(* More goods leave no greater shortage.                                   *)
LEMMA ShortageShrinks ==
    ASSUME NEW c \in Settings, NEW x \in Nat, NEW y \in Nat, x <= y, NEW point \in Nat,
           NEW cx, NEW cy, Longer(cx, cy), NEW ratio \in Int
    PROVE  /\ Engine!WeightedShortage(x, point, cx, ratio, c) \in Int
           /\ Engine!WeightedShortage(y, point, cy, ratio, c) \in Int
           /\ Engine!WeightedShortage(y, point, cy, ratio, c) <= Engine!WeightedShortage(x, point, cx, ratio, c)
<1>1. c.lead \in Nat /\ c.safetyDays \in Nat
  BY SMTT(30) DEF Settings
<1>2. PICK base : base = Engine!AtLeast(point, 1)
  OBVIOUS
<1>3. PICK need : need = 10 * Engine!AtLeast(1, c.lead + c.safetyDays)
  OBVIOUS
<1>4. base \in Nat \ {0} /\ need \in Nat \ {0}
  BY <1>1, <1>2, <1>3 DEF Engine!AtLeast
<1>5. PICK rising : rising = Engine!AtMost(Engine!AtLeast(ratio - 100, 0), 100)
  OBVIOUS
<1>6. rising \in Nat
  BY <1>5 DEF Engine!AtMost, Engine!AtLeast
<1>7. PICK sx : sx = Engine!AtLeast(0, point - x)
  OBVIOUS
<1>8. PICK sy : sy = Engine!AtLeast(0, point - y)
  OBVIOUS
<1>9. sx \in Nat /\ sy \in Nat /\ sy <= sx
  BY <1>7, <1>8 DEF Engine!AtLeast
<1>10. PICK ux : ux = IF cx # Engine!NoDays THEN Engine!AtLeast(0, need - cx)
                      ELSE IF sx > 0 THEN (7 * need) \div 10 ELSE 0
  OBVIOUS
<1>11. PICK uy : uy = IF cy # Engine!NoDays THEN Engine!AtLeast(0, need - cy)
                      ELSE IF sy > 0 THEN (7 * need) \div 10 ELSE 0
  OBVIOUS
<1>12. ux \in Nat /\ uy \in Nat /\ uy <= ux
  <2>1. PICK part_ : part_ = (7 * need) \div 10
    OBVIOUS
  <2>2. part_ \in Nat
    BY <1>4, <2>1
  <2>3. CASE cx = Engine!NoDays /\ cy = Engine!NoDays
    BY <1>9, <1>10, <1>11, <2>1, <2>2, <2>3
  <2>4. CASE cx \in Nat /\ cy \in Nat /\ cx <= cy
    <3>1. cx # Engine!NoDays /\ cy # Engine!NoDays
      BY <2>4 DEF Engine!NoDays
    <3>2. ux = Engine!AtLeast(0, need - cx) /\ uy = Engine!AtLeast(0, need - cy)
      BY <1>10, <1>11, <3>1
    <3> QED
      BY <1>4, <2>4, <3>2 DEF Engine!AtLeast
  <2> QED
    BY <2>3, <2>4 DEF Longer
<1>13. PICK d : d = 100 * base * need
  OBVIOUS
<1>14. d \in Nat \ {0}
  <2>1. PICK e \in Nat \ {0} : e = 100 * base
    BY <1>4
  <2>2. e * need \in Nat /\ e * need > 0
    BY <1>4, <2>1
  <2> QED
    BY <1>13, <2>1, <2>2
<1>15. PICK nx : nx = 5000 * sx * need + 3500 * ux * base + 15 * rising * base * need
  OBVIOUS
<1>16. PICK ny : ny = 5000 * sy * need + 3500 * uy * base + 15 * rising * base * need
  OBVIOUS
<1>17. nx \in Nat /\ ny \in Nat /\ ny <= nx
  <2>1. PICK ax \in Nat : ax = 5000 * sx
    BY <1>9
  <2>2. PICK ay \in Nat : ay = 5000 * sy /\ ay <= ax
    BY <1>9, <2>1
  <2>3. PICK bx \in Nat : bx = 3500 * ux
    BY <1>12
  <2>4. PICK by \in Nat : by = 3500 * uy /\ by <= bx
    BY <1>12, <2>3
  <2>5. PICK r \in Nat : r = 15 * rising * base * need
    <3>1. PICK e \in Nat : e = 15 * rising * base
      BY <1>4, <1>6
    <3>2. e * need \in Nat
      BY <1>4, <3>1
    <3> QED
      BY <3>1, <3>2
  <2>6. ax * need \in Nat /\ ay * need \in Nat /\ ay * need <= ax * need
    BY <1>4, <2>1, <2>2, ProductGrows
  <2>7. bx * base \in Nat /\ by * base \in Nat /\ by * base <= bx * base
    BY <1>4, <2>3, <2>4, ProductGrows
  <2>8. nx = ax * need + bx * base + r /\ ny = ay * need + by * base + r
    BY <1>15, <1>16, <2>1, <2>2, <2>3, <2>4, <2>5
  <2> QED
    BY <2>5, <2>6, <2>7, <2>8
<1>18. ny * d <= nx * d
  BY <1>14, <1>17
<1>19. /\ Engine!Rounded(nx, d) \in Int /\ Engine!Rounded(ny, d) \in Int
       /\ Engine!Rounded(ny, d) <= Engine!Rounded(nx, d)
  BY <1>14, <1>17, <1>18, RoundedGrows
<1>20. Engine!WeightedShortage(x, point, cx, ratio, c) = Engine!Rounded(nx, d)
  BY <1>2, <1>3, <1>5, <1>7, <1>10, <1>13, <1>15 DEF Engine!WeightedShortage
<1>21. Engine!WeightedShortage(y, point, cy, ratio, c) = Engine!Rounded(ny, d)
  BY <1>2, <1>3, <1>5, <1>8, <1>11, <1>13, <1>16 DEF Engine!WeightedShortage
<1> QED
  BY <1>19, <1>20, <1>21

(* The band of a shortage falls with it.                                   *)
LEMMA BandShrinks ==
    ASSUME NEW c \in Settings, NEW x \in Nat, NEW y \in Nat, x <= y, NEW point \in Nat
    PROVE  /\ Engine!Band(x, point, c) \in 0..100 /\ Engine!Band(y, point, c) \in 0..100
           /\ Engine!Band(y, point, c) <= Engine!Band(x, point, c)
<1>1. /\ c.low \in 0..100 /\ c.high \in 0..100 /\ c.critical \in 0..100
      /\ c.low < c.high /\ c.high < c.critical
  BY DEF Settings
<1>2. PICK sx : sx = Engine!AtLeast(0, point - x)
  OBVIOUS
<1>3. PICK sy : sy = Engine!AtLeast(0, point - y)
  OBVIOUS
<1>4. sx \in Nat /\ sy \in Nat /\ sy <= sx
  BY <1>2, <1>3 DEF Engine!AtLeast
<1>5. Engine!Band(x, point, c) = IF 10 * sx >= 7 * point THEN c.critical
                                 ELSE IF 10 * sx >= 3 * point THEN c.high ELSE c.low
  BY <1>2 DEF Engine!Band
<1>6. Engine!Band(y, point, c) = IF 10 * sy >= 7 * point THEN c.critical
                                 ELSE IF 10 * sy >= 3 * point THEN c.high ELSE c.low
  BY <1>3 DEF Engine!Band
<1>7. 10 * sy >= 7 * point => 10 * sx >= 7 * point
  BY <1>4
<1>8. 10 * sy >= 3 * point => 10 * sx >= 3 * point
  BY <1>4
<1>9. 10 * sx >= 7 * point => 10 * sx >= 3 * point
  BY <1>4
<1>10. PICK bx : bx = Engine!Band(x, point, c)
  OBVIOUS
<1>11. PICK by : by = Engine!Band(y, point, c)
  OBVIOUS
<1>12. bx \in {c.low, c.high, c.critical} /\ by \in {c.low, c.high, c.critical}
  BY <1>5, <1>6, <1>10, <1>11
<1>13. by <= bx
  <2>1. CASE 10 * sy >= 7 * point
    <3>1. bx = c.critical /\ by = c.critical
      BY <1>5, <1>6, <1>7, <1>10, <1>11, <2>1
    <3> QED
      BY <1>1, <3>1
  <2>2. CASE ~(10 * sy >= 7 * point) /\ 10 * sy >= 3 * point
    <3>1. bx \in {c.high, c.critical} /\ by = c.high
      BY <1>5, <1>6, <1>8, <1>10, <1>11, <2>2
    <3> QED
      BY <1>1, <3>1, SMTT(30)
  <2>3. CASE ~(10 * sy >= 7 * point) /\ ~(10 * sy >= 3 * point)
    <3>0. PICK l \in 0..100 : l = c.low
      BY <1>1
    <3>1a. PICK h \in 0..100 : h = c.high
      BY <1>1
    <3>1b. PICK k \in 0..100 : k = c.critical
      BY <1>1
    <3>1. l = c.low /\ h = c.high /\ k = c.critical /\ l < h /\ h < k
      BY <1>1, <3>0, <3>1a, <3>1b
    <3>2. by = l /\ bx \in {l, h, k}
      BY <1>6, <1>11, <1>12, <2>3, <3>1
    <3> QED
      BY <3>1, <3>2
  <2> QED
    BY <2>1, <2>2, <2>3
<1> QED
  BY <1>1, <1>10, <1>11, <1>12, <1>13

(* More goods never raise the stockout score.                              *)
LEMMA StockoutShrinks ==
    ASSUME NEW c \in Settings, NEW x \in Nat, NEW y \in Nat, x <= y, NEW point \in Nat,
           NEW cx, NEW cy, Longer(cx, cy), NEW ratio \in Int
    PROVE  /\ Engine!StockoutScore(x, point, cx, ratio, c) \in Int
           /\ Engine!StockoutScore(y, point, cy, ratio, c) \in Int
           /\ Engine!StockoutScore(y, point, cy, ratio, c) <= Engine!StockoutScore(x, point, cx, ratio, c)
<1>1. PICK wx : wx = Engine!WeightedShortage(x, point, cx, ratio, c)
  OBVIOUS
<1>2. PICK wy : wy = Engine!WeightedShortage(y, point, cy, ratio, c)
  OBVIOUS
<1>3. wx \in Int /\ wy \in Int /\ wy <= wx
  BY <1>1, <1>2, ShortageShrinks
<1>4. PICK bx : bx = Engine!Band(x, point, c)
  OBVIOUS
<1>5. PICK by : by = Engine!Band(y, point, c)
  OBVIOUS
<1>6. bx \in 0..100 /\ by \in 0..100 /\ by <= bx
  BY <1>4, <1>5, BandShrinks
<1>7. PICK vx : vx = IF x <= point /\ point > 0 THEN Engine!AtLeast(wx, bx) ELSE wx
  OBVIOUS
<1>8. PICK vy : vy = IF y <= point /\ point > 0 THEN Engine!AtLeast(wy, by) ELSE wy
  OBVIOUS
<1>9. vx \in Int /\ vy \in Int /\ vy <= vx
  BY <1>3, <1>6, <1>7, <1>8 DEF Engine!AtLeast
<1>10. Engine!StockoutScore(x, point, cx, ratio, c) = IF x <= 0 THEN 100 ELSE Engine!AtMost(100, vx)
  BY <1>1, <1>4, <1>7 DEF Engine!StockoutScore
<1>11. Engine!StockoutScore(y, point, cy, ratio, c) = IF y <= 0 THEN 100 ELSE Engine!AtMost(100, vy)
  BY <1>2, <1>5, <1>8 DEF Engine!StockoutScore
<1> QED
  BY <1>9, <1>10, <1>11 DEF Engine!AtMost
(* What an excess leaves is a fraction: a positive part of a whole.        *)
Left(p, q) == p \in Nat \ {0} /\ q \in Nat \ {0} /\ p <= q

(* The fraction an excess above the maximum leaves.                        *)
BelowPart(x, max) == IF Engine!UnitsAboveMax(x, max) > 0 THEN max ELSE 1
BelowWhole(x, max) ==
    IF Engine!UnitsAboveMax(x, max) > 0 THEN 2 * Engine!UnitsAboveMax(x, max) + max ELSE 1

(* The larger the amount, the more is above and the less is left.          *)
LEMMA AboveLeaves ==
    ASSUME NEW x \in Nat, NEW y \in Nat, x <= y, NEW max \in Nat
    PROVE  /\ Engine!UnitsAboveMax(x, max) \in Nat /\ Engine!UnitsAboveMax(y, max) \in Nat
           /\ Engine!UnitsAboveMax(x, max) <= Engine!UnitsAboveMax(y, max)
           /\ Left(BelowPart(x, max), BelowWhole(x, max)) /\ Left(BelowPart(y, max), BelowWhole(y, max))
           /\ BelowPart(y, max) * BelowWhole(x, max) <= BelowPart(x, max) * BelowWhole(y, max)
<1>1. PICK ax : ax = Engine!UnitsAboveMax(x, max)
  OBVIOUS
<1>2. PICK ay : ay = Engine!UnitsAboveMax(y, max)
  OBVIOUS
<1>3. PICK px : px = IF ax > 0 THEN max ELSE 1
  OBVIOUS
<1>4. PICK qx : qx = IF ax > 0 THEN 2 * ax + max ELSE 1
  OBVIOUS
<1>5. PICK py : py = IF ay > 0 THEN max ELSE 1
  OBVIOUS
<1>6. PICK qy : qy = IF ay > 0 THEN 2 * ay + max ELSE 1
  OBVIOUS
<1>7. ax \in Nat /\ ay \in Nat /\ ax <= ay /\ (ax > 0 => max > 0) /\ (ay > 0 => max > 0)
  BY <1>1, <1>2 DEF Engine!UnitsAboveMax, Engine!AtLeast
<1>8. Left(px, qx) /\ Left(py, qy)
  BY <1>3, <1>4, <1>5, <1>6, <1>7 DEF Left
<1>9. py * qx <= px * qy
  <2>1. CASE ax > 0
    <3>1. px = max /\ py = max /\ qx <= qy /\ qx \in Nat /\ qy \in Nat
      BY <1>3, <1>4, <1>5, <1>6, <1>7, <2>1
    <3>2. max * qx <= max * qy
      BY <3>1
    <3> QED
      BY <3>1, <3>2
  <2>2. CASE ax = 0
    <3>1. px = 1 /\ qx = 1
      BY <1>3, <1>4, <2>2
    <3> QED
      BY <1>8, <3>1 DEF Left
  <2> QED
    BY <1>7, <2>1, <2>2
<1>10. /\ px = BelowPart(x, max) /\ qx = BelowWhole(x, max)
       /\ py = BelowPart(y, max) /\ qy = BelowWhole(y, max)
  BY <1>1, <1>2, <1>3, <1>4, <1>5, <1>6 DEF BelowPart, BelowWhole
<1> QED
  BY <1>1, <1>2, <1>7, <1>8, <1>9, <1>10

(* Coverage beyond the target counts for the larger amount if it does for  *)
(* the smaller.                                                            *)
LEMMA CoverageKeepsCounting ==
    ASSUME NEW x \in Nat, NEW y \in Nat, x <= y, NEW cx \in Nat, NEW cy \in Nat, cx <= cy,
           NEW t \in Nat \ {0}, NEW level \in Nat, Engine!CoverageCounts(x, cx, t, level)
    PROVE  Engine!CoverageCounts(y, cy, t, level)
<1>0. cx > t /\ x > level /\ x * (cx - t) >= cx
  BY DEF Engine!CoverageCounts, Engine!AtLeast
<1>1. PICK e \in Nat : e = cx - t /\ e > 0
  BY <1>0
<1>2. PICK d \in Nat : d = cy - cx
  OBVIOUS
<1>3. x > 0 /\ x * e >= cx
  BY <1>0, <1>1
<1>4. x * e <= y * e
  BY <1>1
<1>5. y * d >= d
  BY <1>2, <1>3
<1>6. y * (e + d) = y * e + y * d
  BY <1>1, <1>2
<1>7. cy - t = e + d /\ cy = cx + d
  BY <1>1, <1>2
<1>8. PICK ye \in Int : ye = y * e
  BY <1>1
<1>9. PICK yd \in Int : yd = y * d
  BY <1>2
<1>10. y * (cy - t) >= cy
  <2>1. ye >= cx /\ yd >= d
    BY <1>3, <1>4, <1>5, <1>8, <1>9
  <2> QED
    BY <1>6, <1>7, <1>8, <1>9, <2>1
<1> QED
  BY <1>0, <1>10 DEF Engine!CoverageCounts, Engine!AtLeast

(* The fraction an excess of coverage leaves.                              *)
ShortPart(x, cover, t, level) == IF Engine!CoverageCounts(x, cover, t, level) THEN 2 * t ELSE 1
LongWhole(x, cover, t, level) == IF Engine!CoverageCounts(x, cover, t, level) THEN cover + t ELSE 1

(* The longer the cover, the less is left.                                 *)
LEMMA CoverageLeaves ==
    ASSUME NEW x \in Nat, NEW y \in Nat, x <= y, NEW cx, NEW cy, Longer(cx, cy),
           NEW t \in Nat \ {0}, NEW level \in Nat
    PROVE  /\ Left(ShortPart(x, cx, t, level), LongWhole(x, cx, t, level))
           /\ Left(ShortPart(y, cy, t, level), LongWhole(y, cy, t, level))
           /\ ShortPart(y, cy, t, level) * LongWhole(x, cx, t, level)
                 <= ShortPart(x, cx, t, level) * LongWhole(y, cy, t, level)
<1>0. cx \in Int /\ cy \in Int
  BY DEF Longer, Engine!NoDays
<1>1. PICK kx : kx = ShortPart(x, cx, t, level)
  OBVIOUS
<1>2. PICK lx : lx = LongWhole(x, cx, t, level)
  OBVIOUS
<1>3. PICK ky : ky = ShortPart(y, cy, t, level)
  OBVIOUS
<1>4. PICK ly : ly = LongWhole(y, cy, t, level)
  OBVIOUS
<1>5. (Engine!CoverageCounts(x, cx, t, level) => cx > t) /\ (Engine!CoverageCounts(y, cy, t, level) => cy > t)
  BY DEF Engine!CoverageCounts
<1>6. Left(kx, lx)
  BY <1>0, <1>1, <1>2, <1>5 DEF Left, ShortPart, LongWhole
<1>7. Left(ky, ly)
  BY <1>0, <1>3, <1>4, <1>5 DEF Left, ShortPart, LongWhole
<1>8. ky * lx <= kx * ly
  <2>1. CASE Engine!CoverageCounts(x, cx, t, level)
    <3>1. cx \in Nat /\ cy \in Nat /\ cx <= cy
      BY <1>5, <2>1 DEF Longer, Engine!NoDays
    <3>2. Engine!CoverageCounts(y, cy, t, level)
      BY <2>1, <3>1, CoverageKeepsCounting
    <3>3. PICK k \in Nat : k = 2 * t
      OBVIOUS
    <3>4. kx = k /\ ky = k /\ lx <= ly /\ lx \in Nat /\ ly \in Nat
      BY <1>1, <1>2, <1>3, <1>4, <2>1, <3>1, <3>2, <3>3 DEF ShortPart, LongWhole
    <3>5. k * lx <= k * ly
      BY <3>4
    <3> QED
      BY <3>4, <3>5
  <2>2. CASE ~Engine!CoverageCounts(x, cx, t, level)
    <3>1. kx = 1 /\ lx = 1
      BY <1>1, <1>2, <2>2 DEF ShortPart, LongWhole
    <3> QED
      BY <1>7, <3>1 DEF Left
  <2> QED
    BY <2>1, <2>2
<1> QED
  BY <1>1, <1>2, <1>3, <1>4, <1>6, <1>7, <1>8

(* Both left over multiply.                                                *)
LEMMA LeftOver ==
    ASSUME NEW px, NEW qx, NEW py, NEW qy, Left(px, qx), Left(py, qy), py * qx <= px * qy,
           NEW kx, NEW lx, NEW ky, NEW ly, Left(kx, lx), Left(ky, ly), ky * lx <= kx * ly
    PROVE  /\ Left(px * kx, qx * lx) /\ Left(py * ky, qy * ly)
           /\ (py * ky) * (qx * lx) <= (px * kx) * (qy * ly)
<1>0. /\ px \in Nat /\ qx \in Nat /\ py \in Nat /\ qy \in Nat /\ kx \in Nat /\ lx \in Nat /\ ky \in Nat /\ ly \in Nat
      /\ px > 0 /\ qx > 0 /\ py > 0 /\ qy > 0 /\ kx > 0 /\ lx > 0 /\ ky > 0 /\ ly > 0
      /\ px <= qx /\ py <= qy /\ kx <= lx /\ ky <= ly
  BY DEF Left
<1>1. px * kx > 0 /\ qx * lx > 0 /\ py * ky > 0 /\ qy * ly > 0
  BY <1>0
<1>2. px * kx \in Nat /\ qx * lx \in Nat /\ px * kx <= qx * lx
  BY <1>0, ProductGrows
<1>3. py * ky \in Nat /\ qy * ly \in Nat /\ py * ky <= qy * ly
  BY <1>0, ProductGrows
<1>4. (py * qx) * (ky * lx) <= (px * qy) * (kx * ly)
  <2>1. PICK a \in Nat : a = py * qx
    BY <1>0
  <2>2. PICK b \in Nat : b = px * qy /\ a <= b
    BY <1>0, <2>1
  <2>3. PICK d \in Nat : d = ky * lx
    BY <1>0
  <2>4. PICK e \in Nat : e = kx * ly /\ d <= e
    BY <1>0, <2>3
  <2>5. a * d <= b * e
    BY <2>1, <2>2, <2>3, <2>4, ProductGrows
  <2> QED
    BY <2>1, <2>2, <2>3, <2>4, <2>5
<1>5. /\ (py * ky) * (qx * lx) = (py * qx) * (ky * lx)
      /\ (px * kx) * (qy * ly) = (px * qy) * (kx * ly)
  BY <1>0
<1> QED
  BY <1>1, <1>2, <1>3, <1>4, <1>5 DEF Left
(* The score of an excess grows as less is left, and with the decline.     *)
LEMMA ExcessGrows ==
    ASSUME NEW p, NEW q, NEW r, NEW s, Left(p, q), Left(r, s), r * q <= p * s,
           NEW h \in Nat, NEW m \in Nat, h <= m
    PROVE  /\ Engine!Amplified(p, q, h) \in Int /\ Engine!Amplified(r, s, m) \in Int
           /\ Engine!Amplified(p, q, h) <= Engine!Amplified(r, s, m)
<1>0. /\ p \in Nat /\ q \in Nat /\ r \in Nat /\ s \in Nat
      /\ p > 0 /\ q > 0 /\ r > 0 /\ s > 0 /\ p <= q /\ r <= s
  BY DEF Left
<1>1. PICK e \in Nat : e = q - p
  BY <1>0
<1>2. PICK g \in Nat : g = s - r
  BY <1>0
<1>3. e * s <= g * q
  <2>1. e * s = q * s - p * s
    BY <1>0, <1>1
  <2>2. g * q = s * q - r * q
    BY <1>0, <1>2
  <2>3. PICK qs \in Int : qs = q * s
    BY <1>0
  <2>4. PICK ps \in Int : ps = p * s
    BY <1>0
  <2>5. PICK rq \in Int : rq = r * q
    BY <1>0
  <2>6. s * q = qs /\ rq <= ps
    BY <1>0, <2>3, <2>4, <2>5
  <2> QED
    BY <2>1, <2>2, <2>3, <2>4, <2>5, <2>6
<1>4. PICK F \in Nat : F = IF e > 0 THEN h ELSE 0
  OBVIOUS
<1>5. PICK G \in Nat : G = IF g > 0 THEN m ELSE 0
  OBVIOUS
<1>6. F <= G
  <2>1. ASSUME e > 0, g = 0 PROVE FALSE
    <3>1. PICK es \in Nat : es = e * s
      BY <1>0
    <3>2. PICK gq \in Nat : gq = g * q
      BY <1>0
    <3>3. es > 0
      BY <1>0, <2>1, <3>1
    <3>4. gq = 0
      BY <1>0, <2>1, <3>2
    <3> QED
      BY <1>3, <3>1, <3>2, <3>3, <3>4
  <2> QED
    BY <1>4, <1>5, <2>1
<1>7. PICK v \in Nat : v = 400 + F
  OBVIOUS
<1>8. PICK w \in Nat : w = 400 + G
  OBVIOUS
<1>9. PICK a \in Nat : a = e * v
  OBVIOUS
<1>10. PICK b \in Nat : b = g * w
  OBVIOUS
<1>11. PICK d \in Nat \ {0} : d = 4 * q
  BY <1>0
<1>12. PICK f \in Nat \ {0} : f = 4 * s
  BY <1>0
<1>13. a * f <= b * d
  <2>1. PICK es \in Nat : es = e * s
    BY <1>0
  <2>2. PICK gq \in Nat : gq = g * q
    BY <1>0
  <2>3. v <= w /\ es <= gq
    BY <1>3, <1>6, <1>7, <1>8, <2>1, <2>2
  <2>4. es * v \in Nat /\ gq * w \in Nat /\ es * v <= gq * w
    BY <2>3, ProductGrows
  <2>5. a * f = 4 * (es * v) /\ b * d = 4 * (gq * w)
    BY <1>0, <1>9, <1>10, <1>11, <1>12, <2>1, <2>2
  <2>6. PICK x \in Nat : x = es * v
    OBVIOUS
  <2>7. PICK y \in Nat : y = gq * w
    OBVIOUS
  <2> QED
    BY <2>4, <2>5, <2>6, <2>7
<1>14. a \in Int /\ b \in Int
  OBVIOUS
<1>15. Engine!Rounded(a, d) \in Int /\ Engine!Rounded(b, f) \in Int /\ Engine!Rounded(a, d) <= Engine!Rounded(b, f)
  BY <1>13, <1>14, RoundedGrows
<1>16. Engine!Amplified(p, q, h) = Engine!AtMost(100, Engine!Rounded(a, d))
  BY <1>1, <1>4, <1>7, <1>9, <1>11 DEF Engine!Amplified
<1>17. Engine!Amplified(r, s, m) = Engine!AtMost(100, Engine!Rounded(b, f))
  BY <1>2, <1>5, <1>8, <1>10, <1>12 DEF Engine!Amplified
<1> QED
  BY <1>15, <1>16, <1>17 DEF Engine!AtMost

(* The overstock score, from what its two excesses leave.                  *)
Target(c) == 10 * Engine!AtLeast(c.target, 1)
Part(x, max, cover, level, c) == BelowPart(x, max) * ShortPart(x, cover, Target(c), level)
Whole(x, max, cover, level, c) == BelowWhole(x, max) * LongWhole(x, cover, Target(c), level)
ExcessScore(x, max, cover, ratio, level, c) ==
    Engine!Amplified(Part(x, max, cover, level, c), Whole(x, max, cover, level, c),
                     Engine!Decline(x, cover, ratio))
Limit(x, max, c) == IF 2 * Engine!UnitsAboveMax(x, max) >= max THEN c.high ELSE c.low

(* The code builds its score of these parts.                              *)
LEMMA ScoreOfExcess ==
    ASSUME NEW x, NEW max, NEW cover, NEW ratio, NEW level, NEW c
    PROVE  Engine!OverstockScore(x, max, cover, ratio, level, c)
             = IF Engine!UnitsAboveMax(x, max) > 0
               THEN Engine!AtLeast(ExcessScore(x, max, cover, ratio, level, c), Limit(x, max, c))
               ELSE ExcessScore(x, max, cover, ratio, level, c)
  BY Zenon DEF Engine!OverstockScore, ExcessScore, Part, Whole, Target, BelowPart, BelowWhole,
               ShortPart, LongWhole, Limit

(* More goods never lower the overstock score, as long as they do not end  *)
(* that a week expects the units whose decline counts.                     *)
LEMMA OverstockGrows ==
    ASSUME NEW c \in Settings, NEW x \in Nat, NEW y \in Nat, x <= y, NEW max \in Nat, NEW level \in Nat,
           NEW cx, NEW cy, Longer(cx, cy), NEW ratio \in Int,
           Engine!ExpectsUnits(x, cx) => Engine!ExpectsUnits(y, cy)
    PROVE  /\ Engine!OverstockScore(x, max, cx, ratio, level, c) \in Int
           /\ Engine!OverstockScore(y, max, cy, ratio, level, c) \in Int
           /\ Engine!OverstockScore(x, max, cx, ratio, level, c) <= Engine!OverstockScore(y, max, cy, ratio, level, c)
<1>0. /\ c.target \in Nat /\ c.low \in 0..100 /\ c.high \in 0..100 /\ c.low < c.high
      /\ cx \in Int /\ cy \in Int
  BY DEF Settings, Longer, Engine!NoDays
<1>1. PICK t : t = Target(c)
  OBVIOUS
<1>3. t \in Nat \ {0}
  BY <1>0, <1>1 DEF Target, Engine!AtLeast
<1>4. PICK px : px = BelowPart(x, max)
  OBVIOUS
<1>5. PICK qx : qx = BelowWhole(x, max)
  OBVIOUS
<1>6. PICK py : py = BelowPart(y, max)
  OBVIOUS
<1>7. PICK qy : qy = BelowWhole(y, max)
  OBVIOUS
<1>8. PICK ax : ax = Engine!UnitsAboveMax(x, max)
  OBVIOUS
<1>9. PICK ay : ay = Engine!UnitsAboveMax(y, max)
  OBVIOUS
<1>10. /\ ax \in Nat /\ ay \in Nat /\ ax <= ay
       /\ Left(px, qx) /\ Left(py, qy) /\ py * qx <= px * qy
  BY <1>4, <1>5, <1>6, <1>7, <1>8, <1>9, AboveLeaves
<1>11. PICK kx : kx = ShortPart(x, cx, t, level)
  OBVIOUS
<1>12. PICK lx : lx = LongWhole(x, cx, t, level)
  OBVIOUS
<1>13. PICK ky : ky = ShortPart(y, cy, t, level)
  OBVIOUS
<1>14. PICK ly : ly = LongWhole(y, cy, t, level)
  OBVIOUS
<1>15. Left(kx, lx) /\ Left(ky, ly) /\ ky * lx <= kx * ly
  BY <1>3, <1>11, <1>12, <1>13, <1>14, CoverageLeaves
<1>16. PICK p : p = px * kx
  OBVIOUS
<1>17. PICK q : q = qx * lx
  OBVIOUS
<1>18. PICK r : r = py * ky
  OBVIOUS
<1>19. PICK s : s = qy * ly
  OBVIOUS
<1>20. Left(p, q) /\ Left(r, s) /\ r * q <= p * s
  BY <1>10, <1>15, <1>16, <1>17, <1>18, <1>19, LeftOver
<1>21. PICK h : h = Engine!Decline(x, cx, ratio)
  OBVIOUS
<1>22. PICK m : m = Engine!Decline(y, cy, ratio)
  OBVIOUS
<1>23. h \in Nat /\ m \in Nat /\ h <= m
  <2>1. PICK full : full = Engine!AtMost(Engine!AtLeast(100 - ratio, 0), 100)
    OBVIOUS
  <2>2. full \in Nat
    BY <2>1 DEF Engine!AtMost, Engine!AtLeast
  <2>3. h = (IF Engine!ExpectsUnits(x, cx) THEN full ELSE 0) /\ m = (IF Engine!ExpectsUnits(y, cy) THEN full ELSE 0)
    BY <1>21, <1>22, <2>1 DEF Engine!Decline
  <2> QED
    BY <2>2, <2>3
<1>24. PICK vx : vx = Engine!Amplified(p, q, h)
  OBVIOUS
<1>25. PICK vy : vy = Engine!Amplified(r, s, m)
  OBVIOUS
<1>26. vx \in Int /\ vy \in Int /\ vx <= vy
  BY <1>20, <1>23, <1>24, <1>25, ExcessGrows
<1>27. PICK sx : sx = ExcessScore(x, max, cx, ratio, level, c)
  OBVIOUS
<1>28. PICK sy : sy = ExcessScore(y, max, cy, ratio, level, c)
  OBVIOUS
<1>29. p = Part(x, max, cx, level, c) /\ q = Whole(x, max, cx, level, c)
  BY <1>1, <1>4, <1>5, <1>11, <1>12, <1>16, <1>17 DEF Part, Whole
<1>30. r = Part(y, max, cy, level, c) /\ s = Whole(y, max, cy, level, c)
  BY <1>1, <1>6, <1>7, <1>13, <1>14, <1>18, <1>19 DEF Part, Whole
<1>31. sx = vx /\ sy = vy
  BY <1>21, <1>22, <1>24, <1>25, <1>27, <1>28, <1>29, <1>30 DEF ExcessScore
<1>32. sx \in Int /\ sy \in Int /\ sx <= sy
  BY <1>26, <1>31
<1>33. PICK bx : bx = Limit(x, max, c)
  OBVIOUS
<1>34. PICK by : by = Limit(y, max, c)
  OBVIOUS
<1>35. bx \in Int /\ by \in Int /\ bx <= by
  <2>1. 2 * ax >= max => 2 * ay >= max
    BY <1>10
  <2> QED
    BY <1>0, <1>8, <1>9, <1>33, <1>34, <2>1, SMTT(30) DEF Limit
<1>36. PICK ox : ox = Engine!OverstockScore(x, max, cx, ratio, level, c)
  OBVIOUS
<1>37. PICK oy : oy = Engine!OverstockScore(y, max, cy, ratio, level, c)
  OBVIOUS
<1>38. ox = IF ax > 0 THEN Engine!AtLeast(sx, bx) ELSE sx
  BY <1>0, <1>8, <1>27, <1>33, <1>36, ScoreOfExcess
<1>39. oy = IF ay > 0 THEN Engine!AtLeast(sy, by) ELSE sy
  BY <1>0, <1>9, <1>28, <1>34, <1>37, ScoreOfExcess
<1>40. ox \in Int /\ oy \in Int /\ ox <= oy
  BY <1>10, <1>32, <1>35, <1>38, <1>39 DEF Engine!AtLeast
<1> QED
  BY <1>36, <1>37, <1>40


(* What the analysis says of risks is a function of the goods, the cover   *)
(* they last and rates that do not depend on their amount.                 *)
Rate(i, c) == IF i.days >= c.minimumHistory THEN Engine!Demand(i.series, i.days).avg ELSE 0
Ratio(i, c) == IF i.days >= c.minimumHistory THEN Engine!Demand(i.series, i.days).ratio ELSE 100
Point(i, c) ==
    Engine!AtLeast(i.min, IF i.days >= c.minimumHistory
                          THEN Engine!ReorderPoint(Engine!Demand(i.series, i.days).avg, c.lead, i.safety) ELSE 0)
Cover(i, c) == Engine!DaysOfCover(i.available, Rate(i, c))

(* The analysis is computed from these.                                    *)
LEMMA AnalysisRates ==
    ASSUME NEW i \in Goods, NEW c \in Settings, NEW u
    PROVE  /\ Point(i, c) \in Nat /\ Rate(i, c) \in Int /\ Ratio(i, c) \in Int
           /\ Engine!Analysis(i, c, u).cover = Cover(i, c)
           /\ Engine!Analysis(i, c, u).stockout
                = Engine!StockoutScore(i.available, Point(i, c), Cover(i, c), Ratio(i, c), c)
           /\ Engine!Analysis(i, c, u).overstock
                = Engine!OverstockScore(i.available, i.max, Cover(i, c), Ratio(i, c), Point(i, c), c)
           /\ Engine!Analysis(i, c, u).risk.stockout
                = (i.available <= 0 \/ i.available <= Point(i, c) \/ Engine!Analysis(i, c, u).stockout >= c.high)
           /\ Engine!Analysis(i, c, u).risk.overstock = (Engine!Analysis(i, c, u).overstock >= c.high)
<1>1. PICK d : d = Engine!Demand(i.series, i.days)
  OBVIOUS
<1>2. d.avg \in Int /\ d.ratio \in Int
  BY <1>1, DemandIsNumber DEF Goods
<1>3. PICK enough : enough = (i.days >= c.minimumHistory)
  OBVIOUS
<1>4. PICK point : point = Engine!AtLeast(i.min, IF enough THEN Engine!ReorderPoint(d.avg, c.lead, i.safety) ELSE 0)
  OBVIOUS
<1>5. PICK avg : avg = IF enough THEN d.avg ELSE 0
  OBVIOUS
<1>6. PICK ratio : ratio = IF enough THEN d.ratio ELSE 100
  OBVIOUS
<1>7. enough \in BOOLEAN /\ avg \in Int /\ ratio \in Int
  BY <1>2, <1>3, <1>5, <1>6 DEF Goods, Settings
<1>8. point \in Nat
  <2>1. PICK need : need = Engine!ReorderPoint(d.avg, c.lead, i.safety)
    OBVIOUS
  <2>2. need \in Int
    <3>1. PICK a \in Int : a = d.avg * Engine!AtLeast(1, c.lead)
      BY <1>2, SMTT(30) DEF Engine!AtLeast, Settings
    <3>2. PICK h \in Int : h = 100
      OBVIOUS
    <3>3. Engine!CeilDiv(a, h) \in Int
      BY <3>2, RoundedUp
    <3>4. need = Engine!CeilDiv(a, h) + i.safety
      BY <2>1, <3>1, <3>2 DEF Engine!ReorderPoint
    <3> QED
      BY <3>3, <3>4 DEF Goods
  <2>3. i.min \in Nat
    BY DEF Goods
  <2> QED
    BY <1>4, <1>7, <2>1, <2>2, <2>3 DEF Engine!AtLeast
<1>9. PICK cover : cover = IF enough THEN Engine!DaysOfCover(i.available, d.avg) ELSE Engine!NoDays
  OBVIOUS
<1>10. cover = Engine!DaysOfCover(i.available, avg)
  BY <1>5, <1>7, <1>9 DEF Engine!DaysOfCover
<1>11. PICK a : a = Engine!Analysis(i, c, u)
  OBVIOUS
<1>12. a.cover = cover
  BY <1>1, <1>3, <1>9, <1>11 DEF Engine!Analysis
<1>13. a.stockout = Engine!StockoutScore(i.available, point, cover, ratio, c)
  BY <1>1, <1>3, <1>4, <1>6, <1>9, <1>11 DEF Engine!Analysis
<1>14. a.overstock = Engine!OverstockScore(i.available, i.max, cover, ratio, point, c)
  BY <1>1, <1>3, <1>4, <1>6, <1>9, <1>11 DEF Engine!Analysis
<1>15. a.risk = Engine!Classify(i.available, point, a.stockout, a.overstock,
                                Engine!SlowAndDead(i.available, i.idle, c).dead, c.high)
  BY <1>1, <1>3, <1>4, <1>11 DEF Engine!Analysis
<1>16. /\ a.risk.stockout = (i.available <= 0 \/ i.available <= point \/ a.stockout >= c.high)
       /\ a.risk.overstock = (a.overstock >= c.high)
  BY <1>15 DEF Engine!Classify
<1> QED
  <2>1. point = Point(i, c) /\ avg = Rate(i, c) /\ ratio = Ratio(i, c)
    BY <1>1, <1>3, <1>4, <1>5, <1>6 DEF Point, Rate, Ratio
  <2>2. cover = Cover(i, c)
    BY <1>10, <2>1 DEF Cover
  <2> QED
    BY <1>7, <1>8, <1>11, <1>12, <1>13, <1>14, <1>16, <2>1, <2>2

(* The risks of an item with more goods.                                   *)
RiskFollows(a, b, x, y) ==
    /\ b.stockout <= a.stockout
    /\ b.risk.stockout => a.risk.stockout
    /\ (Engine!ExpectsUnits(x, a.cover) => Engine!ExpectsUnits(y, b.cover)) =>
          /\ b.overstock >= a.overstock
          /\ a.risk.overstock => b.risk.overstock

(* More goods, of an item that is otherwise the same, and what its risks   *)
(* follow.                                                                 *)
LEMMA MoreGoods ==
    ASSUME NEW i \in Goods, NEW c \in Settings, NEW u, NEW y \in Nat, i.available <= y,
           NEW j \in Goods, j.available = y, j.min = i.min, j.max = i.max, j.safety = i.safety,
           j.series = i.series, j.days = i.days
    PROVE  RiskFollows(Engine!Analysis(i, c, u), Engine!Analysis(j, c, u), i.available, y)
<1>0. /\ j.available = y /\ j.min = i.min /\ j.max = i.max /\ j.safety = i.safety
      /\ j.series = i.series /\ j.days = i.days
  OBVIOUS
<1>1. PICK a : a = Engine!Analysis(i, c, u)
  OBVIOUS
<1>2. PICK b : b = Engine!Analysis(j, c, u)
  OBVIOUS
<1>3. PICK x \in Nat : x = i.available
  BY DEF Goods
<1>4. PICK point : point = Point(i, c)
  OBVIOUS
<1>5. PICK avg : avg = Rate(i, c)
  OBVIOUS
<1>6. PICK ratio : ratio = Ratio(i, c)
  OBVIOUS
<1>7. PICK cx : cx = Engine!DaysOfCover(x, avg)
  OBVIOUS
<1>8. PICK cy : cy = Engine!DaysOfCover(y, avg)
  OBVIOUS
<1>8a. Point(j, c) = point /\ Rate(j, c) = avg /\ Ratio(j, c) = ratio
  BY <1>0, <1>4, <1>5, <1>6 DEF Point, Rate, Ratio
<1>8b. Cover(i, c) = cx /\ Cover(j, c) = cy
  BY <1>0, <1>3, <1>5, <1>7, <1>8, <1>8a DEF Cover
<1>8c. /\ point \in Nat /\ avg \in Int /\ ratio \in Int
       /\ a.cover = cx
       /\ a.stockout = Engine!StockoutScore(x, point, cx, ratio, c)
       /\ a.overstock = Engine!OverstockScore(x, i.max, cx, ratio, point, c)
       /\ a.risk.stockout = (x <= 0 \/ x <= point \/ a.stockout >= c.high)
       /\ a.risk.overstock = (a.overstock >= c.high)
  BY <1>1, <1>3, <1>4, <1>5, <1>6, <1>8b, AnalysisRates
<1>9. /\ b.cover = cy
      /\ b.stockout = Engine!StockoutScore(y, point, cy, ratio, c)
      /\ b.overstock = Engine!OverstockScore(y, i.max, cy, ratio, point, c)
      /\ b.risk.stockout = (y <= 0 \/ y <= point \/ b.stockout >= c.high)
      /\ b.risk.overstock = (b.overstock >= c.high)
  <2>1. /\ b.cover = Cover(j, c)
        /\ b.stockout = Engine!StockoutScore(j.available, Point(j, c), Cover(j, c), Ratio(j, c), c)
        /\ b.overstock = Engine!OverstockScore(j.available, j.max, Cover(j, c), Ratio(j, c), Point(j, c), c)
        /\ b.risk.stockout = (j.available <= 0 \/ j.available <= Point(j, c) \/ b.stockout >= c.high)
        /\ b.risk.overstock = (b.overstock >= c.high)
    BY <1>2, AnalysisRates
  <2> QED
    BY <1>0, <1>8a, <1>8b, <2>1
<1>10. x <= y /\ Longer(cx, cy)
  BY <1>3, <1>7, <1>8, <1>8c, CoverGrows DEF Longer
<1>11. a.stockout \in Int /\ b.stockout \in Int /\ b.stockout <= a.stockout
  BY <1>8c, <1>9, <1>10, StockoutShrinks
<1>12. ASSUME Engine!ExpectsUnits(x, cx) => Engine!ExpectsUnits(y, cy)
       PROVE  a.overstock \in Int /\ b.overstock \in Int /\ a.overstock <= b.overstock
  <2>1. PICK max \in Nat : max = i.max
    BY DEF Goods
  <2>2. PICK level \in Nat : level = point
    BY <1>8c
  <2>3. PICK r \in Int : r = ratio
    BY <1>8c
  <2>4. /\ a.overstock = Engine!OverstockScore(x, max, cx, r, level, c)
        /\ b.overstock = Engine!OverstockScore(y, max, cy, r, level, c)
    BY <1>8c, <1>9, <2>1, <2>2, <2>3
  <2> QED
    BY <1>10, <1>12, <2>4, OverstockGrows
<1>13. PICK high \in Int : high = c.high
  BY DEF Settings
<1>14. b.risk.stockout => a.risk.stockout
  <2>1. a.risk.stockout = (x <= 0 \/ x <= point \/ a.stockout >= high)
    BY <1>8c, <1>13
  <2>2. b.risk.stockout = (y <= 0 \/ y <= point \/ b.stockout >= high)
    BY <1>9, <1>13
  <2>3. (y <= 0 => x <= 0) /\ (y <= point => x <= point)
    BY <1>8c, <1>10
  <2>4. b.stockout >= high => a.stockout >= high
    <3>1. PICK m \in Int : m = a.stockout
      BY <1>11
    <3>2. PICK n \in Int : n = b.stockout
      BY <1>11
    <3> QED
      BY <1>11, <3>1, <3>2
  <2> QED
    BY <2>1, <2>2, <2>3, <2>4, Zenon
<1>15. ASSUME Engine!ExpectsUnits(x, a.cover) => Engine!ExpectsUnits(y, b.cover)
       PROVE  b.overstock >= a.overstock /\ (a.risk.overstock => b.risk.overstock)
  <2>1. a.overstock \in Int /\ b.overstock \in Int /\ a.overstock <= b.overstock
    BY <1>8c, <1>9, <1>12, <1>15
  <2>2. PICK m \in Int : m = a.overstock
    BY <2>1
  <2>3. PICK n \in Int : n = b.overstock
    BY <2>1
  <2>4. m <= n /\ n >= m /\ (m >= high => n >= high)
    BY <2>1, <2>2, <2>3
  <2>5. a.risk.overstock = (m >= high) /\ b.risk.overstock = (n >= high)
    BY <1>8c, <1>9, <1>13, <2>2, <2>3
  <2> QED
    BY <2>2, <2>3, <2>4, <2>5, Zenon
<1> QED
  BY <1>1, <1>2, <1>3, <1>11, <1>14, <1>15 DEF RiskFollows

(* A step that adds goods and leaves the settings receives them.           *)
GoodsArrive ==
    settings' = settings /\ sku'.available > sku.available =>
       RiskFollows(Engine!Analysis(sku, settings, above), Engine!Analysis(sku', settings', above),
                   sku.available, sku'.available)

(* Goods arrive so in every step of the engine.                            *)
LEMMA RiskStep ==
    ASSUME EngineSafe, [Engine!Next]_engine
    PROVE  GoodsArrive
<1> SUFFICES ASSUME settings' = settings, sku'.available > sku.available
             PROVE  RiskFollows(Engine!Analysis(sku, settings, above), Engine!Analysis(sku', settings', above),
                                sku.available, sku'.available)
  BY DEF GoodsArrive
<1>0. sku \in Goods /\ sku.available \in Nat /\ settings \in Settings /\ Quantity \subseteq Nat
  BY EngineAssumption DEF EngineSafe, Goods
<1>1. CASE UNCHANGED engine
  BY <1>0, <1>1 DEF engine
<1>2. ASSUME NEW q \in Quantity, Engine!Receive(q)
      PROVE  RiskFollows(Engine!Analysis(sku, settings, above), Engine!Analysis(sku', settings', above),
                         sku.available, sku'.available)
  <2>1. PICK y \in Nat : y = sku.available + q
    BY <1>0
  <2>2. sku' = [sku EXCEPT !.available = y] /\ sku.available <= y /\ sku'.available = y
    BY <1>0, <1>2, <2>1 DEF Engine!Receive, Goods
  <2>3. PICK j : j = sku'
    OBVIOUS
  <2>4. RiskFollows(Engine!Analysis(sku, settings, above), Engine!Analysis(j, settings, above), sku.available, y)
    <3>1. /\ j \in Goods /\ j.available = y /\ j.min = sku.min /\ j.max = sku.max /\ j.safety = sku.safety
          /\ j.series = sku.series /\ j.days = sku.days
      BY <1>0, <2>2, <2>3 DEF Goods
    <3> QED
      BY <1>0, <2>2, <3>1, MoreGoods
  <2> QED
    BY <2>2, <2>3, <2>4
<1>3. ASSUME NEW q \in Quantity, Engine!Issue(q)
      PROVE  FALSE
  <2>1. sku' = [sku EXCEPT !.available = sku.available - q]
    BY <1>3 DEF Engine!Issue
  <2>2. sku'.available = sku.available - q
    BY <1>0, <2>1 DEF Goods
  <2> QED
    BY <1>0, <2>2
<1>4. ASSUME NEW q \in Quantity \cup {0}, Engine!DayEnds(q)
      PROVE  FALSE
  <2>1. sku'.available = sku.available
    BY <1>0, <1>4 DEF Engine!DayEnds, Goods
  <2> QED
    BY <1>0, <2>1
<1>5. CASE Engine!Configure
  BY <1>0, <1>5 DEF Engine!Configure
<1>6. CASE Engine!Follow
  <2>1. sku'.available = sku.available
    BY <1>0, <1>6 DEF Engine!Follow, Goods
  <2> QED
    BY <1>0, <2>1
<1> QED
  BY <1>1, <1>2, <1>3, <1>4, <1>5, <1>6 DEF Engine!Next
-----------------------------------------------------------------------------
(* The list of next actions.  A finite set in which any two candidates are *)
(* one before the other.                                                   *)
Ordered(S) ==
    /\ IsFiniteSet(S)
    /\ \A a, b \in S : a # b => List!ByScore(a, b) \/ List!ByScore(b, a)
    /\ \A a, b \in S : ~(List!ByScore(a, b) /\ List!ByScore(b, a))
    /\ \A a, b, c \in S : List!ByScore(a, b) /\ List!ByScore(b, c) => List!ByScore(a, c)
Before(a, S) == {b \in S : List!ByScore(b, a)}
Place(a, S) == Cardinality(Before(a, S))

(* The instance's cardinality is that of the theorems on finite sets.      *)
LEMMA SameCardinality == \A S : List!Cardinality(S) = Cardinality(S)
BY DEF List!Cardinality, Cardinality

(* Part of an ordered set is ordered, and no larger.                       *)
LEMMA OrderedSubset ==
    ASSUME NEW S, Ordered(S), NEW T \in SUBSET S
    PROVE  Ordered(T) /\ Cardinality(T) \in Nat /\ Cardinality(T) <= Cardinality(S) /\ Cardinality(S) \in Nat
<1>1. IsFiniteSet(S) /\ IsFiniteSet(T) /\ Cardinality(T) <= Cardinality(S)
  BY FS_Subset DEF Ordered
<1>2. Cardinality(S) \in Nat /\ Cardinality(T) \in Nat
  BY <1>1, FS_CardinalityType
<1>3. Ordered(T)
  BY <1>1 DEF Ordered
<1> QED
  BY <1>1, <1>2, <1>3

(* The place of a candidate is the number of those before it.              *)
LEMMA PlaceInSet ==
    ASSUME NEW S, Ordered(S), NEW a \in S
    PROVE  Place(a, S) \in Nat /\ Place(a, S) < Cardinality(S) /\ IsFiniteSet(Before(a, S))
<1>1. a \notin Before(a, S) /\ Before(a, S) \in SUBSET (S \ {a})
  BY DEF Before, Ordered
<1>2. IsFiniteSet(S \ {a}) /\ Cardinality(S \ {a}) = Cardinality(S) - 1 /\ Cardinality(S) \in Nat
  BY FS_RemoveElement, FS_CardinalityType DEF Ordered
<1>3. IsFiniteSet(Before(a, S)) /\ Cardinality(Before(a, S)) <= Cardinality(S \ {a})
  BY <1>1, <1>2, FS_Subset
<1>4. Cardinality(Before(a, S)) \in Nat
  BY <1>3, FS_CardinalityType
<1> QED
  BY <1>2, <1>3, <1>4 DEF Place

(* Whoever is before another has the smaller place.                        *)
LEMMA PlaceGrows ==
    ASSUME NEW S, Ordered(S), NEW a \in S, NEW b \in S, List!ByScore(a, b)
    PROVE  Place(a, S) < Place(b, S)
<1>1. IsFiniteSet(Before(a, S)) /\ IsFiniteSet(Before(b, S)) /\ Place(a, S) \in Nat /\ Place(b, S) \in Nat
  BY PlaceInSet
<1>2. a \notin Before(a, S) /\ Before(a, S) \cup {a} \in SUBSET Before(b, S)
  BY DEF Before, Ordered
<1>3. Cardinality(Before(a, S) \cup {a}) = Cardinality(Before(a, S)) + 1
  BY <1>1, <1>2, FS_AddElement
<1>4. Cardinality(Before(a, S) \cup {a}) <= Cardinality(Before(b, S))
  BY <1>1, <1>2, FS_Subset
<1> QED
  BY <1>1, <1>3, <1>4 DEF Place

(* There is a candidate at every place, and no two at one.                 *)
LEMMA PlacesTaken ==
    ASSUME NEW S, Ordered(S)
    PROVE  /\ \A a, b \in S : Place(a, S) = Place(b, S) => a = b
           /\ \A n \in 0..(Cardinality(S) - 1) : \E a \in S : Place(a, S) = n
<1>0. IsFiniteSet(S) /\ Cardinality(S) \in Nat
  BY FS_CardinalityType DEF Ordered
<1>1. ASSUME NEW a \in S, NEW b \in S, a # b
      PROVE  Place(a, S) # Place(b, S)
  <2>1. Place(a, S) \in Nat /\ Place(b, S) \in Nat
    BY PlaceInSet
  <2>2. List!ByScore(a, b) \/ List!ByScore(b, a)
    BY <1>1 DEF Ordered
  <2> QED
    BY <2>1, <2>2, PlaceGrows
<1>2. PICK n : n = Cardinality(S)
  OBVIOUS
<1>3. PICK f : f = [a \in S |-> Place(a, S)]
  OBVIOUS
<1>4. f \in [S -> 0..(n - 1)]
  <2>1. \A a \in S : Place(a, S) \in 0..(n - 1)
    BY <1>0, <1>2, PlaceInSet
  <2> QED
    BY <1>3, <2>1
<1>5. f \in Injection(S, 0..(n - 1))
  BY <1>1, <1>3, <1>4 DEF Injection, IsInjective
<1>6. IsFiniteSet(0..(n - 1)) /\ Cardinality(0..(n - 1)) = n
  <2>1. n \in Nat /\ 0 \in Int /\ n - 1 \in Int
    BY <1>0, <1>2
  <2> QED
    BY <2>1, FS_Interval
<1>7. f \in Surjection(S, 0..(n - 1))
  BY <1>2, <1>5, <1>6, FS_Injection
<1>8. \A m \in 0..(n - 1) : \E a \in S : f[a] = m
  BY <1>7 DEF Surjection
<1> QED
  BY <1>1, <1>2, <1>3, <1>8

(* The first n of a set are n, or all there are.                           *)
LEMMA FirstOfSet ==
    ASSUME NEW S, Ordered(S), NEW n \in Nat
    PROVE  /\ List!FirstN(S, n) = {a \in S : Place(a, S) < n}
           /\ Cardinality(List!FirstN(S, n)) = IF n < Cardinality(S) THEN n ELSE Cardinality(S)
<1>0. IsFiniteSet(S) /\ Cardinality(S) \in Nat
  BY FS_CardinalityType DEF Ordered
<1>1. List!FirstN(S, n) = {a \in S : Place(a, S) < n}
  BY SameCardinality DEF List!FirstN, Place, Before
<1>2. PICK T : T = {a \in S : Place(a, S) < n}
  OBVIOUS
<1>3. PICK m \in Nat : m = IF n < Cardinality(S) THEN n ELSE Cardinality(S)
  BY <1>0
<1>4. PICK f : f = [a \in T |-> Place(a, S)]
  OBVIOUS
<1>5. \A a \in T : Place(a, S) \in 0..(m - 1)
  BY <1>0, <1>2, <1>3, PlaceInSet
<1>6. \A k \in 0..(m - 1) : \E a \in T : Place(a, S) = k
  <2>1. ASSUME NEW k \in 0..(m - 1)
        PROVE  \E a \in T : Place(a, S) = k
    <3>1. k \in 0..(Cardinality(S) - 1) /\ k < n
      BY <1>0, <1>3
    <3> QED
      BY <1>2, <3>1, PlacesTaken
  <2> QED
    BY <2>1
<1>7. \A a, b \in T : Place(a, S) = Place(b, S) => a = b
  BY <1>2, PlacesTaken
<1>8. f \in Bijection(T, 0..(m - 1))
  <2>1. f \in [T -> 0..(m - 1)]
    BY <1>4, <1>5
  <2>2. f \in Injection(T, 0..(m - 1))
    BY <1>4, <1>7, <2>1 DEF Injection, IsInjective
  <2>3. f \in Surjection(T, 0..(m - 1))
    BY <1>4, <1>6, <2>1 DEF Surjection
  <2> QED
    BY <2>2, <2>3 DEF Bijection
<1>9. IsFiniteSet(T)
  BY <1>0, <1>2, FS_Subset
<1>10. Cardinality(0..(m - 1)) = Cardinality(T)
  BY <1>8, <1>9, FS_Bijection DEF ExistsBijection
<1>11. Cardinality(0..(m - 1)) = m
  BY FS_Interval
<1> QED
  BY <1>1, <1>2, <1>3, <1>10, <1>11

(* The best of a set is before all others.                                 *)
LEMMA BestOfSet ==
    ASSUME NEW S, Ordered(S), S # {}
    PROVE  /\ List!Best(S) \in S /\ Place(List!Best(S), S) = 0
           /\ \A b \in S \ {List!Best(S)} : List!ByScore(List!Best(S), b)
<1>0. IsFiniteSet(S) /\ Cardinality(S) \in Nat /\ Cardinality(S) # 0
  BY FS_CardinalityType, FS_EmptySet DEF Ordered
<1>1. PICK a \in S : Place(a, S) = 0
  BY <1>0, PlacesTaken
<1>2. Before(a, S) = {}
  BY <1>1, PlaceInSet, FS_EmptySet DEF Place
<1>3. \A b \in S \ {a} : List!ByScore(a, b)
  BY <1>2 DEF Before, Ordered
<1>4. List!Best(S) \in S /\ \A b \in S \ {List!Best(S)} : List!ByScore(List!Best(S), b)
  BY <1>3 DEF List!Best
<1>5. List!Best(S) = a
  BY <1>3, <1>4 DEF Ordered
<1> QED
  BY <1>1, <1>4, <1>5

(* The sorted list of a set has its candidates, the best first.            *)
LEMMA SortedSet ==
    ASSUME NEW S, Ordered(S)
    PROVE  /\ List!Sorted(S) \in [1..Cardinality(S) -> S]
           /\ List!SetOf(List!Sorted(S)) = S
           /\ Len(List!Sorted(S)) = Cardinality(S)
           /\ S # {} => List!Sorted(S)[1] = List!Best(S)
<1>0. IsFiniteSet(S) /\ Cardinality(S) \in Nat
  BY FS_CardinalityType DEF Ordered
<1>1. PICK n \in Nat : n = Cardinality(S)
  BY <1>0
<1>2. PICK at : at = [m \in 1..n |-> CHOOSE a \in S : Place(a, S) = m - 1]
  OBVIOUS
<1>3. \A m \in 1..n : at[m] \in S /\ Place(at[m], S) = m - 1
  <2>1. ASSUME NEW m \in 1..n
        PROVE  \E a \in S : Place(a, S) = m - 1
    <3>1. m - 1 \in 0..(Cardinality(S) - 1)
      BY <1>1
    <3> QED
      BY <3>1, PlacesTaken
  <2> QED
    BY <1>2, <2>1
<1>4. at \in [1..n -> S]
  BY <1>2, <1>3
<1>5. \A k, m \in 1..n : k < m => List!ByScore(at[k], at[m])
  <2>1. ASSUME NEW k \in 1..n, NEW m \in 1..n, k < m
        PROVE  List!ByScore(at[k], at[m])
    <3>1. at[k] \in S /\ at[m] \in S /\ Place(at[k], S) = k - 1 /\ Place(at[m], S) = m - 1
      BY <1>3
    <3>2. at[k] # at[m]
      BY <2>1, <3>1
    <3>3. ~List!ByScore(at[m], at[k])
      <4>1. List!ByScore(at[m], at[k]) => Place(at[m], S) < Place(at[k], S)
        BY <3>1, PlaceGrows
      <4> QED
        BY <2>1, <3>1, <4>1
    <3> QED
      BY <3>1, <3>2, <3>3 DEF Ordered
  <2> QED
    BY <2>1
<1>6. PICK s : s = List!Sorted(S)
  OBVIOUS
<1>7. s \in [1..n -> S] /\ \A k, m \in 1..n : k < m => List!ByScore(s[k], s[m])
  <2>1. \E t \in [1..n -> S] : \A k, m \in DOMAIN t : k < m => List!ByScore(t[k], t[m])
    BY <1>4, <1>5
  <2>2. s \in [1..n -> S] /\ \A k, m \in DOMAIN s : k < m => List!ByScore(s[k], s[m])
    BY <1>1, <1>6, <2>1, SameCardinality DEF List!Sorted
  <2> QED
    BY <2>2
<1>8. \A k, m \in 1..n : s[k] = s[m] => k = m
  <2>1. ASSUME NEW k \in 1..n, NEW m \in 1..n, k < m
        PROVE  s[k] # s[m]
    BY <1>7, <2>1 DEF Ordered
  <2> QED
    BY <2>1
<1>9. s \in Injection(1..n, S)
  BY <1>7, <1>8 DEF Injection, IsInjective
<1>10. IsFiniteSet(1..n) /\ Cardinality(1..n) = n
  BY FS_Interval
<1>11. s \in Surjection(1..n, S)
  BY <1>0, <1>1, <1>9, <1>10, FS_Injection
<1>12. List!SetOf(s) = S
  BY <1>7, <1>11 DEF List!SetOf, Surjection
<1>13. Len(s) = n
  <2>1. s \in Seq(S)
    BY <1>7, SeqDef
  <2> QED
    BY <1>7, <2>1, LenProperties
<1>14. ASSUME S # {} PROVE s[1] = List!Best(S)
  <2>1. 1 \in 1..n
    BY <1>0, <1>1, <1>14, FS_EmptySet
  <2>2. List!Best(S) \in S /\ \A b \in S \ {List!Best(S)} : List!ByScore(List!Best(S), b)
    BY <1>14, BestOfSet
  <2>3. PICK m \in 1..n : s[m] = List!Best(S)
    BY <1>11, <2>2 DEF Surjection
  <2>4. m # 1 => List!ByScore(s[1], s[m]) /\ s[1] # s[m] /\ s[1] \in S
    BY <1>7, <1>8, <2>1, <2>3
  <2>5. m = 1
    BY <2>2, <2>3, <2>4 DEF Ordered
  <2> QED
    BY <2>3, <2>5
<1> QED
  BY <1>1, <1>6, <1>7, <1>12, <1>13, <1>14

(* What is known of the candidates: finitely many, no two with one kind    *)
(* and id; what is listed is the sorted choice.                            *)
ListSafe ==
    /\ IsFiniteSet(candidates) /\ candidates \subseteq List!Candidate
    /\ \A a, b \in candidates : a.kind = b.kind /\ a.id = b.id => a = b
    /\ picked # <<>> => picked = List!Sorted(List!Listed)

(* What the order of candidates compares are numbers.                      *)
LEMMA CandidateTyped ==
    ASSUME NEW a \in List!Candidate
    PROVE  a.kind \in List!Kind /\ a.id \in Int /\ a.score \in Int /\ List!KindOrder[a.kind] \in Int
<1>1. /\ a \in [kind : List!Kind, id : ListItem \cup {i + List!Cardinality(ListItem) : i \in ListItem},
                item : ListItem, score : Score]
  BY DEF List!Candidate
<1>2. List!Cardinality(ListItem) \in Nat
  BY ListAssumption, SameCardinality, FS_CardinalityType
<1>3. \A i \in ListItem : i \in Int /\ i + List!Cardinality(ListItem) \in Int
  BY <1>2, ListAssumption
<1>4. a.id \in Int /\ a.score \in Int /\ a.kind \in List!Kind
  BY <1>1, <1>3, ListAssumption
<1>5. \A k \in List!Kind : List!KindOrder[k] \in Int
  BY DEF List!Kind, List!KindOrder
<1> QED
  BY <1>4, <1>5

(* Scores, kinds and ids put the candidates in one order.                  *)
LEMMA CandidatesOrdered ==
    ASSUME ListSafe
    PROVE  Ordered(candidates)
<1>1. \A a \in candidates : /\ a.kind \in List!Kind /\ a.id \in Int /\ a.score \in Int
                            /\ List!KindOrder[a.kind] \in Int
  BY CandidateTyped DEF ListSafe
<1>2. \A j, k \in List!Kind : List!KindOrder[j] = List!KindOrder[k] => j = k
  BY DEF List!Kind, List!KindOrder
<1>3. ASSUME NEW a \in candidates, NEW b \in candidates, a # b
      PROVE  List!ByScore(a, b) \/ List!ByScore(b, a)
  <2>1. a.kind # b.kind \/ a.id # b.id
    BY <1>3 DEF ListSafe
  <2>2. a.kind # b.kind => List!KindOrder[a.kind] # List!KindOrder[b.kind]
    BY <1>1, <1>2
  <2> QED
    BY <1>1, <2>1, <2>2 DEF List!ByScore
<1>4. ASSUME NEW a \in candidates, NEW b \in candidates
      PROVE  ~(List!ByScore(a, b) /\ List!ByScore(b, a))
  BY <1>1 DEF List!ByScore
<1>5. ASSUME NEW a \in candidates, NEW b \in candidates, NEW d \in candidates,
             List!ByScore(a, b), List!ByScore(b, d)
      PROVE  List!ByScore(a, d)
  BY <1>1, <1>5 DEF List!ByScore
<1> QED
  BY <1>3, <1>4, <1>5 DEF Ordered, ListSafe

(* There is one candidate of an item, and the best of all is among them.   *)
LEMMA UniqueByItem ==
    ASSUME ListSafe
    PROVE  /\ List!Unique \subseteq List!Eligible /\ List!Eligible \subseteq candidates
           /\ Ordered(List!Eligible) /\ Ordered(List!Unique)
           /\ \A a, b \in List!Unique : a.item = b.item => a = b
           /\ List!Eligible # {} => List!Best(List!Eligible) \in List!Unique
<1>1. List!Eligible \subseteq candidates
  BY DEF List!Eligible
<1>2. Ordered(List!Eligible)
  BY <1>1, CandidatesOrdered, OrderedSubset
<1> DEFINE G(a) == {b \in List!Eligible : b.item = a.item}
<1>3. ASSUME NEW a \in List!Eligible
      PROVE  Ordered(G(a)) /\ G(a) # {} /\ List!Best(G(a)) \in List!Eligible /\ List!Best(G(a)).item = a.item
  <2>1. G(a) \in SUBSET List!Eligible /\ a \in G(a)
    OBVIOUS
  <2>2. Ordered(G(a)) /\ G(a) # {}
    BY <1>2, <2>1, OrderedSubset
  <2>3. List!Best(G(a)) \in G(a)
    <3> HIDE DEF G
    <3> QED
      BY <2>2, BestOfSet
  <2> QED
    BY <2>2, <2>3
<1>4. List!Unique = {List!Best(G(a)) : a \in List!Eligible}
  BY DEF List!Unique
<1>5. List!Unique \subseteq List!Eligible
  BY <1>3, <1>4
<1>6. Ordered(List!Unique)
  BY <1>2, <1>5, OrderedSubset
<1>7. ASSUME NEW u \in List!Unique, NEW v \in List!Unique, u.item = v.item
      PROVE  u = v
  <2>1. PICK a \in List!Eligible : u = List!Best(G(a))
    BY <1>4
  <2>2. PICK b \in List!Eligible : v = List!Best(G(b))
    BY <1>4
  <2>3. a.item = b.item
    BY <1>3, <1>7, <2>1, <2>2
  <2>4. G(a) = G(b)
    BY <2>3
  <2> QED
    BY <2>1, <2>2, <2>4
<1>8. ASSUME List!Eligible # {}
      PROVE  List!Best(List!Eligible) \in List!Unique
  <2>1. PICK e : e = List!Best(List!Eligible)
    OBVIOUS
  <2>2. e \in List!Eligible /\ \A b \in List!Eligible \ {e} : List!ByScore(e, b)
    BY <1>2, <1>8, <2>1, BestOfSet
  <2>3. PICK g : g = List!Best(G(e))
    OBVIOUS
  <2>4. g \in List!Eligible /\ \A b \in G(e) \ {g} : List!ByScore(g, b)
    <3>1. Ordered(G(e)) /\ G(e) # {} /\ g \in List!Eligible
      BY <1>3, <2>2, <2>3
    <3> HIDE DEF G
    <3> QED
      BY <2>3, <3>1, BestOfSet
  <2>5. e \in G(e)
    BY <2>2
  <2>6. g = e
    BY <1>2, <2>2, <2>4, <2>5 DEF Ordered
  <2> QED
    BY <1>4, <2>1, <2>2, <2>3, <2>6
<1> QED
  BY <1>1, <1>2, <1>5, <1>6, <1>7, <1>8

(* The share of a kind: its first few.                                     *)
LEMMA SharesOfKinds ==
    ASSUME ListSafe, NEW k
    PROVE  /\ Ordered(List!OfKind(k)) /\ List!OfKind(k) \subseteq List!Unique
           /\ \A a \in List!OfKind(k) : List!Rank(a) = Place(a, List!OfKind(k)) /\ a.kind = k
           /\ {a \in List!WithinShare : a.kind = k} = List!FirstN(List!OfKind(k), MaxPerKind)
           /\ Cardinality({a \in List!WithinShare : a.kind = k})
                = IF MaxPerKind < Cardinality(List!OfKind(k)) THEN MaxPerKind ELSE Cardinality(List!OfKind(k))
<1>1. List!OfKind(k) \in SUBSET List!Unique /\ \A a \in List!OfKind(k) : a.kind = k
  BY DEF List!OfKind
<1>2. Ordered(List!OfKind(k))
  BY <1>1, UniqueByItem, OrderedSubset
<1>3. \A a \in List!OfKind(k) : List!Rank(a) = Place(a, List!OfKind(k))
  BY <1>1, SameCardinality DEF List!Rank, Place, Before
<1>4. {a \in List!WithinShare : a.kind = k} = {a \in List!OfKind(k) : Place(a, List!OfKind(k)) < MaxPerKind}
  <2>1. ASSUME NEW a
        PROVE  a \in List!WithinShare /\ a.kind = k
                 <=> a \in List!OfKind(k) /\ Place(a, List!OfKind(k)) < MaxPerKind
    BY <1>3 DEF List!WithinShare, List!OfKind
  <2> QED
    BY <2>1 DEF List!WithinShare
<1> QED
  BY <1>1, <1>2, <1>3, <1>4, FirstOfSet, ListAssumption

(* What is listed: the best within the shares, and then the best of the    *)
(* rest, which come in only when all within the shares are listed.         *)
LEMMA ListedChosen ==
    ASSUME ListSafe
    PROVE  /\ Ordered(List!WithinShare) /\ Ordered(List!Unique \ List!WithinShare)
           /\ List!WithinShare \subseteq List!Unique
           /\ List!Varied \subseteq List!WithinShare
           /\ List!Listed \subseteq List!Unique /\ Ordered(List!Listed)
           /\ Cardinality(List!Listed) = IF MaxSuggestions < Cardinality(List!Unique)
                                         THEN MaxSuggestions ELSE Cardinality(List!Unique)
           /\ \A a \in List!WithinShare : a \in List!Listed => a \in List!Varied
           /\ (\E a \in List!Listed : a \notin List!WithinShare) => List!Varied = List!WithinShare
           /\ \A a \in List!WithinShare \ List!Listed, b \in List!Listed \cap List!WithinShare :
                 Place(b, List!WithinShare) < Place(a, List!WithinShare)
           /\ \A a \in List!Unique \ List!Listed, b \in List!Listed :
                 a \notin List!WithinShare /\ b \notin List!WithinShare =>
                    Place(b, List!Unique \ List!WithinShare) < Place(a, List!Unique \ List!WithinShare)
<1>1. PICK U : U = List!Unique
  OBVIOUS
<1>2. PICK W : W = List!WithinShare
  OBVIOUS
<1>3. PICK V : V = List!Varied
  OBVIOUS
<1>4. PICK room : room = MaxSuggestions - Cardinality(V)
  OBVIOUS
<1>5. PICK rest : rest = List!FirstN(U \ W, room)
  OBVIOUS
<1>6. W \subseteq U /\ Ordered(U)
  BY <1>1, <1>2, UniqueByItem DEF List!WithinShare
<1>7. /\ Ordered(W) /\ Ordered(U \ W) /\ Cardinality(W) \in Nat /\ Cardinality(U \ W) \in Nat /\ Cardinality(U) \in Nat
  <2>1. W \in SUBSET U /\ (U \ W) \in SUBSET U
    BY <1>6
  <2> QED
    BY <1>6, <2>1, OrderedSubset
<1>8. Cardinality(U) = Cardinality(W) + Cardinality(U \ W)
  <2>1. IsFiniteSet(W) /\ IsFiniteSet(U \ W)
    BY <1>7 DEF Ordered
  <2>2. W \cup (U \ W) = U /\ W \cap (U \ W) = {}
    BY <1>6
  <2>3. PICK X : X = U \ W
    OBVIOUS
  <2>4. Cardinality(W \cup X) = Cardinality(W) + Cardinality(X) - Cardinality(W \cap X)
    BY <2>1, <2>3, FS_Union
  <2>5. Cardinality(W \cap X) = 0
    BY <2>2, <2>3, FS_EmptySet
  <2>6. Cardinality(W \cup X) = Cardinality(U)
    BY <2>2, <2>3
  <2> QED
    BY <1>7, <2>3, <2>4, <2>5, <2>6
<1>9. /\ V = {a \in W : Place(a, W) < MaxSuggestions}
      /\ Cardinality(V) = IF MaxSuggestions < Cardinality(W) THEN MaxSuggestions ELSE Cardinality(W)
  <2>1. V = List!FirstN(W, MaxSuggestions)
    BY <1>2, <1>3 DEF List!Varied
  <2> QED
    BY <1>7, <2>1, FirstOfSet, ListAssumption
<1>10. room \in Nat /\ Cardinality(V) \in Nat
  BY <1>4, <1>7, <1>9, ListAssumption
<1>11. /\ rest = {a \in U \ W : Place(a, U \ W) < room}
       /\ Cardinality(rest) = IF room < Cardinality(U \ W) THEN room ELSE Cardinality(U \ W)
  BY <1>5, <1>7, <1>10, FirstOfSet
<1>12. List!Listed = V \cup rest
  BY <1>1, <1>2, <1>3, <1>4, <1>5, SameCardinality DEF List!Listed
<1>13. V \subseteq W /\ rest \subseteq U \ W
  BY <1>9, <1>11
<1>14. Ordered(V \cup rest)
  <2>1. V \cup rest \in SUBSET U
    BY <1>6, <1>13
  <2> QED
    BY <1>6, <2>1, OrderedSubset
<1>15. Cardinality(V \cup rest) = IF MaxSuggestions < Cardinality(U) THEN MaxSuggestions ELSE Cardinality(U)
  <2>1. V \in SUBSET W /\ rest \in SUBSET (U \ W) /\ V \cap rest = {}
    BY <1>13
  <2>2. IsFiniteSet(V) /\ IsFiniteSet(rest)
    BY <1>7, <2>1, FS_Subset DEF Ordered
  <2>3. Cardinality(V \cup rest) = Cardinality(V) + Cardinality(rest) - Cardinality(V \cap rest)
    BY <2>2, FS_Union
  <2>4. Cardinality(V \cup rest) = Cardinality(V) + Cardinality(rest)
    <3>1. Cardinality(V \cap rest) = 0
      BY <2>1, FS_EmptySet
    <3>2. Cardinality(V) \in Nat /\ Cardinality(rest) \in Nat
      BY <2>2, FS_CardinalityType
    <3> QED
      BY <2>3, <3>1, <3>2
  <2> QED
    BY <1>4, <1>7, <1>8, <1>9, <1>11, <2>4, ListAssumption
<1>16. rest # {} => V = W
  <2>1. ASSUME NEW a \in rest
        PROVE  V = W
    <3>1. Place(a, U \ W) \in Nat /\ Place(a, U \ W) < room
      BY <1>7, <1>11, <2>1, PlaceInSet
    <3>2. Cardinality(V) < MaxSuggestions
      BY <1>4, <1>10, <3>1, ListAssumption
    <3>3. Cardinality(V) = Cardinality(W) /\ Cardinality(W) <= MaxSuggestions
      BY <1>7, <1>9, <3>2, ListAssumption
    <3>4. \A b \in W : Place(b, W) < MaxSuggestions
      <4>1. ASSUME NEW b \in W PROVE Place(b, W) < MaxSuggestions
        <5>1. Place(b, W) \in Nat /\ Place(b, W) < Cardinality(W)
          BY <1>7, PlaceInSet
        <5> QED
          BY <1>7, <3>3, <5>1, ListAssumption
      <4> QED
        BY <4>1
    <3> QED
      BY <1>9, <3>4
  <2> QED
    BY <2>1
<1>17. ASSUME NEW a \in W \ (V \cup rest), NEW b \in (V \cup rest) \cap W
       PROVE  Place(b, W) < Place(a, W)
  <2>1. ~(Place(a, W) < MaxSuggestions) /\ Place(b, W) < MaxSuggestions
    BY <1>9, <1>13, <1>17
  <2>2. Place(a, W) \in Nat /\ Place(b, W) \in Nat
    BY <1>7, PlaceInSet
  <2> QED
    BY <2>1, <2>2, ListAssumption
<1>18. ASSUME NEW a \in U \ (V \cup rest), NEW b \in V \cup rest, a \notin W, b \notin W
       PROVE  Place(b, U \ W) < Place(a, U \ W)
  <2>1. ~(Place(a, U \ W) < room) /\ Place(b, U \ W) < room
    BY <1>9, <1>11, <1>18
  <2>2. a \in U \ W /\ b \in U \ W
    BY <1>13, <1>18
  <2>3. Place(a, U \ W) \in Nat /\ Place(b, U \ W) \in Nat
    BY <1>7, <2>2, PlaceInSet
  <2> QED
    BY <1>10, <2>1, <2>3
<1>19. Ordered(List!Listed) /\ List!Listed \subseteq U
  BY <1>6, <1>12, <1>13, <1>14
<1>20. \A a \in W : a \in V \cup rest => a \in V
  BY <1>13
<1>21. (\E a \in V \cup rest : a \notin W) => V = W
  BY <1>13, <1>16
<1> QED
  BY <1>1, <1>2, <1>3, <1>6, <1>7, <1>12, <1>13, <1>15, <1>17, <1>18, <1>19, <1>20, <1>21

(* Whatever is left out comes after what is listed of its kind.            *)
LEMMA LeftOutIsLater ==
    ASSUME ListSafe, NEW a \in List!Unique \ List!Listed, NEW b \in List!Listed, a.kind = b.kind
    PROVE  List!ByScore(b, a)
<1>1. PICK S : Ordered(S) /\ a \in S /\ b \in S /\ Place(b, S) < Place(a, S)
  <2>1. CASE a \in List!WithinShare
    <3>1. b \in List!WithinShare
      <4>1. a \notin List!Varied
        BY DEF List!Listed
      <4> QED
        BY <2>1, <4>1, ListedChosen
    <3> QED
      BY <2>1, <3>1, ListedChosen
  <2>2. CASE a \notin List!WithinShare /\ b \in List!WithinShare
    <3>1. PICK S : S = List!OfKind(a.kind)
      OBVIOUS
    <3>2. a \in S /\ b \in S /\ Ordered(S)
      <4>1. b \in List!Unique
        BY ListedChosen
      <4> QED
        BY <3>1, <4>1, SharesOfKinds DEF List!OfKind
    <3>3. List!Rank(a) = Place(a, S) /\ List!Rank(b) = Place(b, S)
      BY <3>1, <3>2, SharesOfKinds
    <3>4. ~(Place(a, S) < MaxPerKind) /\ Place(b, S) < MaxPerKind
      BY <2>2, <3>3 DEF List!WithinShare
    <3>5. Place(a, S) \in Nat /\ Place(b, S) \in Nat
      BY <3>2, PlaceInSet
    <3> QED
      BY <3>2, <3>4, <3>5, ListAssumption
  <2>3. CASE a \notin List!WithinShare /\ b \notin List!WithinShare
    <3>1. a \in List!Unique \ List!WithinShare /\ b \in List!Unique \ List!WithinShare
      BY <2>3, ListedChosen
    <3> QED
      BY <2>3, <3>1, ListedChosen
  <2> QED
    BY <2>1, <2>2, <2>3
<1>2. Place(a, S) \in Nat /\ Place(b, S) \in Nat
  BY <1>1, PlaceInSet
<1>3. ~List!ByScore(a, b)
  <2>1. List!ByScore(a, b) => Place(a, S) < Place(b, S)
    BY <1>1, PlaceGrows
  <2> QED
    BY <1>1, <1>2, <2>1
<1>4. a # b
  OBVIOUS
<1> QED
  BY <1>1, <1>3, <1>4 DEF Ordered

(* A kind exceeds its share only when the shares of those left out are     *)
(* used up.                                                                *)
LEMMA SharesUsedUp ==
    ASSUME ListSafe, NEW k, NEW a \in List!Unique \ List!Listed,
           Cardinality({b \in List!Listed : b.kind = k}) > MaxPerKind
    PROVE  Cardinality({b \in List!Listed : b.kind = a.kind}) >= MaxPerKind
<1>1. PICK b \in List!Listed : b \notin List!WithinShare
  <2>1. SUFFICES ASSUME List!Listed \subseteq List!WithinShare PROVE FALSE
    OBVIOUS
  <2>2. PICK S : S = {b \in List!WithinShare : b.kind = k}
    OBVIOUS
  <2>3. PICK T : T = {b \in List!Listed : b.kind = k}
    OBVIOUS
  <2>4. T \in SUBSET S /\ S \in SUBSET List!WithinShare
    BY <2>1, <2>2, <2>3
  <2>5. Cardinality(S) \in Nat /\ Ordered(S)
    BY <2>4, ListedChosen, OrderedSubset
  <2>6. Cardinality(T) <= Cardinality(S) /\ Cardinality(T) \in Nat
    BY <2>4, <2>5, OrderedSubset
  <2>7. Cardinality(List!OfKind(k)) \in Nat
    BY SharesOfKinds, FS_CardinalityType DEF Ordered
  <2>8. Cardinality(S) <= MaxPerKind
    BY <2>2, <2>7, SharesOfKinds, ListAssumption
  <2> QED
    BY <2>3, <2>5, <2>6, <2>8, ListAssumption
<1>2. List!WithinShare \subseteq List!Listed
  BY <1>1, ListedChosen DEF List!Listed
<1>3. PICK S : S = List!OfKind(a.kind)
  OBVIOUS
<1>4. Ordered(S) /\ a \in S /\ List!Rank(a) = Place(a, S)
  BY <1>3, SharesOfKinds DEF List!OfKind
<1>5. a \notin List!WithinShare
  BY <1>2
<1>6. Place(a, S) \in Nat /\ Place(a, S) < Cardinality(S) /\ ~(Place(a, S) < MaxPerKind)
  BY <1>4, <1>5, PlaceInSet DEF List!WithinShare
<1>7. Cardinality(S) \in Nat /\ MaxPerKind < Cardinality(S)
  BY <1>4, <1>6, FS_CardinalityType, ListAssumption DEF Ordered
<1>8. Cardinality({b_1 \in List!WithinShare : b_1.kind = a.kind}) = MaxPerKind
  BY <1>3, <1>7, SharesOfKinds
<1>9. PICK X : X = {d \in List!WithinShare : d.kind = a.kind}
  OBVIOUS
<1>10. PICK Y : Y = {d \in List!Listed : d.kind = a.kind}
  OBVIOUS
<1>11. X \in SUBSET Y /\ Y \in SUBSET List!Listed
  BY <1>2, <1>9, <1>10
<1>12. Ordered(Y) /\ Cardinality(Y) \in Nat
  BY <1>11, ListedChosen, OrderedSubset
<1>13. Cardinality(X) <= Cardinality(Y)
  BY <1>11, <1>12, OrderedSubset
<1> QED
  BY <1>8, <1>9, <1>10, <1>12, <1>13, ListAssumption

(* The list is varied.                                                     *)
LEMMA ListIsVaried ==
    ASSUME ListSafe
    PROVE  List!SuggestionsVaried
<1> SUFFICES ASSUME picked # <<>> PROVE List!SuggestionsVaried
  BY DEF List!SuggestionsVaried
<1>1. PICK L : L = List!Listed
  OBVIOUS
<1>2. picked = List!Sorted(L) /\ Ordered(L)
  BY <1>1, ListedChosen DEF ListSafe
<1>3. List!SetOf(picked) = L /\ Len(picked) = Cardinality(L) /\ (L # {} => picked[1] = List!Best(L))
  BY <1>2, SortedSet
<1>4. L # {}
  <2>1. ASSUME L = {} PROVE picked = <<>>
    <3>1. picked \in [1..Cardinality(L) -> L]
      BY <1>2, SortedSet
    <3>2. Cardinality(L) = 0
      BY <2>1, FS_EmptySet
    <3>3. picked \in Seq(L) /\ Len(picked) = 0
      BY <1>3, <3>1, <3>2, SeqDef
    <3> QED
      BY <3>3, EmptySeq
  <2> QED
    BY <2>1
<1>5. \A a, b \in L : a # b => a.item # b.item
  BY <1>1, UniqueByItem, ListedChosen
<1>6. picked[1] = List!Best(List!Eligible)
  <2>1. L \subseteq List!Eligible
    BY <1>1, UniqueByItem, ListedChosen
  <2>2. PICK e : e = List!Best(List!Eligible)
    OBVIOUS
  <2>3. e \in List!Unique /\ e \in List!Eligible /\ \A b \in List!Eligible \ {e} : List!ByScore(e, b)
    BY <1>4, <2>1, <2>2, UniqueByItem, BestOfSet
  <2>4. e \in List!Listed
    <3>1. SUFFICES ASSUME e \notin List!Listed PROVE FALSE
      OBVIOUS
    <3>2. PICK S : S = List!OfKind(e.kind)
      OBVIOUS
    <3>3. e \in S /\ Ordered(S) /\ S \subseteq List!Eligible /\ List!Rank(e) = Place(e, S)
      <4>1. e \in S
        BY <2>3, <3>2 DEF List!OfKind
      <4> QED
        BY <3>2, <4>1, SharesOfKinds, UniqueByItem
    <3>4. Before(e, S) = {}
      BY <2>3, <3>3 DEF Before, Ordered
    <3>5. e \in List!WithinShare
      BY <2>3, <3>3, <3>4, FS_EmptySet, ListAssumption DEF List!WithinShare, Place
    <3>6. PICK W : W = List!WithinShare
      OBVIOUS
    <3>7. Before(e, W) = {}
      <4>1. W \subseteq List!Eligible /\ Ordered(W)
        BY <3>6, ListedChosen, UniqueByItem
      <4> QED
        BY <2>3, <3>5, <3>6, <4>1 DEF Before, Ordered
    <3>8. Place(e, W) < MaxSuggestions
      BY <3>7, FS_EmptySet, ListAssumption DEF Place
    <3>9. e \in List!FirstN(W, MaxSuggestions)
      BY <3>5, <3>6, <3>8, ListedChosen, FirstOfSet, ListAssumption
    <3> QED
      BY <3>1, <3>6, <3>9 DEF List!Listed, List!Varied
  <2>5. List!Best(L) \in L /\ \A b \in L \ {List!Best(L)} : List!ByScore(List!Best(L), b)
    BY <1>2, <1>4, BestOfSet
  <2>6. List!Best(L) = e
    BY <1>1, <1>2, <2>1, <2>3, <2>4, <2>5 DEF Ordered
  <2> QED
    BY <1>3, <1>4, <2>2, <2>6
<1>7. Len(picked) = List!Min({MaxSuggestions, List!Cardinality(List!Unique)})
  <2>1. PICK n : n = Cardinality(List!Unique)
    OBVIOUS
  <2>2. n \in Nat
    BY <2>1, UniqueByItem, FS_CardinalityType DEF Ordered
  <2>3. Len(picked) = IF MaxSuggestions < n THEN MaxSuggestions ELSE n
    BY <1>1, <1>3, <2>1, ListedChosen
  <2>4. List!Min({MaxSuggestions, n}) = IF MaxSuggestions < n THEN MaxSuggestions ELSE n
    <3>1. PICK m : m = IF MaxSuggestions < n THEN MaxSuggestions ELSE n
      OBVIOUS
    <3>2. m \in {MaxSuggestions, n} /\ \A x \in {MaxSuggestions, n} : m <= x
      BY <2>2, <3>1, ListAssumption
    <3>3. \A z \in {MaxSuggestions, n} : (\A x \in {MaxSuggestions, n} : z <= x) => z = m
      BY <2>2, <3>2, ListAssumption
    <3> QED
      BY <3>1, <3>2, <3>3 DEF List!Min
  <2> QED
    BY <2>1, <2>3, <2>4, SameCardinality
<1>8. \A a \in List!Unique \ L : \A b \in L : a.kind = b.kind => List!ByScore(b, a)
  BY <1>1, LeftOutIsLater
<1>9. \A k \in List!Kind : List!Cardinality({a \in L : a.kind = k}) > MaxPerKind
        => \A a \in List!Unique \ L : List!Cardinality({b \in L : b.kind = a.kind}) >= MaxPerKind
  BY <1>1, SharesUsedUp, SameCardinality
<1> QED
  BY <1>3, <1>5, <1>6, <1>7, <1>8, <1>9 DEF List!SuggestionsVaried

(* Before anything is listed there are finitely many candidates, and the   *)
(* pair of its kind and id tells a candidate.                              *)
LEMMA CandidatesDrawn == List!Init => ListSafe
<1> SUFFICES ASSUME List!Init PROVE ListSafe
  OBVIOUS
<1>1. PICK f \in [1..MaxCandidates -> List!Candidate] : candidates = List!Range(f)
  BY DEF List!Init
<1>2. candidates = {f[n] : n \in 1..MaxCandidates}
  BY <1>1 DEF List!Range
<1>3. candidates \subseteq List!Candidate
  BY <1>1, <1>2
<1>4. IsFiniteSet(1..MaxCandidates)
  BY FS_Interval, ListAssumption
<1>5. IsFiniteSet(candidates)
  <2>1. f \in Surjection(1..MaxCandidates, candidates)
    BY <1>1, <1>2 DEF Surjection
  <2> QED
    BY <1>4, <2>1, FS_Surjection
<1>6. PICK K : K = {<<a.kind, a.id>> : a \in candidates}
  OBVIOUS
<1>7. PICK g : g = [a \in candidates |-> <<a.kind, a.id>>]
  OBVIOUS
<1>8. g \in Surjection(candidates, K)
  <2>1. g \in [candidates -> K]
    BY <1>6, <1>7
  <2>2. \A k \in K : \E a \in candidates : g[a] = k
    BY <1>6, <1>7
  <2> QED
    BY <2>1, <2>2 DEF Surjection
<1>9. Cardinality(K) = Cardinality(candidates)
  BY <1>6, SameCardinality DEF List!Init
<1>10. g \in Injection(candidates, K)
  BY <1>5, <1>8, <1>9, FS_Surjection
<1>11. \A a, b \in candidates : a.kind = b.kind /\ a.id = b.id => a = b
  <2>1. \A a, b \in candidates : g[a] = g[b] => a = b
    BY <1>10 DEF Injection, IsInjective
  <2>2. \A a \in candidates : g[a] = <<a.kind, a.id>>
    BY <1>7
  <2> QED
    BY <2>1, <2>2
<1> QED
  BY <1>3, <1>5, <1>11 DEF List!Init, ListSafe

(* What is listed is determined by the candidates, which ranking leaves.   *)
LEMMA ListSafeStep ==
    ASSUME ListSafe, [List!Next]_list
    PROVE  ListSafe'
<1>1. UNCHANGED candidates
  BY DEF List!Next, List!RankSuggestions, list
<1>2. UNCHANGED List!Eligible
  BY <1>1 DEF List!Eligible, List!ToReorder
<1>3. UNCHANGED List!Unique
  BY <1>2 DEF List!Unique, List!Best, List!ByScore, List!KindOrder
<1>4. UNCHANGED List!WithinShare
  BY <1>3 DEF List!WithinShare, List!Rank, List!OfKind, List!ByScore, List!KindOrder
<1>5. UNCHANGED List!Varied
  BY <1>4 DEF List!Varied, List!FirstN, List!ByScore, List!KindOrder
<1>6. UNCHANGED List!Listed
  BY <1>3, <1>4, <1>5 DEF List!Listed, List!FirstN, List!ByScore, List!KindOrder
<1>7. UNCHANGED List!Sorted(List!Listed)
  BY <1>6 DEF List!Sorted, List!ByScore, List!KindOrder
<1>8. picked' # <<>> => picked' = List!Sorted(List!Listed)
  BY DEF List!Next, List!RankSuggestions, list, ListSafe
<1> QED
  BY <1>1, <1>7, <1>8 DEF ListSafe
-----------------------------------------------------------------------------
(* All parts at once.  Only the part a behaviour is about takes steps, and *)
(* the others rest, so each keeps what its own steps keep.                 *)
DecisionsSafe ==
    /\ PricesSafe /\ AlertsSafe /\ DaysSafe /\ ListSafe
    /\ part = "engine" => EngineSafe

(* A step is one of the part's actions, or none of it at all.              *)
LEMMA PartsStep ==
    ASSUME [MCNext]_MCVars
    PROVE  /\ [Next]_vars /\ [Bell!Next]_alerts /\ [Days!Next]_(Days!vars) /\ [List!Next]_list
           /\ part' = part /\ (IF part = "engine" THEN [Engine!Next]_engine ELSE UNCHANGED engine)
<1>1. UNCHANGED daily <=> UNCHANGED Days!vars
  BY DEF daily, Days!vars
<1>2. CASE UNCHANGED MCVars
  BY <1>1, <1>2 DEF MCVars, engine
<1>3. CASE Only("pricing", Next)
  BY <1>1, <1>3 DEF Only, Others
<1>4. CASE Only("alerts", Bell!Next)
  BY <1>1, <1>4 DEF Only, Others
<1>5. CASE Only("engine", Engine!Next)
  BY <1>1, <1>5 DEF Only, Others
<1>6. CASE Only("days", Days!Next)
  BY <1>1, <1>6 DEF Only, Others
<1>7. CASE Only("list", List!Next)
  BY <1>1, <1>7 DEF Only, Others
<1> QED
  BY <1>2, <1>3, <1>4, <1>5, <1>6, <1>7 DEF MCNext

(* Every part begins as its module says, the engine's only in its own part.*)
LEMMA DecisionsSafeInit == MCInit => DecisionsSafe
<1> SUFFICES ASSUME MCInit PROVE DecisionsSafe
  OBVIOUS
<1>1. ListSafe
  <2>1. CASE part = "list"
    BY <2>1, CandidatesDrawn DEF MCInit
  <2>2. CASE part # "list"
    <3>1. candidates = {} /\ picked = <<>>
      BY <2>2 DEF MCInit
    <3> QED
      BY <3>1, FS_EmptySet DEF ListSafe
  <2> QED
    BY <2>1, <2>2
<1>2. part = "engine" => EngineSafe
  BY EngineSafeInit DEF MCInit
<1> QED
  BY <1>1, <1>2, PricesSafeInit, AlertsSafeInit, DaysSafeInit DEF MCInit, DecisionsSafe

(* Every step keeps every part safe; none accepts a price that is not      *)
(* current, leaves an alert against its condition, or takes a summary back.*)
LEMMA DecisionsSafeStep ==
    ASSUME DecisionsSafe, [MCNext]_MCVars
    PROVE  /\ DecisionsSafe'
           /\ [AcceptsOnBasis]_vars /\ [FollowsCondition]_alerts /\ NoneRegresses /\ [GoodsArrive]_engine
<1> USE DEF DecisionsSafe
<1>1. PricesSafe' /\ [AcceptsOnBasis]_vars
  BY PartsStep, PricesSafeStep, AcceptedStep
<1>2. AlertsSafe' /\ [FollowsCondition]_alerts
  BY PartsStep, AlertsSafeStep
<1>3. DaysSafe' /\ NoneRegresses
  BY PartsStep, DaysSafeStep
<1>4. ListSafe'
  BY PartsStep, ListSafeStep
<1>5. (part = "engine" => EngineSafe)'
  BY PartsStep, EngineSafeStep
<1>6. [GoodsArrive]_engine
  BY PartsStep, RiskStep
<1> QED
  BY <1>1, <1>2, <1>3, <1>4, <1>5, <1>6

(* The inductive invariant of all parts holds in every reachable state.    *)
THEOREM DecisionsStaySafe == MCSpec => []DecisionsSafe
BY DecisionsSafeInit, DecisionsSafeStep, PTL DEF MCSpec

(* The part with the prices is a behaviour of Pricing, so what is proved of*)
(* that holds here.                                                        *)
THEOREM PricesAreAPart == MCSpec => Spec
<1>1. MCInit => Init
  BY DEF MCInit
<1>2. [MCNext]_MCVars => [Next]_vars
  BY PartsStep
<1> QED
  BY <1>1, <1>2, PTL DEF MCSpec, Spec

(* ALR-003.  Whatever operators and evaluations interleave, a synchronisa- *)
(* tion that no operator wrote into leaves active the alerts of its        *)
(* triggers, but for those an owner resolved, and no others.               *)
THEOREM AlertsFollow == MCSpec => AlertsFollowCondition
<1>1. DecisionsSafe /\ [MCNext]_MCVars => [FollowsCondition]_alerts
  BY DecisionsSafeStep
<1>2. [FollowsCondition]_alerts <=> [FollowsCondition]_(Bell!vars)
  BY DEF alerts, Bell!vars
<1> QED
  BY <1>1, <1>2, DecisionsStaySafe, PTL
     DEF MCSpec, AlertsFollowCondition, Bell!AlertsFollowCondition, FollowsCondition

(* Whichever rebuilds overlap, deadlock or start again, no row of a day's  *)
(* summary is replaced by what an earlier state of the day gives.          *)
THEOREM SummariesOnlyAdvance == MCSpec => SummaryNeverRegresses
<1>1. DecisionsSafe /\ [MCNext]_MCVars => [NoneRegresses]_(Days!vars)
  BY DecisionsSafeStep
<1> QED
  BY <1>1, DecisionsStaySafe, PTL
     DEF MCSpec, SummaryNeverRegresses, Days!SummaryNeverRegresses, NoneRegresses

(* A recommended price keeps the cost, the floor and the limits of the     *)
(* settings, facts alone count without enough history, and the list of next*)
(* actions is varied, for every item, history and candidate reached.       *)
THEOREM AdviceAlwaysSafe == MCSpec => []AdviceIsSafe
<1>1. DecisionsSafe => AdviceIsSafe
  BY AdviceIsAlwaysSafe, ListIsVaried DEF DecisionsSafe, AdviceIsSafe
<1> QED
  BY <1>1, DecisionsStaySafe, PTL

(* More goods of an item never raise its stockout risk, nor lower its      *)
(* overstock risk, for any item, any sales before, any settings that are   *)
(* let through and any quantities (risk-evaluator.ts), unless a demand of  *)
(* about five units a week stops counting.                                 *)
THEOREM RiskAlwaysFollows == MCSpec => RiskFollowsStock
<1>1. DecisionsSafe /\ [MCNext]_MCVars => [GoodsArrive]_engine
  BY DecisionsSafeStep
<1>2. [GoodsArrive]_engine =>
        [settings' = settings /\ sku'.available > sku.available =>
           \A before \in {Engine!Analysis(sku, settings, above)}, after \in {Engine!Analysis(sku', settings', above)} :
              /\ after.stockout <= before.stockout
              /\ after.risk.stockout => before.risk.stockout
              /\ (Engine!ExpectsUnitsIn(sku, before) => Engine!ExpectsUnitsIn(sku', after)) =>
                    /\ after.overstock >= before.overstock
                    /\ before.risk.overstock => after.risk.overstock]_(Engine!vars)
  BY DEF GoodsArrive, RiskFollows, Engine!ExpectsUnitsIn, engine, Engine!vars
<1> QED
  BY <1>1, <1>2, DecisionsStaySafe, PTL DEF MCSpec, RiskFollowsStock, Engine!RiskFollowsStock

(* What the prices, the alerts, the engine, the summaries and the list of  *)
(* the decisions keep, together.                                           *)
THEOREM DecisionsHold ==
    MCSpec => /\ []OnePending /\ AcceptedOnBasis
              /\ AlertsFollowCondition /\ SummaryNeverRegresses /\ []AdviceIsSafe
              /\ RiskFollowsStock
BY PricesAreAPart, AtMostOnePending, AcceptanceIsCurrent, AlertsFollow, SummariesOnlyAdvance,
   AdviceAlwaysSafe, RiskAlwaysFollows, PTL
=============================================================================
