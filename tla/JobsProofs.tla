------------------------------ MODULE JobsProofs ------------------------------
(***************************************************************************)
(* What holds of the recompute queues, the nightly run and the snapshots   *)
(* for every set of processes, items and deployments; of imports for every *)
(* set of files and requests; and of the limits on logins and questions.   *)
(***************************************************************************)
EXTENDS MCJobs, FiniteSetTheorems, WellFoundedInduction, TLAPS

Nightly(p) == job[p]["nightly"]

(* A process works on tonight's run from when it got the lease until it    *)
(* gives it back; from the re-check on, it knows that nobody has finished. *)
Working(p) == Nightly(p).tonight /\ Nightly(p).stage \in {"recheck", "page", "work", "record"}
Committed(p) == Working(p) /\ Nightly(p).stage # "recheck"

(* Whoever works on tonight's run holds its lease, no run was completed    *)
(* once it has re-checked, and a completed run has left its marker, unless *)
(* a run of an earlier date has overwritten it.                            *)
RunsTakeTurns ==
    /\ \A p \in Instance : Working(p) => lease["nightly"].live /\ lease["nightly"].holder = p
    /\ \A p \in Instance : Committed(p) => runs = 0 \/ late
    /\ runs > 0 => lastRun = "tonight" \/ late
    /\ runs > 1 => late

(* An item is recomputed by one worker at a time, who has seen no less of  *)
(* its sources than its snapshot shows, and no more than there is.         *)
RecomputesTakeTurns ==
    /\ \A v, w \in Worker : txn[v] # NoTxn /\ txn[v].item = txn[w].item => v = w
    /\ \A w \in Worker : txn[w] # NoTxn =>
          snapshot[txn[w].item] <= txn[w].seen /\ txn[w].seen <= source[txn[w].item]
    /\ \A i \in Item : snapshot[i] <= source[i]

(* The timer runs while something is pending and nobody drains it, only a  *)
(* drain has work to do, and only a flush leaves a drain that is stuck.    *)
QueueKept(p) ==
    /\ queue[p].timer <=> queue[p].draining = "no" /\ queue[p].pending # {}
    /\ queue[p].draining # "yes" => todo[<<p, "queue">>] = {}
    /\ queue[p].draining = "stuck" => status[p] = "flushed"
QueuesKept == \A p \in Instance : QueueKept(p)

(* What was queued is in the snapshot, or still pending, or in the batch of*)
(* the drain and not read from older sources; and when the drain a flush   *)
(* awaits has ended, it is in the snapshot.                                *)
DebtKept(p, i) ==
    /\ due[p][i] <= source[i]
    /\ \/ due[p][i] <= snapshot[i]
       \/ i \in queue[p].pending
       \/ /\ i \in todo[<<p, "queue">>]
          /\ txn[<<p, "queue">>].item = i => due[p][i] <= txn[<<p, "queue">>].seen
    /\ status[p] = "flushed" /\ queue[p].draining # "yes" => due[p][i] <= snapshot[i]
DebtsKept ==
    /\ \A p \in Instance, i \in Item : DebtKept(p, i)
    /\ \A p \in Instance : txn[<<p, "queue">>] # NoTxn =>
          txn[<<p, "queue">>].item \in todo[<<p, "queue">>]

(* The inductive invariant.                                                *)
JobsSafe ==
    /\ TypeOK
    /\ RunsTakeTurns
    /\ RecomputesTakeTurns
    /\ QueuesKept
    /\ DebtsKept
-----------------------------------------------------------------------------
(* A set that is least by inclusion among those of a family.               *)
Least(A, F) == A \in F /\ \A B \in F : B \subseteq A => B = A

(* A family of subsets of a finite set has a least one.                    *)
LEMMA LeastExists ==
    ASSUME NEW S, IsFiniteSet(S), NEW F, F \subseteq SUBSET S, F # {}
    PROVE  \E A : Least(A, F)
<1>1. IsWellFoundedOn(StrictSubsetOrdering(S), SUBSET S)
  BY FS_FiniteSubsetsOfFinite, FS_StrictSubsetOrderingWellFounded
<1>2. \E A \in F : \A B \in F : ~ (<<B, A>> \in StrictSubsetOrdering(S))
  BY <1>1, WFMin
<1> QED
  BY <1>2 DEF StrictSubsetOrdering, Least

(* A finite set of numbers has a greatest one: a least set without one     *)
(* would still be without one when an element is taken from it.            *)
LEMMA MaxIsElement ==
    ASSUME NEW S \in SUBSET Nat, IsFiniteSet(S), S # {}
    PROVE  Max(S) \in S /\ \A k \in S : Max(S) >= k
<1> DEFINE Without == {T \in SUBSET S : T # {} /\ ~\E m \in T : \A k \in T : m >= k}
<1>1. Without = {}
  <2> SUFFICES ASSUME Without # {} PROVE FALSE
    OBVIOUS
  <2>1. Without \subseteq SUBSET S
    OBVIOUS
  <2>2. \E A : Least(A, Without)
    <3> HIDE DEF Without
    <3> QED
      BY <2>1, LeastExists
  <2>3. PICK A \in Without : \A B \in Without : B \subseteq A => B = A
    BY <2>2 DEF Least
  <2>4. PICK x \in A : TRUE
    BY <2>3
  <2>5. CASE A \ {x} = {}
    <3>1. \A k \in A : x >= k
      BY <2>3, <2>4, <2>5
    <3> QED
      BY <2>3, <2>4, <3>1
  <2>6. CASE A \ {x} # {}
    <3>1. A \ {x} \in SUBSET S /\ A \ {x} \subseteq A /\ A \ {x} # A
      BY <2>3, <2>4
    <3>2. A \ {x} \notin Without
      <4> HIDE DEF Without
      <4> QED
        BY <2>3, <3>1
    <3>3. PICK m \in A \ {x} : \A k \in A \ {x} : m >= k
      BY <3>1, <3>2, <2>6
    <3>4. CASE m >= x
      BY <2>3, <3>3, <3>4
    <3>5. CASE x >= m
      BY <2>3, <2>4, <3>3, <3>5
    <3> QED
      BY <2>3, <2>4, <3>3, <3>4, <3>5
  <2> QED
    BY <2>5, <2>6
<1>2. \E m \in S : \A k \in S : m >= k
  BY <1>1
<1> QED
  BY <1>2 DEF Max

(* A page is of active items, and ends at one of them or where it began.   *)
LEMMA PageOfItems ==
    ASSUME TypeOK, NEW c \in {0} \cup Item
    PROVE  Page(c) \subseteq Item /\ PageEnd(c) \in {0} \cup Item
<1>1. Page(c) \subseteq Item
  BY JobAssumption DEF TypeOK, Page, After
<1>2. IsFiniteSet(Page(c)) /\ Page(c) \in SUBSET Nat
  BY <1>1, JobAssumption, FS_Subset
<1>3. Page(c) # {} => Max(Page(c)) \in Page(c)
  BY <1>2, MaxIsElement
<1> QED
  BY <1>1, <1>3 DEF PageEnd
-----------------------------------------------------------------------------
JobRow == [stage : Stages, tonight : BOOLEAN, cursor : {0} \cup Item]
TxnRow == [item : Item, seen : Nat] \cup {NoTxn}
QueueRow == [pending : SUBSET Item, timer : BOOLEAN, draining : {"no", "yes", "stuck"}]
LeaseRow == [holder : Instance \cup {NoHolder}, live : BOOLEAN]

(* A run moves from one stage to the next.                                 *)
LEMMA StageStep ==
    ASSUME TypeOK, NEW p \in Instance, NEW j \in Job, NEW from, NEW to \in Stages, Stage(p, j, from, to)
    PROVE  /\ job' \in [Instance -> [Job -> JobRow]]
           /\ job[p][j].stage = from /\ job'[p][j].stage = to
           /\ to # "idle" => job'[p][j].tonight = job[p][j].tonight
           /\ \A q \in Instance, k \in Job : q # p \/ k # j => job'[q][k] = job[q][k]
<1>1. IdleRun \in JobRow /\ IdleRun.stage = "idle"
  BY DEF IdleRun, JobRow, Stages
<1>2. job[p][j] \in JobRow
  BY DEF TypeOK, JobRow
<1> DEFINE made == IF to = "idle" THEN IdleRun ELSE [job[p][j] EXCEPT !.stage = to]
<1>3. made \in JobRow /\ made.stage = to /\ (to # "idle" => made.tonight = job[p][j].tonight)
  BY <1>1, <1>2 DEF JobRow
<1>4. job' = [job EXCEPT ![p][j] = made]
  BY DEF Stage
<1> HIDE DEF made
<1>5. /\ job' \in [Instance -> [Job -> JobRow]]
      /\ job'[p][j] = made
      /\ \A q \in Instance, k \in Job : q # p \/ k # j => job'[q][k] = job[q][k]
  BY <1>3, <1>4 DEF TypeOK, JobRow
<1> QED
  BY <1>3, <1>5 DEF Stage

(* A deployment starts with its types.                                     *)
LEMMA InitTyped ==
    ASSUME Init
    PROVE  TypeOK
<1>1. deployed.failures \in Nat /\ deployed.stops \in Nat /\ deployed \in Deployment
  BY JobAssumption DEF Init
<1>2. job \in [Instance -> [Job -> JobRow]]
  <2>1. IdleRun \in JobRow
    BY DEF IdleRun, JobRow, Stages
  <2> QED
    BY <2>1 DEF Init
<1>3. queue \in [Instance -> QueueRow] /\ txn \in [Worker -> TxnRow] /\ lease \in [Job -> LeaseRow]
  BY DEF Init, EmptyQueue, QueueRow, TxnRow, LeaseRow
<1>4. /\ source \in [Item -> Nat] /\ snapshot \in [Item -> Nat]
      /\ status \in [Instance -> {"up", "closing", "flushed", "exited", "crashed", "absent"}]
      /\ owed \in [Instance -> SUBSET Item] /\ todo \in [Worker -> SUBSET Item]
      /\ due \in [Instance -> [Item -> Nat]]
  BY DEF Init
<1>5. lastRun \in {"tonight", "before"} /\ night \in BOOLEAN /\ late \in BOOLEAN
  BY DEF Init
<1>6. failures \in 0..deployed.failures /\ stops \in 0..deployed.stops /\ runs \in Nat
  BY <1>1 DEF Init
<1> QED
  BY <1>1, <1>2, <1>3, <1>4, <1>5, <1>6 DEF TypeOK, JobRow, QueueRow, TxnRow, LeaseRow

(* What a process loses when it ends.                                      *)
LEMMA ResetTyped ==
    ASSUME TypeOK, NEW p \in Instance, Reset(p)
    PROVE  /\ owed' \in [Instance -> SUBSET Item]
           /\ due' \in [Instance -> [Item -> Nat]]
           /\ queue' \in [Instance -> QueueRow]
           /\ todo' \in [Worker -> SUBSET Item]
           /\ txn' \in [Worker -> TxnRow]
           /\ job' \in [Instance -> [Job -> JobRow]]
<1>1. EmptyQueue \in QueueRow /\ IdleRun \in JobRow /\ NoTxn \in TxnRow
  BY DEF EmptyQueue, QueueRow, IdleRun, JobRow, TxnRow, Stages
<1>2. [j \in Job |-> IdleRun] \in [Job -> JobRow]
  BY <1>1
<1> QED
  BY <1>1, <1>2 DEF Reset, TypeOK, QueueRow, TxnRow, JobRow

(* What a queue and its drain hold.                                        *)
LEMMA DrainTyped ==
    ASSUME TypeOK, NEW p \in Instance, Drain(p)
    PROVE  queue' \in [Instance -> QueueRow] /\ todo' \in [Worker -> SUBSET Item]
<1>1. queue[p] \in QueueRow /\ <<p, "queue">> \in Worker
  BY DEF TypeOK, QueueRow, Worker
<1>2. CASE queue[p].draining # "no"
  <2>1. queue' = [queue EXCEPT ![p] = [queue[p] EXCEPT !.timer = FALSE]] /\ UNCHANGED todo
    BY <1>2 DEF Drain
  <2>2. [queue[p] EXCEPT !.timer = FALSE] \in QueueRow
    BY <1>1 DEF QueueRow
  <2> QED
    BY <1>1, <2>1, <2>2 DEF TypeOK, QueueRow
<1>3. CASE queue[p].draining = "no" /\ queue[p].pending = {}
  <2>1. /\ queue' = [queue EXCEPT ![p] = [queue[p] EXCEPT !.timer = FALSE, !.draining = "stuck"]]
        /\ UNCHANGED todo
    BY <1>3 DEF Drain
  <2>2. [queue[p] EXCEPT !.timer = FALSE, !.draining = "stuck"] \in QueueRow
    BY <1>1 DEF QueueRow
  <2> QED
    BY <1>1, <2>1, <2>2 DEF TypeOK, QueueRow
<1>4. CASE queue[p].draining = "no" /\ queue[p].pending # {}
  <2>1. /\ queue' = [queue EXCEPT ![p] = [pending |-> {}, timer |-> FALSE, draining |-> "yes"]]
        /\ todo' = [todo EXCEPT ![<<p, "queue">>] = queue[p].pending]
    BY <1>4 DEF Drain
  <2>2. [pending |-> {}, timer |-> FALSE, draining |-> "yes"] \in QueueRow
    BY DEF QueueRow
  <2> QED
    BY <1>1, <2>1, <2>2 DEF TypeOK, QueueRow
<1> QED
  BY <1>2, <1>3, <1>4

(* Every step keeps to the types.                                          *)
LEMMA TypeStep ==
    ASSUME TypeOK, Step, UNCHANGED deployed
    PROVE  TypeOK'
<1> USE DEF data, history
<1>1. ASSUME NEW w \in Worker, NEW i \in Item, Evaluate(w, i)
      PROVE  TypeOK'
  <2>1. [item |-> i, seen |-> source[i]] \in TxnRow
    BY DEF TypeOK, TxnRow
  <2> QED
    BY <1>1, <2>1 DEF Evaluate, TypeOK, TxnRow
<1>2. ASSUME NEW w \in Worker, Persist(w)
      PROVE  TypeOK'
  <2>1. txn[w].item \in Item /\ txn[w].seen \in Nat
    BY <1>2 DEF Persist, TypeOK
  <2> QED
    BY <1>2, <2>1 DEF Persist, Leave, TypeOK
<1>3. ASSUME NEW w \in Worker, FailToPersist(w)
      PROVE  TypeOK'
  <2>1. failures' \in 0..deployed.failures
    BY <1>3, JobAssumption DEF FailToPersist, TypeOK
  <2>2. due' \in [Instance -> [Item -> Nat]]
    BY <1>3 DEF FailToPersist, TypeOK
  <2> QED
    BY <1>3, <2>1, <2>2 DEF FailToPersist, Leave, TypeOK
<1>4. ASSUME NEW p \in Instance, NEW j \in Job, Claim(p, j)
      PROVE  TypeOK'
  <2>1. job' \in [Instance -> [Job -> JobRow]]
    BY <1>4, StageStep DEF Claim, Stages
  <2>2. lease' \in [Job -> LeaseRow]
    BY <1>4 DEF Claim, TypeOK, LeaseRow
  <2> QED
    BY <1>4, <2>1, <2>2 DEF Claim, TypeOK, JobRow, LeaseRow
<1>5. ASSUME NEW p \in Instance, NEW j \in Job, Refused(p, j)
      PROVE  TypeOK'
  <2>1. job' \in [Instance -> [Job -> JobRow]]
    BY <1>5, StageStep DEF Refused, Stages
  <2> QED
    BY <1>5, <2>1 DEF Refused, TypeOK, JobRow
<1>6. ASSUME NEW p \in Instance, NEW j \in Job, ReadPage(p, j)
      PROVE  TypeOK'
  <2>1. job' \in [Instance -> [Job -> JobRow]]
    BY <1>6, StageStep DEF ReadPage, Stages
  <2>2. job[p][j].cursor \in {0} \cup Item
    BY DEF TypeOK
  <2>3. Page(job[p][j].cursor) \subseteq Item
    BY <2>2, PageOfItems
  <2>4. todo' \in [Worker -> SUBSET Item]
    BY <1>6, <2>3 DEF ReadPage, TypeOK
  <2> QED
    BY <1>6, <2>1, <2>4 DEF ReadPage, TypeOK, JobRow
<1>7. ASSUME NEW p \in Instance, NEW j \in Job, PageDone(p, j)
      PROVE  TypeOK'
  <2>0. job[p][j] \in JobRow /\ job[p][j].cursor \in {0} \cup Item
    BY DEF TypeOK, JobRow
  <2>1. PageEnd(job[p][j].cursor) \in {0} \cup Item
    BY <2>0, PageOfItems
  <2> DEFINE next == IF j = "recalc" THEN "release" ELSE
                       IF HasMore(job[p][j].cursor) THEN "page" ELSE "record"
             end == PageEnd(job[p][j].cursor)
  <2>2. next \in Stages
    BY DEF Stages
  <2>3. job' = [job EXCEPT ![p][j].stage = next, ![p][j].cursor = end]
    BY <1>7 DEF PageDone
  <2>4. end \in {0} \cup Item
    BY <2>1
  <2> HIDE DEF next, end
  <2>5. job' \in [Instance -> [Job -> JobRow]]
    <3> DEFINE made == [job[p][j] EXCEPT !.stage = next, !.cursor = end]
    <3>1. made \in JobRow
      BY <2>0, <2>2, <2>4 DEF JobRow
    <3>2. job' = [job EXCEPT ![p][j] = made]
      BY <2>3 DEF TypeOK
    <3> HIDE DEF made
    <3> QED
      BY <3>1, <3>2 DEF TypeOK, JobRow
  <2> QED
    BY <1>7, <2>5 DEF PageDone, TypeOK, JobRow
<1>8. ASSUME NEW p \in Instance, NEW j \in Job, Release(p, j)
      PROVE  TypeOK'
  <2>1. job' \in [Instance -> [Job -> JobRow]]
    BY <1>8, StageStep DEF Release, Stages
  <2>2. lease' \in [Job -> LeaseRow]
    BY <1>8 DEF Release, TypeOK, LeaseRow
  <2> QED
    BY <1>8, <2>1, <2>2 DEF Release, TypeOK, JobRow, LeaseRow
<1>9. ASSUME NEW p \in Instance, Recheck(p) \/ Record(p)
      PROVE  TypeOK'
  <2>1. job' \in [Instance -> [Job -> JobRow]]
    <3>1. "nightly" \in Job /\ {"release", "page"} \subseteq Stages
      BY DEF Job, Stages
    <3>2. \E from : \E to \in Stages : Stage(p, "nightly", from, to)
      BY <1>9, <3>1 DEF Recheck, Record
    <3> QED
      BY <3>1, <3>2, StageStep
  <2>2. runs' \in Nat /\ late' \in BOOLEAN /\ lastRun' \in {"tonight", "before"}
    <3>1. CASE Recheck(p)
      BY <3>1 DEF Recheck, TypeOK
    <3>2. CASE Record(p)
      <4>1. runs' = runs \/ runs' = runs + 1
        BY <3>2 DEF Record
      <4>2. Nightly(p).tonight \in BOOLEAN
        BY DEF TypeOK, Job, Nightly
      <4>3. late' = (late \/ ~Nightly(p).tonight)
        BY <3>2 DEF Record, Nightly
      <4>4. lastRun' \in {"tonight", "before"}
        BY <3>2 DEF Record
      <4> QED
        BY <4>1, <4>2, <4>3, <4>4 DEF TypeOK
    <3> QED
      BY <1>9, <3>1, <3>2
  <2> QED
    BY <1>9, <2>1, <2>2 DEF Recheck, Record, TypeOK, JobRow
<1>10. ASSUME NEW p \in Instance, NEW j \in Job, RunFails(p, j)
       PROVE  TypeOK'
  <2>1. job' \in [Instance -> [Job -> JobRow]]
    BY <1>10, StageStep DEF RunFails, Stages
  <2>2. failures' \in 0..deployed.failures
    BY <1>10, JobAssumption DEF RunFails, TypeOK
  <2> QED
    BY <1>10, <2>1, <2>2 DEF RunFails, TypeOK, JobRow
<1>11. ASSUME NEW p \in Instance, Enqueue(p)
       PROVE  TypeOK'
  <2>1. queue[p] \in QueueRow
    BY DEF TypeOK, QueueRow
  <2>2. queue' \in [Instance -> QueueRow]
    BY <1>11, <2>1 DEF Enqueue, TypeOK, QueueRow
  <2>3. due' \in [Instance -> [Item -> Nat]]
    BY <1>11 DEF Enqueue, TypeOK
  <2> QED
    BY <1>11, <2>2, <2>3 DEF Enqueue, TypeOK, QueueRow
<1>12. ASSUME NEW p \in Instance, TimerFires(p) \/ Flush(p)
       PROVE  TypeOK'
  <2>1. queue' \in [Instance -> QueueRow] /\ todo' \in [Worker -> SUBSET Item]
    BY <1>12, DrainTyped DEF TimerFires, Flush
  <2> QED
    BY <1>12, <2>1 DEF TimerFires, Flush, TypeOK, QueueRow
<1>13. ASSUME NEW p \in Instance, BatchDone(p)
       PROVE  TypeOK'
  <2>1. queue[p] \in QueueRow
    BY DEF TypeOK, QueueRow
  <2>2. queue' \in [Instance -> QueueRow] /\ todo' \in [Worker -> SUBSET Item]
    BY <1>13, <2>1 DEF BatchDone, TypeOK, QueueRow
  <2> QED
    BY <1>13, <2>2 DEF BatchDone, TypeOK, QueueRow
<1>14. ASSUME NEW p \in Instance, Tick(p)
       PROVE  TypeOK'
  <2>1. [stage |-> "claim", tonight |-> TRUE, cursor |-> 0] \in JobRow
    BY DEF JobRow, Stages
  <2> QED
    BY <1>14, <2>1 DEF Tick, TypeOK, JobRow
<1>15. ASSUME NEW p \in Instance, NEW c \in {0} \cup Item, Recalculate(p, c)
       PROVE  TypeOK'
  <2>1. [stage |-> "claim", tonight |-> TRUE, cursor |-> c] \in JobRow
    BY DEF JobRow, Stages
  <2> QED
    BY <1>15, <2>1 DEF Recalculate, TypeOK, JobRow
<1>16. ASSUME NEW p \in Instance, Close(p)
       PROVE  TypeOK'
  <2>1. stops' \in 0..deployed.stops
    BY <1>16, JobAssumption DEF Close, TypeOK
  <2> QED
    BY <1>16, <2>1 DEF Close, TypeOK
<1>17. ASSUME NEW p \in Instance, Exit(p) \/ Crash(p)
       PROVE  TypeOK'
  <2>1. stops' \in 0..deployed.stops
    BY <1>17, JobAssumption DEF Exit, Crash, TypeOK
  <2>2. /\ owed' \in [Instance -> SUBSET Item] /\ queue' \in [Instance -> QueueRow]
        /\ due' \in [Instance -> [Item -> Nat]]
        /\ todo' \in [Worker -> SUBSET Item] /\ txn' \in [Worker -> TxnRow]
        /\ job' \in [Instance -> [Job -> JobRow]]
    BY <1>17, ResetTyped DEF Exit, Crash
  <2> QED
    BY <1>17, <2>1, <2>2 DEF Exit, Crash, TypeOK, QueueRow, TxnRow, JobRow
<1>18. ASSUME NEW p \in Instance, Restart(p)
       PROVE  TypeOK'
  BY <1>18 DEF Restart, TypeOK
<1>19. ASSUME NEW p \in Instance, NEW i \in Item, Change(p, i)
       PROVE  TypeOK'
  BY <1>19 DEF Change, TypeOK
<1>20. ASSUME Morning \/ RecalcLeaseExpires
       PROVE  TypeOK'
  <2>1. lease' \in [Job -> LeaseRow]
    <3>1. CASE Morning
      BY <3>1 DEF Morning, TypeOK, LeaseRow
    <3>2. CASE RecalcLeaseExpires
      <4>1. lease' = [lease EXCEPT !["recalc"].live = FALSE]
        BY <3>2 DEF RecalcLeaseExpires
      <4> QED
        BY <4>1 DEF TypeOK, LeaseRow
    <3> QED
      BY <1>20, <3>1, <3>2
  <2> QED
    BY <1>20, <2>1 DEF Morning, RecalcLeaseExpires, TypeOK, LeaseRow
<1>21. ASSUME Nightfall
       PROVE  TypeOK'
  <2>1. \A p \in Instance : [job[p] EXCEPT !["nightly"].tonight = FALSE] \in [Job -> JobRow]
    <3>1. \A p \in Instance : job[p] \in [Job -> JobRow]
      BY DEF TypeOK, JobRow
    <3>2. \A f \in [Job -> JobRow] : [f EXCEPT !["nightly"].tonight = FALSE] \in [Job -> JobRow]
      BY DEF JobRow, Job
    <3> QED
      BY <3>1, <3>2
  <2> QED
    BY <1>21, <2>1 DEF Nightfall, TypeOK, JobRow
<1> QED
  BY <1>1, <1>2, <1>3, <1>4, <1>5, <1>6, <1>7, <1>8, <1>9, <1>10, <1>11, <1>12, <1>13, <1>14, <1>15,
     <1>16, <1>17, <1>18, <1>19, <1>20, <1>21 DEF Step, Work, Run, QueueStep
-----------------------------------------------------------------------------
(* What the worker of a transaction under way works on.                    *)
LEMMA TxnOfItem ==
    ASSUME TypeOK, NEW w \in Worker
    PROVE  txn[w] # NoTxn <=> txn[w].item \in Item
<1>1. 0 \notin Item
  BY JobAssumption
<1> QED
  BY <1>1 DEF TypeOK, NoTxn

(* Workers take turns on an item, and a snapshot only takes what a worker  *)
(* has seen since the last one.                                            *)
LEMMA RecomputesStep ==
    ASSUME TypeOK, RecomputesTakeTurns, Step
    PROVE  RecomputesTakeTurns' /\ \A i \in Item : snapshot'[i] >= snapshot[i]
<1> USE DEF data, history
<1>0. ASSUME UNCHANGED <<source, snapshot>>, \A v \in Worker : txn'[v] = NoTxn \/ txn'[v] = txn[v]
      PROVE  RecomputesTakeTurns' /\ \A k \in Item : snapshot'[k] >= snapshot[k]
  <2>1. NoTxn.item = 0 /\ \A v \in Worker : txn[v] # NoTxn => txn[v].item # 0
    BY TxnOfItem, JobAssumption DEF NoTxn
  <2>2. ASSUME NEW u \in Worker, NEW v \in Worker, txn'[u] # NoTxn, txn'[u].item = txn'[v].item
        PROVE  u = v
    <3>1. txn'[u] = txn[u] /\ txn'[v] # NoTxn
      BY <1>0, <2>1, <2>2
    <3> QED
      BY <1>0, <2>2, <3>1 DEF RecomputesTakeTurns
  <2>3. ASSUME NEW v \in Worker, txn'[v] # NoTxn
        PROVE  snapshot[txn'[v].item] <= txn'[v].seen /\ txn'[v].seen <= source[txn'[v].item]
    BY <1>0, <2>3 DEF RecomputesTakeTurns
  <2>4. \A k \in Item : snapshot[k] \in Nat /\ snapshot[k] <= source[k]
    BY DEF RecomputesTakeTurns, TypeOK
  <2> QED
    BY <1>0, <2>2, <2>3, <2>4 DEF RecomputesTakeTurns
<1>1. ASSUME NEW w \in Worker, NEW i \in Item, Evaluate(w, i)
      PROVE  RecomputesTakeTurns' /\ \A k \in Item : snapshot'[k] >= snapshot[k]
  <2>1. /\ txn' \in [Worker -> TxnRow]
        /\ txn'[w] = [item |-> i, seen |-> source[i]]
        /\ \A v \in Worker : v # w => txn'[v] = txn[v]
    <3>1. [item |-> i, seen |-> source[i]] \in TxnRow
      BY DEF TypeOK, TxnRow
    <3> QED
      BY <1>1, <3>1 DEF Evaluate, TypeOK, TxnRow
  <2>2. source' = source /\ snapshot' = snapshot
    BY <1>1 DEF Evaluate
  <2>3. \A v \in Worker : txn[v].item # i
    BY <1>1 DEF Evaluate, Locked
  <2>4. \A v \in Worker : txn'[v] # NoTxn => v = w \/ txn[v] # NoTxn
    BY <2>1
  <2>5. ASSUME NEW u \in Worker, NEW v \in Worker, txn'[u] # NoTxn, txn'[u].item = txn'[v].item
        PROVE  u = v
    <3>1. txn'[w].item = i
      BY <2>1
    <3> QED
      BY <2>1, <2>3, <2>5, <3>1 DEF RecomputesTakeTurns
  <2>6. ASSUME NEW v \in Worker, txn'[v] # NoTxn
        PROVE  snapshot[txn'[v].item] <= txn'[v].seen /\ txn'[v].seen <= source[txn'[v].item]
    <3>1. CASE v = w
      <4>1. txn'[v].item = i /\ txn'[v].seen = source[i]
        BY <2>1, <3>1
      <4>2. source[i] \in Nat /\ snapshot[i] <= source[i]
        BY DEF TypeOK, RecomputesTakeTurns
      <4> QED
        BY <4>1, <4>2
    <3>2. CASE v # w
      BY <2>1, <2>6, <3>2 DEF RecomputesTakeTurns
    <3> QED
      BY <3>1, <3>2
  <2> QED
    BY <2>2, <2>5, <2>6 DEF RecomputesTakeTurns, TypeOK
<1>2. ASSUME NEW w \in Worker, Leave(w), UNCHANGED <<source, snapshot>>
      PROVE  RecomputesTakeTurns' /\ \A k \in Item : snapshot'[k] >= snapshot[k]
  <2>1. \A v \in Worker : txn'[v] = NoTxn \/ txn'[v] = txn[v]
    BY <1>2 DEF Leave, TypeOK
  <2> QED
    BY <1>0, <1>2, <2>1
<1>3. ASSUME NEW w \in Worker, Persist(w)
      PROVE  RecomputesTakeTurns' /\ \A k \in Item : snapshot'[k] >= snapshot[k]
  <2>1. PICK i \in Item : i = txn[w].item
    BY <1>3, TxnOfItem DEF Persist
  <2>2. txn[w] # NoTxn /\ snapshot' = [snapshot EXCEPT ![i] = txn[w].seen] /\ source' = source
    BY <1>3, <2>1 DEF Persist
  <2>3. /\ txn'[w] = NoTxn
        /\ \A v \in Worker : v # w => txn'[v] = txn[v]
    BY <1>3 DEF Persist, Leave, TypeOK
  <2>4. snapshot'[i] = txn[w].seen /\ \A k \in Item : k # i => snapshot'[k] = snapshot[k]
    BY <2>2 DEF TypeOK
  <2>5. snapshot[i] <= txn[w].seen /\ txn[w].seen <= source[i]
    BY <2>1, <2>2 DEF RecomputesTakeTurns
  <2>6. \A v \in Worker : v # w => txn[v].item # i
    BY <2>1, <2>2 DEF RecomputesTakeTurns
  <2>7. NoTxn.item = 0 /\ \A v \in Worker : txn[v] # NoTxn => txn[v].item \in Item
    BY TxnOfItem DEF NoTxn
  <2>8. ASSUME NEW u \in Worker, NEW v \in Worker, txn'[u] # NoTxn, txn'[u].item = txn'[v].item
        PROVE  u = v
    BY <2>3, <2>7, <2>8, JobAssumption DEF RecomputesTakeTurns
  <2>9. ASSUME NEW v \in Worker, txn'[v] # NoTxn
        PROVE  snapshot'[txn'[v].item] <= txn'[v].seen /\ txn'[v].seen <= source'[txn'[v].item]
    <3>1. v # w /\ txn'[v] = txn[v] /\ txn[v].item \in Item /\ txn[v].item # i
      BY <2>3, <2>6, <2>7, <2>9
    <3>2. snapshot[txn[v].item] <= txn[v].seen /\ txn[v].seen <= source[txn[v].item]
      BY <2>9, <3>1 DEF RecomputesTakeTurns
    <3> QED
      BY <2>2, <2>4, <3>1, <3>2
  <2>10. \A k \in Item : snapshot'[k] <= source'[k] /\ snapshot'[k] >= snapshot[k]
    BY <2>2, <2>4, <2>5 DEF RecomputesTakeTurns, TypeOK
  <2> QED
    BY <2>8, <2>9, <2>10 DEF RecomputesTakeTurns
<1>4. ASSUME NEW p \in Instance, Reset(p), UNCHANGED <<source, snapshot>>
      PROVE  RecomputesTakeTurns' /\ \A k \in Item : snapshot'[k] >= snapshot[k]
  <2>1. \A v \in Worker : txn'[v] = NoTxn \/ txn'[v] = txn[v]
    BY <1>4 DEF Reset
  <2> QED
    BY <1>0, <1>4, <2>1
<1>5. ASSUME NEW p \in Instance, NEW i \in Item, Change(p, i)
      PROVE  RecomputesTakeTurns' /\ \A k \in Item : snapshot'[k] >= snapshot[k]
  <2>1. snapshot' = snapshot /\ txn' = txn /\ source' = [source EXCEPT ![i] = @ + 1]
    BY <1>5 DEF Change
  <2>2. \A k \in Item : source'[k] >= source[k] /\ source'[k] \in Nat /\ source[k] \in Nat /\ snapshot[k] \in Nat
    BY <2>1 DEF TypeOK
  <2>3. \A v \in Worker : txn[v] # NoTxn => txn[v].item \in Item /\ txn[v].seen \in Nat
    BY TxnOfItem DEF TypeOK
  <2>4. \A v \in Worker : txn[v] # NoTxn => txn[v].seen <= source'[txn[v].item]
    BY <2>2, <2>3 DEF RecomputesTakeTurns
  <2>5. \A k \in Item : snapshot[k] <= source'[k] /\ snapshot[k] >= snapshot[k]
    BY <2>2 DEF RecomputesTakeTurns
  <2> QED
    BY <2>1, <2>4, <2>5 DEF RecomputesTakeTurns
<1>6. UNCHANGED <<source, snapshot, txn>> =>
        RecomputesTakeTurns' /\ \A k \in Item : snapshot'[k] >= snapshot[k]
  BY DEF RecomputesTakeTurns, TypeOK
<1>7. ASSUME NEW p \in Instance, NEW j \in Job, Run(p, j) \/ RunFails(p, j)
      PROVE  UNCHANGED <<source, snapshot, txn>>
  BY <1>7 DEF Run, RunFails, Claim, Refused, ReadPage, PageDone, Release, Recheck, Record
<1>8. ASSUME NEW p \in Instance,
             \/ Enqueue(p) \/ QueueStep(p) \/ Tick(p) \/ Close(p) \/ Flush(p) \/ Restart(p)
             \/ \E c \in {0} \cup Item : Recalculate(p, c)
      PROVE  UNCHANGED <<source, snapshot, txn>>
  BY <1>8 DEF Enqueue, QueueStep, TimerFires, BatchDone, Tick, Close, Flush, Restart, Recalculate
<1>9. Morning \/ Nightfall \/ RecalcLeaseExpires => UNCHANGED <<source, snapshot, txn>>
  BY DEF Morning, Nightfall, RecalcLeaseExpires
<1>10. ASSUME NEW p \in Instance, Exit(p) \/ Crash(p)
       PROVE  Reset(p) /\ UNCHANGED <<source, snapshot>>
  BY <1>10 DEF Exit, Crash
<1>11. ASSUME NEW w \in Worker, FailToPersist(w)
       PROVE  Leave(w) /\ UNCHANGED <<source, snapshot>>
  BY <1>11 DEF FailToPersist
<1> QED
  BY <1>1, <1>2, <1>3, <1>4, <1>5, <1>6, <1>7, <1>8, <1>9, <1>10, <1>11 DEF Step, Work
-----------------------------------------------------------------------------
(* Nobody starts to work on tonight's run, and what is known of it stays.  *)
NobodyJoins ==
    /\ \A q \in Instance : (Working(q)' => Working(q)) /\ (Committed(q)' => Committed(q))
    /\ lease'["nightly"] = lease["nightly"] /\ UNCHANGED <<lastRun, runs, late>>

(* Taking turns at the nightly run survives when no process joins it.      *)
LEMMA NobodyJoinsKeeps ==
    ASSUME RunsTakeTurns, NobodyJoins
    PROVE  RunsTakeTurns'
BY DEF RunsTakeTurns, NobodyJoins

(* Two processes that work on tonight's run are one.                       *)
LEMMA OneWorks ==
    ASSUME RunsTakeTurns, NEW p \in Instance, NEW q \in Instance, Working(p), Working(q)
    PROVE  p = q
BY DEF RunsTakeTurns

(* Stages that do not lead into the work on tonight's run.                 *)
LEMMA StageKeeps ==
    ASSUME TypeOK, NEW p \in Instance, NEW j \in Job, NEW from, NEW to \in Stages, Stage(p, j, from, to),
           j = "nightly" => \/ to \in {"release", "idle"}
                            \/ from \in {"page", "work", "record"} /\ to # "claim"
    PROVE  \A q \in Instance : (Working(q)' => Working(q)) /\ (Committed(q)' => Committed(q))
<1>1. \A q \in Instance : q # p \/ j # "nightly" => Nightly(q)' = Nightly(q)
  BY StageStep DEF Nightly, Job
<1>2. ASSUME j = "nightly"
      PROVE  (Working(p)' => Working(p)) /\ (Committed(p)' => Committed(p))
  <2>1. /\ Nightly(p).stage = from /\ Nightly(p)'.stage = to
        /\ to # "idle" => Nightly(p)'.tonight = Nightly(p).tonight
    BY <1>2, StageStep DEF Nightly
  <2> QED
    BY <1>2, <2>1 DEF Working, Committed
<1> QED
  BY <1>1, <1>2 DEF Working, Committed

(* The run of a process changes as the nightly job of one process may.     *)
LEMMA RunsStep ==
    ASSUME TypeOK, RunsTakeTurns, Step
    PROVE  RunsTakeTurns'
<1> USE DEF data, history
<1>0. "nightly" \in Job /\ "recalc" \in Job /\ "nightly" # "recalc"
  BY DEF Job
<1>1. ASSUME NEW p \in Instance, NEW j \in Job, Claim(p, j)
      PROVE  RunsTakeTurns'
  <2> DEFINE to == IF j = "nightly" THEN "recheck" ELSE "page"
  <2>1. Stage(p, j, "claim", to) /\ to \in Stages
    BY <1>1 DEF Claim, Stages
  <2>2. /\ lease' = [lease EXCEPT ![j] = [holder |-> p, live |-> TRUE]]
        /\ UNCHANGED <<lastRun, runs, late>>
    BY <1>1 DEF Claim
  <2>3. CASE j # "nightly"
    <3>1. lease'["nightly"] = lease["nightly"]
      BY <2>2, <2>3, <1>0 DEF TypeOK
    <3>2. \A q \in Instance : (Working(q)' => Working(q)) /\ (Committed(q)' => Committed(q))
      BY <2>1, <2>3, StageKeeps
    <3> QED
      BY <2>2, <3>1, <3>2, NobodyJoinsKeeps DEF NobodyJoins
  <2>4. CASE j = "nightly"
    <3>1. ~lease["nightly"].live /\ lease'["nightly"].live /\ lease'["nightly"].holder = p
      BY <1>1, <2>2, <2>4, <1>0 DEF Claim, TypeOK
    <3>2. \A q \in Instance : ~Working(q)
      BY <3>1 DEF RunsTakeTurns
    <3>3. \A q \in Instance : q # p => Nightly(q)' = Nightly(q)
      BY <2>1, <2>4, StageStep DEF Nightly
    <3>4. Nightly(p)'.stage = "recheck"
      BY <2>1, <2>4, StageStep DEF Nightly
    <3>5. \A q \in Instance : q # p => ~Working(q)'
      BY <3>2, <3>3 DEF Working
    <3>6. \A q \in Instance : ~Committed(q)'
      BY <3>4, <3>5 DEF Committed
    <3> QED
      BY <2>2, <3>1, <3>5, <3>6 DEF RunsTakeTurns
  <2> QED
    BY <2>3, <2>4
<1>2. ASSUME NEW p \in Instance, NEW j \in Job, Refused(p, j) \/ ReadPage(p, j) \/ RunFails(p, j)
      PROVE  RunsTakeTurns'
  <2>1. /\ {"claim", "page", "work", "idle", "release"} \subseteq Stages
        /\ UNCHANGED <<lease, lastRun, runs, late>>
    BY <1>2 DEF Stages, Refused, ReadPage, RunFails
  <2>2. \/ Stage(p, j, "claim", "idle")
        \/ Stage(p, j, "page", "work")
        \/ Stage(p, j, "page", "release")
    BY <1>2 DEF Refused, ReadPage, RunFails
  <2>3. \A q \in Instance : (Working(q)' => Working(q)) /\ (Committed(q)' => Committed(q))
    BY <2>1, <2>2, StageKeeps
  <2> QED
    BY <2>1, <2>3, NobodyJoinsKeeps DEF NobodyJoins
<1>3. ASSUME NEW p \in Instance, NEW j \in Job, PageDone(p, j)
      PROVE  RunsTakeTurns'
  <2>1. /\ job[p][j].stage = "work" /\ UNCHANGED <<lease, lastRun, runs, late>>
        /\ job' = [job EXCEPT ![p][j].stage = IF j = "recalc" THEN "release" ELSE
                                   IF HasMore(job[p][j].cursor) THEN "page" ELSE "record",
                              ![p][j].cursor = PageEnd(job[p][j].cursor)]
    BY <1>3 DEF PageDone
  <2>2. \A q \in Instance : q # p \/ j # "nightly" => Nightly(q)' = Nightly(q)
    BY <2>1, <1>0 DEF Nightly, TypeOK
  <2>3. j = "nightly" => /\ Nightly(p).stage = "work"
                         /\ Nightly(p)'.tonight = Nightly(p).tonight
    BY <2>1, <1>0 DEF Nightly, TypeOK
  <2>4. \A q \in Instance : (Working(q)' => Working(q)) /\ (Committed(q)' => Committed(q))
    BY <2>2, <2>3 DEF Working, Committed
  <2> QED
    BY <2>1, <2>4, NobodyJoinsKeeps DEF NobodyJoins
<1>4. ASSUME NEW p \in Instance, NEW j \in Job, Release(p, j)
      PROVE  RunsTakeTurns'
  <2>1. /\ Stage(p, j, "release", "idle") /\ "idle" \in Stages
        /\ UNCHANGED <<lastRun, runs, late>>
        /\ lease' = IF lease[j].holder = p
                    THEN [lease EXCEPT ![j] = [holder |-> NoHolder, live |-> FALSE]] ELSE lease
    BY <1>4 DEF Release, Stages, DeleteLease
  <2>2. \A q \in Instance : (Working(q)' => Working(q)) /\ (Committed(q)' => Committed(q))
    BY <2>1, StageKeeps
  <2>3. CASE j # "nightly" \/ lease[j].holder # p
    <3>1. lease'["nightly"] = lease["nightly"]
      BY <2>1, <2>3, <1>0 DEF TypeOK
    <3> QED
      BY <2>1, <2>2, <3>1, NobodyJoinsKeeps DEF NobodyJoins
  <2>4. CASE j = "nightly" /\ lease[j].holder = p
    <3>1. ~Working(p)
      BY <2>1, <2>4, StageStep DEF Working, Nightly
    <3>2. \A q \in Instance : Working(q) => q = p
      BY <2>4 DEF RunsTakeTurns
    <3> QED
      BY <2>1, <2>2, <3>1, <3>2 DEF RunsTakeTurns, Committed
  <2> QED
    BY <2>3, <2>4
<1>5. ASSUME NEW p \in Instance, Recheck(p)
      PROVE  RunsTakeTurns'
  <2>1. UNCHANGED <<lease, lastRun, runs, late>> /\ {"page", "release"} \subseteq Stages
    BY <1>5 DEF Recheck, Stages
  <2>2. CASE lastRun = "tonight"
    <3>1. Stage(p, "nightly", "recheck", "release")
      BY <1>5, <2>2 DEF Recheck
    <3>2. \A q \in Instance : (Working(q)' => Working(q)) /\ (Committed(q)' => Committed(q))
      BY <2>1, <3>1, <1>0, StageKeeps
    <3> QED
      BY <2>1, <3>2, NobodyJoinsKeeps DEF NobodyJoins
  <2>3. CASE lastRun # "tonight"
    <3>1. Stage(p, "nightly", "recheck", "page")
      BY <1>5, <2>3 DEF Recheck
    <3>2. /\ Nightly(p).stage = "recheck" /\ Nightly(p)'.tonight = Nightly(p).tonight
          /\ \A q \in Instance : q # p => Nightly(q)' = Nightly(q)
      BY <2>1, <3>1, <1>0, StageStep DEF Nightly
    <3>3. \A q \in Instance : Working(q)' => Working(q)
      BY <3>2 DEF Working
    <3>4. runs = 0 \/ late
      BY <2>3 DEF RunsTakeTurns, TypeOK
    <3> QED
      BY <2>1, <3>3, <3>4 DEF RunsTakeTurns
  <2> QED
    BY <2>2, <2>3
<1>6. ASSUME NEW p \in Instance, Record(p)
      PROVE  RunsTakeTurns'
  <2>1. Stage(p, "nightly", "record", "release") /\ "release" \in Stages
    BY <1>6 DEF Record, Stages
  <2>2. UNCHANGED lease
    BY <1>6 DEF Record
  <2>3. \A q \in Instance : (Working(q)' => Working(q)) /\ (Committed(q)' => Committed(q))
    BY <2>1, <1>0, StageKeeps
  <2>4. /\ Nightly(p).stage = "record" /\ Nightly(p)'.stage = "release"
        /\ \A q \in Instance : q # p => Nightly(q)' = Nightly(q)
    BY <2>1, <1>0, StageStep DEF Nightly
  <2>5. CASE Nightly(p).tonight
    <3>1. lastRun' = "tonight" /\ runs' = runs + 1 /\ late' = late
      BY <1>6, <2>5 DEF Record, Nightly, TypeOK
    <3>2. Committed(p)
      BY <2>4, <2>5 DEF Committed, Working
    <3>3. runs = 0 \/ late
      BY <3>2 DEF RunsTakeTurns
    <3>4. \A q \in Instance : ~Working(q)'
      BY <2>3, <2>4, <3>2, OneWorks DEF Working, Committed
    <3> QED
      BY <2>2, <3>1, <3>3, <3>4 DEF RunsTakeTurns, Committed, TypeOK
  <2>6. CASE ~Nightly(p).tonight
    <3>1. late'
      BY <1>6, <2>6 DEF Record, Nightly
    <3> QED
      BY <2>2, <2>3, <3>1 DEF RunsTakeTurns
  <2> QED
    BY <2>5, <2>6
<1>7. ASSUME NEW p \in Instance, Tick(p) \/ \E c \in {0} \cup Item : Recalculate(p, c)
      PROVE  RunsTakeTurns'
  <2>1. UNCHANGED <<lease, lastRun, runs, late>>
    BY <1>7 DEF Tick, Recalculate
  <2>2. /\ \A q \in Instance : q # p => Nightly(q)' = Nightly(q)
        /\ Nightly(p)' = Nightly(p) \/ Nightly(p)'.stage = "claim"
    BY <1>7, <1>0 DEF Tick, Recalculate, Nightly, TypeOK
  <2>3. \A q \in Instance : (Working(q)' => Working(q)) /\ (Committed(q)' => Committed(q))
    BY <2>2 DEF Working, Committed
  <2> QED
    BY <2>1, <2>3, NobodyJoinsKeeps DEF NobodyJoins
<1>8. ASSUME NEW p \in Instance, Exit(p) \/ Crash(p)
      PROVE  RunsTakeTurns'
  <2>1. UNCHANGED <<lease, lastRun, runs, late>>
    BY <1>8 DEF Exit, Crash
  <2>2. /\ \A q \in Instance : q # p => Nightly(q)' = Nightly(q)
        /\ Nightly(p)' = IdleRun
    BY <1>8, <1>0 DEF Exit, Crash, Reset, Nightly, TypeOK
  <2>3. \A q \in Instance : (Working(q)' => Working(q)) /\ (Committed(q)' => Committed(q))
    BY <2>2 DEF Working, Committed, IdleRun
  <2> QED
    BY <2>1, <2>3, NobodyJoinsKeeps DEF NobodyJoins
<1>9. ASSUME Nightfall
      PROVE  RunsTakeTurns'
  <2>1. job' = [p \in Instance |-> [job[p] EXCEPT !["nightly"].tonight = FALSE]] /\ runs' = 0
    BY <1>9 DEF Nightfall
  <2>2. \A q \in Instance : Nightly(q)'.tonight = FALSE
    BY <2>1, <1>0 DEF Nightly, TypeOK
  <2> QED
    BY <2>1, <2>2 DEF RunsTakeTurns, Working, Committed
<1>10. ASSUME RecalcLeaseExpires
       PROVE  RunsTakeTurns'
  <2>1. lease' = [lease EXCEPT !["recalc"].live = FALSE] /\ UNCHANGED <<job, lastRun, runs, late>>
    BY <1>10 DEF RecalcLeaseExpires
  <2>2. lease'["nightly"] = lease["nightly"]
    BY <2>1, <1>0 DEF TypeOK
  <2> QED
    BY <2>1, <2>2, NobodyJoinsKeeps DEF NobodyJoins, Working, Committed, Nightly
<1>11. UNCHANGED <<job, lease, lastRun, runs, late>> => RunsTakeTurns'
  BY NobodyJoinsKeeps DEF NobodyJoins, Working, Committed, Nightly
<1>12. ASSUME NEW w \in Worker, Work(w) \/ FailToPersist(w)
       PROVE  UNCHANGED <<job, lease, lastRun, runs, late>>
  BY <1>12 DEF Work, Persist, Evaluate, FailToPersist
<1>13. ASSUME NEW p \in Instance,
              \/ Enqueue(p) \/ QueueStep(p) \/ Close(p) \/ Flush(p) \/ Restart(p)
              \/ \E i \in Item : Change(p, i)
       PROVE  UNCHANGED <<job, lease, lastRun, runs, late>>
  BY <1>13 DEF Enqueue, QueueStep, TimerFires, BatchDone, Close, Flush, Restart, Change
<1>14. Morning => UNCHANGED <<job, lease, lastRun, runs, late>>
  BY DEF Morning
<1> QED
  BY <1>1, <1>2, <1>3, <1>4, <1>5, <1>6, <1>7, <1>8, <1>9, <1>10, <1>11, <1>12, <1>13, <1>14
     DEF Step, Run
-----------------------------------------------------------------------------
(* A process whose queue, drain and status a step leaves alone.            *)
Untouched(q) ==
    /\ queue'[q] = queue[q] /\ status'[q] = status[q]
    /\ todo[<<q, "queue">>] = {} => todo'[<<q, "queue">>] = {}

(* A queue that a step does not touch is kept.                             *)
LEMMA UntouchedIsKept ==
    ASSUME NEW q \in Instance, QueueKept(q), Untouched(q)
    PROVE  QueueKept(q)'
BY DEF QueueKept, Untouched

(* What a drain does to the process it is of, and not to others.           *)
LEMMA DrainStep ==
    ASSUME TypeOK, NEW p \in Instance, QueueKept(p), Drain(p)
    PROVE  /\ \/ queue[p].draining # "no" /\ queue'[p].timer = FALSE
                 /\ queue'[p].pending = queue[p].pending /\ queue'[p].draining = queue[p].draining
                 /\ todo' = todo
              \/ queue[p].draining = "no" /\ queue[p].pending = {} /\ queue'[p].timer = FALSE
                 /\ queue'[p].pending = {} /\ queue'[p].draining = "stuck" /\ todo' = todo
              \/ queue[p].draining = "no" /\ queue[p].pending # {} /\ queue'[p].timer = FALSE
                 /\ queue'[p].pending = {} /\ queue'[p].draining = "yes"
           /\ \A q \in Instance : q # p => /\ queue'[q] = queue[q]
                                           /\ todo'[<<q, "queue">>] = todo[<<q, "queue">>]
<1>1. queue[p] \in QueueRow /\ <<p, "queue">> \in Worker
  BY DEF TypeOK, QueueRow, Worker
<1>2. \A q \in Instance : <<q, "queue">> \in Worker /\ (q # p => <<q, "queue">> # <<p, "queue">>)
  BY DEF Worker
<1>3. CASE queue[p].draining # "no"
  <2>1. queue' = [queue EXCEPT ![p] = [queue[p] EXCEPT !.timer = FALSE]] /\ todo' = todo
    BY <1>3 DEF Drain
  <2> QED
    BY <1>1, <1>3, <2>1 DEF TypeOK, QueueRow
<1>4. CASE queue[p].draining = "no" /\ queue[p].pending = {}
  <2>1. /\ queue' = [queue EXCEPT ![p] = [queue[p] EXCEPT !.timer = FALSE, !.draining = "stuck"]]
        /\ todo' = todo
    BY <1>4 DEF Drain
  <2> QED
    BY <1>1, <1>4, <2>1 DEF TypeOK, QueueRow
<1>5. CASE queue[p].draining = "no" /\ queue[p].pending # {}
  <2> DEFINE made == [pending |-> {}, timer |-> FALSE, draining |-> "yes"]
  <2>1. made.pending = {} /\ made.timer = FALSE /\ made.draining = "yes"
    OBVIOUS
  <2>2. /\ queue' = [queue EXCEPT ![p] = made]
        /\ todo' = [todo EXCEPT ![<<p, "queue">>] = queue[p].pending]
    BY <1>5 DEF Drain
  <2> HIDE DEF made
  <2>3. /\ queue'[p] = made /\ \A q \in Instance : q # p => queue'[q] = queue[q]
        /\ \A q \in Instance : q # p => todo'[<<q, "queue">>] = todo[<<q, "queue">>]
    BY <1>1, <1>2, <2>2 DEF TypeOK
  <2> QED
    BY <1>5, <2>1, <2>3
<1> QED
  BY <1>3, <1>4, <1>5

(* Every queue is kept.                                                    *)
LEMMA QueuesStep ==
    ASSUME TypeOK, QueuesKept, Step
    PROVE  QueuesKept'
<1> USE DEF data, history
<1>0. \A q \in Instance : QueueKept(q)
  BY DEF QueuesKept
<1>1. ASSUME NEW p \in Instance, QueueKept(p)', \A q \in Instance : q # p => Untouched(q)
      PROVE  QueuesKept'
  <2>1. \A q \in Instance : q # p => QueueKept(q)'
    BY <1>0, <1>1, UntouchedIsKept
  <2> QED
    BY <1>1, <2>1 DEF QueuesKept
<1>2. ASSUME \A q \in Instance : Untouched(q)
      PROVE  QueuesKept'
  BY <1>0, <1>2, UntouchedIsKept DEF QueuesKept
<1>3. ASSUME NEW p \in Instance, NEW i \in Item, Change(p, i)
      PROVE  UNCHANGED <<queue, status, todo>>
  BY <1>3 DEF Change
<1>4. ASSUME NEW p \in Instance, Enqueue(p)
      PROVE  QueuesKept'
  <2>1. owed[p] # {} /\ UNCHANGED <<status, todo>>
    BY <1>4 DEF Enqueue
  <2>2. queue[p] \in QueueRow
    BY DEF TypeOK, QueueRow
  <2>3. queue' = [queue EXCEPT ![p].pending = @ \cup owed[p], ![p].timer = @ \/ queue[p].draining = "no"]
    BY <1>4 DEF Enqueue
  <2>4. /\ queue'[p].pending = queue[p].pending \cup owed[p]
        /\ queue'[p].timer = (queue[p].timer \/ queue[p].draining = "no")
        /\ queue'[p].draining = queue[p].draining
        /\ \A q \in Instance : q # p => queue'[q] = queue[q]
    BY <2>2, <2>3 DEF TypeOK, QueueRow
  <2>5. QueueKept(p)'
    BY <1>0, <2>1, <2>4 DEF QueueKept
  <2>6. \A q \in Instance : q # p => Untouched(q)
    BY <2>1, <2>4 DEF Untouched
  <2> QED
    BY <1>1, <2>5, <2>6
<1>5. ASSUME NEW p \in Instance, TimerFires(p) \/ Flush(p)
      PROVE  QueuesKept'
  <2>1. /\ Drain(p)
        /\ \A q \in Instance : q # p => status'[q] = status[q]
        /\ \/ queue[p].timer /\ status'[p] = status[p]
           \/ status[p] = "closing" /\ status'[p] = "flushed"
    BY <1>5 DEF TimerFires, Flush, TypeOK
  <2>2. QueueKept(p)'
    BY <1>0, <2>1, DrainStep DEF QueueKept
  <2>3. \A q \in Instance : q # p => Untouched(q)
    BY <1>0, <2>1, DrainStep DEF Untouched
  <2> QED
    BY <1>1, <2>2, <2>3
<1>6. ASSUME NEW p \in Instance, BatchDone(p)
      PROVE  QueuesKept'
  <2>1. /\ queue[p].draining = "yes" /\ UNCHANGED status
        /\ todo' = [todo EXCEPT ![<<p, "queue">>] = queue[p].pending]
        /\ queue' = [queue EXCEPT ![p].pending = {},
                                  ![p].draining = IF queue[p].pending = {} THEN "no" ELSE "yes"]
    BY <1>6 DEF BatchDone
  <2>2. queue[p] \in QueueRow /\ \A q \in Instance : <<q, "queue">> \in Worker
    BY DEF TypeOK, QueueRow, Worker
  <2>3. /\ queue'[p].pending = {} /\ queue'[p].timer = queue[p].timer
        /\ queue[p].pending = {} => queue'[p].draining = "no"
        /\ queue[p].pending # {} => queue'[p].draining = "yes"
        /\ \A q \in Instance : q # p => queue'[q] = queue[q]
    BY <2>1, <2>2 DEF TypeOK, QueueRow
  <2>4. /\ todo'[<<p, "queue">>] = queue[p].pending
        /\ \A q \in Instance : q # p => todo'[<<q, "queue">>] = todo[<<q, "queue">>]
    BY <2>1, <2>2 DEF TypeOK
  <2>5. QueueKept(p)'
    BY <1>0, <2>1, <2>3, <2>4 DEF QueueKept
  <2>6. \A q \in Instance : q # p => Untouched(q)
    BY <2>1, <2>3, <2>4 DEF Untouched
  <2> QED
    BY <1>1, <2>5, <2>6
<1>7. ASSUME NEW p \in Instance, Close(p)
      PROVE  QueuesKept'
  <2>1. /\ status[p] = "up" /\ status' = [status EXCEPT ![p] = "closing"]
        /\ UNCHANGED <<queue, todo>>
    BY <1>7 DEF Close
  <2>2. QueueKept(p)'
    BY <1>0, <2>1 DEF QueueKept, TypeOK
  <2>3. \A q \in Instance : q # p => Untouched(q)
    BY <2>1 DEF Untouched, TypeOK
  <2> QED
    BY <1>1, <2>2, <2>3
<1>8. ASSUME NEW p \in Instance, Restart(p)
      PROVE  QueuesKept'
  <2>1. /\ status[p] \in {"exited", "crashed"} /\ status' = [status EXCEPT ![p] = "up"]
        /\ UNCHANGED <<queue, todo>>
    BY <1>8 DEF Restart
  <2>2. QueueKept(p)'
    BY <1>0, <2>1 DEF QueueKept, TypeOK
  <2>3. \A q \in Instance : q # p => Untouched(q)
    BY <2>1 DEF Untouched, TypeOK
  <2> QED
    BY <1>1, <2>2, <2>3
<1>9. ASSUME NEW p \in Instance, Exit(p) \/ Crash(p)
      PROVE  QueuesKept'
  <2>1. /\ Reset(p)
        /\ \A q \in Instance : q # p => status'[q] = status[q]
    BY <1>9 DEF Exit, Crash, TypeOK
  <2>2. \A q \in Instance : <<q, "queue">> \in Worker /\ <<q, "queue">>[1] = q
    BY DEF Worker
  <2>3. /\ queue'[p] = EmptyQueue /\ todo'[<<p, "queue">>] = {}
        /\ \A q \in Instance : q # p =>
             queue'[q] = queue[q] /\ todo'[<<q, "queue">>] = todo[<<q, "queue">>]
    BY <2>1, <2>2 DEF Reset, TypeOK
  <2>4. EmptyQueue.pending = {} /\ EmptyQueue.timer = FALSE /\ EmptyQueue.draining = "no"
    BY DEF EmptyQueue
  <2>5. QueueKept(p)'
    BY <2>3, <2>4 DEF QueueKept
  <2>6. \A q \in Instance : q # p => Untouched(q)
    BY <2>1, <2>3 DEF Untouched
  <2> QED
    BY <1>1, <2>5, <2>6
<1>10. ASSUME NEW w \in Worker, Work(w) \/ FailToPersist(w), NEW q \in Instance
       PROVE  Untouched(q)
  <2>1. UNCHANGED <<queue, status>> /\ (todo' = todo \/ Leave(w))
    BY <1>10 DEF Work, Evaluate, Persist, FailToPersist
  <2>2. <<q, "queue">> \in Worker
    BY DEF Worker
  <2>3. Leave(w) => \A v \in Worker : todo'[v] \subseteq todo[v]
    BY DEF Leave, TypeOK
  <2> QED
    BY <2>1, <2>2, <2>3 DEF Untouched
<1>11. ASSUME NEW p \in Instance, NEW j \in Job, Run(p, j) \/ RunFails(p, j), NEW q \in Instance
       PROVE  Untouched(q)
  <2>1. UNCHANGED <<queue, status>> /\ (todo' = todo \/ ReadPage(p, j))
    BY <1>11 DEF Run, RunFails, Claim, Refused, ReadPage, PageDone, Release, Recheck, Record
  <2>2. <<q, "queue">> \in Worker /\ <<p, j>> # <<q, "queue">>
    BY DEF Worker, Job
  <2> QED
    BY <2>1, <2>2 DEF Untouched, ReadPage, TypeOK
<1>12. ASSUME NEW p \in Instance, Tick(p) \/ \E c \in {0} \cup Item : Recalculate(p, c)
       PROVE  UNCHANGED <<queue, status, todo>>
  BY <1>12 DEF Tick, Recalculate
<1>13. Morning \/ Nightfall \/ RecalcLeaseExpires => UNCHANGED <<queue, status, todo>>
  BY DEF Morning, Nightfall, RecalcLeaseExpires
<1>14. UNCHANGED <<queue, status, todo>> => \A q \in Instance : Untouched(q)
  BY DEF Untouched
<1> QED
  BY <1>2, <1>3, <1>4, <1>5, <1>6, <1>7, <1>8, <1>9, <1>10, <1>11, <1>12, <1>13, <1>14
     DEF Step, QueueStep
-----------------------------------------------------------------------------
(* What a step may not take from process p: what its queue knows of item i.*)
Known(p, i) ==
    /\ due'[p][i] = due[p][i]
    /\ i \in queue[p].pending => i \in queue'[p].pending
    /\ i \in todo[<<p, "queue">>] => i \in todo'[<<p, "queue">>]
    /\ txn'[<<p, "queue">>].item = i => txn'[<<p, "queue">>] = txn[<<p, "queue">>]
    /\ status'[p] = "flushed" /\ queue'[p].draining # "yes" =>
          status[p] = "flushed" /\ queue[p].draining # "yes"

(* Such a step keeps the debt, as sources and snapshots only advance.      *)
LEMMA KnownIsKept ==
    ASSUME TypeOK, NEW p \in Instance, NEW i \in Item, DebtKept(p, i), Known(p, i),
           source'[i] \in Nat, snapshot'[i] \in Nat,
           source'[i] >= source[i], snapshot'[i] >= snapshot[i]
    PROVE  DebtKept(p, i)'
<1>1. due[p][i] \in Nat /\ source[i] \in Nat /\ snapshot[i] \in Nat
  BY DEF TypeOK
<1> QED
  BY <1>1 DEF DebtKept, Known

(* Every debt is kept, and a process that exits after its flush has none.  *)
LEMMA DebtsStep ==
    ASSUME TypeOK, RecomputesTakeTurns, QueuesKept, DebtsKept, Step, TypeOK'
    PROVE  /\ DebtsKept'
           /\ \A p \in Instance : status[p] = "flushed" /\ status'[p] = "exited"
                 => \A i \in Item : due[p][i] <= snapshot[i]
<1> USE DEF data, history
<1> DEFINE Q(p) == <<p, "queue">>
           InHand(p) == txn[Q(p)] # NoTxn => txn[Q(p)].item \in todo[Q(p)]
<1>0. /\ \A p \in Instance, i \in Item : DebtKept(p, i)
      /\ \A p \in Instance : InHand(p) /\ QueueKept(p) /\ Q(p) \in Worker
      /\ \A p, q \in Instance : p # q => Q(p) # Q(q)
  BY DEF DebtsKept, QueuesKept, Worker
<1>1. /\ \A i \in Item : snapshot'[i] >= snapshot[i] /\ snapshot'[i] \in Nat /\ snapshot[i] \in Nat
      /\ \A i \in Item : source'[i] \in Nat /\ source[i] \in Nat
  BY RecomputesStep DEF TypeOK
<1>2. \A i \in Item : source'[i] >= source[i]
  <2>1. ASSUME NEW p \in Instance, NEW k \in Item, Change(p, k)
        PROVE  \A i \in Item : source'[i] >= source[i]
    BY <1>1, <2>1 DEF Change, TypeOK
  <2>2. ASSUME NEW w \in Worker, Work(w) \/ FailToPersist(w)
        PROVE  source' = source
    BY <2>2 DEF Work, Evaluate, Persist, FailToPersist
  <2>3. ASSUME NEW p \in Instance, NEW j \in Job, Run(p, j) \/ RunFails(p, j)
        PROVE  source' = source
    BY <2>3 DEF Run, RunFails, Claim, Refused, ReadPage, PageDone, Release, Recheck, Record
  <2>4. ASSUME NEW p \in Instance,
               \/ Enqueue(p) \/ QueueStep(p) \/ Tick(p) \/ Close(p) \/ Flush(p) \/ Exit(p)
               \/ Crash(p) \/ Restart(p) \/ \E c \in {0} \cup Item : Recalculate(p, c)
        PROVE  source' = source
    BY <2>4 DEF Enqueue, QueueStep, TimerFires, BatchDone, Tick, Close, Flush, Exit, Crash,
                Restart, Recalculate
  <2>5. Morning \/ Nightfall \/ RecalcLeaseExpires => source' = source
    BY DEF Morning, Nightfall, RecalcLeaseExpires
  <2>6. source' = source => \A i \in Item : source'[i] >= source[i]
    BY <1>1
  <2> QED
    BY <2>1, <2>2, <2>3, <2>4, <2>5, <2>6 DEF Step
<1> DEFINE Done == /\ DebtsKept'
                   /\ \A p \in Instance : ~(status[p] = "flushed" /\ status'[p] = "exited")
<1>3. ASSUME \A p \in Instance, i \in Item : Known(p, i) \/ DebtKept(p, i)',
             \A p \in Instance : InHand(p)',
             \A p \in Instance : ~(status[p] = "flushed" /\ status'[p] = "exited")
      PROVE  Done
  <2>1. \A p \in Instance, i \in Item : DebtKept(p, i)'
    BY <1>0, <1>1, <1>2, <1>3, KnownIsKept
  <2> QED
    BY <1>3, <2>1 DEF DebtsKept
<1>4. ASSUME UNCHANGED <<due, queue, txn>>,
             \A p \in Instance : /\ todo'[Q(p)] = todo[Q(p)]
                                 /\ status'[p] # status[p] => status'[p] \notin {"flushed", "exited"}
      PROVE  Done
  <2>1. \A p \in Instance, i \in Item : Known(p, i)
    BY <1>4 DEF Known
  <2>2. \A p \in Instance : InHand(p)'
    BY <1>0, <1>4
  <2>3. \A p \in Instance : ~(status[p] = "flushed" /\ status'[p] = "exited")
    BY <1>4
  <2> QED
    BY <1>3, <2>1, <2>2, <2>3
<1>5. ASSUME NEW p \in Instance, Enqueue(p)
      PROVE  Done
  <2>1. queue' = [queue EXCEPT ![p].pending = @ \cup owed[p], ![p].timer = @ \/ queue[p].draining = "no"]
    BY <1>5 DEF Enqueue
  <2>2. queue[p] \in QueueRow
    BY DEF TypeOK, QueueRow
  <2>3. /\ queue'[p].pending = queue[p].pending \cup owed[p]
        /\ queue'[p].draining = queue[p].draining
        /\ \A q \in Instance : q # p => queue'[q] = queue[q]
    BY <2>1, <2>2 DEF TypeOK, QueueRow
  <2>4. UNCHANGED <<source, snapshot, status, todo, txn>>
    BY <1>5 DEF Enqueue
  <2>5. /\ \A q \in Instance : q # p => due'[q] = due[q]
        /\ \A i \in Item : due'[p][i] = IF i \in owed[p] /\ status[p] # "flushed"
                                        THEN source[i] ELSE due[p][i]
    BY <1>5 DEF Enqueue, TypeOK
  <2>6. \A q \in Instance, i \in Item : q # p => Known(q, i)
    BY <2>3, <2>4, <2>5 DEF Known
  <2>7. ASSUME NEW i \in Item
        PROVE  Known(p, i) \/ DebtKept(p, i)'
    <3>1. CASE i \in owed[p] /\ status[p] # "flushed"
      <4>1. due'[p][i] = source'[i] /\ i \in queue'[p].pending /\ status'[p] # "flushed"
        BY <2>3, <2>4, <2>5, <3>1
      <4> QED
        BY <1>1, <4>1 DEF DebtKept
    <3>2. CASE ~(i \in owed[p] /\ status[p] # "flushed")
      BY <2>3, <2>4, <2>5, <3>2 DEF Known
    <3> QED
      BY <3>1, <3>2
  <2>8. \A q \in Instance : InHand(q)'
    BY <1>0, <2>4
  <2> QED
    BY <1>3, <2>4, <2>6, <2>7, <2>8
<1>6. ASSUME NEW p \in Instance, TimerFires(p) \/ Flush(p)
      PROVE  Done
  <2>1. /\ Drain(p) /\ UNCHANGED <<source, snapshot, due, txn>>
        /\ \A q \in Instance : q # p => status'[q] = status[q]
        /\ status'[p] \in {status[p], "flushed"}
        /\ queue[p].timer \/ status[p] = "closing"
    BY <1>6 DEF TimerFires, Flush, TypeOK
  <2>2. /\ \/ queue[p].draining # "no" /\ queue'[p].pending = queue[p].pending
              /\ queue'[p].draining = queue[p].draining /\ todo' = todo
           \/ queue[p].draining = "no" /\ queue[p].pending = {} /\ queue'[p].pending = {}
              /\ queue'[p].draining = "stuck" /\ todo' = todo
           \/ queue[p].draining = "no" /\ queue[p].pending # {}
              /\ queue'[p].draining = "yes"
        /\ \A q \in Instance : q # p => queue'[q] = queue[q] /\ todo'[Q(q)] = todo[Q(q)]
    BY <1>0, <2>1, DrainStep
  <2>3. queue[p].draining = "no" => txn[Q(p)] = NoTxn /\ todo[Q(p)] = {}
    BY <1>0 DEF QueueKept
  <2>4. queue[p].draining = "no" /\ queue[p].pending # {} => todo'[Q(p)] = queue[p].pending
    <3> SUFFICES ASSUME queue[p].draining = "no", queue[p].pending # {}
                 PROVE  todo'[Q(p)] = queue[p].pending
      OBVIOUS
    <3>1. todo' = [todo EXCEPT ![Q(p)] = queue[p].pending]
      BY <2>1 DEF Drain
    <3> QED
      BY <1>0, <3>1 DEF TypeOK
  <2>5. \A q \in Instance, i \in Item : q # p => Known(q, i)
    BY <2>1, <2>2 DEF Known
  <2>6. ASSUME NEW i \in Item
        PROVE  Known(p, i) \/ DebtKept(p, i)'
    <3>0. NoTxn.item # i /\ DebtKept(p, i) /\ due'[p][i] = due[p][i] /\ source'[i] = source[i]
          /\ snapshot'[i] = snapshot[i] /\ txn' = txn
      BY <1>0, <2>1, JobAssumption DEF NoTxn
    <3>1. CASE queue[p].draining = "no" /\ queue[p].pending # {}
      <4>1. queue'[p].draining = "yes" /\ todo'[Q(p)] = queue[p].pending /\ txn'[Q(p)] = NoTxn
            /\ todo[Q(p)] = {}
        BY <2>2, <2>3, <2>4, <3>0, <3>1
      <4> QED
        BY <3>0, <4>1 DEF DebtKept
    <3>2. CASE queue[p].draining = "no" /\ queue[p].pending = {}
      <4>1. due[p][i] <= snapshot[i]
        BY <2>3, <3>0, <3>2 DEF DebtKept
      <4> QED
        BY <3>0, <4>1 DEF DebtKept
    <3>3. CASE queue[p].draining = "yes"
      <4>1. queue'[p].pending = queue[p].pending /\ queue'[p].draining = "yes" /\ todo' = todo
        BY <2>2, <3>3
      <4> QED
        BY <2>1, <4>1 DEF Known
    <3>4. CASE queue[p].draining \notin {"no", "yes"}
      <4>1. queue[p].draining = "stuck" /\ status[p] = "flushed"
        BY <1>0, <3>4 DEF QueueKept, TypeOK
      <4>2. queue'[p].pending = queue[p].pending /\ todo' = todo
        BY <2>2, <4>1
      <4> QED
        BY <2>1, <4>1, <4>2 DEF Known
    <3> QED
      BY <3>1, <3>2, <3>3, <3>4
  <2>7. ASSUME NEW q \in Instance
        PROVE  InHand(q)'
    <3>1. CASE q # p
      BY <1>0, <2>1, <2>2, <3>1
    <3>2. CASE q = p /\ queue[p].draining = "no"
      BY <2>1, <2>3, <3>2
    <3>3. CASE q = p /\ queue[p].draining # "no"
      BY <1>0, <2>1, <2>2, <3>3
    <3> QED
      BY <3>1, <3>2, <3>3
  <2>8. \A q \in Instance : ~(status[q] = "flushed" /\ status'[q] = "exited")
    BY <2>1
  <2> QED
    BY <1>3, <2>5, <2>6, <2>7, <2>8
<1>7. ASSUME NEW p \in Instance, BatchDone(p)
      PROVE  Done
  <2>1. /\ queue[p].draining = "yes" /\ Free(Q(p))
        /\ UNCHANGED <<source, snapshot, due, status, txn>>
        /\ todo' = [todo EXCEPT ![Q(p)] = queue[p].pending]
        /\ queue' = [queue EXCEPT ![p].pending = {},
                                  ![p].draining = IF queue[p].pending = {} THEN "no" ELSE "yes"]
    BY <1>7 DEF BatchDone
  <2>2. queue[p] \in QueueRow
    BY DEF TypeOK, QueueRow
  <2>3. /\ queue'[p].pending = {}
        /\ queue[p].pending # {} => queue'[p].draining = "yes"
        /\ \A q \in Instance : q # p => queue'[q] = queue[q]
    BY <2>1, <2>2 DEF TypeOK, QueueRow
  <2>4. /\ todo'[Q(p)] = queue[p].pending
        /\ \A q \in Instance : q # p => todo'[Q(q)] = todo[Q(q)]
    BY <1>0, <2>1 DEF TypeOK
  <2>5. todo[Q(p)] = {} /\ txn[Q(p)] = NoTxn /\ NoTxn.item = 0
    BY <2>1 DEF Free, NoTxn
  <2>6. \A q \in Instance, i \in Item : q # p => Known(q, i)
    BY <2>1, <2>3, <2>4 DEF Known
  <2>7. ASSUME NEW i \in Item
        PROVE  DebtKept(p, i)'
    <3>1. i # 0 /\ DebtKept(p, i)
      BY <1>0, JobAssumption
    <3>2. due[p][i] <= snapshot[i] \/ i \in todo'[Q(p)]
      BY <2>4, <2>5, <3>1 DEF DebtKept
    <3>3. queue'[p].draining # "yes" => due[p][i] <= snapshot[i]
      BY <2>3, <2>4, <3>2
    <3> QED
      BY <2>1, <2>5, <3>1, <3>2, <3>3 DEF DebtKept
  <2>8. \A q \in Instance : InHand(q)'
    BY <1>0, <2>1, <2>4, <2>5
  <2> QED
    BY <1>3, <2>1, <2>6, <2>7, <2>8
<1>8. ASSUME NEW w \in Worker, NEW k \in Item, Evaluate(w, k)
      PROVE  Done
  <2>1. /\ k \in todo[w] /\ UNCHANGED <<source, snapshot, due, status, todo, queue>>
        /\ txn' = [txn EXCEPT ![w] = [item |-> k, seen |-> source[k]]]
    BY <1>8 DEF Evaluate
  <2>2. /\ txn'[w].item = k /\ txn'[w].seen = source[k]
        /\ \A v \in Worker : v # w => txn'[v] = txn[v]
    BY <2>1 DEF TypeOK
  <2>3. ASSUME NEW q \in Instance, NEW i \in Item
        PROVE  Known(q, i) \/ DebtKept(q, i)'
    <3>1. CASE Q(q) = w /\ i = k
      <4>1. txn'[Q(q)].seen = source[i] /\ DebtKept(q, i)
        BY <1>0, <2>2, <3>1
      <4> QED
        BY <2>1, <4>1 DEF DebtKept
    <3>2. CASE ~(Q(q) = w /\ i = k)
      BY <1>0, <2>1, <2>2, <3>2 DEF Known
    <3> QED
      BY <3>1, <3>2
  <2>4. ASSUME NEW q \in Instance
        PROVE  InHand(q)'
    BY <1>0, <2>1, <2>2
  <2> QED
    BY <1>3, <2>1, <2>3, <2>4
<1>9. ASSUME NEW w \in Worker, Persist(w) \/ FailToPersist(w)
      PROVE  Done
  <2>0. PICK k \in Item : k = txn[w].item
    BY <1>9, TxnOfItem DEF Persist, FailToPersist
  <2>1. /\ txn[w] # NoTxn /\ txn[w].item = k /\ UNCHANGED <<source, status, queue>>
        /\ todo' = [todo EXCEPT ![w] = @ \ {k}] /\ txn' = [txn EXCEPT ![w] = NoTxn]
    BY <1>9, <2>0 DEF Persist, FailToPersist, Leave
  <2>2. /\ todo'[w] = todo[w] \ {k} /\ txn'[w] = NoTxn /\ NoTxn.item = 0
        /\ \A v \in Worker : v # w => todo'[v] = todo[v] /\ txn'[v] = txn[v]
    BY <2>1 DEF TypeOK, NoTxn
  <2>3. 0 \notin Item
    BY JobAssumption
  <2>4. ASSUME NEW q \in Instance, NEW i \in Item, ~(Q(q) = w /\ i = k)
        PROVE  Known(q, i)
    <3>1. due'[q][i] = due[q][i]
      <4>1. CASE Persist(w)
        BY <4>1 DEF Persist
      <4>2. CASE FailToPersist(w) /\ w[2] = "queue"
        <5>1. w[1] \in Instance /\ w = Q(w[1])
          BY <4>2 DEF Worker
        <5>2. q # w[1] \/ i # k
          BY <2>4, <5>1
        <5>3. due' = due \/ due' = [due EXCEPT ![w[1]][k] = 0]
          BY <2>1, <4>2 DEF FailToPersist
        <5> QED
          BY <5>1, <5>2, <5>3 DEF TypeOK
      <4>3. CASE FailToPersist(w) /\ w[2] # "queue"
        BY <4>3 DEF FailToPersist
      <4> QED
        BY <1>9, <4>1, <4>2, <4>3
    <3>2. i \in todo[Q(q)] => i \in todo'[Q(q)]
      BY <1>0, <2>2, <2>4
    <3>3. txn'[Q(q)].item = i => txn'[Q(q)] = txn[Q(q)]
      BY <1>0, <2>2, <2>3
    <3> QED
      BY <2>1, <3>1, <3>2, <3>3 DEF Known
  <2>5. ASSUME NEW q \in Instance, Q(q) = w
        PROVE  DebtKept(q, k)'
    <3>1. DebtKept(q, k) /\ QueueKept(q) /\ k \in todo[Q(q)] /\ w[1] = q /\ w[2] = "queue"
      BY <1>0, <2>1, <2>5
    <3>2. queue[q].draining = "yes"
      BY <3>1 DEF QueueKept
    <3>3. due[q][k] \in Nat /\ txn[w].seen \in Nat /\ snapshot[k] \in Nat /\ source[k] \in Nat
      BY <2>1 DEF TypeOK
    <3>4. CASE Persist(w)
      <4>1. snapshot'[k] = txn[w].seen /\ due' = due
        BY <2>1, <3>4 DEF Persist, TypeOK
      <4>2. snapshot[k] <= txn[w].seen
        BY <2>1 DEF RecomputesTakeTurns
      <4>3. due[q][k] <= snapshot'[k] \/ k \in queue'[q].pending
        BY <2>1, <2>5, <3>1, <3>3, <4>1, <4>2 DEF DebtKept
      <4> QED
        BY <2>1, <3>1, <3>2, <4>1, <4>3 DEF DebtKept
    <3>5. CASE FailToPersist(w)
      <4>1. snapshot' = snapshot
        BY <3>5 DEF FailToPersist
      <4>2. CASE k \in queue[q].pending
        <5>1. due' = due
          BY <2>1, <3>1, <3>5, <4>2 DEF FailToPersist
        <5> QED
          BY <2>1, <3>1, <3>2, <4>1, <4>2, <5>1 DEF DebtKept
      <4>3. CASE k \notin queue[q].pending
        <5>1. due' = [due EXCEPT ![q][k] = 0]
          BY <2>1, <3>1, <3>5, <4>3 DEF FailToPersist
        <5>2. due'[q][k] = 0
          BY <2>1, <5>1 DEF TypeOK
        <5> QED
          BY <2>1, <3>3, <4>1, <5>2 DEF DebtKept
      <4> QED
        BY <4>2, <4>3
    <3> QED
      BY <1>9, <3>4, <3>5
  <2>6. ASSUME NEW q \in Instance
        PROVE  InHand(q)'
    <3>1. CASE Q(q) = w
      BY <2>2, <3>1
    <3>2. CASE Q(q) # w
      BY <1>0, <2>2, <3>2
    <3> QED
      BY <3>1, <3>2
  <2>7. \A q \in Instance, i \in Item : Known(q, i) \/ DebtKept(q, i)'
    BY <2>4, <2>5
  <2> QED
    BY <1>3, <2>1, <2>6, <2>7
<1>10. ASSUME NEW p \in Instance, Exit(p) \/ Crash(p)
       PROVE  /\ DebtsKept'
              /\ \A q \in Instance : status[q] = "flushed" /\ status'[q] = "exited"
                    => \A i \in Item : due[q][i] <= snapshot[i]
  <2>1. /\ Reset(p) /\ UNCHANGED <<source, snapshot>>
        /\ \A q \in Instance : q # p => status'[q] = status[q]
        /\ status'[p] = "exited" => status[p] = "flushed" /\ queue[p].draining # "yes"
    BY <1>10 DEF Exit, Crash, TypeOK
  <2>2. /\ \A q \in Instance : q # p => queue'[q] = queue[q] /\ due'[q] = due[q]
        /\ \A i \in Item : due'[p][i] = 0
    BY <2>1 DEF Reset, TypeOK
  <2>3. \A q \in Instance : Q(q)[1] = q
    OBVIOUS
  <2>4. /\ \A q \in Instance : q # p => todo'[Q(q)] = todo[Q(q)] /\ txn'[Q(q)] = txn[Q(q)]
        /\ txn'[Q(p)] = NoTxn
    BY <1>0, <2>1, <2>3 DEF Reset
  <2>5. ASSUME NEW q \in Instance, NEW i \in Item
        PROVE  DebtKept(q, i)'
    <3>1. CASE q # p
      <4>1. Known(q, i)
        BY <2>1, <2>2, <2>4, <3>1 DEF Known
      <4> QED
        BY <1>0, <1>1, <1>2, <4>1, KnownIsKept
    <3>2. CASE q = p
      <4>1. due'[p][i] <= source'[i] /\ due'[p][i] <= snapshot'[i]
        BY <1>1, <2>2
      <4> QED
        BY <3>2, <4>1 DEF DebtKept
    <3> QED
      BY <3>1, <3>2
  <2>6. \A q \in Instance : InHand(q)'
    BY <1>0, <2>4
  <2>7. ASSUME NEW q \in Instance, status[q] = "flushed", status'[q] = "exited", NEW i \in Item
        PROVE  due[q][i] <= snapshot[i]
    <3>1. q = p /\ DebtKept(q, i)
      BY <1>0, <2>1, <2>7
    <3> QED
      BY <2>1, <2>7, <3>1 DEF DebtKept
  <2> QED
    BY <2>5, <2>6, <2>7 DEF DebtsKept
<1>11. ASSUME NEW p \in Instance, NEW j \in Job, Run(p, j) \/ RunFails(p, j)
       PROVE  Done
  <2>1. UNCHANGED <<due, queue, txn, status>> /\ (todo' = todo \/ ReadPage(p, j))
    BY <1>11 DEF Run, RunFails, Claim, Refused, ReadPage, PageDone, Release, Recheck, Record
  <2>2. \A q \in Instance : <<p, j>> # Q(q)
    BY DEF Job
  <2>3. \A q \in Instance : todo'[Q(q)] = todo[Q(q)]
    BY <1>0, <2>1, <2>2 DEF ReadPage, TypeOK
  <2> QED
    BY <1>4, <2>1, <2>3
<1>12. ASSUME NEW p \in Instance, Close(p) \/ Restart(p)
       PROVE  Done
  <2>1. UNCHANGED <<due, queue, txn, todo>>
    BY <1>12 DEF Close, Restart
  <2>2. \A q \in Instance : status'[q] # status[q] => status'[q] \notin {"flushed", "exited"}
    BY <1>12 DEF Close, Restart, TypeOK
  <2> QED
    BY <1>4, <2>1, <2>2
<1>13. ASSUME \/ \E p \in Instance : \/ Tick(p) \/ \E c \in {0} \cup Item : Recalculate(p, c)
                                     \/ \E i \in Item : Change(p, i)
              \/ Morning \/ Nightfall \/ RecalcLeaseExpires
       PROVE  Done
  <2>1. UNCHANGED <<due, queue, txn, todo, status>>
    BY <1>13 DEF Tick, Recalculate, Change, Morning, Nightfall, RecalcLeaseExpires
  <2> QED
    BY <1>4, <2>1
<1> QED
  BY <1>5, <1>6, <1>7, <1>8, <1>9, <1>10, <1>11, <1>12, <1>13 DEF Step, Work, QueueStep
-----------------------------------------------------------------------------
(* The initial states are safe.                                            *)
LEMMA JobsInit ==
    ASSUME Init
    PROVE  JobsSafe
<1>1. \A p \in Instance : ~Working(p)
  BY DEF Init, Working, Nightly, IdleRun, Job
<1>2. RunsTakeTurns
  BY <1>1 DEF Init, RunsTakeTurns, Committed
<1>3. \A w \in Worker : txn[w] = NoTxn
  BY DEF Init
<1>4. RecomputesTakeTurns
  BY <1>3 DEF Init, RecomputesTakeTurns
<1>5. ASSUME NEW p \in Instance
      PROVE  QueueKept(p)
  <2>1. EmptyQueue.pending = {} /\ EmptyQueue.timer = FALSE /\ EmptyQueue.draining = "no"
    BY DEF EmptyQueue
  <2>2. queue[p] = EmptyQueue /\ todo[<<p, "queue">>] = {}
    BY DEF Init, Worker
  <2> QED
    BY <2>1, <2>2 DEF QueueKept
<1>6. DebtsKept
  <2>1. \A p \in Instance : txn[<<p, "queue">>] = NoTxn
    BY <1>3 DEF Worker
  <2>2. \A p \in Instance, i \in Item : due[p][i] = 0 /\ snapshot[i] = 0 /\ source[i] = 0
    BY DEF Init
  <2> QED
    BY <2>1, <2>2 DEF DebtsKept, DebtKept
<1> QED
  BY <1>2, <1>4, <1>5, <1>6, InitTyped DEF JobsSafe, QueuesKept

(* Every step keeps the jobs safe.                                         *)
LEMMA JobsStep ==
    ASSUME JobsSafe, [Next]_vars
    PROVE  JobsSafe'
<1>1. TypeOK /\ RunsTakeTurns /\ RecomputesTakeTurns /\ QueuesKept /\ DebtsKept
  BY DEF JobsSafe
<1>2. CASE Next
  <2>1. TypeOK'
    BY <1>1, <1>2, TypeStep DEF Next
  <2> QED
    BY <1>1, <1>2, <2>1, RunsStep, RecomputesStep, QueuesStep, DebtsStep DEF Next, JobsSafe
<1>3. CASE UNCHANGED vars
  <2>1. TypeOK'
    BY <1>1, <1>3 DEF vars, TypeOK
  <2>2. RunsTakeTurns'
    BY <1>1, <1>3 DEF vars, RunsTakeTurns, Working, Committed, Nightly
  <2>3. RecomputesTakeTurns'
    BY <1>1, <1>3 DEF vars, RecomputesTakeTurns
  <2>4. QueuesKept'
    BY <1>1, <1>3 DEF vars, QueuesKept, QueueKept
  <2>5. DebtsKept'
    BY <1>1, <1>3 DEF vars, DebtsKept, DebtKept
  <2> QED
    BY <2>1, <2>2, <2>3, <2>4, <2>5 DEF JobsSafe
<1> QED
  BY <1>2, <1>3

(* Derived data are recomputed in turns, whatever processes crash, close,  *)
(* restart or fail, and whenever a night falls (decision-jobs.service.ts,  *)
(* recompute-queue.ts).                                                    *)
THEOREM JobsStaySafe == Spec => []JobsSafe
<1>1. Init => JobsSafe
  BY JobsInit
<1>2. JobsSafe /\ [Next]_vars => JobsSafe'
  BY JobsStep
<1> QED
  BY <1>1, <1>2, PTL DEF Spec

(* "At most once per business date across all instances": never do two     *)
(* processes work on tonight's run together, and it is completed twice only*)
(* after a run of an earlier date has overwritten its marker.              *)
THEOREM NightlyRunsOnce == Spec => []NightlyOnce
<1>1. JobsSafe => NightlyOnce
  <2> SUFFICES ASSUME JobsSafe
               PROVE  NightlyOnce
    OBVIOUS
  <2> DEFINE workers == {p \in Instance :
                           /\ job[p]["nightly"].stage \in {"recheck", "page", "work", "record"}
                           /\ job[p]["nightly"].tonight}
  <2>1. \A p, q \in workers : p = q
    BY OneWorks DEF JobsSafe, Working, Nightly
  <2>2. workers = {} \/ \E p \in workers : workers = {p}
    BY <2>1
  <2> HIDE DEF workers
  <2>3. Cardinality(workers) <= 1
    <3>1. CASE workers = {}
      BY <3>1, FS_EmptySet
    <3>2. CASE \E p \in workers : workers = {p}
      <4>1. PICK p \in workers : workers = {p}
        BY <3>2
      <4>2. Cardinality({p}) = 1
        BY FS_Singleton
      <4> QED
        BY <4>1, <4>2
    <3> QED
      BY <2>2, <3>1, <3>2
  <2>4. runs > 1 => late
    BY DEF JobsSafe, RunsTakeTurns
  <2> QED
    BY <2>3, <2>4 DEF NightlyOnce, workers
<1> QED
  BY <1>1, JobsStaySafe, PTL

(* "Idempotent, so concurrent or repeated runs converge": no worker, late  *)
(* as it may be, puts an older state of an item into its snapshot.         *)
THEOREM SnapshotsOnlyAdvance == Spec => SnapshotNeverRegresses
<1>1. JobsSafe /\ [Next]_vars => [\A i \in Item : snapshot'[i] >= snapshot[i]]_vars
  BY RecomputesStep DEF JobsSafe, Next
<1> QED
  BY <1>1, JobsStaySafe, PTL DEF Spec, SnapshotNeverRegresses

(* "Queued post-commit recomputations finish" (server.ts:45): a process    *)
(* exits after its flush only when every snapshot shows at least what the  *)
(* item's sources were when it was last queued before the flush.           *)
THEOREM ShutdownIsGraceful == Spec => ShutdownLosesNothing
<1>1. ASSUME JobsSafe, [Next]_vars
      PROVE  [\A p \in Instance : status[p] = "flushed" /\ status'[p] = "exited"
                 => \A i \in Item : due[p][i] <= snapshot[i]]_vars
  <2>1. CASE Next
    <3>1. TypeOK'
      BY <1>1, <2>1, TypeStep DEF JobsSafe, Next
    <3> QED
      BY <1>1, <2>1, <3>1, DebtsStep DEF JobsSafe, Next
  <2>2. CASE UNCHANGED vars
    BY <2>2
  <2> QED
    BY <1>1, <2>1, <2>2
<1> QED
  BY <1>1, JobsStaySafe, PTL DEF Spec, ShutdownLosesNothing
-----------------------------------------------------------------------------
(* The parts count with the same operator as this module.                  *)
LEMMA Counting ==
    \A S : Guard!Cardinality(S) = Cardinality(S) /\ Questions!Cardinality(S) = Cardinality(S)
BY DEF Guard!Cardinality, Questions!Cardinality, Cardinality

(* Part of a finite set counts no more than it; without one of its elements*)
(* it counts one less.                                                     *)
LEMMA CountsOfParts ==
    ASSUME NEW S, IsFiniteSet(S), NEW T \in SUBSET S, NEW x
    PROVE  /\ Cardinality(S) \in Nat /\ Cardinality(T) \in Nat
           /\ Cardinality(T) <= Cardinality(S)
           /\ x \in T => Cardinality(T \ {x}) = Cardinality(T) - 1
<1>1. IsFiniteSet(T) /\ Cardinality(T) <= Cardinality(S)
  BY FS_Subset
<1>2. x \in T => Cardinality(T \ {x}) = Cardinality(T) - 1
  BY <1>1, FS_RemoveElement
<1> QED
  BY <1>1, <1>2, FS_CardinalityType

(* The logins that have passed the check and not ended.                    *)
Checked == {c \in Caller : attempt[c] = "checked"}

(* The counts have their types, and the failures that count, with those    *)
(* that the logins under way may add, are bounded.                         *)
GuardSafe ==
    /\ wrong \in Nat
    /\ attempt \in [Caller -> {"idle", "checked", "in"}]
    /\ ~blind => wrong + Cardinality(Checked) < MaxAttempts + Cardinality(Caller)

(* Nobody has failed at first.                                             *)
LEMMA GuardInit == Guard!Init => GuardSafe
<1> SUFFICES ASSUME Guard!Init PROVE GuardSafe
  OBVIOUS
<1>1. Checked = {}
  BY DEF Guard!Init, Checked
<1>2. Cardinality(Checked) = 0 /\ Cardinality(Caller) \in Nat
  BY <1>1, FS_EmptySet, FS_CardinalityType, LimitAssumption
<1> QED
  BY <1>2, LimitAssumption DEF Guard!Init, GuardSafe

(* A login that passes the check finds one failure less than the limit, and*)
(* all the others may have passed it; one that fails moves from the logins *)
(* under way to the failures; no other step adds to either.                *)
LEMMA GuardStep ==
    ASSUME GuardSafe, [Guard!Next]_(Guard!vars)
    PROVE  GuardSafe'
<1>1. wrong' \in Nat /\ attempt' \in [Caller -> {"idle", "checked", "in"}]
  BY DEF GuardSafe, Guard!Next, Guard!vars, Guard!Step, Guard!To, Guard!Check, Guard!FailOpen,
         Guard!Blocked, Guard!Record, Guard!Unrecorded, Guard!Succeed, Guard!RecordSuccess,
         Guard!SuccessUnrecorded, Guard!Clear, Guard!WindowPasses
<1>2. /\ Cardinality(Caller) \in Nat /\ Cardinality(Checked) \in Nat /\ Cardinality(Checked') \in Nat
      /\ Cardinality(Checked') <= Cardinality(Caller)
      /\ Checked' \subseteq Checked => Cardinality(Checked') <= Cardinality(Checked)
      /\ \A c \in Checked : Cardinality(Checked \ {c}) = Cardinality(Checked) - 1
  <2>1. Checked \subseteq Caller /\ Checked' \subseteq Caller
    BY DEF Checked
  <2>2. IsFiniteSet(Checked)
    BY <2>1, LimitAssumption, FS_Subset
  <2> QED
    BY <2>1, <2>2, LimitAssumption, CountsOfParts
<1> DEFINE Bounded == ~blind' => wrong' + Cardinality(Checked') < MaxAttempts + Cardinality(Caller)
<1>3. ASSUME UNCHANGED blind, wrong' <= wrong, Checked' \subseteq Checked
      PROVE  Bounded
  BY <1>1, <1>2, <1>3, LimitAssumption DEF GuardSafe
<1>4. ASSUME NEW c \in Caller, Guard!Check(c)
      PROVE  Bounded
  BY <1>1, <1>2, <1>4, LimitAssumption DEF GuardSafe, Guard!Check, Guard!Locked
<1>5. ASSUME NEW c \in Caller, Guard!FailOpen(c)
      PROVE  Bounded
  BY <1>5 DEF Guard!FailOpen
<1>6. ASSUME NEW c \in Caller, Guard!Record(c)
      PROVE  Bounded
  <2>1. c \in Checked /\ Checked' = Checked \ {c}
    BY <1>6 DEF GuardSafe, Checked, Guard!Record, Guard!To
  <2>2. wrong' = wrong + 1 /\ UNCHANGED blind
    BY <1>6 DEF Guard!Record
  <2> QED
    BY <1>2, <2>1, <2>2, LimitAssumption DEF GuardSafe
<1>7. ASSUME NEW c \in Caller, \/ Guard!Blocked(c) \/ Guard!Unrecorded(c) \/ Guard!Succeed(c)
                               \/ Guard!RecordSuccess(c) \/ Guard!SuccessUnrecorded(c)
      PROVE  Bounded
  <2>1. UNCHANGED blind /\ wrong' <= wrong
    BY <1>7 DEF GuardSafe, Guard!Blocked, Guard!Unrecorded, Guard!Succeed, Guard!RecordSuccess,
                Guard!SuccessUnrecorded, Guard!vars
  <2>2. Checked' \subseteq Checked
    BY <1>7 DEF GuardSafe, Checked, Guard!Blocked, Guard!Unrecorded, Guard!Succeed,
                Guard!RecordSuccess, Guard!SuccessUnrecorded, Guard!To, Guard!vars
  <2> QED
    BY <1>3, <2>1, <2>2
<1>8. ASSUME Guard!Clear \/ Guard!WindowPasses \/ UNCHANGED Guard!vars
      PROVE  Bounded
  <2>1. UNCHANGED blind /\ wrong' <= wrong /\ Checked' = Checked
    BY <1>8 DEF GuardSafe, Checked, Guard!Clear, Guard!WindowPasses, Guard!vars
  <2> QED
    BY <1>3, <2>1
<1> HIDE DEF Bounded
<1>9. Bounded
  BY <1>4, <1>5, <1>6, <1>7, <1>8 DEF Guard!Next, Guard!Step
<1> QED
  BY <1>1, <1>9 DEF GuardSafe, Bounded

(* What is bounded is what the run checks.                                 *)
LEMMA GuardBounds == GuardSafe => Guard!LockoutBoundsGuesses
BY Counting DEF GuardSafe, Guard!LockoutBoundsGuesses, Checked

(* Where a question is, and the questions under way.                       *)
Turn == [st : {"idle", "rules", "memory", "answered"}] \cup [st : {"model"}, try : Nat]
Open == {a \in Asker : ask[a].st # "idle"}

(* The counts have their types, a question was let through by a limit that *)
(* is none or one, and what is recorded, with what may be, is bounded.     *)
QuestionsSafe ==
    /\ used \in Nat /\ used <= MaxUsed /\ limit \in Nat
    /\ quota \in Quota \cup {0}
    /\ ask \in [Asker -> Turn]
    /\ used + Cardinality(Open) < Questions!Allowed + Cardinality(Asker)

(* Nobody has asked at first.                                              *)
LEMMA QuestionsInit == Questions!Init => QuestionsSafe
<1> SUFFICES ASSUME Questions!Init PROVE QuestionsSafe
  OBVIOUS
<1>1. Open = {} /\ ask \in [Asker -> Turn]
  BY DEF Questions!Init, Questions!Idle, Open, Turn
<1>2. Cardinality(Open) = 0 /\ Cardinality(Asker) \in Nat
  BY <1>1, FS_EmptySet, FS_CardinalityType, LimitAssumption
<1> QED
  BY <1>1, <1>2, LimitAssumption DEF Questions!Init, QuestionsSafe, Questions!Allowed

(* A question that is let through finds fewer interactions than the limit, *)
(* and all the others may be under way; one that is recorded moves from    *)
(* those under way to the interactions.                                    *)
LEMMA QuestionsStep ==
    ASSUME QuestionsSafe, [Questions!Next]_(Questions!vars)
    PROVE  QuestionsSafe'
<1> DEFINE Typed == /\ used' \in Nat /\ used' <= MaxUsed /\ limit' \in Nat
                    /\ quota' \in Quota \cup {0}
                    /\ ask' \in [Asker -> Turn]
           Bounded == used' + Cardinality(Open') < Questions!Allowed' + Cardinality(Asker)
<1>1. /\ Cardinality(Asker) \in Nat /\ Cardinality(Open) \in Nat /\ Cardinality(Open') \in Nat
      /\ Cardinality(Open) <= Cardinality(Asker) /\ Cardinality(Open') <= Cardinality(Asker)
      /\ Open' \subseteq Open => Cardinality(Open') <= Cardinality(Open)
      /\ \A a \in Open : Cardinality(Open \ {a}) = Cardinality(Open) - 1
  <2>1. Open \subseteq Asker /\ Open' \subseteq Asker
    BY DEF Open
  <2>2. IsFiniteSet(Open)
    BY <2>1, LimitAssumption, FS_Subset
  <2> QED
    BY <2>1, <2>2, LimitAssumption, CountsOfParts
<1>2. ASSUME NEW a \in Asker, NEW q \in Quota \cup {0}, Questions!AssertQuota(a, q)
      PROVE  Typed /\ Bounded
  <2>1. q \in Nat /\ used \in Nat /\ limit \in Nat /\ used <= MaxUsed /\ MaxUsed \in Nat
    BY LimitAssumption DEF QuestionsSafe
  <2>2. used < Questions!Limit(q) /\ Questions!Limit(q) \in Nat
    BY <1>2, <2>1 DEF Questions!AssertQuota, Questions!Exhausted, Questions!Limit
  <2>3. limit' \in Nat /\ limit' >= Questions!Limit(q) /\ used' = used
    BY <1>2, <2>1, <2>2 DEF Questions!AssertQuota
  <2>4. ask' \in [Asker -> Turn] /\ quota' = quota
    BY <1>2 DEF QuestionsSafe, Questions!AssertQuota, Questions!To, Turn
  <2> QED
    BY <1>1, <2>1, <2>2, <2>3, <2>4 DEF QuestionsSafe, Questions!Allowed
<1>3. ASSUME NEW a \in Asker, \/ Questions!AnswerQuestion(a) \/ Questions!FindSimilar(a)
                              \/ Questions!Retry(a) \/ Questions!Complete(a)
      PROVE  Typed /\ Bounded
  <2>1. UNCHANGED <<quota, used, limit>>
    BY <1>3 DEF Questions!AnswerQuestion, Questions!FindSimilar, Questions!Retry, Questions!Complete
  <2>2. /\ ask[a] \in Turn /\ ask[a].st # "idle"
        /\ \E what \in Turn : ask' = [ask EXCEPT ![a] = what]
    <3>1. ask[a] \in Turn
      BY DEF QuestionsSafe
    <3>2. ASSUME Questions!Retry(a)
          PROVE  [ask[a] EXCEPT !.try = 2] \in Turn
      BY <3>1, <3>2 DEF Questions!Retry, Questions!At, Turn
    <3> QED
      BY <1>3, <3>1, <3>2
         DEF Questions!AnswerQuestion, Questions!FindSimilar, Questions!Retry, Questions!Complete,
             Questions!At, Questions!To, Questions!Idle, Questions!ModelTurn, Turn
  <2>3. ask' \in [Asker -> Turn] /\ Open' \subseteq Open
    BY <2>2 DEF QuestionsSafe, Open
  <2> QED
    BY <1>1, <2>1, <2>3 DEF QuestionsSafe, Questions!Allowed
<1>4. ASSUME NEW a \in Asker, Questions!RecordInteraction(a)
      PROVE  Typed /\ Bounded
  <2>1. a \in Open /\ Open' = Open \ {a} /\ ask' \in [Asker -> Turn]
    BY <1>4 DEF QuestionsSafe, Questions!RecordInteraction, Questions!At, Questions!To,
                Questions!Idle, Open, Turn
  <2>2. used' \in {used, used + 1} /\ used < MaxUsed /\ UNCHANGED <<quota, limit>>
    BY <1>4 DEF Questions!RecordInteraction
  <2> QED
    BY <1>1, <2>1, <2>2, LimitAssumption DEF QuestionsSafe, Questions!Allowed
<1>5. ASSUME NEW q \in Quota, Questions!SetQuota(q)
      PROVE  Typed /\ Bounded
  BY <1>1, <1>5 DEF QuestionsSafe, Questions!SetQuota, Questions!Allowed, Open
<1>6. ASSUME Questions!Midnight
      PROVE  Typed /\ Bounded
  BY <1>1, <1>6, LimitAssumption DEF QuestionsSafe, Questions!Midnight, Questions!Allowed, Open
<1>7. ASSUME UNCHANGED Questions!vars
      PROVE  Typed /\ Bounded
  BY <1>7 DEF QuestionsSafe, Questions!vars, Questions!Allowed, Open
<1> HIDE DEF Typed, Bounded
<1>8. Typed /\ Bounded
  BY <1>2, <1>3, <1>4, <1>5, <1>6, <1>7 DEF Questions!Next, Questions!Step
<1> QED
  BY <1>8 DEF QuestionsSafe, Typed, Bounded

(* What is bounded is what the run checks.                                 *)
LEMMA QuestionsBounds == QuestionsSafe => Questions!QuotaHolds
BY Counting DEF QuestionsSafe, Questions!QuotaHolds, Questions!UnderWay, Questions!At, Open

(* A behaviour is about one part, by a step of which it moves.             *)
LEMMA StepOfPart ==
    ASSUME [MCNext]_MCVars
    PROVE  /\ UNCHANGED part
           /\ [Guard!Next]_(Guard!vars)
           /\ [Questions!Next]_(Questions!vars)
           /\ part = "products" => [Goods!Next]_(Goods!vars)
           /\ part = "sales" => [History!Next]_(History!vars)
BY DEF MCNext, MCVars, Only, Others, guard, questions, imports, Guard!vars, Questions!vars,
       Goods!vars, History!vars

(* Logins and questions exceed their limits only by those that were under  *)
(* way when the limit was reached (login-guard.service.ts:99-107,          *)
(* assistant.controller.ts:12-28).                                         *)
THEOREM LimitsAlwaysHold == MCSpec => []LimitsHold
<1>1. MCInit => GuardSafe /\ QuestionsSafe
  BY GuardInit, QuestionsInit DEF MCInit
<1>2. GuardSafe /\ QuestionsSafe /\ [MCNext]_MCVars => GuardSafe' /\ QuestionsSafe'
  BY StepOfPart, GuardStep, QuestionsStep
<1>3. GuardSafe /\ QuestionsSafe => LimitsHold
  BY GuardBounds, QuestionsBounds DEF LimitsHold
<1> QED
  BY <1>1, <1>2, <1>3, PTL DEF MCSpec
-----------------------------------------------------------------------------
(* Imports of products.  A request commits a job from when it took it until*)
(* it leaves it; between its steps it knows the job and the rows to do.    *)
Under == {"load", "mark", "apply", "fail", "failJob", "finish"}
Visit(files, rows) ==
    [pc : {"free"}] \cup [pc : Under \cup {"expire", "take"}, job : files, todo : SUBSET rows]

Busy(j) == Goods!RowsIn(j, {"PROCESSING"})
Undone(j) == Goods!RowsIn(j, {"PENDING", "FAILED", "PROCESSING"})
Commits(h, j) == handler[h].pc \in Under /\ handler[h].job = j

(* Jobs, checkpoints and requests have their types.                        *)
GoodsTyped ==
    /\ jobStatus \in [Import -> Goods!JobStatus]
    /\ DOMAIN row = Import /\ DOMAIN applied = Import
    /\ \A j \in Import : row[j] \in [ImportRow[j] -> Goods!RowStatus]
    /\ \A j \in Import : applied[j] \in [ImportRow[j] -> Nat]
    /\ handler \in [Handler -> Visit(Import, UNION {ImportRow[j] : j \in Import})]

(* A job that is being committed is marked so, or as expired; a request    *)
(* knows the rows that are not done yet, of which those of its chunk may be*)
(* being processed while it applies them or fails.                         *)
Held(h, j) ==
    Commits(h, j) =>
        /\ jobStatus[j] \in {"COMMITTING", "EXPIRED"}
        /\ handler[h].pc \in {"load", "mark", "failJob"} => Busy(j) = {}
        /\ handler[h].pc = "apply" => Busy(j) \subseteq Goods!Chunk(h)
        /\ handler[h].pc \in {"mark", "apply"} => Undone(j) = handler[h].todo
        /\ handler[h].pc = "finish" => Undone(j) = {}

(* What the status of a job says of its rows.                              *)
StatusFits(j) ==
    /\ jobStatus[j] \in {"ABSENT", "PREVIEWED", "FAILED"} => Busy(j) = {}
    /\ jobStatus[j] = "COMPLETED" => Undone(j) = {}

(* A row has taken effect if its checkpoint says so, and once.             *)
EffectFits(j) ==
    \A r \in ImportRow[j] : applied[j][r] = IF row[j][r] = "COMPLETED" THEN 1 ELSE 0

GoodsSafe ==
    /\ GoodsTyped
    /\ \A g, h \in Handler, j \in Import : Commits(g, j) /\ Commits(h, j) => g = h
    /\ \A h \in Handler, j \in Import : Held(h, j)
    /\ \A j \in Import : StatusFits(j) /\ EffectFits(j)

(* Nothing has been imported at first.                                     *)
LEMMA GoodsInit == Goods!Init => GoodsSafe
<1> SUFFICES ASSUME Goods!Init PROVE GoodsSafe
  OBVIOUS
<1>1. GoodsTyped
  BY DEF Goods!Init, GoodsTyped, Goods!JobStatus, Goods!RowStatus, Goods!Free, Visit
<1>2. \A h \in Handler, j \in Import : ~Commits(h, j)
  BY DEF Goods!Init, Goods!Free, Commits, Under
<1>3. ASSUME NEW j \in Import
      PROVE  StatusFits(j) /\ EffectFits(j)
  BY <1>3 DEF Goods!Init, StatusFits, EffectFits, Busy, Goods!RowsIn
<1> QED
  BY <1>1, <1>2, <1>3 DEF GoodsSafe, Held

(* A step on one job by its only committer, or by one about to be it,      *)
(* leaves what the others know as it is.                                   *)
LEMMA OthersHold ==
    ASSUME GoodsSafe, NEW h \in Handler, NEW j \in Import,
           \A g \in Handler : g # h => handler'[g] = handler[g] /\ ~Commits(g, j),
           \A k \in Import : k # j => /\ jobStatus'[k] = jobStatus[k]
                                      /\ row'[k] = row[k] /\ applied'[k] = applied[k],
           handler'[h].pc \in Under => handler'[h].job = j,
           GoodsTyped', Held(h, j)', StatusFits(j)', EffectFits(j)'
    PROVE  GoodsSafe'
<1>1. ASSUME NEW g \in Handler, NEW k \in Import, g # h
      PROVE  Held(g, k)'
  <2>1. Commits(g, k)' => k # j /\ Commits(g, k)
    BY <1>1 DEF Commits
  <2>2. Held(g, k)
    BY DEF GoodsSafe
  <2> QED
    BY <1>1, <2>1, <2>2 DEF Held, Busy, Undone, Goods!RowsIn, Goods!Chunk
<1>2. ASSUME NEW k \in Import, k # j
      PROVE  StatusFits(k)' /\ EffectFits(k)' /\ Held(h, k)'
  BY <1>2 DEF GoodsSafe, StatusFits, EffectFits, Held, Commits, Busy, Undone, Goods!RowsIn
<1>3. \A f, g \in Handler, k \in Import : Commits(f, k)' /\ Commits(g, k)' => f = g
  BY DEF GoodsSafe, Commits
<1> QED
  BY <1>1, <1>2, <1>3 DEF GoodsSafe

(* What a request that commits a job knows of it, with its type.           *)
LEMMA CommitterKnows ==
    ASSUME GoodsSafe, NEW h \in Handler, handler[h].pc \in Under
    PROVE  /\ handler[h].job \in Import
           /\ Commits(h, handler[h].job) /\ Held(h, handler[h].job)
           /\ \A g \in Handler : g # h => ~Commits(g, handler[h].job)
           /\ handler[h] \in [pc : Under, job : Import, todo : SUBSET UNION {ImportRow[j] : j \in Import}]
<1>1. handler[h] \in [pc : Under, job : Import, todo : SUBSET UNION {ImportRow[j] : j \in Import}]
  <2>1. handler[h] \in Visit(Import, UNION {ImportRow[j] : j \in Import})
    BY DEF GoodsSafe, GoodsTyped
  <2> QED
    BY <2>1 DEF Visit, Under
<1>2. Commits(h, handler[h].job)
  BY DEF Commits
<1> QED
  BY <1>1, <1>2 DEF GoodsSafe

(* The states of a job's rows after some of them are set.                  *)
LEMMA RowsAreSet ==
    ASSUME GoodsTyped, NEW j \in Import, NEW rows, NEW to \in Goods!RowStatus,
           Goods!SetRows(j, rows, to)
    PROVE  /\ DOMAIN row' = Import
           /\ \A k \in Import : row'[k] \in [ImportRow[k] -> Goods!RowStatus]
           /\ \A k \in Import : k # j => row'[k] = row[k]
           /\ \A r \in ImportRow[j] : row'[j][r] = IF r \in rows THEN to ELSE row[j][r]
<1>1. row' = [row EXCEPT ![j] = [r \in ImportRow[j] |-> IF r \in rows THEN to ELSE row[j][r]]]
  BY DEF Goods!SetRows
<1> QED
  BY <1>1 DEF GoodsTyped

(* What a request knows lasts while it, the rows and its job's status stay.*)
LEMMA HeldStill ==
    ASSUME GoodsSafe, UNCHANGED row
    PROVE  \A h \in Handler, j \in Import :
              handler'[h] = handler[h] /\ (~Commits(h, j) \/ jobStatus'[j] \in {jobStatus[j], "EXPIRED"})
                 => Held(h, j)'
<1> SUFFICES ASSUME NEW h \in Handler, NEW j \in Import, handler'[h] = handler[h],
                    ~Commits(h, j) \/ jobStatus'[j] \in {jobStatus[j], "EXPIRED"}
             PROVE  Held(h, j)'
  OBVIOUS
<1>1. Held(h, j) /\ (Commits(h, j)' <=> Commits(h, j))
  BY DEF GoodsSafe, Commits
<1>2. Busy(j)' = Busy(j) /\ Undone(j)' = Undone(j) /\ Goods!Chunk(h)' = Goods!Chunk(h)
  BY DEF Busy, Undone, Goods!RowsIn, Goods!Chunk
<1> QED
  BY <1>1, <1>2 DEF Held

(* A preview, or the passing of time, commits nothing.                     *)
LEMMA PreviewSafe ==
    ASSUME GoodsSafe, NEW j \in Import,
           Goods!PreviewProducts(j) \/ Goods!PreviewSales(j) \/ Goods!Expire(j)
    PROVE  GoodsSafe'
<1>1. CASE Goods!PreviewProducts(j)
  <2>1. /\ jobStatus[j] = "ABSENT" /\ jobStatus' = [jobStatus EXCEPT ![j] = "PREVIEWED"]
        /\ UNCHANGED <<row, applied, handler>>
    BY <1>1 DEF Goods!PreviewProducts, Goods!CreateJob
  <2>2. GoodsTyped'
    BY <2>1 DEF GoodsSafe, GoodsTyped, Goods!JobStatus
  <2>3. \A h \in Handler : ~Commits(h, j)
    BY <2>1 DEF GoodsSafe, Held
  <2>4. \A h \in Handler, k \in Import : Held(h, k)'
    <3>1. /\ \A k \in Import : k # j => jobStatus'[k] = jobStatus[k]
          /\ UNCHANGED <<row, handler>>
      BY <2>1 DEF GoodsSafe, GoodsTyped
    <3> QED
      BY <2>3, <3>1, HeldStill
  <2>5. \A k \in Import : StatusFits(k)' /\ EffectFits(k)'
    BY <2>1 DEF GoodsSafe, GoodsTyped, StatusFits, EffectFits, Busy, Undone, Goods!RowsIn
  <2> QED
    BY <2>1, <2>2, <2>4, <2>5 DEF GoodsSafe, Commits
<1>2. CASE Goods!Expire(j)
  <2>1. UNCHANGED <<jobStatus, row, applied, handler>>
    BY <1>2 DEF Goods!Expire
  <2>2. \A h \in Handler, k \in Import : Held(h, k)'
    BY <2>1 DEF GoodsSafe, Held, Commits, Busy, Undone, Goods!RowsIn, Goods!Chunk
  <2>3. \A k \in Import : StatusFits(k)' /\ EffectFits(k)'
    BY <2>1 DEF GoodsSafe, StatusFits, EffectFits, Busy, Undone, Goods!RowsIn
  <2> QED
    BY <2>1, <2>2, <2>3 DEF GoodsSafe, GoodsTyped, Commits
<1>3. ~Goods!PreviewSales(j)
  BY DEF Goods!PreviewSales
<1> QED
  BY <1>1, <1>2, <1>3

(* A request comes or goes, or reads, without taking a job.                *)
LEMMA VisitSafe ==
    ASSUME GoodsSafe, NEW h \in Handler, UNCHANGED <<jobStatus, row, applied>>,
           NEW v \in Visit(Import, UNION {ImportRow[j] : j \in Import}), v.pc \notin Under,
           handler' = [handler EXCEPT ![h] = v]
    PROVE  GoodsSafe'
<1>1. GoodsTyped'
  BY DEF GoodsSafe, GoodsTyped
<1>2. /\ \A j \in Import : ~Commits(h, j)'
      /\ \A g \in Handler, j \in Import : g # h => (Commits(g, j)' <=> Commits(g, j))
      /\ \A g \in Handler : g # h => handler'[g] = handler[g]
  BY DEF Commits, GoodsSafe, GoodsTyped
<1>3. \A g \in Handler, j \in Import : Held(g, j)'
  <2>1. \A j \in Import : Held(h, j)'
    BY <1>2 DEF Held
  <2> QED
    BY <1>2, <2>1, HeldStill
<1>4. \A j \in Import : StatusFits(j)' /\ EffectFits(j)'
  BY DEF GoodsSafe, StatusFits, EffectFits, Busy, Undone, Goods!RowsIn
<1> QED
  BY <1>1, <1>2, <1>3, <1>4 DEF GoodsSafe

(* An expired job is marked, also while it is committed.                   *)
LEMMA MarkExpiredSafe ==
    ASSUME GoodsSafe, NEW h \in Handler, Goods!MarkExpired(h)
    PROVE  GoodsSafe'
<1> DEFINE j == handler[h].job
<1>1. /\ handler[h].pc = "expire"
      /\ jobStatus' = [jobStatus EXCEPT ![j] = "EXPIRED"]
      /\ handler' = [handler EXCEPT ![h] = [pc |-> "free"]]
      /\ UNCHANGED <<row, applied>>
  BY DEF Goods!MarkExpired, Goods!At, Goods!Of, Goods!Leave, Goods!Free
<1>2. j \in Import
  <2>1. handler[h] \in Visit(Import, UNION {ImportRow[k] : k \in Import})
    BY DEF GoodsSafe, GoodsTyped
  <2> QED
    BY <1>1, <2>1 DEF Visit
<1> HIDE DEF j
<1>3. GoodsTyped'
  BY <1>1, <1>2 DEF GoodsSafe, GoodsTyped, Goods!JobStatus, Visit
<1>4. /\ \A k \in Import : ~Commits(h, k)'
      /\ \A g \in Handler, k \in Import : g # h => (Commits(g, k)' <=> Commits(g, k))
      /\ \A g \in Handler : g # h => handler'[g] = handler[g]
  BY <1>1 DEF Commits, GoodsSafe, GoodsTyped, Under
<1>5. \A k \in Import : jobStatus'[k] = jobStatus[k] \/ jobStatus'[k] = "EXPIRED"
  BY <1>1 DEF GoodsSafe, GoodsTyped
<1>6. \A g \in Handler, k \in Import : Held(g, k)'
  <2>1. \A k \in Import : Held(h, k)'
    BY <1>4 DEF Held
  <2> QED
    BY <1>1, <1>4, <1>5, <2>1, HeldStill
<1>7. \A k \in Import : StatusFits(k)' /\ EffectFits(k)'
  BY <1>1, <1>5 DEF GoodsSafe, StatusFits, EffectFits, Busy, Undone, Goods!RowsIn
<1> QED
  BY <1>3, <1>4, <1>6, <1>7 DEF GoodsSafe

(* Of those that read that a job may be committed one takes it, while it   *)
(* may: none commits it, and no row of it is being processed.              *)
LEMMA TakeSafe ==
    ASSUME GoodsSafe, NEW h \in Handler, Goods!Take(h)
    PROVE  GoodsSafe'
<1>1. handler[h] \in [pc : {"take"}, job : Import, todo : SUBSET UNION {ImportRow[k] : k \in Import}]
  <2>1. handler[h] \in Visit(Import, UNION {ImportRow[k] : k \in Import}) /\ handler[h].pc = "take"
    BY DEF GoodsSafe, GoodsTyped, Goods!Take, Goods!At
  <2> QED
    BY <2>1 DEF Visit, Under
<1>0. PICK j \in Import : j = handler[h].job
  BY <1>1
<1>2. UNCHANGED <<row, applied>>
  BY DEF Goods!Take
<1>3. CASE jobStatus[j] \in {"PREVIEWED", "FAILED"}
  <2>1. /\ jobStatus' = [jobStatus EXCEPT ![j] = "COMMITTING"]
        /\ handler' = [handler EXCEPT ![h].pc = "load"]
    BY <1>3, <1>0 DEF Goods!Take, Goods!Of, Goods!Goto
  <2>2. \A g \in Handler : ~Commits(g, j)
    BY <1>1, <1>3 DEF GoodsSafe, Held
  <2>3. handler'[h].pc = "load" /\ handler'[h].job = j
    BY <1>1, <1>0, <2>1 DEF GoodsSafe, GoodsTyped
  <2>4. GoodsTyped'
    <3>1. handler'[h] \in Visit(Import, UNION {ImportRow[k] : k \in Import})
      BY <1>1, <2>1 DEF GoodsSafe, GoodsTyped, Visit, Under
    <3> QED
      BY <1>1, <1>2, <2>1, <3>1 DEF GoodsSafe, GoodsTyped, Goods!JobStatus
  <2>5. Busy(j)' = {} /\ jobStatus'[j] = "COMMITTING"
    BY <1>1, <1>2, <1>3, <2>1 DEF GoodsSafe, GoodsTyped, StatusFits, Busy, Goods!RowsIn
  <2>6. Held(h, j)' /\ StatusFits(j)' /\ EffectFits(j)'
    BY <1>1, <1>2, <2>3, <2>5 DEF GoodsSafe, Held, StatusFits, EffectFits
  <2>8. \A g \in Handler : g # h => handler'[g] = handler[g]
    BY <2>1
  <2>9. \A k \in Import : k # j => jobStatus'[k] = jobStatus[k]
    BY <2>1
  <2>10. j \in Import /\ \A k \in Import : k # j => row'[k] = row[k] /\ applied'[k] = applied[k]
    BY <1>1, <1>2
  <2> QED
    BY <2>2, <2>4, <2>3, <2>6, <2>8, <2>9, <2>10, OthersHold
<1>4. CASE jobStatus[j] \notin {"PREVIEWED", "FAILED"}
  <2>1. /\ UNCHANGED jobStatus
        /\ handler' = [handler EXCEPT ![h] = [pc |-> "free"]]
    BY <1>4, <1>0 DEF Goods!Take, Goods!Of, Goods!Leave, Goods!Free
  <2> QED
    BY <1>2, <2>1, VisitSafe DEF Visit, Under
<1> QED
  BY <1>3, <1>4

(* A step of a request that commits a job and goes on with it, or fails: it*)
(* is safe if the rows it leaves are as it knows them next.                *)
LEMMA GoesOn ==
    ASSUME GoodsSafe, NEW h \in Handler, handler[h].pc \in Under, UNCHANGED jobStatus,
           NEW j \in Import, j = handler[h].job,
           NEW v, v \in [pc : Under, job : {j}, todo : SUBSET UNION {ImportRow[k] : k \in Import}],
           handler' = [handler EXCEPT ![h] = v],
           DOMAIN row' = Import, DOMAIN applied' = Import,
           \A k \in Import : k # j => row'[k] = row[k] /\ applied'[k] = applied[k],
           row'[j] \in [ImportRow[j] -> Goods!RowStatus],
           applied'[j] \in [ImportRow[j] -> Nat],
           EffectFits(j)',
           v.pc \in {"load", "mark", "failJob"} => Busy(j)' = {},
           v.pc = "apply" => Busy(j)' \subseteq Goods!Chunk(h)',
           v.pc \in {"mark", "apply"} => Undone(j)' = v.todo,
           v.pc = "finish" => Undone(j)' = {}
    PROVE  GoodsSafe'
<1>1. /\ handler[h] \in [pc : Under, job : Import, todo : SUBSET UNION {ImportRow[k] : k \in Import}]
      /\ Held(h, j) /\ Commits(h, j)
      /\ \A g \in Handler : g # h => ~Commits(g, j)
  BY CommitterKnows
<1>2. handler'[h] = v /\ v.job = j
  BY DEF GoodsSafe, GoodsTyped
<1>3. handler'[h] \in Visit(Import, UNION {ImportRow[k] : k \in Import})
  BY DEF GoodsSafe, GoodsTyped, Visit, Under
<1>4. GoodsTyped'
  BY <1>3 DEF GoodsSafe, GoodsTyped
<1>5. jobStatus'[j] \in {"COMMITTING", "EXPIRED"}
  BY <1>1 DEF Held
<1>6. Held(h, j)' /\ StatusFits(j)'
  BY <1>2, <1>5 DEF Held, Commits, StatusFits
<1>7. \A g \in Handler : g # h => handler'[g] = handler[g]
  BY DEF GoodsSafe, GoodsTyped
<1> QED
  BY <1>1, <1>2, <1>4, <1>6, <1>7, OthersHold

(* The rows that are not done are loaded, of which none is being processed.*)
LEMMA LoadSafe ==
    ASSUME GoodsSafe, NEW h \in Handler, Goods!Load(h)
    PROVE  GoodsSafe'
<1>1. handler[h].pc = "load" /\ UNCHANGED <<jobStatus, row, applied>>
  BY DEF Goods!Load, Goods!At
<1>2. PICK j \in Import : j = handler[h].job /\ Busy(j) = {}
  BY <1>1, CommitterKnows DEF Under, Held
<1> DEFINE left == Goods!RowsIn(j, Goods!Loaded)
           pc == IF left = {} THEN "finish" ELSE "mark"
<1>3. Undone(j) = left /\ left \in SUBSET UNION {ImportRow[k] : k \in Import}
  BY <1>2 DEF Busy, Undone, Goods!RowsIn, Goods!Loaded
<1>4. handler' = [handler EXCEPT ![h] = [pc |-> pc, job |-> j, todo |-> left]]
  BY <1>2 DEF Goods!Load, Goods!GoOn, Goods!Of
<1>5. Busy(j)' = {} /\ Undone(j)' = left
  BY <1>1, <1>2, <1>3 DEF Busy, Undone, Goods!RowsIn
<1>6. /\ DOMAIN row' = Import /\ DOMAIN applied' = Import
      /\ row'[j] \in [ImportRow[j] -> Goods!RowStatus] /\ applied'[j] \in [ImportRow[j] -> Nat]
      /\ EffectFits(j)'
  BY <1>1 DEF GoodsSafe, GoodsTyped, EffectFits
<1>7. pc \in Under /\ pc # "apply" /\ (pc = "finish" => left = {})
  BY DEF Under
<1> HIDE DEF pc, left
<1>8. handler[h].pc \in Under
  BY <1>1 DEF Under
<1> QED
  BY <1>1, <1>2, <1>3, <1>4, <1>5, <1>6, <1>7, <1>8, GoesOn

(* The rows of a chunk, none of which is done, are marked.                 *)
LEMMA MarkChunkSafe ==
    ASSUME GoodsSafe, NEW h \in Handler, Goods!MarkChunk(h)
    PROVE  GoodsSafe'
<1>1. handler[h].pc = "mark" /\ UNCHANGED <<jobStatus, applied>>
  BY DEF Goods!MarkChunk, Goods!At
<1>2. PICK j \in Import : j = handler[h].job /\ Busy(j) = {} /\ Undone(j) = handler[h].todo
  BY <1>1, CommitterKnows DEF Under, Held
<1>3. handler[h] \in [pc : Under, job : Import, todo : SUBSET UNION {ImportRow[k] : k \in Import}]
  BY <1>1, CommitterKnows DEF Under
<1> DEFINE chunk == Goods!Chunk(h)
<1>4. chunk \subseteq handler[h].todo
  BY DEF Goods!Chunk
<1>5. Goods!SetRows(j, chunk, "PROCESSING")
  BY <1>2 DEF Goods!MarkChunk, Goods!Of
<1>6. PICK v \in [pc : Under, job : {j}, todo : SUBSET UNION {ImportRow[k] : k \in Import}] :
         /\ handler' = [handler EXCEPT ![h] = v]
         /\ v.pc = "apply" /\ v.todo = handler[h].todo
  <2>1. [handler[h] EXCEPT !.pc = "apply"] \in [pc : Under, job : {j}, todo : SUBSET UNION {ImportRow[k] : k \in Import}]
    BY <1>2, <1>3 DEF Under
  <2>2. handler' = [handler EXCEPT ![h] = [handler[h] EXCEPT !.pc = "apply"]]
    BY DEF Goods!MarkChunk, Goods!Goto
  <2> QED
    BY <1>3, <2>1, <2>2
<1>7. Goods!Chunk(h)' = chunk
  <2>1. handler'[h].todo = handler[h].todo
    BY <1>6 DEF GoodsSafe, GoodsTyped
  <2> QED
    BY <2>1 DEF Goods!Chunk
<1> HIDE DEF chunk
<1>8. /\ DOMAIN row' = Import
      /\ \A k \in Import : row'[k] \in [ImportRow[k] -> Goods!RowStatus] /\ (k # j => row'[k] = row[k])
      /\ \A r \in ImportRow[j] : row'[j][r] = IF r \in chunk THEN "PROCESSING" ELSE row[j][r]
  BY <1>5, RowsAreSet DEF GoodsSafe, Goods!RowStatus
<1>9. Busy(j)' \subseteq chunk /\ Undone(j)' = handler[h].todo
  BY <1>2, <1>4, <1>8 DEF Busy, Undone, Goods!RowsIn
<1>10. EffectFits(j)'
  BY <1>1, <1>2, <1>4, <1>8 DEF GoodsSafe, EffectFits, Undone, Goods!RowsIn
<1>11. DOMAIN applied' = Import /\ \A k \in Import : applied'[k] = applied[k] /\ applied'[k] \in [ImportRow[k] -> Nat]
  BY <1>1 DEF GoodsSafe, GoodsTyped
<1>12. handler[h].pc \in Under /\ v.pc \notin {"load", "mark", "failJob", "finish"}
  BY <1>1, <1>6 DEF Under
<1>13. Busy(j)' \subseteq Goods!Chunk(h)' /\ Undone(j)' = v.todo
  BY <1>6, <1>7, <1>9
<1>14. row'[j] \in [ImportRow[j] -> Goods!RowStatus] /\ applied'[j] \in [ImportRow[j] -> Nat]
  BY <1>8, <1>11
<1>15. \A k \in Import : k # j => row'[k] = row[k] /\ applied'[k] = applied[k]
  BY <1>8, <1>11
<1>16. DOMAIN row' = Import /\ DOMAIN applied' = Import
  BY <1>8, <1>11
<1>17. UNCHANGED jobStatus /\ j = handler[h].job /\ handler' = [handler EXCEPT ![h] = v]
  BY <1>1, <1>2, <1>6
<1> QED
  BY <1>10, <1>12, <1>13, <1>14, <1>15, <1>16, <1>17, GoesOn

(* The rows of a chunk, none of which is done, take effect or are skipped; *)
(* no other row is being processed.                                        *)
LEMMA ApplyChunkSafe ==
    ASSUME GoodsSafe, NEW h \in Handler, Goods!ApplyChunk(h)
    PROVE  GoodsSafe'
<1>1. handler[h].pc = "apply" /\ UNCHANGED jobStatus
  BY DEF Goods!ApplyChunk, Goods!At
<1>2. PICK j \in Import :
         j = handler[h].job /\ Busy(j) \subseteq Goods!Chunk(h) /\ Undone(j) = handler[h].todo
  BY <1>1, CommitterKnows DEF Under, Held
<1> DEFINE chunk == Goods!Chunk(h)
           rest == handler[h].todo \ chunk
<1>3. handler[h] \in [pc : Under, job : Import, todo : SUBSET UNION {ImportRow[k] : k \in Import}]
  BY <1>1, CommitterKnows DEF Under
<1>4. chunk \subseteq handler[h].todo
  BY DEF Goods!Chunk
<1>5. Goods!Effect(j, chunk)
  BY <1>2 DEF Goods!ApplyChunk, Goods!Of
<1>6. PICK pc \in {IF rest = {} THEN "finish" ELSE "mark", "fail"} :
         handler' = [handler EXCEPT ![h] = [pc |-> pc, job |-> j, todo |-> rest]]
  BY <1>2 DEF Goods!ApplyChunk, Goods!GoOn, Goods!Of
<1>7. pc \in Under /\ (pc = "finish" => rest = {}) /\ pc \notin {"load", "failJob", "apply"}
  BY <1>6 DEF Under
<1>8. rest \in SUBSET UNION {ImportRow[k] : k \in Import}
  BY <1>3
<1> HIDE DEF chunk
<1>9. /\ DOMAIN row' = Import /\ DOMAIN applied' = Import
      /\ \A k \in Import : k # j => row'[k] = row[k] /\ applied'[k] = applied[k]
      /\ row'[j] = [r \in ImportRow[j] |-> IF r \notin chunk THEN row[j][r]
                                           ELSE IF r \in Unwanted[j] THEN "SKIPPED" ELSE "COMPLETED"]
      /\ applied'[j] = [r \in ImportRow[j] |-> IF r \in chunk \ Unwanted[j] THEN applied[j][r] + 1
                                               ELSE applied[j][r]]
  BY <1>5 DEF Goods!Effect, GoodsSafe, GoodsTyped
<1>10. row'[j] \in [ImportRow[j] -> Goods!RowStatus] /\ applied'[j] \in [ImportRow[j] -> Nat]
  BY <1>9 DEF GoodsSafe, GoodsTyped, Goods!RowStatus
<1>11. EffectFits(j)'
  <2>1. \A r \in ImportRow[j] \cap chunk : row[j][r] # "COMPLETED"
    BY <1>2, <1>4 DEF Undone, Goods!RowsIn
  <2>2. \A r \in ImportRow[j] : applied[j][r] = IF row[j][r] = "COMPLETED" THEN 1 ELSE 0
    BY DEF GoodsSafe, EffectFits
  <2> QED
    BY <1>9, <2>1, <2>2 DEF EffectFits
<1>12. Busy(j)' = {} /\ Undone(j)' = rest
  <2>1. \A r \in ImportRow[j] : row'[j][r] = IF r \notin chunk THEN row[j][r]
                                   ELSE IF r \in Unwanted[j] THEN "SKIPPED" ELSE "COMPLETED"
    BY <1>9
  <2>2. Busy(j) \subseteq chunk
    BY <1>2 DEF chunk
  <2> QED
    BY <1>2, <2>1, <2>2 DEF Busy, Undone, Goods!RowsIn
<1> HIDE DEF rest
<1>13. handler[h].pc \in Under
  BY <1>1 DEF Under
<1> QED
  BY <1>1, <1>2, <1>6, <1>7, <1>8, <1>9, <1>10, <1>11, <1>12, <1>13, GoesOn

(* A step that fails leads to the catch block.                             *)
LEMMA StepFailsSafe ==
    ASSUME GoodsSafe, NEW h \in Handler, Goods!StepFails(h)
    PROVE  GoodsSafe'
<1>1. handler[h].pc \in Under /\ UNCHANGED <<jobStatus, row, applied>>
  BY DEF Goods!StepFails, Under
<1>2. PICK j \in Import : j = handler[h].job
  BY <1>1, CommitterKnows
<1>3. handler[h] \in [pc : Under, job : Import, todo : SUBSET UNION {ImportRow[k] : k \in Import}]
  BY <1>1, CommitterKnows
<1>4. PICK v \in [pc : Under, job : {j}, todo : SUBSET UNION {ImportRow[k] : k \in Import}] :
         /\ handler' = [handler EXCEPT ![h] = v]
         /\ v.pc = "fail" /\ v.todo = handler[h].todo
  <2>1. [handler[h] EXCEPT !.pc = "fail"] \in [pc : Under, job : {j}, todo : SUBSET UNION {ImportRow[k] : k \in Import}]
    BY <1>2, <1>3 DEF Under
  <2>2. handler' = [handler EXCEPT ![h] = [handler[h] EXCEPT !.pc = "fail"]]
    BY DEF Goods!StepFails, Goods!Goto
  <2> QED
    BY <1>3, <2>1, <2>2
<1>5. /\ DOMAIN row' = Import /\ DOMAIN applied' = Import
      /\ row'[j] \in [ImportRow[j] -> Goods!RowStatus] /\ applied'[j] \in [ImportRow[j] -> Nat]
      /\ EffectFits(j)'
  BY <1>1 DEF GoodsSafe, GoodsTyped, EffectFits
<1>6. "fail" \in Under /\ handler[h].todo \in SUBSET UNION {ImportRow[k] : k \in Import}
  BY <1>3 DEF Under
<1> QED
  BY <1>1, <1>2, <1>4, <1>5, <1>6, GoesOn

(* The rows that were being processed are failed, none of which is done.   *)
LEMMA FailRowsSafe ==
    ASSUME GoodsSafe, NEW h \in Handler, Goods!FailRows(h)
    PROVE  GoodsSafe'
<1>1. handler[h].pc \in Under /\ UNCHANGED <<jobStatus, applied>>
  BY DEF Goods!FailRows, Goods!At, Under
<1>2. PICK j \in Import : j = handler[h].job
  BY <1>1, CommitterKnows
<1>3. handler[h] \in [pc : Under, job : Import, todo : SUBSET UNION {ImportRow[k] : k \in Import}]
  BY <1>1, CommitterKnows
<1>4. PICK v \in [pc : Under, job : {j}, todo : SUBSET UNION {ImportRow[k] : k \in Import}] :
         /\ handler' = [handler EXCEPT ![h] = v]
         /\ v.pc = "failJob" /\ v.todo = handler[h].todo
  <2>1. [handler[h] EXCEPT !.pc = "failJob"] \in [pc : Under, job : {j}, todo : SUBSET UNION {ImportRow[k] : k \in Import}]
    BY <1>2, <1>3 DEF Under
  <2>2. handler' = [handler EXCEPT ![h] = [handler[h] EXCEPT !.pc = "failJob"]]
    BY DEF Goods!FailRows, Goods!Goto
  <2> QED
    BY <1>3, <2>1, <2>2
<1>5. Goods!SetRows(j, Busy(j), "FAILED")
  BY <1>2 DEF Goods!FailRows, Goods!Of, Busy
<1>6. /\ DOMAIN row' = Import
      /\ \A k \in Import : row'[k] \in [ImportRow[k] -> Goods!RowStatus] /\ (k # j => row'[k] = row[k])
      /\ \A r \in ImportRow[j] : row'[j][r] = IF r \in Busy(j) THEN "FAILED" ELSE row[j][r]
  BY <1>5, RowsAreSet DEF GoodsSafe, Goods!RowStatus
<1>7. Busy(j)' = {} /\ EffectFits(j)'
  BY <1>1, <1>6 DEF GoodsSafe, Busy, Goods!RowsIn, EffectFits
<1>8. DOMAIN applied' = Import /\ \A k \in Import : applied'[k] = applied[k] /\ applied'[k] \in [ImportRow[k] -> Nat]
  BY <1>1 DEF GoodsSafe, GoodsTyped
<1>9. "failJob" \in Under /\ handler[h].todo \in SUBSET UNION {ImportRow[k] : k \in Import}
  BY <1>3 DEF Under
<1> QED
  BY <1>1, <1>2, <1>4, <1>6, <1>7, <1>8, <1>9, GoesOn

(* A job is left failed without a row being processed, or completed with   *)
(* all of them done.                                                       *)
LEMMA EndSafe ==
    ASSUME GoodsSafe, NEW h \in Handler, Goods!FailJob(h) \/ Goods!Finish(h)
    PROVE  GoodsSafe'
<1>1. /\ handler[h].pc \in Under /\ UNCHANGED <<row, applied>>
      /\ handler' = [handler EXCEPT ![h] = [pc |-> "free"]]
  BY DEF Goods!FailJob, Goods!Finish, Goods!At, Goods!Leave, Goods!Free, Under
<1>2. PICK j \in Import : /\ j = handler[h].job /\ Held(h, j) /\ Commits(h, j)
                          /\ \A g \in Handler : g # h => ~Commits(g, j)
  BY <1>1, CommitterKnows
<1>3. \/ jobStatus' = [jobStatus EXCEPT ![j] = "FAILED"] /\ Busy(j) = {}
      \/ jobStatus' = [jobStatus EXCEPT ![j] = "COMPLETED"] /\ Undone(j) = {}
  BY <1>2 DEF Goods!FailJob, Goods!Finish, Goods!At, Goods!Of, Held
<1>4. StatusFits(j)' /\ EffectFits(j)'
  BY <1>1, <1>3 DEF GoodsSafe, GoodsTyped, StatusFits, EffectFits, Busy, Undone, Goods!RowsIn
<1>5. GoodsTyped'
  BY <1>1, <1>3 DEF GoodsSafe, GoodsTyped, Goods!JobStatus, Visit
<1>6. handler'[h].pc = "free" /\ \A g \in Handler : g # h => handler'[g] = handler[g]
  BY <1>1 DEF GoodsSafe, GoodsTyped
<1>7. Held(h, j)'
  BY <1>6 DEF Held, Commits, Under
<1>8. \A k \in Import : k # j => jobStatus'[k] = jobStatus[k] /\ row'[k] = row[k] /\ applied'[k] = applied[k]
  BY <1>1, <1>3 DEF GoodsSafe, GoodsTyped
<1>9. handler'[h].pc \notin Under
  BY <1>6 DEF Under
<1> QED
  BY <1>2, <1>4, <1>5, <1>6, <1>7, <1>8, <1>9, OthersHold

(* Every step of an import of products is safe.                            *)
LEMMA GoodsStep ==
    ASSUME GoodsSafe, [Goods!Next]_(Goods!vars)
    PROVE  GoodsSafe'
<1> DEFINE Visits == Visit(Import, UNION {ImportRow[j] : j \in Import})
<1>1. ASSUME NEW h \in Handler, NEW j \in Import, Goods!ReadProducts(h, j)
      PROVE  GoodsSafe'
  <2>1. UNCHANGED <<jobStatus, row, applied>>
    BY <1>1 DEF Goods!ReadProducts
  <2>2. \E v \in Visits : v.pc \notin Under /\ handler' = [handler EXCEPT ![h] = v]
    BY <1>1 DEF Goods!ReadProducts, Goods!Enter, Visit, Under
  <2> HIDE DEF Visits
  <2> QED
    BY <2>1, <2>2, VisitSafe DEF Visits
<1>2. ASSUME NEW h \in Handler, Goods!Die(h)
      PROVE  GoodsSafe'
  <2>1. UNCHANGED <<jobStatus, row, applied>> /\ handler' = [handler EXCEPT ![h] = [pc |-> "free"]]
    BY <1>2 DEF Goods!Die, Goods!Leave, Goods!Free
  <2>2. [pc |-> "free"] \in Visits /\ "free" \notin Under
    BY DEF Visit, Under
  <2> HIDE DEF Visits
  <2> QED
    BY <2>1, <2>2, VisitSafe DEF Visits
<1>3. ASSUME NEW h \in Handler
      PROVE  ~Goods!InsertSales(h)
  <2>1. handler[h] \in Visits
    BY DEF GoodsSafe, GoodsTyped
  <2> QED
    BY <2>1 DEF Goods!InsertSales, Goods!At, Visit, Under
<1>4. CASE UNCHANGED Goods!vars
  <2>1. UNCHANGED <<jobStatus, row, applied, handler>>
    BY <1>4 DEF Goods!vars
  <2>2. \A h \in Handler, j \in Import : Held(h, j)'
    BY <2>1, HeldStill
  <2>3. \A j \in Import : StatusFits(j)' /\ EffectFits(j)'
    BY <2>1 DEF GoodsSafe, StatusFits, EffectFits, Busy, Undone, Goods!RowsIn
  <2> QED
    BY <2>1, <2>2, <2>3 DEF GoodsSafe, GoodsTyped, Commits
<1>5. ASSUME NEW h \in Handler, NEW j \in Import
      PROVE  ~Goods!ReadSales(h, j)
  BY DEF Goods!ReadSales
<1> HIDE DEF Visits
<1> QED
  BY <1>1, <1>2, <1>3, <1>4, <1>5, PreviewSafe, MarkExpiredSafe, TakeSafe, LoadSafe, MarkChunkSafe,
     ApplyChunkSafe, StepFailsSafe, FailRowsSafe, EndSafe DEF Goods!Next, Goods!Step

(* What the rows are known to be is what the run checks.                   *)
LEMMA GoodsProperties == GoodsSafe => Goods!RowAppliedOnce /\ Goods!NoRowLost
BY DEF GoodsSafe, StatusFits, EffectFits, Busy, Undone, Goods!RowAppliedOnce, Goods!NoRowLost,
       Goods!RowsIn, Goods!Loaded
-----------------------------------------------------------------------------
(* Files of sales.  Of rows that may become sales no two are of one sale,  *)
(* and none is of the time since the store sells with this program.        *)
Fresh(j, rows) ==
    /\ rows \subseteq SalesRow[j] /\ rows \cap TooLate[j] = {}
    /\ \A r, s \in rows : Hash[j][r] = Hash[j][s] => r = s
Waiting(j) == History!RowsIn(j, {"PENDING"})
Reads == [pc : {"free"}]
         \cup [pc : {"expire", "insert"}, job : SalesFile,
               todo : SUBSET UNION {SalesRow[j] : j \in SalesFile}]

(* Jobs, checkpoints and requests have their types.                        *)
SalesTyped ==
    /\ jobStatus \in [SalesFile -> History!JobStatus]
    /\ DOMAIN row = SalesFile /\ DOMAIN applied = SalesFile
    /\ \A j \in SalesFile : row[j] \in [SalesRow[j] -> History!RowStatus]
    /\ \A j \in SalesFile : applied[j] \in [SalesRow[j] -> {0, 1}]
    /\ handler \in [Handler -> Reads]

(* The rows that wait in a previewed file, and those that a request has    *)
(* read, may become sales; a request is about a file that was previewed.   *)
RowsFresh ==
    /\ \A j \in SalesFile : jobStatus[j] # "ABSENT" => Fresh(j, Waiting(j))
    /\ \A h \in Handler : handler[h].pc = "insert" => Fresh(handler[h].job, handler[h].todo)
    /\ \A h \in Handler : handler[h].pc # "free" => jobStatus[handler[h].job] # "ABSENT"

(* A row that was recorded is in the history, where no other row of its    *)
(* hash was recorded, and what is in the history was recorded from a row.  *)
HistoryFits ==
    /\ \A j \in SalesFile : \A r \in SalesRow[j] :
          applied[j][r] = 1 => Hash[j][r] \in sales /\ r \notin TooLate[j]
    /\ \A j, k \in SalesFile : \A r \in SalesRow[j] : \A s \in SalesRow[k] :
          applied[j][r] = 1 /\ applied[k][s] = 1 /\ Hash[j][r] = Hash[k][s] => j = k /\ r = s
    /\ \A hash \in sales : \E j \in SalesFile : \E r \in SalesRow[j] :
          Hash[j][r] = hash /\ applied[j][r] = 1

SalesSafe == SalesTyped /\ RowsFresh /\ HistoryFits

(* Nothing has been recorded at first.                                     *)
LEMMA SalesInit == History!Init => SalesSafe
<1> SUFFICES ASSUME History!Init PROVE SalesSafe
  OBVIOUS
<1>1. SalesTyped
  BY DEF History!Init, SalesTyped, History!JobStatus, History!RowStatus, History!Free, Reads
<1>2. RowsFresh /\ HistoryFits
  BY DEF History!Init, RowsFresh, HistoryFits, History!Free
<1> QED
  BY <1>1, <1>2 DEF SalesSafe

(* A preview leaves waiting only the first row of a sale that is neither in*)
(* the history nor of a later time.                                        *)
LEMMA PreviewSalesSafe ==
    ASSUME SalesSafe, NEW j \in SalesFile, History!PreviewSales(j)
    PROVE  SalesSafe'
<1> DEFINE out == {r \in SalesRow[j] : r \in TooLate[j] \/ History!Duplicate(j, r)}
<1>1. /\ jobStatus' = [jobStatus EXCEPT ![j] = "PREVIEWED"]
      /\ History!SetRows(j, out, "SKIPPED")
      /\ UNCHANGED <<applied, sales, handler>>
  BY DEF History!PreviewSales, History!CreateJob
<1>2. row' = [row EXCEPT ![j] = [r \in SalesRow[j] |-> IF r \in out THEN "SKIPPED" ELSE row[j][r]]]
  BY <1>1 DEF History!SetRows
<1>3. \A r, s \in SalesRow[j] \ out : Hash[j][r] = Hash[j][s] => r = s
  <2> SUFFICES ASSUME NEW r \in SalesRow[j] \ out, NEW s \in SalesRow[j] \ out,
                      Hash[j][r] = Hash[j][s], r # s
               PROVE  FALSE
    OBVIOUS
  <2>1. r \in Nat /\ s \in Nat
    BY ImportAssumption
  <2>2. r < s \/ s < r
    BY <2>1
  <2> QED
    BY <2>2 DEF History!Duplicate
<1>4. (SalesRow[j] \ out) \cap TooLate[j] = {}
  OBVIOUS
<1> HIDE DEF out
<1>5. SalesTyped'
  BY <1>1, <1>2 DEF SalesSafe, SalesTyped, History!JobStatus, History!RowStatus
<1>6. Waiting(j)' \subseteq SalesRow[j] \ out
  BY <1>2 DEF SalesSafe, SalesTyped, Waiting, History!RowsIn
<1>7. Fresh(j, Waiting(j)')
  BY <1>3, <1>4, <1>6 DEF Fresh
<1>8. \A k \in SalesFile : k # j => jobStatus'[k] = jobStatus[k] /\ Waiting(k)' = Waiting(k)
  BY <1>1, <1>2 DEF SalesSafe, SalesTyped, Waiting, History!RowsIn
<1>9. RowsFresh'
  <2>1. ASSUME NEW k \in SalesFile, jobStatus'[k] # "ABSENT"
        PROVE  Fresh(k, Waiting(k)')
    BY <1>7, <1>8, <2>1 DEF SalesSafe, RowsFresh
  <2>2. ASSUME NEW h \in Handler, handler'[h].pc = "insert"
        PROVE  Fresh(handler'[h].job, handler'[h].todo)
    BY <1>1, <2>2 DEF SalesSafe, RowsFresh
  <2>3. ASSUME NEW h \in Handler, handler'[h].pc # "free"
        PROVE  jobStatus'[handler'[h].job] # "ABSENT"
    BY <1>1, <2>3 DEF SalesSafe, SalesTyped, RowsFresh
  <2> QED
    BY <2>1, <2>2, <2>3 DEF RowsFresh, Fresh
<1>10. HistoryFits'
  BY <1>1 DEF SalesSafe, HistoryFits
<1> QED
  BY <1>5, <1>9, <1>10 DEF SalesSafe

(* A request that comes with rows that may become sales, or goes, changes  *)
(* nothing else.                                                           *)
LEMMA ReaderSafe ==
    ASSUME SalesSafe, NEW h \in Handler, UNCHANGED <<jobStatus, row, applied, sales>>,
           NEW v \in Reads, handler' = [handler EXCEPT ![h] = v],
           (v.pc = "insert" => Fresh(v.job, v.todo)),
           (v.pc # "free" => jobStatus[v.job] # "ABSENT")
    PROVE  SalesSafe'
<1>1. SalesTyped'
  BY DEF SalesSafe, SalesTyped
<1>2. \A j \in SalesFile : jobStatus'[j] # "ABSENT" => Fresh(j, Waiting(j)')
  BY DEF SalesSafe, RowsFresh, Waiting, History!RowsIn
<1>3. \A g \in Handler : /\ handler'[g].pc = "insert" => Fresh(handler'[g].job, handler'[g].todo)
                         /\ handler'[g].pc # "free" => jobStatus'[handler'[g].job] # "ABSENT"
  <2>1. \A g \in Handler : handler'[g] = IF g = h THEN v ELSE handler[g]
    BY DEF SalesSafe, SalesTyped
  <2> QED
    BY <2>1 DEF SalesSafe, RowsFresh
<1>4. HistoryFits'
  BY DEF SalesSafe, HistoryFits
<1> QED
  BY <1>1, <1>2, <1>3, <1>4 DEF SalesSafe, RowsFresh, Fresh

(* A request reads the rows that wait, or that the job has expired.        *)
LEMMA ReadSalesSafe ==
    ASSUME SalesSafe, NEW h \in Handler, NEW j \in SalesFile, History!ReadSales(h, j)
    PROVE  SalesSafe'
<1>1. jobStatus[j] = "PREVIEWED" /\ UNCHANGED <<jobStatus, row, applied, sales>>
  BY DEF History!ReadSales
<1>2. Fresh(j, Waiting(j)) /\ Waiting(j) \subseteq SalesRow[j]
  BY <1>1 DEF SalesSafe, RowsFresh, Fresh
<1>3. \E v \in Reads : /\ handler' = [handler EXCEPT ![h] = v]
                       /\ v.pc = "insert" => Fresh(v.job, v.todo)
                       /\ v.pc # "free" => jobStatus[v.job] # "ABSENT"
  <2>1. CASE handler' = [handler EXCEPT ![h] = [pc |-> "expire", job |-> j, todo |-> {}]]
    <3>1. [pc |-> "expire", job |-> j, todo |-> {}] \in Reads
      BY DEF Reads
    <3> QED
      BY <1>1, <2>1, <3>1
  <2>2. CASE handler' = [handler EXCEPT ![h] = [pc |-> "insert", job |-> j, todo |-> Waiting(j)]]
    <3>1. [pc |-> "insert", job |-> j, todo |-> Waiting(j)] \in Reads
      BY <1>2 DEF Reads
    <3> QED
      BY <1>1, <1>2, <2>2, <3>1
  <2> QED
    BY <2>1, <2>2 DEF History!ReadSales, History!Enter, Waiting
<1> QED
  BY <1>1, <1>3, ReaderSafe

(* A request that finds the job expired marks it.                          *)
LEMMA MarkSalesExpiredSafe ==
    ASSUME SalesSafe, NEW h \in Handler, History!MarkExpired(h)
    PROVE  SalesSafe'
<1> DEFINE free == [pc |-> "free"]
<1>1. /\ handler[h].pc = "expire" /\ UNCHANGED <<row, applied, sales>>
      /\ jobStatus' = [jobStatus EXCEPT ![handler[h].job] = "EXPIRED"]
      /\ handler' = [handler EXCEPT ![h] = free]
  BY DEF History!MarkExpired, History!At, History!Of, History!Leave, History!Free
<1>2. SalesTyped'
  BY <1>1 DEF SalesSafe, SalesTyped, History!JobStatus, Reads
<1>3. handler[h].job \in SalesFile
  BY <1>1 DEF SalesSafe, SalesTyped, Reads
<1>4. \A g \in Handler : handler'[g].pc # "free" => handler'[g] = handler[g]
  BY <1>1 DEF SalesSafe, SalesTyped
<1>5. \A j \in SalesFile : Waiting(j)' = Waiting(j)
  BY <1>1 DEF Waiting, History!RowsIn
<1>6. \A g \in Handler : /\ handler'[g].pc = "insert" => Fresh(handler'[g].job, handler'[g].todo)
                         /\ handler'[g].pc # "free" => jobStatus'[handler'[g].job] # "ABSENT"
  BY <1>1, <1>4 DEF SalesSafe, SalesTyped, RowsFresh
<1>7. \A j \in SalesFile : jobStatus'[j] # "ABSENT" => Fresh(j, Waiting(j))
  BY <1>1, <1>3 DEF SalesSafe, SalesTyped, RowsFresh
<1>8. HistoryFits'
  BY <1>1 DEF SalesSafe, HistoryFits
<1> QED
  BY <1>2, <1>5, <1>6, <1>7, <1>8 DEF SalesSafe, RowsFresh, Fresh

(* All the rows read whose hash is new become sales: no two of them are of *)
(* one sale, and no row that was recorded before is of any of these.       *)
LEMMA InsertSalesSafe ==
    ASSUME SalesSafe, NEW h \in Handler, History!InsertSales(h)
    PROVE  SalesSafe'
<1>1. handler[h].pc = "insert" /\ handler' = [handler EXCEPT ![h] = [pc |-> "free"]]
  BY DEF History!InsertSales, History!At, History!Leave, History!Free
<1>2. PICK j \in SalesFile : j = handler[h].job
  BY <1>1 DEF SalesSafe, SalesTyped, Reads
<1> DEFINE taken == handler[h].todo
<1>3. Fresh(j, taken)
  BY <1>1, <1>2 DEF SalesSafe, RowsFresh
<1>4. /\ sales' = sales \cup {Hash[j][r] : r \in taken}
      /\ applied' = [applied EXCEPT ![j] = [r \in SalesRow[j] |->
                       IF r \in taken /\ Hash[j][r] \notin sales THEN applied[j][r] + 1 ELSE applied[j][r]]]
      /\ History!SetRows(j, Waiting(j), "COMPLETED")
      /\ jobStatus' = [jobStatus EXCEPT ![j] = "COMPLETED"]
  BY <1>2 DEF History!InsertSales, History!Of, Waiting
<1> HIDE DEF taken
<1>5. row' = [row EXCEPT ![j] = [r \in SalesRow[j] |-> IF r \in Waiting(j) THEN "COMPLETED" ELSE row[j][r]]]
  BY <1>4 DEF History!SetRows
<1>6. \A r \in SalesRow[j] : applied[j][r] \in {0, 1} /\ (applied[j][r] = 1 => Hash[j][r] \in sales)
  BY DEF SalesSafe, SalesTyped, HistoryFits
<1>7. /\ applied'[j] \in [SalesRow[j] -> {0, 1}]
      /\ \A r \in SalesRow[j] : applied'[j][r] = 1
                                 <=> applied[j][r] = 1 \/ (r \in taken /\ Hash[j][r] \notin sales)
  BY <1>4, <1>6 DEF SalesSafe, SalesTyped
<1>8. \A k \in SalesFile : k # j => applied'[k] = applied[k] /\ jobStatus'[k] = jobStatus[k] /\ row'[k] = row[k]
  BY <1>4, <1>5 DEF SalesSafe, SalesTyped
<1>9. SalesTyped'
  <2>1. handler' \in [Handler -> Reads]
    BY <1>1 DEF SalesSafe, SalesTyped, Reads
  <2>2. row'[j] \in [SalesRow[j] -> History!RowStatus]
    BY <1>5 DEF SalesSafe, SalesTyped, History!RowStatus
  <2>3. jobStatus' \in [SalesFile -> History!JobStatus] /\ DOMAIN row' = SalesFile /\ DOMAIN applied' = SalesFile
    BY <1>4, <1>5 DEF SalesSafe, SalesTyped, History!JobStatus
  <2> QED
    BY <1>7, <1>8, <2>1, <2>2, <2>3 DEF SalesSafe, SalesTyped
<1>10. Waiting(j)' = {}
  BY <1>5 DEF SalesSafe, SalesTyped, Waiting, History!RowsIn
<1>11. RowsFresh'
  <2>1. ASSUME NEW k \in SalesFile, jobStatus'[k] # "ABSENT"
        PROVE  Fresh(k, Waiting(k)')
    <3>1. CASE k = j
      BY <1>10, <3>1 DEF Fresh
    <3>2. CASE k # j
      BY <1>8, <2>1, <3>2 DEF SalesSafe, RowsFresh, Waiting, History!RowsIn
    <3> QED
      BY <3>1, <3>2
  <2>2. ASSUME NEW g \in Handler, handler'[g].pc # "free"
        PROVE  handler'[g] = handler[g] /\ jobStatus'[handler'[g].job] # "ABSENT"
    <3>1. handler'[g] = handler[g]
      BY <1>1, <2>2 DEF SalesSafe, SalesTyped
    <3> QED
      BY <1>4, <2>2, <3>1 DEF SalesSafe, SalesTyped, RowsFresh
  <2> QED
    BY <2>1, <2>2 DEF SalesSafe, RowsFresh, Fresh
<1>12. HistoryFits'
  <2>1. ASSUME NEW k \in SalesFile, NEW r \in SalesRow[k], applied'[k][r] = 1
        PROVE  /\ Hash[k][r] \in sales' /\ r \notin TooLate[k]
               /\ applied[k][r] = 1 \/ (k = j /\ r \in taken /\ Hash[j][r] \notin sales)
    BY <1>3, <1>4, <1>7, <1>8, <2>1 DEF SalesSafe, HistoryFits, Fresh
  <2>2. ASSUME NEW k \in SalesFile, NEW l \in SalesFile, NEW r \in SalesRow[k], NEW s \in SalesRow[l],
               applied'[k][r] = 1, applied'[l][s] = 1, Hash[k][r] = Hash[l][s]
        PROVE  k = l /\ r = s
    <3>1. CASE applied[k][r] = 1 /\ applied[l][s] = 1
      BY <2>2, <3>1 DEF SalesSafe, HistoryFits
    <3>2. CASE applied[k][r] = 1 /\ applied[l][s] # 1
      BY <2>1, <2>2, <3>2 DEF SalesSafe, HistoryFits
    <3>3. CASE applied[k][r] # 1 /\ applied[l][s] = 1
      BY <2>1, <2>2, <3>3 DEF SalesSafe, HistoryFits
    <3>4. CASE applied[k][r] # 1 /\ applied[l][s] # 1
      BY <1>3, <2>1, <2>2, <3>4 DEF Fresh
    <3> QED
      BY <3>1, <3>2, <3>3, <3>4
  <2>3. ASSUME NEW hash \in sales'
        PROVE  \E k \in SalesFile : \E r \in SalesRow[k] : Hash[k][r] = hash /\ applied'[k][r] = 1
    <3>1. CASE hash \in sales
      <4>1. PICK k \in SalesFile : \E r \in SalesRow[k] : Hash[k][r] = hash /\ applied[k][r] = 1
        BY <3>1 DEF SalesSafe, HistoryFits
      <4> QED
        BY <1>7, <1>8, <4>1
    <3>2. CASE hash \notin sales
      <4>1. PICK r \in taken : hash = Hash[j][r]
        BY <1>4, <3>2
      <4> QED
        BY <1>3, <1>7, <3>2, <4>1 DEF Fresh
    <3> QED
      BY <3>1, <3>2
  <2> QED
    BY <2>1, <2>2, <2>3 DEF HistoryFits
<1> QED
  BY <1>9, <1>11, <1>12 DEF SalesSafe

(* Every step of an import of sales is safe.                               *)
LEMMA SalesStep ==
    ASSUME SalesSafe, [History!Next]_(History!vars)
    PROVE  SalesSafe'
<1>1. ASSUME NEW h \in Handler
      PROVE  handler[h].pc \in {"free", "expire", "insert"}
  BY DEF SalesSafe, SalesTyped, Reads
<1>2. ASSUME NEW h \in Handler
      PROVE  /\ ~(History!Take(h) \/ History!Load(h) \/ History!MarkChunk(h) \/ History!ApplyChunk(h))
             /\ ~(History!FailRows(h) \/ History!FailJob(h) \/ History!Finish(h) \/ History!StepFails(h))
  BY <1>1 DEF History!Take, History!Load, History!MarkChunk, History!ApplyChunk, History!FailRows,
              History!FailJob, History!Finish, History!StepFails, History!At
<1>3. ASSUME NEW h \in Handler, History!Die(h)
      PROVE  SalesSafe'
  <2>1. /\ UNCHANGED <<jobStatus, row, applied, sales>>
        /\ handler' = [handler EXCEPT ![h] = [pc |-> "free"]]
    BY <1>3 DEF History!Die, History!Leave, History!Free
  <2>2. [pc |-> "free"] \in Reads
    BY DEF Reads
  <2> QED
    BY <2>1, <2>2, ReaderSafe
<1>4. ASSUME UNCHANGED <<jobStatus, row, applied, sales, handler>>
      PROVE  SalesSafe'
  BY <1>4 DEF SalesSafe, SalesTyped, RowsFresh, HistoryFits, Fresh, Waiting, History!RowsIn
<1>5. ASSUME NEW j \in SalesFile
      PROVE  /\ ~History!PreviewProducts(j)
             /\ \A h \in Handler : ~History!ReadProducts(h, j)
             /\ History!Expire(j) => UNCHANGED <<jobStatus, row, applied, sales, handler>>
  BY DEF History!PreviewProducts, History!ReadProducts, History!Expire
<1>6. UNCHANGED History!vars => UNCHANGED <<jobStatus, row, applied, sales, handler>>
  BY DEF History!vars
<1> QED
  BY <1>2, <1>3, <1>4, <1>5, <1>6, PreviewSalesSafe, ReadSalesSafe, MarkSalesExpiredSafe,
     InsertSalesSafe DEF History!Next, History!Step

(* What is known of the history is what the run checks.                    *)
LEMMA SalesProperty == SalesSafe => History!SaleRecordedOnce
<1> SUFFICES ASSUME SalesSafe PROVE History!SaleRecordedOnce
  OBVIOUS
<1>1. \A j \in SalesFile : \A r \in SalesRow[j] : applied[j][r] \in {0, 1}
  BY DEF SalesSafe, SalesTyped
<1>2. \A j \in SalesFile : \A r \in TooLate[j] : applied[j][r] = 0
  BY <1>1, ImportAssumption DEF SalesSafe, HistoryFits
<1>3. ASSUME NEW hash \in sales
      PROVE  \E jr \in History!SaleRows :
                /\ History!RecordedBy(hash, jr) /\ applied[jr[1]][jr[2]] = 1
                /\ \A other \in History!SaleRows : History!RecordedBy(hash, other) => other = jr
  <2>1. PICK j \in SalesFile : \E r \in SalesRow[j] : Hash[j][r] = hash /\ applied[j][r] = 1
    BY DEF SalesSafe, HistoryFits
  <2>0. PICK r \in SalesRow[j] : Hash[j][r] = hash /\ applied[j][r] = 1
    BY <2>1
  <2>2. <<j, r>> \in History!SaleRows /\ History!RecordedBy(hash, <<j, r>>)
    BY <2>0 DEF History!SaleRows, History!RecordedBy
  <2>3. ASSUME NEW other \in History!SaleRows, History!RecordedBy(hash, other)
        PROVE  other = <<j, r>>
    <3>1. PICK k \in SalesFile : other \in {k} \X SalesRow[k]
      BY DEF History!SaleRows
    <3>2. PICK s \in SalesRow[k] : other = <<k, s>>
      BY <3>1
    <3>3. Hash[k][s] = hash /\ applied[k][s] = 1
      BY <1>1, <2>3, <3>2 DEF History!RecordedBy
    <3> QED
      BY <2>0, <3>2, <3>3 DEF SalesSafe, HistoryFits
  <2> QED
    BY <2>0, <2>2, <2>3
<1> QED
  BY <1>2, <1>3 DEF History!SaleRecordedOnce

(* However often imports are committed, together, interrupted and resumed, *)
(* every row takes effect once and no row is lost                          *)
(* (import-export.service.ts:327-821, historical-sales.service.ts:204-342).*)
THEOREM ImportsTakeEffectOnce == MCSpec => []RowsTakeEffect
<1> DEFINE Safe == (part = "products" => GoodsSafe) /\ (part = "sales" => SalesSafe)
<1>1. MCInit => Safe
  BY GoodsInit, SalesInit DEF MCInit
<1>2. Safe /\ [MCNext]_MCVars => Safe'
  BY StepOfPart, GoodsStep, SalesStep
<1>3. Safe => RowsTakeEffect
  BY GoodsProperties, SalesProperty DEF RowsTakeEffect
<1> QED
  BY <1>1, <1>2, <1>3, PTL DEF MCSpec
=============================================================================
