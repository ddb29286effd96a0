---------------------------- MODULE DecisionJobs ----------------------------
(***************************************************************************)
(* How derived data keep up with the business: the recompute queue of each *)
(* process (decision-engine/recompute-queue.ts behind BusinessSyncService),*)
(* the nightly reconciliation and the owner's recalculation of one store   *)
(* (decision-jobs.service.ts, decision-scheduler.ts), the expiring leases  *)
(* that keep processes apart (db-lease.service.ts), and the shutdown of a  *)
(* process (server.ts).                                                    *)
(*                                                                         *)
(* Time is relative: it is the nightly hour or the rest of the day, and a  *)
(* run, a lease or the marker of the last run is of this night or earlier. *)
(* A nightly lease lives two hours, less than a day and more than the hour *)
(* in which the scheduler starts runs, so it has expired by the next night.*)
(***************************************************************************)
EXTENDS Integers, FiniteSets, FiniteSetsExt, Functions

CONSTANTS Instance,     \* processes
          Item,         \* stock items of a store, by id
          PageSize,     \* items recomputed per page
          Deployment    \* deployments, one of which a behaviour is of: the
                        \* processes up, the active items, the processes with
                        \* the scheduler enabled, those that get recalculation
                        \* requests; bounds on changes, failures and stops

ASSUME JobAssumption ==
    /\ Item \subseteq Nat \ {0} /\ IsFiniteSet(Item)
    /\ PageSize \in Nat \ {0}
    /\ Deployment \subseteq [up : SUBSET Instance, active : SUBSET Item,
                             scheduled : SUBSET Instance, asked : SUBSET Instance,
                             changes : Nat, failures : Nat, stops : Nat]

VARIABLES deployed,  \* the deployment
          source,    \* [Item -> changes committed to what an evaluation reads]
          snapshot,  \* [Item -> changes the newest DecisionSnapshot has seen]
          status,    \* of each process
          owed,      \* items of committed transactions not yet enqueued
          queue,     \* the recompute queue of each process
          due,       \* history: the state of an item's sources when it was
                     \* last queued before the process flushed its queue
          todo,      \* items a worker has still to recompute
          txn,       \* the recompute transaction of a worker
          job,       \* [Instance -> [Job -> its run]]
          lease,     \* [Job -> its lease row]
          lastRun,   \* date of the marker: "tonight" or "before"
          night,     \* it is the nightly hour
          failures, stops,
          runs,      \* history: nightly runs completed for this date
          late       \* history: a run of an earlier date ended on this one

vars == <<deployed, source, snapshot, status, owed, due, queue, todo, txn, job, lease, lastRun, night,
          failures, stops, runs, late>>
data == <<source, snapshot, owed, due>>
history == <<failures, stops, runs, late>>
clock == <<lastRun, night, runs, late>>

Job == {"nightly", "recalc"}
Worker == Instance \X (Job \cup {"queue"})
NoTxn == [item |-> 0, seen |-> 0]
NoHolder == "nobody"
IdleRun == [stage |-> "idle", tonight |-> FALSE, cursor |-> 0]
EmptyQueue == [pending |-> {}, timer |-> FALSE, draining |-> "no"]

Init ==
    /\ source = [i \in Item |-> 0] /\ snapshot = [i \in Item |-> 0]
    /\ deployed \in Deployment
    /\ status = [p \in Instance |-> IF p \in deployed.up THEN "up" ELSE "absent"]
    /\ owed = [p \in Instance |-> {}]
    /\ due = [p \in Instance |-> [i \in Item |-> 0]]
    /\ queue = [p \in Instance |-> EmptyQueue]
    /\ todo = [w \in Worker |-> {}]
    /\ txn = [w \in Worker |-> NoTxn]
    /\ job = [p \in Instance |-> [j \in Job |-> IdleRun]]
    /\ lease = [j \in Job |-> [holder |-> NoHolder, live |-> FALSE]]
    /\ lastRun = "before" /\ night = FALSE
    /\ failures = 0 /\ stops = 0 /\ runs = 0 /\ late = FALSE

Alive(p) == status[p] \in {"up", "closing", "flushed"}
Free(w) == todo[w] = {} /\ txn[w] = NoTxn
-----------------------------------------------------------------------------
(* The queue.                                                              *)

(* A business transaction of process p commits; its trigger comes after,   *)
(* behind a query of its own in an import. A handler goes on when its      *)
(* client has hung up, also while the process shuts down.                  *)
Change(p, i) ==
    /\ Alive(p)
    /\ i \in deployed.active
    /\ SumFunction(source) < deployed.changes
    /\ source' = [source EXCEPT ![i] = @ + 1]
    /\ owed' = [owed EXCEPT ![p] = @ \cup {i}]
    /\ UNCHANGED <<snapshot, due, status, queue, todo, txn, job, lease, lastRun, night, history>>

Enqueue(p) ==
    /\ Alive(p)
    /\ owed[p] # {}
    /\ queue' = [queue EXCEPT
          ![p].pending = @ \cup owed[p],
          ![p].timer = @ \/ queue[p].draining = "no"]
    /\ owed' = [owed EXCEPT ![p] = {}]
    /\ due' = [due EXCEPT ![p] = [i \in Item |->
          IF i \in owed[p] /\ status[p] # "flushed" THEN source[i] ELSE @[i]]]
    /\ UNCHANGED <<source, snapshot, status, todo, txn, job, lease, lastRun, night, history>>

(* One drain at a time.  A drain that finds nothing runs to its end before *)
(* its promise is assigned, and the assignment then outlives it.           *)
Drain(p) ==
    CASE queue[p].draining # "no" ->
            queue' = [queue EXCEPT ![p].timer = FALSE] /\ UNCHANGED todo
      [] queue[p].draining = "no" /\ queue[p].pending = {} ->
            queue' = [queue EXCEPT ![p].timer = FALSE, ![p].draining = "stuck"] /\ UNCHANGED todo
      [] OTHER ->
            /\ queue' = [queue EXCEPT ![p] = [pending |-> {}, timer |-> FALSE, draining |-> "yes"]]
            /\ todo' = [todo EXCEPT ![<<p, "queue">>] = queue[p].pending]

TimerFires(p) ==
    /\ Alive(p)
    /\ queue[p].timer
    /\ Drain(p)
    /\ UNCHANGED <<data, status, txn, job, lease, lastRun, night, history>>

(* Mutant of BatchDone: a drain takes one batch only.                      *)
OneBatch(p) ==
    /\ Alive(p) /\ queue[p].draining = "yes" /\ Free(<<p, "queue">>)
    /\ queue' = [queue EXCEPT ![p].draining = "no"]
    /\ UNCHANGED <<data, status, todo, txn, job, lease, lastRun, night, history>>

BatchDone(p) ==
    /\ Alive(p)
    /\ queue[p].draining = "yes"
    /\ Free(<<p, "queue">>)
    /\ todo' = [todo EXCEPT ![<<p, "queue">>] = queue[p].pending]
    /\ queue' = [queue EXCEPT ![p].pending = {},
                              ![p].draining = IF queue[p].pending = {} THEN "no" ELSE "yes"]
    /\ UNCHANGED <<data, status, txn, job, lease, lastRun, night, history>>

(* recomputeSku: the item's row is locked, the evaluation reads what is    *)
(* committed by then, and alerts, recommendation and snapshot commit       *)
(* together.  A failure is logged and left to the nightly job.             *)
NotLocked(i) == FALSE     \* mutant of Locked: no row lock
Locked(i) == \E w \in Worker : txn[w].item = i

Evaluate(w, i) ==
    /\ Alive(w[1])
    /\ txn[w] = NoTxn
    /\ i \in todo[w]
    /\ ~Locked(i)
    /\ txn' = [txn EXCEPT ![w] = [item |-> i, seen |-> source[i]]]
    /\ UNCHANGED <<data, status, queue, todo, job, lease, lastRun, night, history>>

Leave(w) ==
    /\ todo' = [todo EXCEPT ![w] = @ \ {txn[w].item}]
    /\ txn' = [txn EXCEPT ![w] = NoTxn]

Persist(w) ==
    /\ Alive(w[1])
    /\ txn[w] # NoTxn
    /\ snapshot' = [snapshot EXCEPT ![txn[w].item] = txn[w].seen]
    /\ Leave(w)
    /\ UNCHANGED <<source, owed, due, status, queue, job, lease, lastRun, night, history>>

FailToPersist(w) ==
    /\ Alive(w[1])
    /\ txn[w] # NoTxn
    /\ failures < deployed.failures
    /\ failures' = failures + 1
    /\ Leave(w)
    /\ due' = IF w[2] = "queue" /\ txn[w].item \notin queue[w[1]].pending
              THEN [due EXCEPT ![w[1]][txn[w].item] = 0] ELSE due
    /\ UNCHANGED <<source, snapshot, owed, status, queue, job, lease, lastRun, night, stops, runs, late>>
-----------------------------------------------------------------------------
(* Jobs under a lease.                                                     *)

Stage(p, j, from, to) ==
    /\ Alive(p)
    /\ job[p][j].stage = from
    /\ job' = [job EXCEPT ![p][j] = IF to = "idle" THEN IdleRun ELSE [@ EXCEPT !.stage = to]]

(* The minute tick of the scheduler in the nightly hour.                   *)
Tick(p) ==
    /\ status[p] = "up"
    /\ p \in deployed.scheduled /\ night
    /\ job[p]["nightly"] = IdleRun
    /\ lastRun # "tonight"
    /\ job' = [job EXCEPT ![p]["nightly"] = [stage |-> "claim", tonight |-> TRUE, cursor |-> 0]]
    /\ UNCHANGED <<data, status, queue, todo, txn, lease, lastRun, night, history>>

(* A request of the owner, continuing after a cursor.                      *)
Recalculate(p, afterId) ==
    /\ p \in deployed.asked /\ Alive(p)
    /\ job[p]["recalc"] = IdleRun
    /\ job' = [job EXCEPT ![p]["recalc"] = [stage |-> "claim", tonight |-> TRUE, cursor |-> afterId]]
    /\ UNCHANGED <<data, status, queue, todo, txn, lease, lastRun, night, history>>

(* Insert the lease row, or take it over if it has expired.                *)
Claim(p, j) ==
    /\ ~lease[j].live
    /\ Stage(p, j, "claim", IF j = "nightly" THEN "recheck" ELSE "page")
    /\ lease' = [lease EXCEPT ![j] = [holder |-> p, live |-> TRUE]]
    /\ UNCHANGED <<data, status, queue, todo, txn, lastRun, night, history>>

(* Mutant of Refused: whoever asks is let in. *)
RefusedNever(p, j) ==
    /\ lease[j].live
    /\ Stage(p, j, "claim", IF j = "nightly" THEN "recheck" ELSE "page")
    /\ UNCHANGED <<data, status, queue, todo, txn, lease, lastRun, night, history>>

Refused(p, j) ==
    /\ lease[j].live
    /\ Stage(p, j, "claim", "idle")
    /\ UNCHANGED <<data, status, queue, todo, txn, lease, lastRun, night, history>>

(* Another process may have finished meanwhile.                            *)
Recheck(p) ==
    /\ Stage(p, "nightly", "recheck", IF lastRun = "tonight" THEN "release" ELSE "page")
    /\ UNCHANGED <<data, status, queue, todo, txn, lease, lastRun, night, history>>

(* recomputeStorePage: the next items by id, and whether there are more.   *)
After(cursor) == {i \in deployed.active : i > cursor}
Page(cursor) == {i \in After(cursor) : Cardinality({k \in After(cursor) : k < i}) < PageSize}
PageEnd(cursor) == IF Page(cursor) = {} THEN cursor ELSE Max(Page(cursor))
HasMoreThanPage(cursor) == Cardinality(Page(cursor)) > PageSize   \* mutant of HasMore
HasMore(cursor) == Cardinality(Page(cursor)) >= PageSize /\ After(PageEnd(cursor)) # {}

ReadPage(p, j) ==
    /\ Stage(p, j, "page", "work")
    /\ todo' = [todo EXCEPT ![<<p, j>>] = Page(job[p][j].cursor)]
    /\ UNCHANGED <<data, status, queue, txn, lease, lastRun, night, history>>

(* The nightly job goes on with the next page; a recalculation returns the *)
(* cursor to the owner.                                                    *)
PageDone(p, j) ==
    /\ Alive(p)
    /\ job[p][j].stage = "work"
    /\ Free(<<p, j>>)
    /\ LET at == job[p][j].cursor
       IN  job' = [job EXCEPT ![p][j].stage =
                      IF j = "recalc" THEN "release" ELSE IF HasMore(at) THEN "page" ELSE "record",
                              ![p][j].cursor = PageEnd(at)]
    /\ UNCHANGED <<data, status, queue, todo, txn, lease, lastRun, night, history>>

(* The marker gets the date the run began with.                            *)
Record(p) ==
    /\ Stage(p, "nightly", "record", "release")
    /\ lastRun' = IF job[p]["nightly"].tonight THEN "tonight" ELSE "before"
    /\ runs' = IF job[p]["nightly"].tonight THEN runs + 1 ELSE runs
    /\ late' = (late \/ ~job[p]["nightly"].tonight)
    /\ UNCHANGED <<data, status, queue, todo, txn, lease, night, failures, stops>>

(* A statement of the run fails: the failure is recorded, the lease given  *)
(* back, and the scheduler may try again within the hour.                  *)
RunFails(p, j) ==
    /\ failures < deployed.failures
    /\ Free(<<p, j>>)
    /\ Stage(p, j, "page", "release")
    /\ failures' = failures + 1
    /\ UNCHANGED <<data, status, queue, todo, txn, lease, lastRun, night, stops, runs, late>>

(* Only the holder's own row is deleted.                                   *)
DeleteLease(p, j) == lease[j].holder = p

Release(p, j) ==
    /\ Stage(p, j, "release", "idle")
    /\ lease' = IF DeleteLease(p, j) THEN [lease EXCEPT ![j] = [holder |-> NoHolder, live |-> FALSE]]
                ELSE lease
    /\ UNCHANGED <<data, status, queue, todo, txn, lastRun, night, history>>
-----------------------------------------------------------------------------
(* Time, processes.                                                        *)

(* A tick comes every minute of the nightly hour: it does not end while a  *)
(* process could start the run and nobody else is at it.                   *)
Morning ==
    /\ night
    /\ \A p \in deployed.scheduled :
          status[p] = "up" /\ job[p]["nightly"] = IdleRun => lastRun = "tonight" \/ lease["nightly"].live
    /\ night' = FALSE
    /\ UNCHANGED <<data, status, queue, todo, txn, job, lease, lastRun, history>>

(* A run may still be at its items when the next night falls, not at its   *)
(* first statements.                                                       *)
Nightfall ==
    /\ ~night /\ deployed.scheduled # {}
    /\ \A p \in Instance : job[p]["nightly"].stage \notin {"claim", "recheck"}
    /\ night' = TRUE
    /\ lastRun' = "before" /\ runs' = 0 /\ late' = FALSE
    /\ lease' = [lease EXCEPT !["nightly"].live = FALSE]
    /\ job' = [p \in Instance |-> [job[p] EXCEPT !["nightly"].tonight = FALSE]]
    /\ UNCHANGED <<data, status, queue, todo, txn, failures, stops>>

(* The quarter of an hour of a recalculation is over, done or not.         *)
RecalcLeaseExpires ==
    /\ lease["recalc"].live
    /\ lease' = [lease EXCEPT !["recalc"].live = FALSE]
    /\ UNCHANGED <<data, status, queue, todo, txn, job, lastRun, night, history>>

(* SIGTERM: when no connection is left there are no more ticks and the run *)
(* in flight is awaited, then the queue is flushed, then the process exits.*)
(* Nobody waits for handlers without a connection and for their triggers.  *)
Close(p) ==
    /\ status[p] = "up"
    /\ stops < deployed.stops
    /\ stops' = stops + 1
    /\ status' = [status EXCEPT ![p] = "closing"]
    /\ UNCHANGED <<data, queue, todo, txn, job, lease, lastRun, night, failures, runs, late>>

Flush(p) ==
    /\ status[p] = "closing"
    /\ job[p]["nightly"] = IdleRun
    /\ status' = [status EXCEPT ![p] = "flushed"]
    /\ Drain(p)
    /\ UNCHANGED <<data, txn, job, lease, lastRun, night, history>>

Reset(p) ==
    /\ owed' = [owed EXCEPT ![p] = {}]
    /\ due' = [due EXCEPT ![p] = [i \in Item |-> 0]]
    /\ queue' = [queue EXCEPT ![p] = EmptyQueue]
    /\ todo' = [w \in Worker |-> IF w[1] = p THEN {} ELSE todo[w]]
    /\ txn' = [w \in Worker |-> IF w[1] = p THEN NoTxn ELSE txn[w]]
    /\ job' = [job EXCEPT ![p] = [j \in Job |-> IdleRun]]

(* Mutant of Exit: the drain is started but not awaited.                   *)
ExitAtOnce(p) ==
    /\ status[p] = "flushed"
    /\ status' = [status EXCEPT ![p] = "exited"]
    /\ Reset(p)
    /\ UNCHANGED <<source, snapshot, lease, lastRun, night, history>>

Exit(p) ==
    /\ status[p] = "flushed"
    /\ queue[p].draining # "yes"
    /\ status' = [status EXCEPT ![p] = "exited"]
    /\ Reset(p)
    /\ UNCHANGED <<source, snapshot, lease, lastRun, night, history>>

(* The process dies, or shutdown takes too long: what it held in memory is *)
(* lost, its transactions are rolled back, its leases stay.                *)
Crash(p) ==
    /\ Alive(p)
    /\ stops < deployed.stops
    /\ stops' = stops + 1
    /\ status' = [status EXCEPT ![p] = "crashed"]
    /\ Reset(p)
    /\ UNCHANGED <<source, snapshot, lease, lastRun, night, failures, runs, late>>

Restart(p) ==
    /\ status[p] \in {"exited", "crashed"}
    /\ status' = [status EXCEPT ![p] = "up"]
    /\ UNCHANGED <<data, queue, todo, txn, job, lease, lastRun, night, history>>
-----------------------------------------------------------------------------
Work(w) == Persist(w) \/ \E i \in Item : Evaluate(w, i)
Run(p, j) ==
    \/ Claim(p, j) \/ Refused(p, j) \/ ReadPage(p, j) \/ PageDone(p, j) \/ Release(p, j)
    \/ j = "nightly" /\ (Recheck(p) \/ Record(p))
QueueStep(p) == TimerFires(p) \/ BatchDone(p)

Step ==
    \/ \E w \in Worker : Work(w) \/ FailToPersist(w)
    \/ \E p \in Instance, j \in Job : Run(p, j) \/ RunFails(p, j)
    \/ \E p \in Instance :
          \/ Enqueue(p) \/ QueueStep(p)
          \/ Tick(p) \/ Close(p) \/ Flush(p) \/ Exit(p) \/ Crash(p) \/ Restart(p)
          \/ \E i \in Item : Change(p, i)
          \/ \E c \in {0} \cup Item : Recalculate(p, c)
    \/ Morning \/ Nightfall \/ RecalcLeaseExpires

Next == Step /\ UNCHANGED deployed

(* Awaited steps go on, a waiting row lock is granted in its turn (hence   *)
(* SF for the queues), processes are restarted and the days pass.          *)
Fairness ==
    /\ \A w \in Worker : WF_vars(Work(w) /\ UNCHANGED deployed)
    /\ \A p \in Instance :
          /\ SF_vars(Work(<<p, "queue">>) /\ UNCHANGED deployed)
          /\ WF_vars(Enqueue(p) /\ UNCHANGED deployed)
          /\ WF_vars(QueueStep(p) /\ UNCHANGED deployed)
          /\ WF_vars(Tick(p) /\ UNCHANGED deployed)
          /\ \A j \in Job : WF_vars(Run(p, j) /\ UNCHANGED deployed)
          /\ WF_vars(Flush(p) /\ UNCHANGED deployed)
          /\ WF_vars(Exit(p) /\ UNCHANGED deployed)
          /\ WF_vars(Restart(p) /\ UNCHANGED deployed)
    /\ WF_vars(Morning /\ UNCHANGED deployed)
    /\ WF_vars(Nightfall /\ UNCHANGED deployed)

Spec == Init /\ [][Next]_vars /\ Fairness
-----------------------------------------------------------------------------
Stages == {"idle", "claim", "recheck", "page", "work", "record", "release"}

(* Types.                                                                  *)
TypeOK ==
    /\ deployed \in Deployment
    /\ source \in [Item -> Nat] /\ snapshot \in [Item -> Nat]
    /\ status \in [Instance -> {"up", "closing", "flushed", "exited", "crashed", "absent"}]
    /\ owed \in [Instance -> SUBSET Item] /\ due \in [Instance -> [Item -> Nat]]
    /\ queue \in [Instance -> [pending : SUBSET Item, timer : BOOLEAN, draining : {"no", "yes", "stuck"}]]
    /\ todo \in [Worker -> SUBSET Item]
    /\ txn \in [Worker -> [item : Item, seen : Nat] \cup {NoTxn}]
    /\ job \in [Instance -> [Job -> [stage : Stages, tonight : BOOLEAN, cursor : {0} \cup Item]]]
    /\ lease \in [Job -> [holder : Instance \cup {NoHolder}, live : BOOLEAN]]
    /\ lastRun \in {"tonight", "before"} /\ night \in BOOLEAN /\ late \in BOOLEAN
    /\ failures \in 0..deployed.failures /\ stops \in 0..deployed.stops /\ runs \in Nat

(* "At most once per business date across all instances": two processes    *)
(* work on tonight's run only if neither began tonight, and a date gets a  *)
(* second run only if one of an earlier date was still writing its marker. *)
NightlyOnce ==
    /\ Cardinality({p \in Instance :
          /\ job[p]["nightly"].stage \in {"recheck", "page", "work", "record"}
          /\ job[p]["nightly"].tonight}) <= 1
    /\ runs > 1 => late

(* "Idempotent, so concurrent or repeated runs converge": the snapshot of  *)
(* an item never goes back to an older state of its sources.               *)
SnapshotNeverRegresses == [][\A i \in Item : snapshot'[i] >= snapshot[i]]_vars

(* "Queued post-commit recomputations finish" (server.ts:45): when a       *)
(* process exits by itself, what was queued before the flush has been      *)
(* recomputed from sources no older than when it was queued, but for       *)
(* failures. What is queued later is lost, until the nightly run.          *)
ShutdownLosesNothing ==
    [][\A p \in Instance : status[p] = "flushed" /\ status'[p] = "exited"
          => \A i \in Item : due[p][i] <= snapshot[i]]_vars

(* Work that is queued is taken up, unless its process ends.               *)
QueueDrains ==
    \A p \in Instance, i \in Item :
        i \in queue[p].pending ~> (i \notin queue[p].pending \/ ~Alive(p))

(* Whatever is lost with a process or fails, the snapshot of every item    *)
(* catches up with its sources.                                            *)
StalenessBounded == \A i \in Item : []<>(snapshot[i] = source[i])
=============================================================================
