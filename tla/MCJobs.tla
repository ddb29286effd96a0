-------------------------------- MODULE MCJobs --------------------------------
(***************************************************************************)
(* What goes on in the background and has to come to an end, in parts that *)
(* share no state, of which a behaviour is about one, part:                *)
(*   - the recomputation of derived data, in one of three deployments: two *)
(*     processes with the scheduler, one of which may crash or have a      *)
(*     failing run; a process with two pages of items that may lose its    *)
(*     queue; two processes that recompute the same item while the owner   *)
(*     asks one of them for recalculations (DecisionJobs, which this       *)
(*     module extends);                                                    *)
(*   - a product import of three rows in chunks of two, one of which is    *)
(*     skipped, and two files of sales that overlap in one row; one of     *)
(*     them repeats a row, the other has a row too late (ImportJob);       *)
(*   - the saving of two learned answers (Knowledge);                      *)
(*   - the lock on logins of one account (LoginGuard) and the quota of     *)
(*     questions to the assistant (Assistant), both of which are checked   *)
(*     first and counted last.                                             *)
(***************************************************************************)
EXTENDS DecisionJobs

CONSTANTS p1, p2,                             \* processes
          Handler,                            \* requests that commit imports together
          Import, ImportRow, Unwanted,        \* of products: their rows, those to be skipped
          SalesFile, SalesRow, Hash, TooLate, \* of sales: their rows, what each is of,
                                              \* those of the time after the first native sale
          Caller, MaxAttempts, MaxGuesses,    \* logins of one account
          Asker, Quota, MaxUsed               \* questions of one store

(* Of what is counted there are finitely many.  The limit on logins is on: *)
(* 0 attempts would turn it off (ops-settings.service.ts:24).              *)
ASSUME LimitAssumption ==
    /\ IsFiniteSet(Caller) /\ MaxAttempts \in Nat \ {0}
    /\ IsFiniteSet(Asker) /\ Quota \subseteq Nat /\ MaxUsed \in Nat

(* The rows of a file are numbered.                                        *)
ASSUME ImportAssumption ==
    \A j \in SalesFile : SalesRow[j] \subseteq Nat /\ TooLate[j] \subseteq SalesRow[j]

VARIABLES part,
          jobStatus, row, expired, applied, sales, died, handler,
          items, file, vault, cold, timer, save, pending, backfill, asker, lost, restarts,
          wrong, guesses, blind, attempt,
          quota, used, limit, ask

Goods == INSTANCE ImportJob WITH
    Job <- Import, Products <- Import, RowOf <- ImportRow, Skipped <- Unwanted,
    HashOf <- [j \in Import |-> [r \in ImportRow[j] |-> "none"]],
    Overlapping <- [j \in Import |-> {}], ChunkSize <- 2,
    status <- jobStatus

History == INSTANCE ImportJob WITH
    Job <- SalesFile, Products <- {}, RowOf <- SalesRow, HashOf <- Hash,
    Overlapping <- TooLate, Skipped <- [j \in SalesFile |-> {}], ChunkSize <- 2,
    status <- jobStatus

Memory == INSTANCE Knowledge WITH
    Answer <- {"i", "j"}, HotLimit <- 2, Asker <- {"a"}, MaxStops <- 1, stops <- restarts

Guard == INSTANCE LoginGuard WITH failures <- wrong

Questions == INSTANCE Assistant

imports == <<jobStatus, row, expired, applied, sales, died, handler>>
memory == <<items, file, vault, cold, timer, save, pending, backfill, asker, lost, restarts>>
guard == <<wrong, guesses, blind, attempt>>
questions == <<quota, used, limit, ask>>

MCInstance == {p1, p2}
MCDeployment ==
    {[up |-> {p1, p2}, active |-> {1}, scheduled |-> {p1, p2}, asked |-> {},
      changes |-> 0, failures |-> 1, stops |-> 1],
     [up |-> {p1}, active |-> {1, 2}, scheduled |-> {p1}, asked |-> {},
      changes |-> 1, failures |-> 1, stops |-> 1],
     [up |-> {p1, p2}, active |-> {1}, scheduled |-> {}, asked |-> {p2},
      changes |-> 2, failures |-> 0, stops |-> 0]}

MCImportRow == [file |-> 1..3]
MCUnwanted == [file |-> {2}]
MCSalesRow == [old |-> 1..3, older |-> 1..3]
MCHash == [old |-> <<"x", "y", "n">>, older |-> <<"y", "z", "z">>]
MCTooLate == [old |-> {3}, older |-> {}]

Others(p) ==
    /\ IF p = "derived" THEN TRUE ELSE UNCHANGED vars
    /\ IF p \in {"products", "sales"} THEN TRUE ELSE UNCHANGED imports
    /\ IF p = "memory" THEN TRUE ELSE UNCHANGED memory
    /\ IF p = "guard" THEN TRUE ELSE UNCHANGED guard
    /\ IF p = "questions" THEN TRUE ELSE UNCHANGED questions
Only(p, Action) == part = p /\ Action /\ Others(p) /\ UNCHANGED part

MCInit ==
    /\ part \in {"derived", "products", "sales", "memory", "guard", "questions"}
    /\ Init
    /\ part # "derived" => deployed.scheduled = {}     \* any one of them
    /\ IF part = "sales" THEN History!Init ELSE Goods!Init
    /\ Memory!Init /\ Guard!Init
    /\ Questions!Init /\ quota = 0     \* it may be set

MCNext ==
    \/ Only("derived", Next)
    \/ Only("products", Goods!Next)
    \/ Only("sales", History!Next)
    \/ Only("memory", Memory!Next)
    \/ Only("guard", Guard!Next)
    \/ Only("questions", Questions!Next)

MCVars == <<part, vars, imports, memory, guard, questions>>

(* The fairness of each part.                                              *)
Derived(Action) == Only("derived", Action /\ UNCHANGED deployed)
DerivedFairness ==
    /\ \A w \in Worker : WF_MCVars(Derived(Work(w)))
    /\ \A p \in Instance :
          /\ SF_MCVars(Derived(Work(<<p, "queue">>)))
          /\ WF_MCVars(Derived(Enqueue(p)))
          /\ WF_MCVars(Derived(QueueStep(p)))
          /\ WF_MCVars(Derived(Tick(p)))
          /\ \A j \in Job : WF_MCVars(Derived(Run(p, j)))
          /\ WF_MCVars(Derived(Flush(p)))
          /\ WF_MCVars(Derived(Exit(p)))
          /\ WF_MCVars(Derived(Restart(p)))
    /\ WF_MCVars(Derived(Morning))
    /\ WF_MCVars(Derived(Nightfall))

OtherFairness ==
    /\ \A h \in Handler : WF_MCVars(Only("products", Goods!Step(h)))
    /\ WF_MCVars(Only("memory", Memory!Fire \/ Memory!Postpone))
    /\ WF_MCVars(Only("memory", Memory!TakeData))
    /\ WF_MCVars(Only("memory", Memory!Written))
    /\ WF_MCVars(Only("guard", Guard!WindowPasses))

MCSpec == MCInit /\ [][MCNext]_MCVars /\ DerivedFairness /\ OtherFairness
-----------------------------------------------------------------------------
(* Imports committed twice, interrupted and resumed, and files of sales    *)
(* that overlap: every row takes effect once, and no row is lost.          *)
RowsTakeEffect ==
    /\ part = "products" => Goods!RowAppliedOnce /\ Goods!NoRowLost
    /\ part = "sales" => History!SaleRecordedOnce

(* An import under way ends, unless its process dies.                      *)
Committing(j) == part = "products" /\ jobStatus[j] = "COMMITTING"
ImportEnds == \A j \in Import : Committing(j) ~> ~Committing(j) \/ j \in died

(* What the assistant learns is saved in the end, but for failed writes    *)
(* and requests that put the save off for ever.                            *)
KnowledgeSaved == Memory!KnowledgeSaved

(* A day's questions and an account's failed logins exceed their limits    *)
(* only by those that were under way when the limit was reached.           *)
LimitsHold == Guard!LockoutBoundsGuesses /\ Questions!QuotaHolds

(* A locked login is open again in the end, however often it is tried.     *)
LockLifts == Guard!LockLifts
=============================================================================
