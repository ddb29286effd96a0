# StockPilot: specifications, model checking and proofs

StockPilot is a multi-tenant back end (TypeScript, Express, Prisma, MySQL InnoDB) for small
shops: catalogue, stock, orders, point of sale with PayOS and MoMo, returns, stock takes,
imports, a decision engine that raises alerts and recommends prices, an assistant, tax papers
and a platform console. This directory holds TLA+ models of it, the TLC runs that check them,
and proofs that nearly every safety property those runs check holds for all values of the
constants: of the stock ledger, orders, retries, stock takes, imports, the decision engine with
its jobs, alerts, prices and summaries, sums of money, sessions, and the platform around a
store. What is not proved is liveness (section 4).

Paths below are relative to `src/` of the program (`modules/...`, `common/...`);
`PROJECT.json` maps every definition to its lines.

## 1. Inventory

### How the parts interact

Almost all state is in one MySQL database; the processes hold the recompute queue, timers,
registration codes, scanner pairings and the assistant's learned answers. A request passes
authentication, tenant and role checks, then - on mutation endpoints - the idempotency
middleware, then a service. A service works in a Prisma interactive transaction: REPEATABLE
READ, 10 s to get a connection, 30 s to finish (`config/db.ts`). Its plain reads see the
snapshot made by its first read; UPDATE, INSERT and SELECT ... FOR UPDATE act on the latest
committed rows and keep their locks. **Most of what can go wrong in this code comes from that
difference**, from reads made before the transaction begins, and from steps outside any
transaction. Everything that moves stock goes through the ledger (`StockLedgerService`, or the
same statements repeated in `inventory.audit` and `stockTake.complete`). After a commit,
services call `BusinessSyncService`, which queues a recomputation (debounced, in memory, at
most once) of summaries, alerts and recommendations.

| Part | State | Operations | Hard behaviour | What makes it correct | Modules |
|---|---|---|---|---|---|
| Stock ledger (`inventory/`) | balances, movements | receipt, issue, audit, count replacement | row locks, snapshot reads, key collisions, deadlocks, rollbacks | no oversell, movements explain the balance, a key posts once, all or nothing, no deadlock | `StockLedger`, `LedgerRules`, `StockLines`, `SerialLedger` |
| Orders, returns | orders, lines, returns | draft, confirm, fulfil, cancel, return | decisions from snapshots, double submission, rounding | goods leave and come back once, returns and refunds within the sale, shares add up | `OrderLifecycle`, `Allocation` |
| Point of sale (`pos/`) | payments, the PayOS link | cash sale, link, webhook, poll, closing, MoMo confirmation | late, repeated and lost webhooks racing polls and cancellations | paid exactly with fulfilled, cancellation final, money not lost | `OrderLifecycle` |
| Stock takes | takes, lines | create, start, count, complete, cancel | trade while counting, overlapping takes | adjustments explain lines and balances | `StockTake` |
| Imports, historical sales | jobs, row checkpoints, sales | preview, commit, expire | crash, resume, double commit, overlapping files | each row once, none lost | `ImportJob` |
| Idempotency middleware | request records | lookup, claim, replay, recover, reclaim, complete | retries, process death, expiry | effect once, the right answer | `Idempotency` |
| Products, categories | products, items, categories | create, edit, archive, delete, import | crossing edits, items added to archived products | edits start from what they read, archived goods are not sold | `Catalogue` |
| Recompute queue, leases, nightly job | pending work in memory, lease rows, last run | enqueue, drain, flush, acquire, release, run | work that comes during a drain, expiry under a working holder, crash, shutdown | queued work is done, one nightly run a date, snapshots never go back | `DecisionJobs` |
| Alerts | alerts | synchronise, acknowledge, resolve | unlocked reads against the engine | active alerts are those of the condition, a user's resolution holds | `Alerts` |
| Pricing | recommendations, price history | recompute, accept, modify, reject, expire, edit, import | stale price, cost and margin | one pending, accepted on its basis, floor kept, history complete | `Pricing`, `EngineRules` |
| Demand, risk, summaries | daily summaries, snapshots | evaluate, rebuild | rebuilds that overlap and deadlock, lost triggers | scores follow stock, recent days catch up, rows never go back | `EngineRules`, `Decisions`, `SalesSummary` |
| Sessions (`auth/`) | session rows, reset tokens | login, refresh, logout, lock, reset | refresh races, reuse, overlapping mails | a session has one successor, a token one use | `Sessions` |
| Login lock, registration | audit rows; codes in memory | login, code, register | check first, record last | the lock bounds guesses and lifts, a code is used once | `LoginGuard`, `Registration` |
| Users, ownership | users, stores | edit, delete, hand over | handover against deletion and locking | a store has one owner | `Ownership` |
| Support, leads, notifications, settings | tickets, leads, notifications, settings and audit | reply, answer, submit, mark read, change, restore | decisions from earlier reads | no question lost in a resolved ticket, no submission lost, history true | `Support`, `Leads`, `Notifications`, `Settings` |
| Payment configuration | encrypted keys | save, switch, remove | blank parts, changed encryption key | what is saved is readable | `PaymentConfig` |
| Scanner | pairings in memory and a file | pair, scan, close, expire | writes that fail or break off, restarts | one pairing a store, restarts restore | `Scanner` |
| Tax support | none of its own | tracker, revenue book | cutover, snapshots of several queries, cancellations of fulfilled orders | sums and forecast agree | `Tax` |
| Assistant | interactions, learned answers in memory, file and vault | ask, learn, save, list actions | debounced saves, quota checked first | nothing learned is lost, quota bounded, list varied | `Assistant`, `Knowledge`, `Suggestions` |
| Analytics, audit log, export, public pages, upload, mail | append-only or none | | external services | | not modelled |

`PROJECT.json` lists forty hazards at their lines. They fall into six groups: two transactions
between whose snapshot and lock something commits; row-lock order; retries of requests whose
answer was lost; processes that die between two statements or are restarted; external
notifications that come late, twice or never; and limits that are checked first and counted
last.

## 2. Modules

Component modules model one part each (table above). `LedgerRules` says what a line of a ledger
request does to a row, `StockLines` how callers' items become lines, `SerialLedger` is the
abstract ledger. `EngineRules` is formulas only; `Decisions` lets an item live under them. The
theorems are in modules of their own. `StockLedgerProofs`, `IdempotencyProofs` and
`SessionsProofs` extend the component they are about. `OrderLifecycleProofs`, `JobsProofs`,
`BackOfficeProofs`, `PlatformProofs` and `DecisionsProofs` extend the MC module of a combined run
(below), whose instances of the components have constants for parameters, so that their theorems
are about the run's own definitions for any values of those constants.

The layers rest on each other by argument. `StockLedger` shows that a request to the ledger is
serialisable and exact, so `OrderLifecycle`, `StockTake` and `ImportJob` may treat the ledger
part of their transactions as one step. `DecisionJobs` shows when an item is recomputed under
its row lock, so `Alerts` and `Pricing` may take one synchronisation at a time, and
`EngineRules` says what it computes; `Pricing` lets the engine advise any price that
`EngineRules` allows (the floor it uses is `EngineRules!MinimumPrice`).

**Combined runs.** Parts that share no state are checked in one run: the MC module has a
variable `part`, chosen in the initial state, and a behaviour is about that part only while the
others rest. The states add up and do not multiply, and each part is exactly what it would be
in a run of its own. An MC module extends the component of its run that has theorems, so that
the run and the theorem are about the same definitions, and instantiates the others. `MCShops`
extends `OrderLifecycle` once, with the orders of three shops, and lets a behaviour be about the
orders of one of them (or about one of two kinds of sums). A property that speaks of several
parts is the conjunction of theirs; section 3 names the conjuncts.

### StockLedger

State: `db` are the committed rows with their movements, `work` the uncommitted version of a
locked row, `lock` its holder, `snap` what the first read of a transaction saw (which rows
exist, which items are active), `req` and `pos` the lines and the cursor. `Begin` is the first
read. `Apply` is one line, from its reads to the insertion of its movement: only its locking
write can be interleaved, and it waits while another holds the row. `Reject` is a line that
fails: an inactive item, the conditional decrement that matches no row
(`stock-ledger.service.ts:71-96`), an upsert that inserts although the row was created since the
snapshot (P2002), or a repeated movement key. `Commit` publishes all versions, `RollBack` is a
timeout, a lost connection, a deadlock victim or a crash. `SetActive` is a product being
archived or reactivated. A retry is another transaction with the same keys.

Two simplifications. A line takes its lock and fails or succeeds in one step, so a lock held
only by a line that is then refused is never seen. An insert blocked by another transaction's
uncommitted key of *another* item is not a wait of the model: `RequestAssumption` says keys are
specific to an item, as in the code, so that lock is the one of the row. `reservedQuantity` is
left out: no code writes anything but 0 to it.

### Orders, stock takes, imports, retries, catalogue

`OrderLifecycle`: a handler that reads the order first and decides from that read is two steps
(`CancelRead` and `Cancel`, `ReturnRead` and `Return`, `SettleRead` and `Settle`, ...), with
`call` holding what it read; a handler that is one guarded transaction (`Confirm`, `Fulfill`,
`CashSale`) is one step. `sold` and `restocked` sum the ledger's movements per order line, `keys`
the movement keys used. `GatewayDecides` is PayOS, external. `SettleRead` covers webhook and
poll: a webhook of an order already cancelled changes nothing, so only deliveries that go on are
steps. `SettleLate` is the settlement that finds the payment no longer pending or its key used,
and says so to its caller. After a refused link (`LinkRefused`) the draft is deleted in a later
step, `Discard`, whatever it has become. `Abandon` ends a call without effect: refused, rolled
back or its process gone.

The code lets a FULFILLED order be cancelled (`order.service.ts:364-369`, with a comment that
says so), although ORD-005 (`docs/BUSINESS_RULES.md:143`) says that fulfilled orders must go
through returns. The model follows the code. `Allocation` is the pure part: the sharing of
discount and tax over the lines, which the draft, the till and both wallets repeat. MoMo takes
the total a client asks for in place of the computed one (`asked`, `pos-momo.service.ts:103`)
and refuses only a total that rounds to nothing, so discounts above the subtotal are inputs too;
what was charged differently ends up on the last line. Orders whose lines come to nothing have
one line there, since the wallet divides by their sum.

`Tax`: the records are what is committed in order: fulfilled orders, completed returns, imported
rows, and cancellations of fulfilled orders. The queries filter FULFILLED
(`revenue-ledger.service.ts:62`, `91`, `157`), so a cancellation takes its order out of the
ledger of an earlier day (`Canceled`, `Kind`) and may move the cutover, by which imported rows
that were shut out count again; completed returns of the order go on to count, and one that read
the order before may still be added. A file is held against the first order at its preview only
(`historical-sales.service.ts:118`), up to an hour before the commit, so `Import` takes any date.
The book's queries see the records up to one of their own each (`FinishBook`), the cutover before
the three sums.

`StockTake`: `start`, `updateCounts` and `complete` are two steps, what the snapshot shows and
what is committed; `create` and `cancel` decide again in their guarded write. `ImportJob`: each
statement outside a transaction is a step, so a handler may fail, die or be overtaken between
marking a chunk `PROCESSING`, applying it, failing the rows, failing the job. `ApplyChunk` may
commit and still be reported as failed (a lost answer). `Idempotency`: each statement on the
record is a step; `Keyed` are the operations whose effect carries the effect key under a unique
index and is recovered by it (`ORDER_CREATE`, `POS_SALE_CREATE`, `RETURN_CREATE`, `INVENTORY_*`);
`Extends` are inventory keys one of which begins with the other. `ORDER_CONFIRM` and
`ORDER_CANCEL`, recovered by the order's status, are treated as operations without a key, which
allows more behaviours than the code has. `Catalogue`: a category edit reads a row and writes it
if `updatedAt` (here `version`) is unchanged; product edits, archiving and import rows write what
they write to products and items; `Sellable` is what each sales channel asks of an item.

### Decision engine

`DecisionJobs`: `Change` commits a change of an item and owes its process an `Enqueue`; the
queue's timer, drain and batches are those of `recompute-queue.ts`, with `draining` "stuck" when
an empty queue is flushed (the promise is stored after the drain has cleared the field, and
whatever is queued later is never drained). `Evaluate` takes the row lock, then
reads; `Persist` commits. `Tick`, `Claim`, `Recheck`, `ReadPage`, `Record`, `Release` are the
nightly run, `Recalculate` the owner's request, both under leases that may expire.
`Close`, `Flush`, `Exit` are the order of `server.ts` at SIGTERM. `Close` may happen at any time:
`server.close` waits for connections, not for handlers that have answered, and an import's
trigger awaits a query after its answer before it queues anything
(`import-export.service.ts:793-802`), so `Enqueue` may come after the flush and what it queues is
lost with the process. `due` remembers what was queued before the flush. `Crash` loses what is in
memory. Versions of the sources stand for their content.

`Alerts`, `Pricing`, `SalesSummary` describe one item, one item and a few days. In all three a
transaction is a read and a later write; in `SalesSummary` the delete's locks are modelled
too: exclusive on rows, shared in the gap where there is none, so that two rebuilds of an empty
day deadlock and one is retried. `EngineRules` computes exactly what the code computes in
doubles; where a double can fall just above an exact multiple of a thousand, `up` chooses.

### Accounts and platform

`Sessions`, `Ownership`, `Registration`, `LoginGuard`, `Support`, `Leads`, `Notifications`,
`Settings`, `PaymentConfig` all have the same form: a `call` (`form`, `work`, `tab`) holds what a
request has read, the step that writes checks what the code's WHERE clause or unique index checks
and nothing else. A listing of notifications creates, beside those of events, one of the system
that is read from the start and never gets a time of reading (`notification.service.ts:117-135`).
`Scanner` and `Knowledge` are single-threaded processes with a file: a step is
what runs between two awaits. `Persist` of the scanner writes its file in place
(`scanner.service.ts:47`): it succeeds, fails before the file is touched, or breaks off after the
file was truncated (`torn`), after which a start finds no pairing at all; `Knowledge` writes a
temporary file and renames it. Every request for a save clears the debounce timer and sets
another (`SetTimer`; two names are enough to tell one timer from the next). `Assistant` checks,
answers and records.

## 3. Runs

| Run | Instance and bounds | Distinct states |
|---|---|---|
| `ledger` | 2 items (one without a row), 2 transactions, 7 requests | 19 000 |
| `orders` | a till (counter order and cash sale, 2 lines each, one free of charge and one not divisible), a PayOS and a MoMo shop (each with a cash sale for the same goods); 2 callers; 2 years of 2 days with 4 records, cancellations among them, 1 of them during a book; orders of up to 3 lines, with and without a total asked for | 322 000 |
| `back_office` | 2 takes, 2 callers, 2 items (one traded and without a row), quantities up to 1; 3 attempts, 3 keys, 2 bodies, 2 lapses a key; 2 category edits among imports | 1 589 000 |
| `jobs` | 2 processes, 2 items, pages of 1, three deployments with a failure and a crash or stop; an import of 3 rows in chunks of 2, two overlapping files; 2 answers; 3 logins, 3 questions | 61 000 |
| `platform` | 2 requests at a time for each service; 3 sessions, 2 tokens, 3 accounts, 2 stores, 2 encryption keys; 2 leads with up to 4 submissions | 596 000 |
| `decisions` | 2 prices, costs and margins; alerts of low and no stock; seven sales histories under two settings; 4 summary days with 2 rebuilders; 3 items to suggest | 928 000 |
| `orders_return_race`, `orders_momo_twice` | one order | violations |
| `alerts_reopened`, `price_history`, `store_ownerless`, `archived_sold` | one component | violations |

What they show:

- `ledger`: `TypeOK`, `NoOversell`, `LedgerExplainsBalance` (movements are a chain from the
  opening to the present quantity), `RetryPostsOnce`, `NoGridlock`, `SerialSpec` (refinement of
  `SerialLedger`), `EveryTransactionEnds` (without the timeout).
- `orders`: `ReturnsWithinSale`, `DeductedOnce`, `RestockBounded`, `PaidIsFulfilled`,
  `CanceledIsFinal`, `PaidIsSettled`, in whichever shop was chosen; `MoneyAddsUp`
  (`AllocationExact`, `BookIsComplete`, `TrackerAgrees`, `CrossingStays`).
- `back_office`: `CountsAdjustStock` (lines match their adjustments, and movements with trade
  explain every balance), `EffectOnce`, `AnswerIsOwnEffect`, `EditsStartFromWhatTheyRead`.
- `jobs`: `NightlyOnce`, `SnapshotNeverRegresses`, `ShutdownLosesNothing`, `QueueDrains`,
  `StalenessBounded` of the decision engine; `RowsTakeEffect` (`RowAppliedOnce` and `NoRowLost`
  of product imports, `SaleRecordedOnce` of sales), `ImportEnds`; `KnowledgeSaved`; `LimitsHold`
  (`LockoutBoundsGuesses` and the assistant's `QuotaHolds`), `LockLifts`.
- `platform`: `TokensWorkOnce` (`SessionsAreChains`, `OneResetPerIssue`), `CodesWorkOnce` (of
  registrations: `OtpOnce`), `HandoverLeavesOneOwner`, `DeskKeepsRecords` (`RepliesReopen`,
  `SubmissionsCounted`, `ReadOnce`, `HistoryTellsSetting`), `SetupHolds` (`SaveLeavesReadable`, `OneSessionPerStore`,
  `RestartRestores`).
- `decisions`: `OnePending`, `AcceptedOnBasis`, `AlertsFollowCondition`, `RiskFollowsStock`,
  `AdviceIsSafe` (margin floor and limits, only facts without enough history, a varied list of
  actions), `SummaryNeverRegresses`, `RecentDaysCatchUp`.

Every property has a mutant in `PROJECT.json` that breaks it. The conjuncts of combined
properties have more of them, beside the definition they change and checked in the same way:
`InsertSalesAgain`, `FailJobFirst` (`RowsTakeEffect`); `ExhaustedAbove` (`LimitsHold`);
`CompleteByVariance` (`CountsAdjustStock`); `SetCount`, `AnyRow`, `RowAlways`
(`DeskKeepsRecords`); `UnspentWhenRead` (`TokensWorkOnce`); `KeptUnchecked` (`SetupHolds`); `AdviceUngated`, `UnvariedListed`
(`AdviceIsSafe`); `InAll`, `LastShareRounded` (`MoneyAddsUp`). `TypeOK` of the other components
was checked while they were built; the combined runs leave the type invariants out, since types
are what the other properties already evaluate.

**Why the bounds are enough.** The properties are about pairs: two transactions on a row, two
rows in a cycle, a reader and one writer between its two steps, an attempt and its retry, two
processes and one lease. Two of each make every pair happen; a third is there where a third
party matters (the attempt that recovers while another clashes, the login that was let through
before the last allowed failure). Quantities are large enough that one request is refused and
another is not, a refund has a remainder (3 hundredths over 2 units), a chunk or page boundary
falls inside a file or a store, a share rounds both ways, a price falls on an exact multiple of
the rounding. The bounds (`Max...`, `ChunkSize`, `PageSize`, `HotLimit`, and the calendar
constants of `Tax`) are constants of their modules and named there; each says what it counts.
`MaxRecs` bounds the recommendations ever made, `MaxRows` the notifications, `MaxSubmissions`
those of a lead (four, so that two overlapping merges into one lead both complete), `MaxBooked`
and `MaxMeanwhile` what is recorded before a book and during it; a behaviour that reaches them
goes on with its other actions. `LastDay = 4` gives the nightly window of three days a day before
it and a day of its own for each of its three; with a window of two, `RecentDaysCatchUp` fails
(`TwoDays`).

**Deadlock checking** is off everywhere: calls, jobs and attempts are finite in number and the
system may stop after the last. `NoGridlock` states the deadlock that matters.

**Symmetry** is used in `back_office`, for the takes and for the callers, which are two of the
three attempts so that one group of permutations serves all parts; never in a run with a
liveness property.

### Fairness

- `ledger`: weak fairness of each transaction's own next step. A service awaits its statements
  one after another; it waits only for locks. `EveryTransactionEnds` then says that the 30 s
  timeout (`RollBack`, not fair) is never needed.
- `orders`: in the PayOS shop, weak fairness of the end of every call; strong fairness of the
  first read of a settlement and of its committing step. PayOS delivers a webhook again until it
  is acknowledged, the cashier's screen polls, and the handler rethrows real failures for that
  reason (`pos-payos.service.ts:761`). A delivery may be interrupted, but not every one.
  `PaidIsSettled` excepts sold-out goods, for which the code never settles a payment that was
  made.
- `jobs`, decision engine: weak fairness of the steps of queue, jobs and shutdown, which run one
  after another while the process lives; strong fairness of the recomputations of the queue,
  because a waiting row lock is granted in its turn; processes are restarted, mornings and nights
  come. No fairness for requests, failures, crashes or SIGTERM. `Morning` waits until a live
  scheduler has had its tick: the hour has sixty of them (`decision-scheduler.ts`).
- `jobs`, imports: weak fairness of each handler's step, until it dies. Nothing resumes a job
  whose process died in COMMITTING, so `ImportEnds` excepts those jobs. Knowledge: a save that has
  begun goes on. A timer fires only if it is not set again within its 300 ms, and there is no
  longest wait (`ai-memory.service.ts:450-455`), so what is fair is that it fires *or* is set
  again (`Fire \/ Postpone`), and `KnowledgeSaved` excepts behaviours that set it again for ever.
  Login lock: the oldest failure leaves the window.
- `decisions`, summaries: weak fairness of a rebuild's steps and of the queue, strong fairness
  of the nightly rebuild, which may be prevented on some nights but not on all.

### What the violations show

Each is a claim of the code or its documents that the code does not keep; `PROJECT.json` quotes
the lines.

1. `createReturn` trusts the FULFILLED of its snapshot. A cancellation that commits in between
   has restocked the goods; the return restocks and refunds them again. The opposite race has
   the same cause: `cancelOrder` computes what to restock from `returnedQuantity` as read before
   its lock, which is why `RestockBounded` allows a cancelled order one line more.
2. MoMo confirmations have neither condition nor key. Two that both read the draft are traced:
   the first makes the order paid and fulfilled, the second deducts its goods again. They
   also revive cancelled orders, which `CanceledIsFinal` therefore excepts. A related sequence
   exists for PayOS: an operator confirms the draft by hand (key `ORDER_CONFIRM...`), and the
   settlement deducts again under `POS_PAYOS_DEDUCT_...`; `DeductedOnce` is stated for counter
   and cash orders for this reason.
3. The engine's update of an alert writes the lifecycle it read; an owner's resolution in between
   is forgotten, and the alert opens again (ALR-003).
4. A product edit or import decides from an earlier read whether the price changes, and leaves
   PriceHistory without a row (PRI-008).
5. A deletion that has checked the role of a member of staff deletes an owner, if the store is
   handed over in between (ACC-002).
6. The wallets sell active items of archived products, which an import can create (PRD-003).

Weaker observations, not stated as runs but visible in the models:

- An import locks balances in the order of its file (`import-export.service.ts:502`) and can
  deadlock with an order; the mutant of `NoGridlock` shows it.
- A poll that finds its payment no longer PENDING answers "paid", also when the order was
  cancelled (`pos-payos.service.ts:538`).
- Counts may be written to a take that was completed in between (`stock-take.service.ts:159`),
  and a completed import job may be overwritten by EXPIRED (`import-export.service.ts:351`).
- A login inserts its session although the account was locked meanwhile (`auth.service.ts:286`);
  editing staff revokes sessions only if the account was active when read
  (`user.service.ts:188`). `SessionsAreChains` is stated about continued sessions only.
- Two submissions with one phone number may create two leads, two listings two notifications of
  one event; overlapping saves of payment keys keep the last one's parts; a category may be
  deleted while a product comes to it.
- What an import's trigger queues after the flush of a shutdown is lost and the nightly run makes
  up for it (`StalenessBounded`); `ShutdownLosesNothing` speaks of what was queued before.
- Cancelling a fulfilled order takes its revenue out of the day it was sold, also out of a book
  that was already filed, and leaves its returns in: the revenue of a period may become negative,
  and the day the threshold was crossed may move to a later one or vanish. When it was the first
  order, older rows of imported files count that were excluded. `CrossingStays` excepts
  cancellations to that extent, and imports.
- The lines and the sums of one preview are separate queries and differ by what is recorded or
  cancelled between them; `BookIsComplete` says that each holds what counted all the while.
- A write of the scanner's file that breaks off loses every pairing at the next start, since the
  file is truncated first; `RestartRestores` excepts that. Answers learned or hit at least every
  300 ms postpone their save without end.
- MoMo charges the total a client sends, without comparing it with the lines; the difference goes
  to the last line's refundable amount.
- A ticket may be resolved by an administrator who has not seen the store's last message
  (`support.service.ts:399-408`); `RepliesReopen` says only that the resolution came after it.
- A stale row may be inserted for a day that has none; `SummaryNeverRegresses` is about rows that
  are replaced, and the nightly rebuild corrects the rest.
- A late cancellation, more than three days after the sale, leaves the summary of that day
  stale until it is rebuilt on demand; `RecentDaysCatchUp` speaks of the nightly window.
- The division of doubles puts the price floor a thousand too high at some exact multiples
  (`pricing-evaluator.ts:59`); the last line of an allocation can come out negative.

`AnswerIsOwnEffect` excludes inventory keys that another key begins with, because recovery
selects movements by `startsWith` (`idempotency.ts:317`) and would answer with another
request's movements.

## 4. Proofs

`tlapm` checks every theorem below, for all values of the constants that satisfy the named
assumptions. Each follows from an inductive invariant, itself a theorem; the proof that a step
preserves it has one step per action.

| Module | Theorem | States |
|---|---|---|
| `StockLedgerProofs` | `TypeCorrect` | `Spec => []TypeOK` |
| | `InductiveInvariant` | the invariant the others of the ledger follow from |
| | `NeverOversold` | `Spec => []NoOversell` |
| | `LedgerComplete` | `Spec => []LedgerExplainsBalance` |
| | `DeadlockFree` | `Sorted` and `Spec` give `[]NoGridlock` |
| | `KeyPostedOnce` | `Spec => []RetryPostsOnce` |
| | `Serializable` | `Spec => SerialSpec` |
| `OrderLifecycleProofs` | `OrdersStaySafe` | `Spec => []OrdersSafe` |
| | `OrderTypes` | `Spec => []TypeOK` |
| | `ReturnsStayWithinSale` | `Spec => []ReturnsWithinSale` |
| | `GoodsDeductedOnce` | `Spec => []DeductedOnce` |
| | `RestocksBounded` | `Spec => []RestockBounded` |
| | `PaidStaysFulfilled` | `Spec => []PaidIsFulfilled` |
| | `CancellationIsFinal` | `Spec => CanceledIsFinal` |
| | `MoneyAlwaysAddsUp` | `MCSpec => MoneyAddsUp` |
| | `OrdersAreAPart` | `MCSpec` of the shops implies `Spec` |
| | `ShopsHold` | `MCSpec` implies the six safety properties of the run |
| `IdempotencyProofs` | `RetriesStaySafe` | `Spec => []RetriesSafe` |
| | `RetriesTakeEffectOnce` | `Spec => []EffectOnce` |
| | `SuccessIsOwn` | `Spec => []AnswerIsOwnEffect` |
| `JobsProofs` | `JobsStaySafe` | `Spec => []JobsSafe` (`Spec` is that of `DecisionJobs`) |
| | `NightlyRunsOnce` | `Spec => []NightlyOnce` |
| | `SnapshotsOnlyAdvance` | `Spec => SnapshotNeverRegresses` |
| | `ShutdownIsGraceful` | `Spec => ShutdownLosesNothing` |
| | `LimitsAlwaysHold` | `MCSpec => []LimitsHold` |
| | `ImportsTakeEffectOnce` | `MCSpec => []RowsTakeEffect` |
| `DecisionsProofs` | `PricesStaySafe` | `Spec => []PricesSafe` (`Spec` is that of `Pricing`) |
| | `AtMostOnePending` | `Spec => []OnePending` |
| | `AcceptanceIsCurrent` | `Spec => AcceptedOnBasis` |
| | `DecisionsStaySafe` | `MCSpec => []DecisionsSafe`, which the next four follow from |
| | `AlertsFollow` | `MCSpec => AlertsFollowCondition` |
| | `SummariesOnlyAdvance` | `MCSpec => SummaryNeverRegresses` |
| | `AdviceAlwaysSafe` | `MCSpec => []AdviceIsSafe` |
| | `RiskAlwaysFollows` | `MCSpec => RiskFollowsStock` |
| | `DecisionsHold` | `MCSpec` implies the six properties above |
| `SessionsProofs` | `AccountsStaySafe` | `Spec => []AccountSafe` |
| | `RefreshTokensRotateOnce` | `Spec => []SessionsAreChains` |
| | `ResetTokensWorkOnce` | `Spec => []OneResetPerIssue` |
| | `AccountTokensWorkOnce` | `Spec => []TokensWorkOnce` |
| `BackOfficeProofs` | `CountingAdjustsStock` | `Takes!Spec => []CountsAdjustStock` |
| | `EditsAreOfTheirRow` | `Shelf!Spec => EditsStartFromWhatTheyRead` |
| | `PartsAreComponents` | `MCSpec` implies the specifications of its three parts |
| | `BackOfficeHolds` | `MCSpec` implies the four safety properties of the run |
| `PlatformProofs` | `HandoverIsWhole` | `Owners!Spec => HandoverLeavesOneOwner` |
| | `StoreSetupHolds` | `Wallet!Spec` and `Pairing!Spec` give `[]SetupHolds` |
| | `RegistrationCodesWorkOnce` | `SignUp!Spec => []CodesWorkOnce` |
| | `DesksKeepRecords` | the four desks' specifications give `[]DeskKeepsRecords` |
| | `PartsAreComponents` | `MCSpec` implies the specifications of its nine parts |
| | `PlatformHolds` | `MCSpec` implies the five safety properties of the run |

### Assumptions

- `ItemAssumption` (ledger): items are numbers, with a largest one (there are finitely many).
- `RequestAssumption` (ledger): a request names an item once, only audits hold several counts for
  one item, and a movement key is bound to one item. `StockLines` is where callers establish
  this, and TLC evaluates it on the requests built there.
- `Sorted`, a hypothesis of `DeadlockFree` only: imports violate it.
- `ChannelAssumption`, `AmountAssumption` (orders): an order has one way of payment, quantities
  and amounts are natural numbers, an order has a line.
- `RevenueAssumption`, `ShareAssumption` (sums of money): a year, a quarter and the forecast's
  window have days, the threshold is positive and there is time to register; amounts, discounts,
  taxes and totals asked for are not negative, and an order has a line.
- `EngineAssumption` (engine): the items, settings, histories and quantities of `MCDecisions` are
  constants. Items have natural amounts and a history that is a non-empty sequence of integers,
  settings are those that `decision-engine.schema.ts` and its consistency check let through
  (`Goods`, `Settings`), quantities are natural numbers; any such sets will do.
- `JobAssumption` (engine): items are finitely many positive numbers, a page has a size.
- `LimitAssumption` (logins, questions): requests are finitely many, since what exceeds a limit
  is counted by how many overlap; limits are natural numbers, that on logins is on.
- `ImportAssumption` (historical sales): rows are numbered; the rows after the first native sale
  are rows of their file.
- `TakesAssumption` (stock takes): goods are finitely many, opening balances are natural numbers.
- `LapseAssumption`, `SessionsAssumption`, `PlatformAssumption`: bounds are natural numbers;
  "nobody", which stands for an empty column, is neither an address nor a store.
- `DaysAssumption`, `ListAssumption` (summaries, list of actions): there is a day; items have
  whole numbers, as have scores, and the list has places.

`Pricing` and `Alerts` need none: prices, users and conditions may be anything. The run gives
`MCDecisions` seven histories of 36 days, two settings, two quantities and one step; the theorems
are about any.

### The arguments

None of the properties is inductive alone; what has to be added is mostly what a request may
still rely on of what it has read.

**Ledger.** That a balance never becomes negative needs that the version a transaction is about
to publish was computed from the row that is still committed, which needs the locks.
`LockDiscipline` says so: a running transaction holds exactly the rows of the lines before its
cursor, and its version of each is the line applied to the *current* committed row. With it,
`Commit` preserves the chain of movements row by row, and keys stay unique because a line checks
its key against all committed rows and its own versions while any other holder of that key would
hold the same row (a key belongs to one item). `DeadlockFree` takes the running transaction
whose next item is the greatest: whoever holds that row waits for a greater one, if at all.
`Serializable` maps `db` and the set of committed transactions to the abstract state: every
action stutters but `Commit`, which is one `Post`; `LockDiscipline` gives that each published row
is the line applied to the committed one, and that the request was postable as a whole at that
instant.

**Orders.** `OrdersSafe` joins the safety properties with `CallsFit` (a call between its read and
its write is about an order of its channel, and a cancellation puts back no more than was sold)
and `NothingOwed` (no payment is pending for an order that was cancelled or deleted). Without
`CallsFit` a step from an unreachable state could settle a counter order; without `NothingOwed`
a settlement could pay an order that is no longer there. `CallsFit` is deliberately weak: it
says nothing about the status the call has read, because the code re-checks only some of it, and
the two violations of section 3 show the rest to be false.

**Sums of money.** A sum is computed by a fold that takes elements in an order nobody chose.
`SumTakesAny` shows that the order does not matter, by a least counterexample among the subsets
of a finite set, so that sums of sequences follow their appends and sums of documents their
recordings; the functions those arguments need are shown to exist (`PartialSumsExist`).
*Shares*: each rounded share misses its exact part by at most one subtotal of the scaled
amounts, so the running error is at most one per share given out (`NearSum`); the last share
takes the rest, hence is exact in the sum and, but for what a client asked to be charged
differently, off by at most one per line. *Books*: each query
of a book is answered from a prefix of the records that holds all there was when the book was
begun, and the cutover it uses was read no earlier; a document that counts in every prefix of
that time is in each of them, and one that counts in none is in no answer (`Whole`,
`AnswersAreComplete`). *Tracker*: the last
active day carries the net of the whole year, so a year that reached the threshold has a day it
crossed on; the days to a forecast date are rounded up, and as many days at the run rate,
rounded to whole units, do reach the threshold (`ReachesByEnd`). *The day stays*: sales and
returns are dated now, and a first sale excludes imports from now on only, so they leave the
ledger of earlier days alone (`Extends`). A cancellation takes a sale out of it, and as long as
the first sale is the same it puts nothing in, so no day's running sum grows (`Withdraws`,
`WithdrawalLowers`) and the crossing is deferred if it moves (`WithdrawalDefers`); imports are
excepted by name.

**Idempotency.** `EffectOnce` counts effects, so its invariant counts what may still run:
`WithinBudget` says that the effects of a key, the attempts running it and one more for a lapsed
record are together no more than the record and its expiries have paid for. `KeyedOnce` is the
unique index, `BodiesAgree` and `FoundOwn` carry the body and the effect an attempt has compared
or found up to the moment it answers.

**Engine jobs.** `RunsTakeTurns`: whoever works on tonight's run holds its lease, and once it has
re-checked the marker no run was completed, unless a run of an earlier date has since overwritten
the marker, which is the exception `NightlyOnce` makes. `RecomputesTakeTurns`: an item has one worker, which has seen no less than the snapshot
shows and no more than was committed. `QueuesKept`: the timer runs exactly if something is pending and nobody drains or is stuck, and
only a flush leaves a drain that is stuck. `DebtsKept`: what was queued before the flush (`due`)
is in the snapshot, or pending, or in the batch of the drain and not read from older sources; and
when the drain that the flush awaits has ended, it is in the snapshot. What comes later may stay
pending, which is why the queue of a process that exits need not be empty.

**Imports.** `GoodsSafe`: one request works on a job at a time, and while it does the job is
COMMITTING, or EXPIRED over it; what the request believes to be undone is what is undone, and
only rows of its chunk are being processed when it applies them. So a chunk that commits is of
rows without effect, also when its answer is lost and it is reported as failed. `SalesSafe`:
every hash in the history was recorded by exactly one row, because the insertion skips hashes
that are there.

**Limits.** `GuardSafe` and `QuestionsSafe` count like `WithinBudget` does: failures (questions
used) and the requests that have passed the check are together less than the limit and the number
of requests, as long as no answer was given blindly. A check passes only below the limit, so one
more request under way never exceeds it.

**Decisions.** *Prices*: `NoneSinceSeen`, an evaluation that read no pending recommendation under
the row lock still has none when it writes one; recommendations only ever cease to be pending
beside it. *Alerts*: `SeenIsThere`, what a synchronisation read is there unless an operator wrote
in between, and no record is active that was never created. *Summaries*: a working rebuild holds
the rows of its days and no row of another's (`RowsApart`), has read no more than was committed
and no less than the rows say (`ReadsTheLatest`), so what it writes is newer than what anybody
wrote before. *Advice*: rounding up to thousands covers what is rounded, whichever way the
division of doubles comes out, so the floor covers the cost and the margin; the limits are taken
last and each is compared with the floor. *Risk*: the scores are piecewise linear in the days of
cover; each piece rises or falls as it should and no step between pieces goes the other way. The
demand is a fold over the history, of which only its being a number matters; that such folds
exist is shown by a least counterexample. *List*: the place of a candidate among those of its
kind decides whether it is listed, so no kind exceeds its share and what is left out has a better
one of its kind before it.

**Sessions.** `OpenedInOrder`: session numbers are given in order, and a rotation under way is of
a session that was opened; so a chain cannot close. `LiveSinceReset`: a live reset token was
issued after the last reset.

**Stock takes and the catalogue.** `LinesMatchAdjustments` needs `ReadsFit`: what a count or a
completion has read is about lines of a take that was begun, and a begun take never gets other
lines, since only a draft starts; and `LinesFit`: lines are of items with a balance, so that the
difference of a counted quantity is a number. That the differing items, as a sequence, are each
there once (`SetAsSequence`) makes a movement's line unique. `Replayed`: the books are the last
element of the sequence of balances that starts from the opening and follows the adjustments, and
there is one such sequence (`OneReplay`); a completed take extends it by its movements, trade
leaves it. `EditsKnowTheirRow`: an edit that
still finds the version it read finds the row it read, because every write of a category moves
the version.

**Around a store.** `StoreSafe` are the types; `OnlyHandoversPromote` and `HandedOverToOne` show
that a new owner can only be the recipient of a handover, which locks and checks it in its last
step. `WalletSafe`: what a save keeps is readable with the present key, since a server that gets
another key forgets its requests. `PairingSafe`: of each store only one session works, in memory
and in the file separately, and where the two differ is remembered as unsaved, unless the last
write broke off. `BellSafe`: a notification that is read has one time of reading, that of the
system none. `SignUpSafe`: two
addresses never hold one code, a code that has passed is held by none, and - counting again - the
stores founded and the requests that may still found one are no more than the codes passed
(`StoresPaidFor`). `TicketSafe`: a resolved ticket has no question after its date, since a reply
writes both. `LeadSafe`: leads are numbered as they come, a merge adds to the lead it found, which
is still there, and so every submission is on one lead. `ConsoleSafe`: one change at a time holds
the setting's row, and its record is the newest. `PartsAreComponents` ties the theorems to the
run: a behaviour of the combined module is a behaviour of each component.

Induction over finite sets, where a proof needs a greatest or a least element, goes through the
strict-subset ordering with `FiniteSetTheorems`, since the prover cannot instantiate the
library's induction rules.

### Model-checked only

- **Liveness** (`EveryTransactionEnds`, `PaidIsSettled`, `QueueDrains`, `StalenessBounded`,
  `ImportEnds`, `KnowledgeSaved`, `LockLifts`, `RecentDaysCatchUp`): the prover handles neither
  fairness nor ENABLED.
- **Normal lines**: what `NormalizeItems` of `StockLines` returns, a recursive function, is
  evaluated on every request built in the runs (`RequestAssumption`).

No module declares a RECURSIVE operator.

### What the proofs found

Failed proofs led to corrections of what was stated, which the bounds of the runs had not
reached; the runs have cases for each since.

- More goods may *lower* the overstock score. The engine takes the demand of a week back from the
  cover it has rounded to a tenth of a day (`risk-evaluator.ts:273`), and asks whether it is five
  units or more; with 0.71 units a day, going from 5 to 6 units in stock moves it below five, and
  the score falls from 94 to 79. `RiskFollowsStock` excepts that case by name
  (`ExpectsUnitsIn`), for the overstock score only.
- The settings allow a minimum margin of 100 % (`decision-engine.schema.ts:29`). The floor is
  then the cost itself (`pricing-evaluator.ts`), and a price rounded to thousands may lie below
  it. `AdviceIsSafe` states the floor for margins below 100 and says what holds at 100.
- With net returns in both windows the trend's ratio of two negative averages is positive, so a
  return can count as a strong rise. No property excludes it.
- Conditions of the formulas that were written as overlapping CASE arms left the choice open in
  TLA+, while the code takes the first; they are IF chains now.

## 5. Plan

Done: the components of the inventory and the proofs of section 4. Next, for the models: the
second factor, two warehouses. For the proofs:
`NormalizeItems` of `StockLines`, which needs induction over the lines of a request.

## 6. Not modelled, and why

- **Second factor** (`two-factor.service.ts`): its state is one JSON value that every use reads
  and saves whole; the race at line 216 is listed as a hazard. It is the next component to model.
- **Tenants**: every query is restricted to a store, and the models are of one store (two in
  `Registration` and `Scanner`). **Warehouses**: one, the default one.
- **Roles, validation, error texts**: they decide who may call, not what a call does.
- **Analytics, reports, exports, audit reads, public pages, uploads, mail and SMS**: they read,
  or talk to services outside; nothing in the database is decided by them.
- **Assistant's content**: prompts, similarity search, wording and the language model are
  external or not deterministic; control flow, quota and saving are modelled.
- **Formulas**: the safety stock needs a square root and is a constant of an item; doubles are
  exact fractions but for the one rounding named above. Layout of tax papers is left out.
- **Infrastructure**: timeouts are nondeterministic rollbacks. Prisma and InnoDB are taken to do
  what their documentation says: snapshot reads, current reads under locks, unique indexes,
  rollback of everything. Cryptography is perfect: a token is its identity.
