---------------------------- MODULE StockLedger ----------------------------
(***************************************************************************)
(* Concurrent ledger transactions over the inventory_balances rows of one  *)
(* warehouse.  Every service that moves stock calls StockLedgerService (or *)
(* repeats its statements) inside a Prisma interactive transaction on      *)
(* MySQL InnoDB, REPEATABLE READ: plain reads see the snapshot taken by the*)
(* transaction's first read, while UPDATE, INSERT and SELECT ... FOR UPDATE*)
(* act on the latest committed row and hold its lock until the transaction *)
(* ends.  A request is the sequence of its lines, already normalised (see  *)
(* StockLines); a line is one step, from its snapshot reads to the insert  *)
(* of its movement, because only its locking write can be interleaved.     *)
(***************************************************************************)
EXTENDS LedgerRules, FiniteSets

CONSTANTS Item,      \* stock item ids
          Tx,        \* transactions (attempts: a retry is another one)
          Request,   \* the requests callers issue, each a sequence of lines
          Key,       \* movement idempotency keys
          NoKey, NoTx,
          Stocked,   \* the items that have a balance row at the start
          Opening    \* their quantities (0 for the others)

Line == [op : Op, item : Item, ns : Seq(Nat) \ {<<>>}, key : Key \cup {NoKey}]

ASSUME ItemAssumption == Item \subseteq Nat /\ \E m \in Item : \A i \in Item : i <= m
ASSUME NameAssumption == NoTx \notin Tx /\ NoKey \notin Key
ASSUME OpeningAssumption ==
    /\ Stocked \subseteq Item
    /\ Opening \in [Item -> Nat]
    /\ \A i \in Item \ Stocked : Opening[i] = 0
(* A request names an item once, only an audit has several counts for one  *)
(* item, and a movement key contains the item it is for, or belongs to a   *)
(* request of a single line.                                               *)
ASSUME RequestAssumption ==
    /\ Request \subseteq Seq(Line) \ {<<>>}
    /\ \A r \in Request : \A j, k \in 1..Len(r) : r[j].item = r[k].item => j = k
    /\ \A r \in Request : \A j \in 1..Len(r) : r[j].op # "audit" => Len(r[j].ns) = 1
    /\ \A r, s \in Request : \A j \in 1..Len(r), k \in 1..Len(s) :
          r[j].key = s[k].key /\ r[j].key # NoKey => r[j].item = s[k].item

VARIABLES db,      \* [Item -> row]: committed balances with their movements
          work,    \* [Item -> row]: the version written by the lock holder
          lock,    \* [Item -> Tx or NoTx]: who holds the row lock
          active,  \* StockItem.isActive
          phase,   \* of each transaction
          req,     \* its request
          pos,     \* its next line
          snap     \* what its first read saw: the rows and the active items

vars == <<db, work, lock, active, phase, req, pos, snap>>

Phase == {"idle", "running", "committed", "rejected", "rolledBack"}

OpeningRow(i) == [present |-> i \in Stocked, quantity |-> Opening[i], moves |-> <<>>]

Nothing == [rows |-> {}, active |-> {}]

Init ==
    /\ db = [i \in Item |-> OpeningRow(i)]
    /\ work = db
    /\ lock = [i \in Item |-> NoTx]
    /\ active = Item
    /\ phase = [t \in Tx |-> "idle"]
    /\ req = [t \in Tx |-> <<>>]
    /\ pos = [t \in Tx |-> 1]
    /\ snap = [t \in Tx |-> Nothing]

Running(t) == phase[t] = "running"
NextLine(t) == req[t][pos[t]]

(* The latest version of every row as the unique index and the writes of t *)
(* see it: its own where it holds the lock, else the committed one.        *)
Seen(t) == [i \in Item |-> IF lock[i] = t THEN work[i] ELSE db[i]]

(* The item of the line is gone or inactive in the snapshot: found out     *)
(* before the row is touched, and not looked at by a stock take.           *)
Inactive(t, line) == line.op # "take" /\ line.item \notin snap[t].active

(* The next line fails: its item is inactive, the conditional decrement    *)
(* matches no row, an upsert whose read found no row inserts one that now  *)
(* exists (P2002), or the movement repeats an idempotency key (P2002).     *)
Fails(t, line) ==
    \/ Inactive(t, line)
    \/ ~Sufficient(line, db[line.item])
    \/ /\ line.op # "deduct"
       /\ line.item \notin snap[t].rows
       /\ db[line.item].present
    \/ ~KeyFree(Seen(t), line, NoKey)

(* Mutants of End: the locks of an ended transaction stay; its cursor is   *)
(* cleared to 0.                                                           *)
EndHoldingLocks(t, outcome) ==
    /\ phase' = [phase EXCEPT ![t] = outcome]
    /\ pos' = [pos EXCEPT ![t] = 1]
    /\ snap' = [snap EXCEPT ![t] = Nothing]
    /\ UNCHANGED <<lock, active, req>>

EndAtZero(t, outcome) ==
    /\ phase' = [phase EXCEPT ![t] = outcome]
    /\ lock' = [i \in Item |-> IF lock[i] = t THEN NoTx ELSE lock[i]]
    /\ pos' = [pos EXCEPT ![t] = 0]
    /\ snap' = [snap EXCEPT ![t] = Nothing]
    /\ UNCHANGED <<active, req>>

(* The end of t: its locks are released and its context is gone.           *)
End(t, outcome) ==
    /\ phase' = [phase EXCEPT ![t] = outcome]
    /\ lock' = [i \in Item |-> IF lock[i] = t THEN NoTx ELSE lock[i]]
    /\ pos' = [pos EXCEPT ![t] = 1]
    /\ snap' = [snap EXCEPT ![t] = Nothing]
    /\ UNCHANGED <<active, req>>

(* Mutants of Undo: the lines applied so far are committed (each statement *)
(* in a transaction of its own); the dropped version stays visible.        *)
UndoPublishing(t) == db' = Seen(t) /\ UNCHANGED work
UndoLeavingVersion(t) == UNCHANGED <<db, work>>

Undo(t) ==
    /\ work' = [i \in Item |-> IF lock[i] = t THEN db[i] ELSE work[i]]
    /\ UNCHANGED db

Begin(t, r) ==
    /\ phase[t] = "idle"
    /\ phase' = [phase EXCEPT ![t] = "running"]
    /\ req' = [req EXCEPT ![t] = r]
    /\ snap' = [snap EXCEPT ![t] = [rows |-> {i \in Item : db[i].present}, active |-> active]]
    /\ UNCHANGED <<db, work, lock, active, pos>>

Apply(t) ==
    /\ Running(t)
    /\ pos[t] <= Len(req[t])
    /\ LET line == NextLine(t) IN
       /\ lock[line.item] = NoTx
       /\ ~Fails(t, line)
       /\ lock' = [lock EXCEPT ![line.item] = t]
       /\ work' = [work EXCEPT ![line.item] = Written(t, line, db[line.item])]
    /\ pos' = [pos EXCEPT ![t] = @ + 1]
    /\ UNCHANGED <<db, active, phase, req, snap>>

Reject(t) ==
    /\ Running(t)
    /\ pos[t] <= Len(req[t])
    /\ Inactive(t, NextLine(t)) \/ lock[NextLine(t).item] = NoTx
    /\ Fails(t, NextLine(t))
    /\ Undo(t)
    /\ End(t, "rejected")

Commit(t) ==
    /\ Running(t)
    /\ pos[t] > Len(req[t])
    /\ db' = Seen(t)
    /\ UNCHANGED work
    /\ End(t, "committed")

(* The transaction timeout, a lost connection, a deadlock victim, a crash  *)
(* of the process: the database undoes the transaction.                    *)
RollBack(t) ==
    /\ Running(t)
    /\ Undo(t)
    /\ End(t, "rolledBack")

(* A product is archived or reactivated (product.service.ts). *)
SetActive(i) ==
    /\ active' = IF i \in active THEN active \ {i} ELSE active \cup {i}
    /\ UNCHANGED <<db, work, lock, phase, req, pos, snap>>

Advance(t) == Apply(t) \/ Reject(t) \/ Commit(t)

Next ==
    \/ \E t \in Tx : (\E r \in Request : Begin(t, r)) \/ Advance(t) \/ RollBack(t)
    \/ \E i \in Item : SetActive(i)

Spec == Init /\ [][Next]_vars
FairSpec == Spec /\ \A t \in Tx : WF_vars(Advance(t))
-----------------------------------------------------------------------------
(* Types.  A row that does not exist has no quantity and no history.       *)
MovementType == [tx : Tx, key : Key \cup {NoKey}, delta : Int, before : Int, after : Int]
Row == [present : BOOLEAN, quantity : Int, moves : Seq(MovementType)]

TypeOK ==
    /\ db \in [Item -> Row]
    /\ work \in [Item -> Row]
    /\ lock \in [Item -> Tx \cup {NoTx}]
    /\ active \in SUBSET Item
    /\ phase \in [Tx -> Phase]
    /\ req \in [Tx -> Request \cup {<<>>}]
    /\ pos \in [Tx -> Nat \ {0}]
    /\ snap \in [Tx -> [rows : SUBSET Item, active : SUBSET Item]]

(* INV-001: no interleaving of transactions takes more than there is, and  *)
(* a row that was never written is worth nothing.                          *)
NoOversell ==
    \A i \in Item : db[i].quantity >= 0 /\ (~db[i].present => db[i].quantity = 0)

(* INV-002: the movements of a row are an unbroken account of its balance: *)
(* each starts where the one before it ended, the first at the opening     *)
(* quantity, and the last ends at the quantity of the row.                 *)
Chained(row, opening) ==
    /\ \A m \in 1..Len(row.moves) : row.moves[m].after = row.moves[m].before + row.moves[m].delta
    /\ \A m \in 2..Len(row.moves) : row.moves[m].before = row.moves[m - 1].after
    /\ row.moves = <<>> => row.quantity = opening
    /\ row.moves # <<>> => /\ row.moves[1].before = opening
                           /\ row.moves[Len(row.moves)].after = row.quantity

LedgerExplainsBalance == \A i \in Item : Chained(db[i], Opening[i])

(* Row locks and uncommitted versions belong together: a running           *)
(* transaction holds exactly the rows of the lines it has applied, and its *)
(* version of each is its line applied to a committed row nobody else can  *)
(* change before it ends; a row without a holder has no other version.     *)
HeldByRunning(i) ==
    /\ lock[i] = NoTx => work[i] = db[i]
    /\ lock[i] # NoTx => /\ Running(lock[i])
                        /\ \E j \in 1..Len(req[lock[i]]) : req[lock[i]][j].item = i
HoldsItsLines(t) ==
    /\ req[t] \in Request
    /\ pos[t] <= Len(req[t]) + 1
    /\ \A j \in 1..Len(req[t]) :
          LET i == req[t][j].item IN
          /\ lock[i] = t <=> j < pos[t]
          /\ j < pos[t] => /\ work[i] = Written(t, req[t][j], db[i])
                           /\ Sufficient(req[t][j], db[i])
LockDiscipline ==
    /\ \A i \in Item : HeldByRunning(i)
    /\ \A t \in Tx : Running(t) => HoldsItsLines(t)

(* IDE-001: a request that carries a key takes effect once, however many   *)
(* attempts are made and however they overlap (a count that confirms the   *)
(* balance has no effect to repeat).                                       *)
RetryPostsOnce ==
    \A t, u \in Tx :
        /\ t # u
        /\ phase[t] = "committed"
        /\ phase[u] = "committed"
        => \A j \in 1..Len(req[t]), k \in 1..Len(req[u]) :
              req[t][j].key = req[u][k].key /\ req[t][j].key # NoKey
              => req[t][j].op \in {"count", "take"} \/ req[u][k].op \in {"count", "take"}

(* A running transaction waits when the row of its next line is held by    *)
(* another one.                                                            *)
Blocked(t) ==
    /\ Running(t)
    /\ pos[t] <= Len(req[t])
    /\ ~Inactive(t, NextLine(t))
    /\ lock[NextLine(t).item] \notin {t, NoTx}

(* The lines of every request come in ascending order of item: what        *)
(* normalizeItems, the sort of an audit and the orderBy of a stock take    *)
(* are for ("to strictly eliminate deadlock risks").                       *)
Sorted == \A r \in Request : \A j, k \in 1..Len(r) : j < k => r[j].item < r[k].item

(* Row locks never leave every running transaction waiting for another.    *)
NoGridlock == (\E t \in Tx : Running(t)) => \E t \in Tx : Running(t) /\ ~Blocked(t)

(* Every transaction comes to an end by itself: no timeout is needed.      *)
EveryTransactionEnds == \A t \in Tx : Running(t) ~> ~Running(t)

(* The ledger implements the serial one: nothing of a transaction is       *)
(* visible before its commit, and then all of it at once.                  *)
Serial == INSTANCE SerialLedger WITH stock <- db, posted <- {t \in Tx : phase[t] = "committed"}
SerialSpec == Serial!SSpec
=============================================================================
