-------------------------- MODULE StockLedgerProofs --------------------------
(***************************************************************************)
(* What holds of the ledger for every set of items, transactions and       *)
(* requests, and that it implements the serial ledger.                     *)
(***************************************************************************)
EXTENDS StockLedger, SequenceTheorems, WellFoundedInduction, TLAPS

(* A line as RequestAssumption allows it.                                  *)
GoodLine == {l \in Line : l.op # "audit" => Len(l.ns) = 1}

(* The lines of a request are well formed.                                 *)
LEMMA LineOfRequest ==
    ASSUME NEW r \in Request, NEW j \in 1..Len(r)
    PROVE  r[j] \in GoodLine
<1>1. r \in Seq(Line)
  BY RequestAssumption
<1> QED
  BY <1>1, RequestAssumption DEF GoodLine

(* The count before a count that is not the first.                         *)
LEMMA PredecessorIndex ==
    \A n \in Nat : \A k \in 1..n : k # 1 => n # 1 /\ k - 1 \in 1..n
OBVIOUS

(* The numbers of a movement are integers.                                 *)
LEMMA BeforeDelta ==
    ASSUME NEW l \in GoodLine, NEW row \in Row, NEW k \in 1..Len(l.ns)
    PROVE  /\ Len(l.ns) \in Nat \ {0}
           /\ Before(l, row, k) \in Int
           /\ Delta(l, row, k) \in Int
<1>1. l.ns \in Seq(Nat) /\ l.ns # <<>> /\ l.op \in Op /\ row.quantity \in Int
  BY DEF GoodLine, Line, Row
<1>2. Len(l.ns) \in Nat \ {0}
  BY <1>1
<1>3. l.ns[k] \in Nat /\ (k # 1 => l.ns[k - 1] \in Nat)
  BY <1>1
<1>4. Before(l, row, k) \in Int
  BY <1>1, <1>3 DEF Before
<1>5. Delta(l, row, k) \in Int
  BY <1>1, <1>3, <1>4 DEF Delta, Op
<1> QED
  BY <1>2, <1>4, <1>5

(* The movements of a line, one for each of its counts.                    *)
LEMMA MovementsType ==
    ASSUME NEW t \in Tx, NEW l \in GoodLine, NEW row \in Row
    PROVE  /\ Movements(t, l, row) \in Seq(MovementType)
           /\ ~Silent(l, row) => /\ Len(Movements(t, l, row)) = Len(l.ns)
                                 /\ \A k \in 1..Len(l.ns) :
                                      Movements(t, l, row)[k] = Movement(t, l, row, k)
           /\ Silent(l, row) => Movements(t, l, row) = <<>>
<1>1. CASE Silent(l, row)
  BY <1>1 DEF Movements
<1>2. CASE ~Silent(l, row)
  <2>1. Len(l.ns) \in Nat
    BY DEF GoodLine, Line
  <2>2. ASSUME NEW k \in 1..Len(l.ns)
        PROVE  Movement(t, l, row, k) \in MovementType
    <3>1. Before(l, row, k) \in Int /\ Delta(l, row, k) \in Int
      BY BeforeDelta
    <3>2. l.key \in Key \cup {NoKey}
      BY DEF GoodLine, Line
    <3> QED
      BY <3>1, <3>2 DEF Movement, MovementType
  <2>3. Movements(t, l, row) = [k \in 1..Len(l.ns) |-> Movement(t, l, row, k)]
    BY <1>2 DEF Movements
  <2> QED
    BY <1>2, <2>1, <2>2, <2>3
<1> QED
  BY <1>1, <1>2

(* A line leaves a row of the right type, takes no more than there is and  *)
(* extends the account of the balance by movements that fit on its end.    *)
LEMMA WrittenRow ==
    ASSUME NEW t \in Tx, NEW l \in GoodLine, NEW row \in Row
    PROVE  Written(t, l, row) \in Row
<1>1. Movements(t, l, row) \in Seq(MovementType) /\ row.moves \in Seq(MovementType)
  BY MovementsType DEF Row
<1>2. Len(l.ns) \in 1..Len(l.ns)
  BY DEF GoodLine, Line
<1>3. /\ Before(l, row, Len(l.ns)) \in Int
      /\ Delta(l, row, Len(l.ns)) \in Int
  BY <1>2, BeforeDelta
<1> QED
  BY <1>1, <1>3 DEF Written, Row

(* A line that is not refused leaves no negative balance.                  *)
LEMMA WrittenQuantity ==
    ASSUME NEW t \in Tx, NEW l \in GoodLine, NEW row \in Row,
           row.quantity >= 0, Sufficient(l, row)
    PROVE  Written(t, l, row).quantity >= 0
<1>1. l.ns \in Seq(Nat) /\ l.ns # <<>> /\ l.op \in Op /\ row.quantity \in Int
  BY DEF GoodLine, Line, Row
<1>2. l.ns[Len(l.ns)] \in Nat /\ Len(l.ns) \in 1..Len(l.ns)
  BY <1>1
<1>3. Before(l, row, Len(l.ns)) \in Int
  BY <1>2, BeforeDelta
<1>4. Before(l, row, Len(l.ns)) >= 0
  <2>1. CASE Len(l.ns) = 1
    BY <2>1 DEF Before
  <2>2. CASE Len(l.ns) # 1
    <3>1. Len(l.ns) - 1 \in 1..Len(l.ns)
      <4>1. Len(l.ns) \in Nat /\ Len(l.ns) \in 1..Len(l.ns)
        BY <1>1, <1>2
      <4> QED
        BY <2>2, <4>1, PredecessorIndex
    <3>2. l.ns[Len(l.ns) - 1] \in Nat
      BY <1>1, <3>1, ElementOfSeq
    <3> QED
      BY <2>2, <3>2 DEF Before
  <2> QED
    BY <2>1, <2>2
<1>5. CASE l.op = "deduct"
  <2>1. Len(l.ns) = 1
    BY <1>5 DEF GoodLine
  <2> QED
    BY <1>1, <1>2, <1>5, <2>1 DEF Written, Before, Delta, Sufficient
<1>6. CASE l.op # "deduct"
  BY <1>1, <1>2, <1>3, <1>4, <1>6 DEF Written, Delta, Op
<1> QED
  BY <1>5, <1>6

(* The k-th new movement starts where its predecessor ended.               *)
LEMMA MovementsFit ==
    ASSUME NEW t \in Tx, NEW l \in GoodLine, NEW row \in Row, ~Silent(l, row),
           NEW k \in 1..Len(l.ns)
    PROVE  /\ Movement(t, l, row, k).after = Movement(t, l, row, k).before + Movement(t, l, row, k).delta
           /\ k = 1 => Movement(t, l, row, k).before = row.quantity
           /\ k # 1 => Movement(t, l, row, k).before = Movement(t, l, row, k - 1).after
           /\ k = Len(l.ns) => Movement(t, l, row, k).after = Written(t, l, row).quantity
<1>1. k # 1 => l.op = "audit" /\ k - 1 \in 1..Len(l.ns)
  <2>1. Len(l.ns) \in Nat /\ (l.op # "audit" => Len(l.ns) = 1)
    BY DEF GoodLine, Line
  <2> QED
    BY <2>1, PredecessorIndex
<1>2. Before(l, row, k) \in Int /\ Delta(l, row, k) \in Int
  BY BeforeDelta
<1>3. k # 1 => Before(l, row, k - 1) \in Int /\ l.ns[k - 1] \in Int
  <2>1. l.ns \in Seq(Nat)
    BY DEF GoodLine, Line
  <2> QED
    BY <1>1, <2>1, BeforeDelta
<1>4. k # 1 => Movement(t, l, row, k - 1).after = l.ns[k - 1]
  BY <1>1, <1>3 DEF Movement, Delta
<1>5. k # 1 => Movement(t, l, row, k).before = l.ns[k - 1]
  BY <1>1 DEF Movement, Before
<1> QED
  BY <1>2, <1>4, <1>5 DEF Movement, Before, Written

(* The movements of a line prolong the chain of its row.                   *)
LEMMA WrittenChained ==
    ASSUME NEW t \in Tx, NEW l \in GoodLine, NEW row \in Row, NEW opening \in Int,
           Chained(row, opening)
    PROVE  Chained(Written(t, l, row), opening)
<1> DEFINE old == row.moves
           new == Movements(t, l, row)
           all == Written(t, l, row).moves
<1>1. old \in Seq(MovementType) /\ new \in Seq(MovementType) /\ all = old \o new
  BY MovementsType DEF Row, Written
<1>2. CASE Silent(l, row)
  <2>1. all = old
    BY <1>1, <1>2, MovementsType
  <2>2. Len(l.ns) = 1 /\ row.quantity \in Int
    BY <1>2 DEF Silent, GoodLine, Row
  <2>3. Written(t, l, row).quantity = row.quantity
    BY <1>2, <2>2, BeforeDelta DEF Silent, Written, Before
  <2> QED
    BY <2>1, <2>3 DEF Chained
<1>3. CASE ~Silent(l, row)
  <2> DEFINE n == Len(l.ns)
             o == Len(old)
  <2>1. n \in Nat \ {0} /\ o \in Nat
    BY <1>1 DEF GoodLine, Line
  <2>2. Len(new) = n /\ \A k \in 1..n : new[k] = Movement(t, l, row, k)
    BY <1>3, MovementsType
  <2>3. /\ Len(all) = o + n
        /\ \A m \in 1..(o + n) : all[m] = IF m <= o THEN old[m] ELSE new[m - o]
    <3>1. Len(new) = n
      BY <2>2
    <3>2. /\ Len(old \o new) = Len(old) + Len(new)
          /\ \A m \in 1..(Len(old) + Len(new)) :
                (old \o new)[m] = IF m <= Len(old) THEN old[m] ELSE new[m - Len(old)]
      <4> HIDE DEF old, new, n, o
      <4> QED
        BY <1>1, ConcatProperties
    <3> QED
      BY <1>1, <3>1, <3>2
  <2>a. \A k \in 1..n :
          /\ Movement(t, l, row, k).after = Movement(t, l, row, k).before + Movement(t, l, row, k).delta
          /\ k = 1 => Movement(t, l, row, k).before = row.quantity
          /\ k # 1 => Movement(t, l, row, k).before = Movement(t, l, row, k - 1).after
          /\ k = n => Movement(t, l, row, k).after = Written(t, l, row).quantity
    BY <1>3, MovementsFit
  <2>b. /\ \A m \in 1..o : old[m].after = old[m].before + old[m].delta
        /\ \A m \in 2..o : old[m].before = old[m - 1].after
        /\ o = 0 => row.quantity = opening
        /\ o # 0 => old[1].before = opening /\ old[o].after = row.quantity
    BY <1>1 DEF Chained
  <2> HIDE DEF n, o
  <2>4. \A m \in 1..(o + n) : m > o => m - o \in 1..n /\ all[m] = Movement(t, l, row, m - o)
    BY <2>1, <2>2, <2>3
  <2>5. \A m \in 1..(o + n) : all[m].after = all[m].before + all[m].delta
    <3> TAKE m \in 1..(o + n)
    <3>1. CASE m <= o
      <4>1. m \in 1..o /\ all[m] = old[m]
        BY <2>1, <2>3, <3>1
      <4> QED
        BY <2>b, <4>1
    <3>2. CASE m > o
      BY <2>4, <2>a, <3>2
    <3> QED
      BY <2>1, <3>1, <3>2
  <2>6. \A m \in 2..(o + n) : all[m].before = all[m - 1].after
    <3> TAKE m \in 2..(o + n)
    <3>0. m \in 1..(o + n) /\ m - 1 \in 1..(o + n)
      BY <2>1
    <3>1. CASE m <= o
      <4>1. m \in 2..o /\ m - 1 <= o
        BY <2>1, <3>1
      <4> QED
        BY <2>3, <2>b, <3>0, <3>1, <4>1
    <3>2. CASE m = o + 1
      <4>1. m > o /\ m - o = 1 /\ m - 1 = o /\ o # 0
        BY <2>1, <3>2
      <4>2. all[m].before = row.quantity
        BY <2>4, <2>a, <3>0, <4>1
      <4>3. all[m - 1] = old[o]
        <5>1. o \in 1..(o + n) /\ o <= o
          BY <2>1, <4>1
        <5> QED
          BY <2>3, <4>1, <5>1
      <4> QED
        BY <2>b, <4>1, <4>2, <4>3
    <3>3. CASE m > o + 1
      <4>1. m > o /\ m - 1 > o /\ m - o # 1 /\ (m - 1) - o = (m - o) - 1
        BY <2>1, <3>3
      <4>2. /\ m - o \in 1..n
            /\ all[m] = Movement(t, l, row, m - o)
            /\ all[m - 1] = Movement(t, l, row, (m - o) - 1)
        BY <2>4, <3>0, <4>1
      <4> QED
        BY <2>a, <4>1, <4>2
    <3> QED
      BY <2>1, <3>1, <3>2, <3>3
  <2>7. all[o + n].after = Written(t, l, row).quantity
    <3>1. o + n \in 1..(o + n) /\ o + n > o /\ (o + n) - o = n
      BY <2>1
    <3> QED
      BY <2>4, <2>a, <3>1
  <2>8. all[1].before = opening
    <3>0. 1 \in 1..(o + n)
      BY <2>1
    <3>1. CASE o = 0
      BY <2>1, <2>4, <2>a, <2>b, <3>0, <3>1
    <3>2. CASE o # 0
      BY <2>1, <2>3, <2>b, <3>0, <3>2
    <3> QED
      BY <3>1, <3>2
  <2>9. all # <<>> /\ Len(all) = o + n
    <3>1. all \in Seq(MovementType)
      BY <1>1, ConcatProperties
    <3> QED
      BY <2>1, <2>3, <3>1, EmptySeq
  <2> QED
    BY <2>5, <2>6, <2>7, <2>8, <2>9 DEF Chained
<1> QED
  BY <1>2, <1>3
-----------------------------------------------------------------------------
(* The line a running transaction comes to is a line of its request.       *)
LEMMA NextLineGood ==
    ASSUME TypeOK, NEW t \in Tx, pos[t] <= Len(req[t])
    PROVE  /\ req[t] \in Request
           /\ pos[t] \in 1..Len(req[t])
           /\ NextLine(t) \in GoodLine
           /\ NextLine(t).item \in Item
<1>1. req[t] \in Request \cup {<<>>} /\ pos[t] \in Nat \ {0}
  BY DEF TypeOK
<1>2. req[t] \in Request
  BY <1>1, Len(<<>>) = 0
<1>3. Len(req[t]) \in Nat
  BY <1>2, RequestAssumption
<1>4. pos[t] \in 1..Len(req[t])
  BY <1>1, <1>3
<1>5. NextLine(t) \in GoodLine
  BY <1>2, <1>4, LineOfRequest DEF NextLine
<1> QED
  BY <1>2, <1>4, <1>5 DEF GoodLine, Line

(* The initial state has its types.                                        *)
LEMMA InitType == Init => TypeOK
<1> SUFFICES ASSUME Init PROVE TypeOK
  OBVIOUS
<1>1. \A i \in Item : OpeningRow(i) \in Row
  BY OpeningAssumption DEF OpeningRow, Row
<1> QED
  BY <1>1 DEF Init, TypeOK, Phase, Nothing

(* A transaction that ends keeps the types.                                *)
LEMMA EndType ==
    ASSUME TypeOK, NEW t \in Tx, NEW outcome \in Phase, End(t, outcome)
    PROVE  /\ lock' \in [Item -> Tx \cup {NoTx}]
           /\ active' \in SUBSET Item
           /\ phase' \in [Tx -> Phase]
           /\ req' \in [Tx -> Request \cup {<<>>}]
           /\ pos' \in [Tx -> Nat \ {0}]
           /\ snap' \in [Tx -> [rows : SUBSET Item, active : SUBSET Item]]
BY DEF TypeOK, End, Nothing

(* Every step keeps the types.                                             *)
LEMMA NextType == TypeOK /\ [Next]_vars => TypeOK'
<1> SUFFICES ASSUME TypeOK, [Next]_vars PROVE TypeOK'
  OBVIOUS
<1>1. ASSUME NEW t \in Tx, NEW r \in Request, Begin(t, r) PROVE TypeOK'
  BY <1>1 DEF TypeOK, Begin, Phase
<1>2. ASSUME NEW t \in Tx, Apply(t) PROVE TypeOK'
  <2> DEFINE line == NextLine(t)
  <2>1. line \in GoodLine /\ line.item \in Item
    BY <1>2, NextLineGood DEF Apply
  <2>2. Written(t, line, db[line.item]) \in Row
    BY <2>1, WrittenRow DEF TypeOK
  <2>3. work' \in [Item -> Row] /\ lock' \in [Item -> Tx \cup {NoTx}]
    BY <1>2, <2>1, <2>2 DEF TypeOK, Apply
  <2>4. pos' \in [Tx -> Nat \ {0}]
    BY <1>2 DEF TypeOK, Apply
  <2> QED
    BY <1>2, <2>3, <2>4 DEF TypeOK, Apply
<1>3. ASSUME NEW t \in Tx, Reject(t) PROVE TypeOK'
  <2>1. db' \in [Item -> Row] /\ work' \in [Item -> Row]
    BY <1>3 DEF TypeOK, Reject, Undo
  <2> QED
    BY <1>3, <2>1, EndType DEF TypeOK, Reject, Phase
<1>4. ASSUME NEW t \in Tx, Commit(t) PROVE TypeOK'
  <2>1. db' \in [Item -> Row] /\ work' \in [Item -> Row]
    BY <1>4 DEF TypeOK, Commit, Seen
  <2> QED
    BY <1>4, <2>1, EndType DEF TypeOK, Commit, Phase
<1>5. ASSUME NEW t \in Tx, RollBack(t) PROVE TypeOK'
  <2>1. db' \in [Item -> Row] /\ work' \in [Item -> Row]
    BY <1>5 DEF TypeOK, RollBack, Undo
  <2> QED
    BY <1>5, <2>1, EndType DEF TypeOK, RollBack, Phase
<1>6. ASSUME NEW i \in Item, SetActive(i) PROVE TypeOK'
  BY <1>6 DEF TypeOK, SetActive
<1>7. CASE UNCHANGED vars
  BY <1>7 DEF TypeOK, vars
<1> QED
  BY <1>1, <1>2, <1>3, <1>4, <1>5, <1>6, <1>7 DEF Next, Advance

(* Every variable keeps its type.                                          *)
THEOREM TypeCorrect == Spec => []TypeOK
BY InitType, NextType, PTL DEF Spec
-----------------------------------------------------------------------------
(* The inductive invariant behind the safety theorems.                     *)
AtFirstLine == \A t \in Tx : ~Running(t) => pos[t] = 1
Inv == TypeOK /\ AtFirstLine /\ LockDiscipline /\ NoOversell /\ LedgerExplainsBalance

(* The initial state satisfies the invariant.                              *)
LEMMA InitInv == Init => Inv
<1> SUFFICES ASSUME Init PROVE Inv
  OBVIOUS
<1>1. TypeOK
  BY InitType
<1>2. LockDiscipline
  BY NameAssumption DEF Init, LockDiscipline, HeldByRunning, Running
<1>a. AtFirstLine
  BY DEF Init, AtFirstLine
<1>3. \A i \in Item : OpeningRow(i).quantity \in Nat /\ (~OpeningRow(i).present => OpeningRow(i).quantity = 0)
  BY OpeningAssumption DEF OpeningRow
<1>4. NoOversell
  BY <1>3 DEF Init, NoOversell
<1>5. \A i \in Item : Chained(OpeningRow(i), Opening[i])
  <2>1. Len(<<>>) = 0
    OBVIOUS
  <2> QED
    BY <2>1 DEF OpeningRow, Chained
<1>6. LedgerExplainsBalance
  BY <1>5 DEF Init, LedgerExplainsBalance
<1> QED
  BY <1>1, <1>2, <1>4, <1>6, <1>a DEF Inv

(* Undoing t: only its own rows change, back to their committed version.   *)
LEMMA UndoInv ==
    ASSUME Inv, NEW t \in Tx, Running(t), Undo(t),
           NEW outcome \in {"rejected", "rolledBack"}, End(t, outcome)
    PROVE  LockDiscipline'
<1> USE DEF Inv
<1>1. \A u \in Tx : u # t => phase'[u] = phase[u] /\ pos'[u] = pos[u]
  BY DEF End, TypeOK
<1>2. ~Running(t)'
  BY DEF End, TypeOK, Running
<1>3. req' = req /\ db' = db
  BY DEF End, Undo
<1>4. \A i \in Item : /\ lock'[i] = (IF lock[i] = t THEN NoTx ELSE lock[i])
                      /\ work'[i] = (IF lock[i] = t THEN db[i] ELSE work[i])
  BY DEF End, Undo
<1>5. ASSUME NEW i \in Item
      PROVE  HeldByRunning(i)'
  <2>1. lock[i] \in Tx \cup {NoTx}
    BY DEF TypeOK
  <2> QED
    BY <1>1, <1>3, <1>4, <2>1, NameAssumption DEF LockDiscipline, HeldByRunning, Running
<1>6. ASSUME NEW u \in Tx, Running(u)'
      PROVE  HoldsItsLines(u)'
  <2>1. u # t /\ Running(u)
    BY <1>1, <1>2, <1>6 DEF Running
  <2>2. req[u] \in Request /\ pos[u] <= Len(req[u]) + 1
    BY <2>1 DEF LockDiscipline, HoldsItsLines
  <2>3. ASSUME NEW j \in 1..Len(req[u])
        PROVE  LET i == req[u][j].item IN
                  /\ lock'[i] = u <=> j < pos[u]
                  /\ j < pos[u] => /\ work'[i] = Written(u, req[u][j], db[i])
                                   /\ Sufficient(req[u][j], db[i])
    <3>1. req[u][j].item \in Item
      BY <2>2, LineOfRequest DEF GoodLine, Line
    <3> QED
      BY <1>4, <2>1, <3>1, NameAssumption DEF LockDiscipline, HoldsItsLines
  <2> QED
    BY <1>1, <1>3, <2>1, <2>2, <2>3 DEF HoldsItsLines
<1> QED
  BY <1>5, <1>6 DEF LockDiscipline

(* A commit keeps the lock discipline of the others.                       *)
LEMMA CommitInv ==
    ASSUME Inv, NEW t \in Tx, Commit(t)
    PROVE  LockDiscipline'
<1> USE DEF Inv
<1>1. \A u \in Tx : u # t => phase'[u] = phase[u] /\ pos'[u] = pos[u]
  BY DEF Commit, End, TypeOK
<1>2. ~Running(t)'
  BY DEF Commit, End, TypeOK, Running
<1>3. req' = req /\ work' = work
  BY DEF Commit, End
<1>4. \A i \in Item : /\ lock'[i] = (IF lock[i] = t THEN NoTx ELSE lock[i])
                      /\ db'[i] = (IF lock[i] = t THEN work[i] ELSE db[i])
  BY DEF Commit, End, Seen
<1>5. ASSUME NEW i \in Item
      PROVE  HeldByRunning(i)'
  <2>1. lock[i] \in Tx \cup {NoTx}
    BY DEF TypeOK
  <2> QED
    BY <1>1, <1>3, <1>4, <2>1, NameAssumption DEF LockDiscipline, HeldByRunning, Running
<1>6. ASSUME NEW u \in Tx, Running(u)'
      PROVE  HoldsItsLines(u)'
  <2>1. u # t /\ Running(u)
    BY <1>1, <1>2, <1>6 DEF Running
  <2>2. req[u] \in Request /\ pos[u] <= Len(req[u]) + 1
    BY <2>1 DEF LockDiscipline, HoldsItsLines
  <2>3. ASSUME NEW j \in 1..Len(req[u])
        PROVE  LET i == req[u][j].item IN
                  /\ lock'[i] = u <=> j < pos[u]
                  /\ j < pos[u] => /\ work[i] = Written(u, req[u][j], db'[i])
                                   /\ Sufficient(req[u][j], db'[i])
    <3>1. req[u][j].item \in Item
      BY <2>2, LineOfRequest DEF GoodLine, Line
    <3> QED
      BY <1>4, <2>1, <3>1, NameAssumption DEF LockDiscipline, HoldsItsLines
  <2> QED
    BY <1>1, <1>3, <2>1, <2>2, <2>3 DEF HoldsItsLines
<1> QED
  BY <1>5, <1>6 DEF LockDiscipline

(* A line applied keeps the lock discipline.                               *)
LEMMA ApplyInv ==
    ASSUME Inv, NEW t \in Tx, Apply(t)
    PROVE  LockDiscipline'
<1> USE DEF Inv
<1> DEFINE p == pos[t]
           line == req[t][p]
           x == line.item
<1>1. Running(t) /\ req[t] \in Request /\ p \in 1..Len(req[t]) /\ x \in Item
  BY NextLineGood DEF Apply, NextLine
<1>2. /\ lock[x] = NoTx /\ Sufficient(line, db[x])
      /\ \A i \in Item : lock'[i] = IF i = x THEN t ELSE lock[i]
      /\ \A i \in Item : work'[i] = IF i = x THEN Written(t, line, db[x]) ELSE work[i]
      /\ pos'[t] = p + 1
      /\ \A u \in Tx : u # t => pos'[u] = pos[u]
      /\ UNCHANGED <<db, phase, req>>
  <2>1. ~Fails(t, line)
    BY DEF Apply, NextLine
  <2> QED
    BY <1>1, <2>1 DEF Apply, NextLine, TypeOK, Fails
<1>3. \A u \in Tx : Running(u)' <=> Running(u)
  BY <1>2 DEF Running
<1>4. ASSUME NEW i \in Item
      PROVE  HeldByRunning(i)'
  <2>1. CASE i = x
    BY <1>1, <1>2, <1>3, <2>1, NameAssumption DEF HeldByRunning
  <2>2. CASE i # x
    <3>1. lock[i] \in Tx \cup {NoTx}
      BY DEF TypeOK
    <3> QED
      BY <1>2, <1>3, <2>2, <3>1 DEF LockDiscipline, HeldByRunning
  <2> QED
    BY <2>1, <2>2
<1>5. ASSUME NEW u \in Tx, Running(u)'
      PROVE  HoldsItsLines(u)'
  <2>1. Running(u) /\ req[u] \in Request /\ pos[u] <= Len(req[u]) + 1 /\ Len(req[u]) \in Nat
    BY <1>3, <1>5, RequestAssumption DEF LockDiscipline, HoldsItsLines
  <2>2. pos[u] \in Nat /\ p \in Nat
    BY DEF TypeOK
  <2>3. pos'[u] <= Len(req[u]) + 1
    BY <1>1, <1>2, <2>1, <2>2
  <2>4. ASSUME NEW j \in 1..Len(req[u])
        PROVE  LET i == req[u][j].item IN
                  /\ lock'[i] = u <=> j < pos'[u]
                  /\ j < pos'[u] => /\ work'[i] = Written(u, req[u][j], db[i])
                                    /\ Sufficient(req[u][j], db[i])
    <3> DEFINE i == req[u][j].item
    <3>1. i \in Item
      BY <2>1, LineOfRequest DEF GoodLine, Line
    <3>2. /\ lock[i] = u <=> j < pos[u]
          /\ j < pos[u] => work[i] = Written(u, req[u][j], db[i]) /\ Sufficient(req[u][j], db[i])
      BY <2>1 DEF LockDiscipline, HoldsItsLines
    <3>3. CASE u # t
      BY <1>2, <3>1, <3>2, <3>3, NameAssumption
    <3>4. CASE u = t /\ i = x
      <4>1. j = p
        BY <1>1, <2>1, <3>4, RequestAssumption
      <4> QED
        BY <1>2, <2>2, <3>1, <3>4, <4>1
    <3>5. CASE u = t /\ i # x
      <4>1. j # p /\ (j < p + 1 <=> j < p)
        BY <2>2, <3>5
      <4> QED
        BY <1>2, <3>1, <3>2, <3>5, <4>1
    <3> QED
      BY <3>3, <3>4, <3>5
  <2> QED
    BY <1>2, <2>1, <2>3, <2>4 DEF HoldsItsLines
<1> QED
  BY <1>4, <1>5 DEF LockDiscipline

(* What a commit installs in a row it held is one of its lines, applied to *)
(* the committed row.                                                      *)
LEMMA HeldRow ==
    ASSUME Inv, NEW t \in Tx, Running(t), NEW i \in Item, lock[i] = t
    PROVE  \E j \in 1..Len(req[t]) :
              /\ req[t][j].item = i
              /\ j < pos[t]
              /\ work[i] = Written(t, req[t][j], db[i])
              /\ Sufficient(req[t][j], db[i])
<1>1. HeldByRunning(i) /\ HoldsItsLines(t)
  BY DEF Inv, LockDiscipline
<1>2. PICK j \in 1..Len(req[t]) : req[t][j].item = i
  BY <1>1, NameAssumption DEF HeldByRunning
<1> QED
  BY <1>1, <1>2 DEF HoldsItsLines

(* A commit publishes rows that are not oversold and are accounted for.    *)
LEMMA CommitRows ==
    ASSUME Inv, NEW t \in Tx, Commit(t)
    PROVE  NoOversell' /\ LedgerExplainsBalance'
<1>1. ASSUME NEW i \in Item
      PROVE  /\ db'[i].quantity >= 0
             /\ ~db'[i].present => db'[i].quantity = 0
             /\ Chained(db'[i], Opening[i])
  <2>1. db'[i] = IF lock[i] = t THEN work[i] ELSE db[i]
    BY DEF Commit, Seen
  <2>2. db[i].quantity >= 0 /\ (~db[i].present => db[i].quantity = 0) /\ Chained(db[i], Opening[i])
    BY DEF Inv, NoOversell, LedgerExplainsBalance
  <2>3. CASE lock[i] = t
    <3>1. Running(t) /\ req[t] \in Request
      BY DEF Commit, Inv, LockDiscipline, HoldsItsLines
    <3>2. PICK j \in 1..Len(req[t]) : work[i] = Written(t, req[t][j], db[i]) /\ Sufficient(req[t][j], db[i])
      BY <2>3, <3>1, HeldRow
    <3>3. req[t][j] \in GoodLine
      BY <3>1, LineOfRequest
    <3>4. db[i] \in Row /\ Opening[i] \in Int
      BY OpeningAssumption DEF Inv, TypeOK
    <3>5. /\ Written(t, req[t][j], db[i]).quantity >= 0
          /\ Chained(Written(t, req[t][j], db[i]), Opening[i])
      BY <2>2, <3>2, <3>3, <3>4, WrittenQuantity, WrittenChained
    <3>6. Written(t, req[t][j], db[i]).present
      BY DEF Written
    <3> QED
      BY <2>1, <2>3, <3>2, <3>5, <3>6
  <2>4. CASE lock[i] # t
    BY <2>1, <2>2, <2>4
  <2> QED
    BY <2>3, <2>4
<1> QED
  BY <1>1 DEF NoOversell, LedgerExplainsBalance

(* A transaction that is not running has its cursor at the first line.     *)
LEMMA NextAtFirstLine == TypeOK /\ AtFirstLine /\ [Next]_vars => AtFirstLine'
<1> SUFFICES ASSUME TypeOK, AtFirstLine, [Next]_vars PROVE AtFirstLine'
  OBVIOUS
<1>1. ASSUME NEW t \in Tx, NEW outcome \in Phase, End(t, outcome) PROVE AtFirstLine'
  BY <1>1 DEF TypeOK, AtFirstLine, End, Running
<1>2. ASSUME NEW t \in Tx, NEW r \in Request, Begin(t, r) PROVE AtFirstLine'
  BY <1>2 DEF TypeOK, AtFirstLine, Begin, Running
<1>3. ASSUME NEW t \in Tx, Apply(t) PROVE AtFirstLine'
  BY <1>3 DEF TypeOK, AtFirstLine, Apply, Running
<1>4. ASSUME NEW t \in Tx, Reject(t) \/ Commit(t) \/ RollBack(t) PROVE AtFirstLine'
  BY <1>1, <1>4 DEF Reject, Commit, RollBack, Phase
<1>5. CASE UNCHANGED vars \/ \E i \in Item : SetActive(i)
  BY <1>5 DEF AtFirstLine, vars, SetActive, Running
<1> QED
  BY <1>2, <1>3, <1>4, <1>5 DEF Next, Advance

(* Every step keeps the invariant.                                         *)
LEMMA NextInv == Inv /\ [Next]_vars => Inv'
<1> SUFFICES ASSUME Inv, [Next]_vars PROVE Inv'
  OBVIOUS
<1>0. TypeOK' /\ AtFirstLine'
  BY NextType, NextAtFirstLine DEF Inv
<1>1. ASSUME UNCHANGED db PROVE NoOversell' /\ LedgerExplainsBalance'
  BY <1>1 DEF Inv, NoOversell, LedgerExplainsBalance
<1>2. ASSUME NEW t \in Tx, NEW r \in Request, Begin(t, r) PROVE Inv'
  <2>1. \A u \in Tx : /\ Running(u)' <=> u = t \/ Running(u)
                      /\ req'[u] = IF u = t THEN r ELSE req[u]
                      /\ ~Running(t)
    BY <1>2 DEF Begin, Inv, TypeOK, Running
  <2>2. \A i \in Item : lock[i] # t
    BY <2>1, NameAssumption DEF Inv, LockDiscipline, HeldByRunning
  <2>3. pos[t] \in Nat \ {0} /\ r # <<>> /\ Len(r) \in Nat
    BY RequestAssumption DEF Inv, TypeOK
  <2>4. ASSUME NEW i \in Item PROVE HeldByRunning(i)'
    <3>1. lock[i] \in Tx \cup {NoTx}
      BY DEF Inv, TypeOK
    <3> QED
      BY <1>2, <2>1, <2>2, <3>1 DEF Begin, Inv, LockDiscipline, HeldByRunning
  <2>5. ASSUME NEW u \in Tx, Running(u)' PROVE HoldsItsLines(u)'
    <3>1. CASE u = t
      <4>1. pos[t] = 1
        BY <1>2, <2>1 DEF Inv, AtFirstLine
      <4>2. \A j \in 1..Len(r) : r[j].item \in Item /\ ~(j < 1)
        BY LineOfRequest DEF GoodLine, Line
      <4> QED
        BY <1>2, <2>1, <2>2, <2>3, <3>1, <4>1, <4>2 DEF Begin, HoldsItsLines
    <3>2. CASE u # t
      BY <1>2, <2>1, <2>5, <3>2 DEF Begin, Inv, LockDiscipline, HoldsItsLines
    <3> QED
      BY <3>1, <3>2
  <2> QED
    BY <1>0, <1>1, <1>2, <2>4, <2>5 DEF Begin, Inv, LockDiscipline
<1>3. ASSUME NEW t \in Tx, Apply(t) PROVE Inv'
  BY <1>0, <1>1, <1>3, ApplyInv DEF Apply, Inv
<1>4. ASSUME NEW t \in Tx, Reject(t) PROVE Inv'
  BY <1>0, <1>1, <1>4, UndoInv DEF Reject, Undo, Inv
<1>5. ASSUME NEW t \in Tx, Commit(t) PROVE Inv'
  BY <1>0, <1>5, CommitInv, CommitRows DEF Inv
<1>6. ASSUME NEW t \in Tx, RollBack(t) PROVE Inv'
  BY <1>0, <1>1, <1>6, UndoInv DEF RollBack, Undo, Inv
<1>7. ASSUME NEW i \in Item, SetActive(i) PROVE Inv'
  BY <1>0, <1>1, <1>7 DEF SetActive, Inv, LockDiscipline, HeldByRunning, HoldsItsLines, Running
<1>8. CASE UNCHANGED vars
  BY <1>0, <1>1, <1>8 DEF vars, Inv, LockDiscipline, HeldByRunning, HoldsItsLines, Running
<1> QED
  BY <1>2, <1>3, <1>4, <1>5, <1>6, <1>7, <1>8 DEF Next, Advance

(* The invariant holds in every reachable state.                           *)
THEOREM InductiveInvariant == Spec => []Inv
BY InitInv, NextInv, PTL DEF Spec

(* INV-001: no interleaving of transactions oversells an item.             *)
THEOREM NeverOversold == Spec => []NoOversell
BY InductiveInvariant, PTL DEF Inv

(* INV-002: the movements always account for the balance.                  *)
THEOREM LedgerComplete == Spec => []LedgerExplainsBalance
BY InductiveInvariant, PTL DEF Inv
-----------------------------------------------------------------------------
(* Every non-empty set of items has a largest member.                      *)
LEMMA LargestItem ==
    ASSUME NEW H \in SUBSET Item, H # {}
    PROVE  \E h \in H : \A i \in H : i <= h
<1>1. PICK m \in Item : \A i \in Item : i <= m
  BY ItemAssumption
<1> DEFINE T == {m - i : i \in H}
<1>0. m \in Nat /\ \A i \in H : i \in Nat /\ i <= m
  BY <1>1, ItemAssumption
<1>2. T \subseteq Nat /\ T # {}
  <2>1. \A i \in H : m - i \in Nat
    BY <1>0
  <2> QED
    BY <2>1
<1>3. PICK x \in T : \A y \in T : ~(<<y, x>> \in OpToRel(<, Nat))
  BY <1>2, NatLessThanWellFounded, WFMin
<1>4. \A y \in T : x <= y
  <2> SUFFICES ASSUME NEW y \in T PROVE x <= y
    OBVIOUS
  <2>1. x \in Nat /\ y \in Nat
    BY <1>2
  <2>2. y < x => <<y, x>> \in OpToRel(<, Nat)
    BY <2>1 DEF OpToRel
  <2>3. ~(y < x)
    <3> HIDE DEF T
    <3> QED
      BY <1>3, <2>2, Zenon
  <2> QED
    BY <2>1, <2>3
<1>5. PICK h \in H : x = m - h
  BY <1>3
<1>6. ASSUME NEW i \in H PROVE i <= h
  <2>1. m - h <= m - i
    BY <1>4, <1>5
  <2> QED
    BY <1>0, <2>1
<1> QED
  BY <1>6

(* Of the running transactions, the one at the greatest item can go on.    *)
LEMMA NoGridlockFromInv ==
    ASSUME Sorted, Inv
    PROVE  NoGridlock
<1> SUFFICES ASSUME NEW t0 \in Tx, Running(t0), \A t \in Tx : Running(t) => Blocked(t)
             PROVE  FALSE
  BY DEF NoGridlock
<1> DEFINE H == {i \in Item : lock[i] # NoTx}
<1>1. ASSUME NEW t \in Tx, Blocked(t)
      PROVE  /\ req[t] \in Request
             /\ pos[t] \in 1..Len(req[t])
             /\ NextLine(t).item \in H
  BY <1>1, NextLineGood DEF Blocked, Inv
<1>2. PICK h \in H : \A i \in H : i <= h
  BY <1>1, LargestItem
<1> DEFINE u == lock[h]
<1>3. u \in Tx /\ Running(u) /\ Blocked(u)
  BY <1>2 DEF Inv, TypeOK, LockDiscipline, HeldByRunning
<1>4. PICK j \in 1..Len(req[u]) : req[u][j].item = h /\ j < pos[u]
  BY <1>2, <1>3, HeldRow
<1>5. h < NextLine(u).item
  BY <1>1, <1>3, <1>4 DEF Sorted, NextLine
<1>6. NextLine(u).item <= h
  BY <1>1, <1>2, <1>3
<1>7. h \in Nat /\ NextLine(u).item \in Nat
  BY <1>1, <1>2, <1>3, ItemAssumption
<1> QED
  BY <1>5, <1>6, <1>7

(* When every request lists its items in ascending order, row locks never  *)
(* leave all running transactions waiting for one another.                 *)
THEOREM DeadlockFree ==
    ASSUME Sorted
    PROVE  Spec => []NoGridlock
<1>1. Inv => NoGridlock
  BY NoGridlockFromInv
<1> QED
  BY <1>1, InductiveInvariant, PTL
-----------------------------------------------------------------------------
(* Movement keys: what makes a keyed request post once, and the ledger a   *)
(* refinement of the serial one.                                           *)

(* A key found in the ledger of an item is the key of a line for that item.*)
KeysAtHome ==
    \A i \in Item : \A m \in 1..Len(db[i].moves) :
        db[i].moves[m].key # NoKey =>
            \E r \in Request : \E j \in 1..Len(r) : r[j].key = db[i].moves[m].key /\ r[j].item = i

(* No key is on two movements of a row.                                    *)
KeysOnce ==
    \A i \in Item : \A m, n \in 1..Len(db[i].moves) :
        db[i].moves[m].key = db[i].moves[n].key /\ db[i].moves[m].key # NoKey => m = n

(* The movements of an applied line do not repeat a committed key.         *)
NewKeys ==
    \A t \in Tx : Running(t) => \A j \in 1..Len(req[t]) :
        LET l == req[t][j] IN
        j < pos[t] /\ l.key # NoKey /\ ~Silent(l, db[l.item])
        => /\ Len(l.ns) = 1
           /\ \A m \in 1..Len(db[l.item].moves) : db[l.item].moves[m].key # l.key

(* The lines of a committed request are in the ledger.                     *)
MustPost(l) == l.key # NoKey /\ l.op \notin {"count", "take"}
InLedger(t, l) ==
    \E m \in 1..Len(db[l.item].moves) :
        db[l.item].moves[m].key = l.key /\ db[l.item].moves[m].tx = t
PostedLines ==
    \A t \in Tx : phase[t] = "committed" =>
        /\ req[t] \in Request
        /\ \A j \in 1..Len(req[t]) : MustPost(req[t][j]) => InLedger(t, req[t][j])

KeyInv == KeysAtHome /\ KeysOnce /\ NewKeys /\ PostedLines

(* The initial state has no keys.                                          *)
LEMMA InitKeys == Init => KeyInv
<1> SUFFICES ASSUME Init PROVE KeyInv
  OBVIOUS
<1>1. Len(<<>>) = 0
  OBVIOUS
<1>2. \A i \in Item : db[i].moves = <<>>
  BY DEF Init, OpeningRow
<1> QED
  BY <1>1, <1>2 DEF Init, KeyInv, KeysAtHome, KeysOnce, NewKeys, PostedLines, Running

(* A key nobody has committed for its own item is free in the whole ledger.*)
LEMMA FreeAtHome ==
    ASSUME Inv, KeysAtHome, NEW r \in Request, NEW j \in 1..Len(r), r[j].key # NoKey,
           \A m \in 1..Len(db[r[j].item].moves) : db[r[j].item].moves[m].key # r[j].key
    PROVE  ~KeyUsed(db, r[j].key)
<1> SUFFICES ASSUME NEW i \in Item, NEW m \in 1..Len(db[i].moves), db[i].moves[m].key = r[j].key
             PROVE  FALSE
  BY DEF KeyUsed, Inv, TypeOK
<1>1. PICK s \in Request : \E k \in 1..Len(s) : s[k].key = db[i].moves[m].key /\ s[k].item = i
  BY DEF KeysAtHome
<1>2. i = r[j].item
  BY <1>1, RequestAssumption
<1> QED
  BY <1>2

(* A line that passes the key check leaves the key unused in its own row.  *)
LEMMA ApplyKeys ==
    ASSUME Inv, KeyInv, NEW t \in Tx, Apply(t)
    PROVE  NewKeys'
<1> DEFINE p == pos[t]
           line == req[t][p]
           x == line.item
<1>1. Running(t) /\ req[t] \in Request /\ p \in 1..Len(req[t]) /\ x \in Item
  BY NextLineGood DEF Apply, NextLine, Inv
<1>2. lock[x] = NoTx /\ KeyFree(Seen(t), line, NoKey) /\ Seen(t)[x] = db[x]
  BY <1>1, NameAssumption DEF Apply, NextLine, Fails, Seen
<1>3. line.key # NoKey /\ ~Silent(line, db[x])
      => /\ Len(line.ns) = 1
         /\ \A m \in 1..Len(db[x].moves) : db[x].moves[m].key # line.key
  <2>1. DOMAIN Seen(t) = Item
    BY DEF Seen
  <2> QED
    BY <1>1, <1>2, <2>1 DEF KeyFree, KeyUsed
<1> SUFFICES ASSUME NEW u \in Tx, Running(u)', NEW j \in 1..Len(req[u]), j < pos'[u],
                    req[u][j].key # NoKey, ~Silent(req[u][j], db[req[u][j].item])
             PROVE  /\ Len(req[u][j].ns) = 1
                    /\ \A m \in 1..Len(db[req[u][j].item].moves) :
                          db[req[u][j].item].moves[m].key # req[u][j].key
  BY DEF NewKeys, Apply
<1>4. CASE u = t /\ j = p
  BY <1>3, <1>4
<1>5. CASE ~(u = t /\ j = p)
  <2>1. Running(u) /\ j < pos[u]
    BY <1>1, <1>5 DEF Apply, Running, Inv, TypeOK
  <2> QED
    BY <2>1 DEF KeyInv, NewKeys
<1> QED
  BY <1>4, <1>5

(* What a commit adds to the ledger of a row: the movements of its line.   *)
Extends(old, all, t, l, row) ==
    /\ Len(old) \in Nat
    /\ Silent(l, row) => all = old
    /\ ~Silent(l, row) => Len(all) = Len(old) + Len(l.ns)
    /\ Len(l.ns) \in Nat \ {0}
    /\ Len(all) \in Nat /\ Len(old) <= Len(all)
    /\ \A m \in 1..Len(old) : all[m] = old[m]
    /\ \A m \in 1..Len(all) : m > Len(old) => all[m].key = l.key /\ all[m].tx = t

(* A written row has the old movements and those of its line.              *)
LEMMA AddedMoves ==
    ASSUME NEW t \in Tx, NEW l \in GoodLine, NEW row \in Row
    PROVE  Extends(row.moves, Written(t, l, row).moves, t, l, row)
<1> DEFINE new == Movements(t, l, row)
           old == row.moves
           all == Written(t, l, row).moves
<1>1. old \in Seq(MovementType) /\ new \in Seq(MovementType) /\ all = old \o new
  BY MovementsType DEF Row, Written
<1>2. Len(l.ns) \in Nat \ {0}
  BY DEF GoodLine, Line
<1>3. CASE Silent(l, row)
  <2>1. new = <<>> /\ all = old
    BY <1>1, <1>3, MovementsType
  <2> QED
    BY <1>1, <1>2, <1>3, <2>1 DEF Extends
<1>4. CASE ~Silent(l, row)
  <2>1. Len(new) = Len(l.ns) /\ \A k \in 1..Len(l.ns) : new[k] = Movement(t, l, row, k)
    BY <1>4, MovementsType
  <2>a. \A k \in 1..Len(l.ns) : Movement(t, l, row, k).key = l.key /\ Movement(t, l, row, k).tx = t
    BY DEF Movement
  <2>2. \A k \in 1..Len(l.ns) : new[k].key = l.key /\ new[k].tx = t
    BY <2>1, <2>a
  <2> DEFINE o == Len(old)
             n == Len(l.ns)
             q == Len(all)
  <2>3. /\ q = o + n
        /\ \A m \in 1..(o + n) : all[m] = IF m <= o THEN old[m] ELSE new[m - o]
    <3>1. /\ Len(old \o new) = Len(old) + Len(new)
          /\ \A m \in 1..(Len(old) + Len(new)) :
                (old \o new)[m] = IF m <= Len(old) THEN old[m] ELSE new[m - Len(old)]
      <4> HIDE DEF new
      <4> QED
        BY <1>1, ConcatProperties
    <3> QED
      BY <1>1, <2>1, <3>1
  <2>4. o \in Nat /\ n \in Nat \ {0}
    BY <1>1, <1>2
  <2>b. \A k \in 1..n : new[k].key = l.key /\ new[k].tx = t
    BY <2>2
  <2> HIDE DEF new, o, n, q
  <2>5. \A m \in 1..o : all[m] = old[m]
    BY <2>3, <2>4
  <2>6. ASSUME NEW m \in 1..q, m > o PROVE all[m].key = l.key /\ all[m].tx = t
    <3>1. m - o \in 1..n /\ all[m] = new[m - o]
      BY <2>3, <2>4, <2>6
    <3> QED
      BY <2>b, <3>1
  <2>7. q \in Nat /\ o <= q
    BY <2>3, <2>4
  <2> QED
    BY <1>2, <1>4, <2>3, <2>4, <2>5, <2>6, <2>7 DEF o, n, q, Extends
<1> QED
  BY <1>3, <1>4

(* A row that is held at the commit is written by one line of the request. *)
LEMMA CommitLine ==
    ASSUME Inv, KeyInv, NEW t \in Tx, Commit(t), NEW i \in Item, lock[i] = t
    PROVE  \E j \in 1..Len(req[t]) :
              LET l == req[t][j] IN
              /\ req[t] \in Request
              /\ l \in GoodLine
              /\ l.item = i
              /\ db'[i] = Written(t, l, db[i])
              /\ Sufficient(l, db[i])
              /\ l.key # NoKey /\ ~Silent(l, db[i])
                 => /\ Len(l.ns) = 1
                    /\ \A m \in 1..Len(db[i].moves) : db[i].moves[m].key # l.key
<1>1. Running(t) /\ req[t] \in Request /\ db'[i] = work[i]
  BY DEF Commit, Seen, Inv, LockDiscipline, HoldsItsLines
<1>2. PICK j \in 1..Len(req[t]) :
              /\ req[t][j].item = i
              /\ j < pos[t]
              /\ work[i] = Written(t, req[t][j], db[i])
              /\ Sufficient(req[t][j], db[i])
  BY <1>1, HeldRow
<1>3. req[t][j].key # NoKey /\ ~Silent(req[t][j], db[i])
      => /\ Len(req[t][j].ns) = 1
         /\ \A m \in 1..Len(db[i].moves) : db[i].moves[m].key # req[t][j].key
  <2>1. \A k \in 1..Len(req[t]) :
          k < pos[t] /\ req[t][k].key # NoKey /\ ~Silent(req[t][k], db[req[t][k].item])
          => /\ Len(req[t][k].ns) = 1
             /\ \A m \in 1..Len(db[req[t][k].item].moves) : db[req[t][k].item].moves[m].key # req[t][k].key
    BY <1>1 DEF KeyInv, NewKeys
  <2> QED
    BY <1>2, <2>1
<1> WITNESS j \in 1..Len(req[t])
<1> QED
  BY <1>1, <1>2, <1>3, LineOfRequest

(* A row that is not held is not written.                                  *)
LEMMA OtherRow ==
    ASSUME NEW t \in Tx, Commit(t), NEW i \in Item, lock[i] # t
    PROVE  db'[i] = db[i]
BY DEF Commit, Seen

(* A commit repeats no key.                                                *)
LEMMA CommitKeysOnce ==
    ASSUME Inv, KeyInv, NEW t \in Tx, Commit(t)
    PROVE  KeysAtHome' /\ KeysOnce'
<1>1. ASSUME NEW i \in Item, lock[i] = t
      PROVE  /\ \A m \in 1..Len(db'[i].moves) : db'[i].moves[m].key # NoKey =>
                  \E r \in Request : \E j \in 1..Len(r) : r[j].key = db'[i].moves[m].key /\ r[j].item = i
             /\ \A m, n \in 1..Len(db'[i].moves) :
                  db'[i].moves[m].key = db'[i].moves[n].key /\ db'[i].moves[m].key # NoKey => m = n
  <2>1. PICK j \in 1..Len(req[t]) :
              LET l == req[t][j] IN
              /\ req[t] \in Request
              /\ l \in GoodLine
              /\ l.item = i
              /\ db'[i] = Written(t, l, db[i])
              /\ l.key # NoKey /\ ~Silent(l, db[i])
                 => /\ Len(l.ns) = 1
                    /\ \A m \in 1..Len(db[i].moves) : db[i].moves[m].key # l.key
    BY <1>1, CommitLine
  <2> DEFINE l == req[t][j]
             old == db[i].moves
             all == db'[i].moves
  <2>2. db[i] \in Row
    BY DEF Inv, TypeOK
  <2>3. /\ Len(old) \in Nat
        /\ Silent(l, db[i]) => all = old
        /\ ~Silent(l, db[i]) => Len(all) = Len(old) + Len(l.ns)
        /\ Len(l.ns) \in Nat \ {0}
        /\ Len(all) \in Nat /\ Len(old) <= Len(all)
        /\ \A m \in 1..Len(old) : all[m] = old[m]
        /\ \A m \in 1..Len(all) : m > Len(old) => all[m].key = l.key
    <3>1. Extends(old, all, t, l, db[i])
      BY <2>1, <2>2, AddedMoves
    <3> QED
      BY <3>1 DEF Extends
  <2>4. /\ \A m \in 1..Len(old) : old[m].key # NoKey =>
             \E r \in Request : \E k \in 1..Len(r) : r[k].key = old[m].key /\ r[k].item = i
        /\ \A m, n \in 1..Len(old) : old[m].key = old[n].key /\ old[m].key # NoKey => m = n
    BY DEF KeyInv, KeysAtHome, KeysOnce
  <2>5. l.key # NoKey /\ ~Silent(l, db[i])
        => Len(l.ns) = 1 /\ \A m \in 1..Len(old) : old[m].key # l.key
    BY <2>1
  <2>6. req[t] \in Request /\ j \in 1..Len(req[t]) /\ req[t][j].item = i
    BY <2>1
  <2> HIDE DEF old, all
  <2>7. ASSUME NEW m \in 1..Len(all), all[m].key # NoKey
        PROVE  \E r \in Request : \E k \in 1..Len(r) : r[k].key = all[m].key /\ r[k].item = i
    <3>1. CASE m <= Len(old)
      BY <2>3, <2>4, <2>7, <3>1
    <3>2. CASE m > Len(old)
      BY <2>3, <2>6, <3>2
    <3> QED
      BY <2>3, <3>1, <3>2
  <2>8. ASSUME NEW m \in 1..Len(all), NEW n \in 1..Len(all),
               all[m].key = all[n].key, all[m].key # NoKey
        PROVE  m = n
    <3>1. CASE Silent(l, db[i])
      BY <2>3, <2>4, <2>8, <3>1
    <3>2. CASE ~Silent(l, db[i])
      <4>1. CASE m <= Len(old) /\ n <= Len(old)
        BY <2>3, <2>4, <2>8, <4>1
      <4>2. CASE m > Len(old) /\ n > Len(old)
        <5>1. Len(all) = Len(old) + 1
          BY <2>3, <2>5, <2>8, <3>2, <4>2
        <5> QED
          BY <2>3, <4>2, <5>1
      <4>3. CASE m <= Len(old) /\ n > Len(old)
        BY <2>3, <2>5, <2>8, <3>2, <4>3
      <4>4. CASE n <= Len(old) /\ m > Len(old)
        BY <2>3, <2>5, <2>8, <3>2, <4>4
      <4> QED
        BY <2>3, <4>1, <4>2, <4>3, <4>4
    <3> QED
      BY <3>1, <3>2
  <2> QED
    BY <2>7, <2>8 DEF all
<1>2. ASSUME NEW i \in Item, lock[i] # t
      PROVE  /\ \A m \in 1..Len(db'[i].moves) : db'[i].moves[m].key # NoKey =>
                  \E r \in Request : \E j \in 1..Len(r) : r[j].key = db'[i].moves[m].key /\ r[j].item = i
             /\ \A m, n \in 1..Len(db'[i].moves) :
                  db'[i].moves[m].key = db'[i].moves[n].key /\ db'[i].moves[m].key # NoKey => m = n
  BY <1>2, OtherRow DEF KeyInv, KeysAtHome, KeysOnce
<1> QED
  BY <1>1, <1>2 DEF KeysAtHome, KeysOnce

(* The other running transactions hold other rows: what they have written  *)
(* still carries fresh keys.                                               *)
LEMMA CommitNewKeys ==
    ASSUME Inv, KeyInv, NEW t \in Tx, Commit(t)
    PROVE  NewKeys'
<1> SUFFICES ASSUME NEW u \in Tx, Running(u)', NEW j \in 1..Len(req[u]), j < pos'[u],
                    req[u][j].key # NoKey, ~Silent(req[u][j], db'[req[u][j].item])
             PROVE  /\ Len(req[u][j].ns) = 1
                    /\ \A m \in 1..Len(db'[req[u][j].item].moves) :
                          db'[req[u][j].item].moves[m].key # req[u][j].key
  BY DEF NewKeys, Commit, End
<1>1. u # t /\ Running(u) /\ pos'[u] = pos[u]
  BY DEF Commit, End, Running, Inv, TypeOK
<1>2. HoldsItsLines(u)
  BY <1>1 DEF Inv, LockDiscipline
<1>3. req[u][j].item \in Item
  BY <1>2, LineOfRequest DEF HoldsItsLines, GoodLine, Line
<1>4. lock[req[u][j].item] = u
  BY <1>1, <1>2 DEF HoldsItsLines
<1>5. db'[req[u][j].item] = db[req[u][j].item]
  BY <1>1, <1>3, <1>4, OtherRow
<1> QED
  BY <1>1, <1>5 DEF KeyInv, NewKeys

(* What was committed has been posted.                                     *)
LEMMA CommitPosted ==
    ASSUME Inv, KeyInv, NEW t \in Tx, Commit(t)
    PROVE  PostedLines'
<1>1. ASSUME NEW u \in Tx, phase'[u] = "committed"
      PROVE  req[u] \in Request
  BY <1>1 DEF Commit, End, Inv, TypeOK, LockDiscipline, HoldsItsLines, KeyInv, PostedLines
<1>2. ASSUME NEW u \in Tx, phase'[u] = "committed", NEW j \in 1..Len(req[u]),
             req[u][j].key # NoKey, req[u][j].op \notin {"count", "take"}
      PROVE  \E m \in 1..Len(db'[req[u][j].item].moves) :
                 /\ db'[req[u][j].item].moves[m].key = req[u][j].key
                 /\ db'[req[u][j].item].moves[m].tx = u
  <2> DEFINE i == req[u][j].item
             l == req[u][j]
  <2>1. i \in Item /\ l \in GoodLine /\ db[i] \in Row
    BY <1>1, <1>2, LineOfRequest DEF GoodLine, Line, Inv, TypeOK
  <2>2. CASE u # t
    <3>1. phase[u] = "committed"
      BY <1>2, <2>2 DEF Commit, End, Inv, TypeOK
    <3>2. PICK m \in 1..Len(db[i].moves) : db[i].moves[m].key = l.key /\ db[i].moves[m].tx = u
      BY <1>2, <3>1 DEF KeyInv, PostedLines, MustPost, InLedger
    <3>3. CASE lock[i] # t
      BY <2>1, <3>2, <3>3, OtherRow
    <3>4. CASE lock[i] = t
      <4>1. PICK k \in 1..Len(req[t]) : req[t][k] \in GoodLine /\ db'[i] = Written(t, req[t][k], db[i])
        BY <2>1, <3>4, CommitLine
      <4>2. Extends(db[i].moves, db'[i].moves, t, req[t][k], db[i])
        BY <2>1, <4>1, AddedMoves
      <4> DEFINE before == db[i].moves
                 after == db'[i].moves
      <4>a. /\ Len(before) \in Nat /\ Len(after) \in Nat /\ Len(before) <= Len(after)
            /\ \A x \in 1..Len(before) : after[x] = before[x]
        BY <4>2 DEF Extends
      <4>b. m \in 1..Len(before)
        BY <3>2
      <4>c. m \in 1..Len(after) /\ after[m] = before[m]
        <5> HIDE DEF before, after
        <5> QED
          BY <4>a, <4>b
      <4>3. m \in 1..Len(db'[i].moves) /\ db'[i].moves[m] = db[i].moves[m]
        BY <4>c
      <4> QED
        BY <3>2, <4>3
    <3> QED
      BY <3>3, <3>4
  <2>3. CASE u = t
    <3>1. HoldsItsLines(t) /\ pos[t] > Len(req[t]) /\ Len(req[t]) \in Nat /\ pos[t] \in Nat
      BY <1>1, <1>2, <2>3, RequestAssumption DEF Commit, Inv, LockDiscipline, TypeOK
    <3>2. j < pos[t]
      BY <2>3, <3>1
    <3>3. lock[i] = t /\ work[i] = Written(t, l, db[i])
      BY <2>3, <3>1, <3>2 DEF HoldsItsLines
    <3>4. db'[i] = Written(t, l, db[i])
      BY <2>1, <3>3 DEF Commit, Seen
    <3>5. Extends(db[i].moves, db'[i].moves, t, l, db[i])
      BY <2>1, <3>4, AddedMoves
    <3>6. ~Silent(l, db[i])
      BY <1>2 DEF Silent
    <3> DEFINE m == Len(db[i].moves) + 1
    <3>7. m \in 1..Len(db'[i].moves) /\ m > Len(db[i].moves)
      <4>1. /\ Len(db[i].moves) \in Nat
            /\ Len(l.ns) \in Nat \ {0}
            /\ Len(db'[i].moves) = Len(db[i].moves) + Len(l.ns)
        BY <3>5, <3>6 DEF Extends
      <4>2. \A o \in Nat : \A n \in Nat \ {0} : o + 1 \in 1..(o + n) /\ o + 1 > o
        OBVIOUS
      <4> QED
        BY <4>1, <4>2
    <3> QED
      BY <2>3, <3>5, <3>7 DEF Extends
  <2> QED
    BY <2>2, <2>3
<1>3. req' = req
  BY DEF Commit, End
<1>4. ASSUME NEW u \in Tx, phase'[u] = "committed", NEW j \in 1..Len(req[u]), MustPost(req[u][j])
      PROVE  InLedger(u, req[u][j])'
  BY <1>2, <1>3, <1>4 DEF MustPost, InLedger
<1> QED
  BY <1>1, <1>3, <1>4 DEF PostedLines

(* Every step keeps the keys unique.                                       *)
LEMMA NextKeys == Inv /\ KeyInv /\ [Next]_vars => KeyInv'
<1> SUFFICES ASSUME Inv, KeyInv, [Next]_vars PROVE KeyInv'
  OBVIOUS
<1>1. ASSUME UNCHANGED db PROVE KeysAtHome' /\ KeysOnce'
  BY <1>1 DEF KeyInv, KeysAtHome, KeysOnce
<1>2. ASSUME UNCHANGED db, \A u \in Tx : phase'[u] = "committed" => phase[u] = "committed" /\ req'[u] = req[u]
      PROVE  PostedLines'
  <2>1. \A u \in Tx : phase'[u] = "committed" =>
          /\ req'[u] \in Request
          /\ \A j \in 1..Len(req'[u]) : MustPost(req'[u][j]) => InLedger(u, req'[u][j])
    BY <1>2 DEF KeyInv, PostedLines
  <2>2. \A u \in Tx : \A l : InLedger(u, l) => InLedger(u, l)'
    BY <1>2 DEF InLedger
  <2> QED
    BY <2>1, <2>2 DEF PostedLines
<1>3. ASSUME UNCHANGED db,
             \A u \in Tx : Running(u)' => (Running(u) /\ pos'[u] = pos[u] /\ req'[u] = req[u]) \/ pos'[u] = 1
      PROVE  NewKeys'
  <2> SUFFICES ASSUME NEW u \in Tx, Running(u)', NEW j \in 1..Len(req'[u]), j < pos'[u],
                      req'[u][j].key # NoKey, ~Silent(req'[u][j], db[req'[u][j].item])
               PROVE  /\ Len(req'[u][j].ns) = 1
                      /\ \A m \in 1..Len(db[req'[u][j].item].moves) :
                            db[req'[u][j].item].moves[m].key # req'[u][j].key
    BY <1>3 DEF NewKeys
  <2>1. pos'[u] # 1
    OBVIOUS
  <2>2. Running(u) /\ pos'[u] = pos[u] /\ req'[u] = req[u]
    BY <1>3, <2>1
  <2>3. \A k \in 1..Len(req[u]) :
          k < pos[u] /\ req[u][k].key # NoKey /\ ~Silent(req[u][k], db[req[u][k].item])
          => /\ Len(req[u][k].ns) = 1
             /\ \A m \in 1..Len(db[req[u][k].item].moves) : db[req[u][k].item].moves[m].key # req[u][k].key
    BY <2>2 DEF KeyInv, NewKeys
  <2> QED
    BY <2>2, <2>3
<1>4. ASSUME NEW t \in Tx, NEW r \in Request, Begin(t, r) PROVE KeyInv'
  <2>1. pos[t] = 1
    BY <1>4 DEF Begin, Inv, AtFirstLine, Running
  <2> QED
    BY <1>1, <1>2, <1>3, <1>4, <2>1 DEF Begin, Running, Inv, TypeOK, KeyInv
<1>5. ASSUME NEW t \in Tx, Apply(t) PROVE KeyInv'
  BY <1>1, <1>2, <1>5, ApplyKeys DEF Apply, KeyInv
<1>6. ASSUME NEW t \in Tx, Reject(t) \/ RollBack(t) PROVE KeyInv'
  <2>1. /\ UNCHANGED <<db, req>>
        /\ \A u \in Tx : phase'[u] = "committed" => phase[u] = "committed"
        /\ \A u \in Tx : Running(u)' => Running(u) /\ pos'[u] = pos[u]
    BY <1>6 DEF Reject, RollBack, Undo, End, Running, Inv, TypeOK
  <2> QED
    BY <1>1, <1>2, <1>3, <2>1 DEF KeyInv
<1>7. ASSUME NEW t \in Tx, Commit(t) PROVE KeyInv'
  BY <1>7, CommitKeysOnce, CommitNewKeys, CommitPosted DEF KeyInv
<1>8. CASE UNCHANGED vars \/ \E i \in Item : SetActive(i)
  BY <1>1, <1>2, <1>3, <1>8 DEF vars, SetActive, Running, KeyInv
<1> QED
  BY <1>4, <1>5, <1>6, <1>7, <1>8 DEF Next, Advance

(* Keys are unique in every reachable state.                               *)
LEMMA AlwaysKeys == Spec => [](Inv /\ KeyInv)
BY InitInv, NextInv, InitKeys, NextKeys, PTL DEF Spec

(* IDE-001: two committed attempts never carry the same key, except for a  *)
(* count that may have found nothing to change.                            *)
THEOREM KeyPostedOnce == Spec => []RetryPostsOnce
<1>1. Inv /\ KeyInv => RetryPostsOnce
  <2> SUFFICES ASSUME Inv, KeyInv, NEW t \in Tx, NEW u \in Tx, t # u,
                      phase[t] = "committed", phase[u] = "committed",
                      NEW j \in 1..Len(req[t]), NEW k \in 1..Len(req[u]),
                      req[t][j].key = req[u][k].key, req[t][j].key # NoKey,
                      req[t][j].op \notin {"count", "take"},
                      req[u][k].op \notin {"count", "take"}
               PROVE  FALSE
    BY DEF RetryPostsOnce
  <2> DEFINE i == req[t][j].item
  <2>1. req[t] \in Request /\ req[u] \in Request
    BY DEF KeyInv, PostedLines
  <2>2. i \in Item /\ req[u][k].item = i
    <3>1. i \in Item
      BY <2>1, LineOfRequest DEF GoodLine, Line
    <3>2. req[u][k].item = req[t][j].item
      BY <2>1, RequestAssumption
    <3> QED
      BY <3>1, <3>2
  <2>3. PICK m \in 1..Len(db[i].moves) : db[i].moves[m].key = req[t][j].key /\ db[i].moves[m].tx = t
    BY DEF KeyInv, PostedLines, MustPost, InLedger
  <2>4. PICK n \in 1..Len(db[i].moves) : db[i].moves[n].key = req[t][j].key /\ db[i].moves[n].tx = u
    <3>1. req[u][k].key # NoKey
      OBVIOUS
    <3>2. \E n \in 1..Len(db[req[u][k].item].moves) :
             db[req[u][k].item].moves[n].key = req[u][k].key /\ db[req[u][k].item].moves[n].tx = u
      BY <3>1 DEF KeyInv, PostedLines, MustPost, InLedger
    <3> QED
      BY <2>2, <3>2
  <2>5. m = n
    BY <2>2, <2>3, <2>4 DEF KeyInv, KeysOnce
  <2> QED
    BY <2>3, <2>4, <2>5
<1> QED
  BY <1>1, AlwaysKeys, PTL
-----------------------------------------------------------------------------
(* The rules of a line, seen through the instance of the serial ledger.    *)
LEMMA SameRules ==
    /\ \A t, l, row : Serial!Written(t, l, row) = Written(t, l, row)
    /\ \A l, row : Serial!Sufficient(l, row) <=> Sufficient(l, row)
    /\ \A rows, l : Serial!KeyFree(rows, l, NoKey) <=> KeyFree(rows, l, NoKey)
<1>1. \A l, row, k : Serial!Before(l, row, k) = Before(l, row, k)
  BY DEF Serial!Before, Before
<1>2. \A l, row, k : Serial!Delta(l, row, k) = Delta(l, row, k)
  BY <1>1 DEF Serial!Delta, Delta
<1>3. \A l, row : Serial!Silent(l, row) <=> Silent(l, row)
  BY <1>2 DEF Serial!Silent, Silent
<1>4. \A t, l, row, k : Serial!Movement(t, l, row, k) = Movement(t, l, row, k)
  BY <1>1, <1>2 DEF Serial!Movement, Movement
<1>5. \A t, l, row : Serial!Movements(t, l, row) = Movements(t, l, row)
  BY <1>3, <1>4 DEF Serial!Movements, Movements
<1>6. \A t, l, row : Serial!Written(t, l, row) = Written(t, l, row)
  BY <1>1, <1>2, <1>5 DEF Serial!Written, Written
<1>7. \A l, row : Serial!Sufficient(l, row) <=> Sufficient(l, row)
  BY DEF Serial!Sufficient, Sufficient
<1>8. \A rows, l : Serial!KeyFree(rows, l, NoKey) <=> KeyFree(rows, l, NoKey)
  BY <1>3 DEF Serial!KeyFree, KeyFree, Serial!KeyUsed, KeyUsed
<1> QED
  BY <1>6, <1>7, <1>8

(* A commit posts the whole request of the transaction.                    *)
LEMMA CommitPosts ==
    ASSUME Inv, KeyInv, NEW t \in Tx, Commit(t)
    PROVE  Serial!Post(t, req[t])
<1> DEFINE r == req[t]
<1>1. /\ Running(t) /\ HoldsItsLines(t) /\ r \in Request
      /\ pos[t] > Len(r) /\ Len(r) \in Nat /\ pos[t] \in Nat
  BY RequestAssumption DEF Commit, Inv, LockDiscipline, HoldsItsLines, TypeOK
<1>2. \A j \in 1..Len(r) :
        /\ j < pos[t]
        /\ r[j].item \in Item
        /\ r[j] \in GoodLine
        /\ lock[r[j].item] = t
        /\ work[r[j].item] = Written(t, r[j], db[r[j].item])
        /\ Sufficient(r[j], db[r[j].item])
  BY <1>1, LineOfRequest DEF HoldsItsLines, GoodLine, Line
<1>3. ASSUME NEW j \in 1..Len(r)
      PROVE  KeyFree(db, r[j], NoKey)
  <2>1. CASE r[j].key = NoKey \/ Silent(r[j], db[r[j].item])
    BY <2>1 DEF KeyFree
  <2>2. CASE r[j].key # NoKey /\ ~Silent(r[j], db[r[j].item])
    <3>1. /\ Len(r[j].ns) = 1
          /\ \A m \in 1..Len(db[r[j].item].moves) : db[r[j].item].moves[m].key # r[j].key
      BY <1>1, <1>2, <2>2 DEF KeyInv, NewKeys
    <3>2. ~KeyUsed(db, r[j].key)
      BY <1>1, <2>2, <3>1, FreeAtHome DEF KeyInv
    <3> QED
      BY <3>1, <3>2 DEF KeyFree
  <2> QED
    BY <2>1, <2>2
<1>4. Serial!Postable(r)
  BY <1>2, <1>3, SameRules DEF Serial!Postable
<1>5. ASSUME NEW i \in Item
      PROVE  db'[i] = IF \E j \in 1..Len(r) : r[j].item = i
                      THEN Written(t, r[CHOOSE j \in 1..Len(r) : r[j].item = i], db[i])
                      ELSE db[i]
  <2>1. CASE \E j \in 1..Len(r) : r[j].item = i
    <3> DEFINE j == CHOOSE k \in 1..Len(r) : r[k].item = i
    <3>1. j \in 1..Len(r) /\ r[j].item = i
      BY <2>1
    <3>2. lock[i] = t /\ work[i] = Written(t, r[j], db[i])
      BY <1>2, <3>1
    <3>3. db'[i] = work[i]
      BY <3>2 DEF Commit, Seen
    <3> QED
      BY <2>1, <3>2, <3>3
  <2>2. CASE ~\E j \in 1..Len(r) : r[j].item = i
    <3>1. lock[i] # t
      BY <2>2, <1>1, NameAssumption DEF Inv, LockDiscipline, HeldByRunning
    <3> QED
      BY <2>2, <3>1, OtherRow
  <2> QED
    BY <2>1, <2>2
<1>6. db' = [i \in Item |->
               IF \E j \in 1..Len(r) : r[j].item = i
               THEN Serial!Written(t, r[CHOOSE j \in 1..Len(r) : r[j].item = i], db[i])
               ELSE db[i]]
  <2>1. db' = [i \in Item |-> db'[i]]
    BY DEF Commit, Seen
  <2> QED
    BY <1>5, <2>1, SameRules
<1>7. /\ t \notin {u \in Tx : phase[u] = "committed"}
      /\ {u \in Tx : phase'[u] = "committed"} = {u \in Tx : phase[u] = "committed"} \cup {t}
  BY DEF Commit, End, Running, Inv, TypeOK
<1> QED
  BY <1>4, <1>6, <1>7 DEF Serial!Post

(* Every step of the ledger is a post of the serial one, or stutters.      *)
LEMMA StepSimulation == Inv /\ KeyInv /\ [Next]_vars => [Serial!SNext]_(Serial!svars)
<1> SUFFICES ASSUME Inv, KeyInv, [Next]_vars PROVE [Serial!SNext]_(Serial!svars)
  OBVIOUS
<1>1. ASSUME UNCHANGED db, {u \in Tx : phase'[u] = "committed"} = {u \in Tx : phase[u] = "committed"}
      PROVE  UNCHANGED Serial!svars
  BY <1>1 DEF Serial!svars
<1>2. ASSUME NEW t \in Tx, NEW r \in Request, Begin(t, r) PROVE UNCHANGED Serial!svars
  BY <1>1, <1>2 DEF Begin, Inv, TypeOK
<1>3. ASSUME NEW t \in Tx, Apply(t) PROVE UNCHANGED Serial!svars
  BY <1>1, <1>3 DEF Apply
<1>4. ASSUME NEW t \in Tx, Reject(t) \/ RollBack(t) PROVE UNCHANGED Serial!svars
  <2>1. UNCHANGED db /\ phase[t] # "committed" /\ phase'[t] # "committed"
    BY <1>4 DEF Reject, RollBack, Undo, End, Running, Inv, TypeOK
  <2>2. \A u \in Tx : u # t => phase'[u] = phase[u]
    BY <1>4 DEF Reject, RollBack, End, Inv, TypeOK
  <2> QED
    BY <1>1, <2>1, <2>2
<1>5. ASSUME NEW t \in Tx, Commit(t) PROVE Serial!SNext
  <2>1. req[t] \in Request
    BY <1>5 DEF Commit, Inv, LockDiscipline, HoldsItsLines
  <2>2. Serial!Post(t, req[t])
    BY <1>5, CommitPosts
  <2> DEFINE Posts(u, r) == Serial!Post(u, r)
  <2>3. \E u \in Tx, r \in Request : Posts(u, r)
    <3>1. Posts(t, req[t])
      BY <2>2
    <3> HIDE DEF Posts
    <3> QED
      BY <2>1, <3>1
  <2> QED
    BY <2>3 DEF Serial!SNext
<1>6. CASE UNCHANGED vars \/ \E i \in Item : SetActive(i)
  <2>1. UNCHANGED <<db, phase>>
    BY <1>6 DEF vars, SetActive
  <2> QED
    BY <1>1, <2>1
<1> QED
  BY <1>2, <1>3, <1>4, <1>5, <1>6 DEF Next, Advance

(* Every behaviour of the concurrent ledger is one of the serial ledger.   *)
THEOREM Serializable == Spec => SerialSpec
<1>1. Init => Serial!SInit
  BY DEF Init, Serial!SInit, OpeningRow
<1> QED
  BY <1>1, StepSimulation, AlwaysKeys, PTL DEF Spec, SerialSpec, Serial!SSpec
=============================================================================
