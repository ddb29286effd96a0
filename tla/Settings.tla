------------------------------ MODULE Settings ------------------------------
(***************************************************************************)
(* One of the platform's settings and its history. A change reads the      *)
(* value before it, then writes the row and an audit record in one         *)
(* transaction; the row stays locked until the transaction ends. A restore *)
(* is a change to the value before an earlier one.                         *)
(***************************************************************************)
EXTENDS Naturals, Sequences

CONSTANTS Admin,      \* requests that may be under way together
          Value,
          Default,    \* the value without a row
          MaxChanges  \* bound: audit records

VARIABLES setting,  \* the committed value of the row
          log,      \* audit records by id: [before, after, committed]
          call      \* what each request has read, and where its transaction is

vars == <<setting, log, call>>

NoRow == "no row"
Idle == [st |-> "idle"]
Init == setting = NoRow /\ log = <<>> /\ call = [a \in Admin |-> Idle]

(* A missing row, or a failed read, is the default.                        *)
Get(v) == v = Default \/ (v = setting /\ setting # NoRow)

ReadChange(a, v, before) ==
  /\ call[a] = Idle
  /\ Get(before)
  /\ call' = [call EXCEPT ![a] = [st |-> "read", value |-> v, before |-> before]]
  /\ UNCHANGED <<setting, log>>
UpdateSetting(a, v, before) == ReadChange(a, v, before)
RestoreSetting(a, n, before) == /\ n \in DOMAIN log /\ log[n].committed
                                /\ ReadChange(a, log[n].before, before)

RowAlways == TRUE     \* mutant of RowFree: the row is not locked
RowFree == \A a \in Admin : call[a].st # "wrote"

(* The audit record is numbered when it is written, within the lock.       *)
Upsert(a) == /\ call[a].st = "read"
             /\ RowFree
             /\ Len(log) < MaxChanges
             /\ log' = Append(log, [before |-> call[a].before, after |-> call[a].value,
                                    committed |-> FALSE])
             /\ call' = [call EXCEPT ![a] = [st |-> "wrote", value |-> call[a].value,
                                             at |-> Len(log) + 1]]
             /\ UNCHANGED setting
Commit(a) == /\ call[a].st = "wrote"
             /\ setting' = call[a].value
             /\ log' = [log EXCEPT ![call[a].at].committed = TRUE]
             /\ call' = [call EXCEPT ![a] = Idle]
RollBack(a) == /\ call[a].st \in {"read", "wrote"}
               /\ call' = [call EXCEPT ![a] = Idle]
               /\ UNCHANGED <<setting, log>>

Step(a) == \/ \E v \in Value, before \in Value \cup {Default} : UpdateSetting(a, v, before)
           \/ \E n \in DOMAIN log, before \in Value \cup {Default} : RestoreSetting(a, n, before)
           \/ Upsert(a)
           \/ Commit(a)
           \/ RollBack(a)
Next == \E a \in Admin : Step(a)

Spec == Init /\ [][Next]_vars

-----------------------------------------------------------------------------
(* The newest record of the history tells the setting's value, however     *)
(* changes and restores of several administrators overlap.                 *)
Committed == {n \in DOMAIN log : log[n].committed}
HistoryTellsSetting ==
  IF Committed = {} THEN setting = NoRow
    ELSE \E n \in Committed : setting = log[n].after /\ \A k \in Committed : k <= n
=============================================================================
