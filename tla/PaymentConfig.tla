--------------------------- MODULE PaymentConfig ----------------------------
(***************************************************************************)
(* The PayOS credentials of a store: one row of three encrypted parts. The *)
(* parts left blank in a save keep the value that was read before it. The  *)
(* server has one key; it may come back from a restart with another.       *)
(***************************************************************************)
EXTENDS Naturals

CONSTANTS Owner,   \* requests that may be under way together
          Key      \* encryption keys the server is ever started with

VARIABLES config,  \* the row: the key each part is encrypted with, and isActive
          saved,   \* the key at the time of the last save
          key,     \* the key of the running server
          form     \* what each request has read

vars == <<config, saved, key, form>>

Part == {"clientId", "apiKey", "checksumKey"}
Idle == [op |-> "idle"]
None == [parts |-> [p \in Part |-> "none"], active |-> FALSE, there |-> FALSE]

Init == /\ config = None
        /\ saved = "none"
        /\ key \in Key
        /\ form = [o \in Owner |-> Idle]

Hold(o, what) == form[o] = Idle /\ form' = [form EXCEPT ![o] = what]
Done(o) == form' = [form EXCEPT ![o] = Idle]
GiveUp(o) == form[o] # Idle /\ Done(o) /\ UNCHANGED <<config, saved, key>>

(* The first save needs every part; a later one needs those left blank to  *)
(* be readable still.                                                      *)
KeptUnchecked(row, given) == row.there \/ given = Part     \* mutant of KeptReadable
KeptReadable(row, given) == \A p \in Part \ given : row.there /\ row.parts[p] = key
ReadConfig(o, given) ==
  /\ KeptReadable(config, given)
  /\ Hold(o, [op |-> "save", given |-> given, row |-> config])
  /\ UNCHANGED <<config, saved, key>>

(* Every column is written, those kept as they were read.                  *)
Upsert(o, active) ==
  /\ form[o].op = "save"
  /\ config' = [parts |-> [p \in Part |-> IF p \in form[o].given THEN key ELSE form[o].row.parts[p]],
                active |-> IF active = "keep" THEN form[o].row.there => form[o].row.active
                           ELSE active = "on",
                there |-> TRUE]
  /\ saved' = key
  /\ Done(o)
  /\ UNCHANGED key

SetActive(on) == /\ config.there
                 /\ config' = [config EXCEPT !.active = on]
                 /\ UNCHANGED <<saved, key, form>>

(* The environment of the process names its key.                           *)
Restart(k) == /\ key' = k
              /\ form' = [o \in Owner |-> Idle]
              /\ UNCHANGED <<config, saved>>

Next == \/ \E o \in Owner : \/ GiveUp(o)
                            \/ \E given \in SUBSET Part : ReadConfig(o, given)
                            \/ \E active \in {"keep", "on", "off"} : Upsert(o, active)
        \/ \E on \in BOOLEAN : SetActive(on)
        \/ \E k \in Key : Restart(k)

Spec == Init /\ [][Next]_vars

-----------------------------------------------------------------------------
(* The parts of a saved configuration are all readable with the key it was *)
(* saved under, whichever of them overlapping saves gave and whatever key  *)
(* earlier ones were made with (store-payment-config.service.ts:126-138).  *)
SaveLeavesReadable == config.there => \A p \in Part : config.parts[p] = saved
=============================================================================
