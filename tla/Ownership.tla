----------------------------- MODULE Ownership ------------------------------
(***************************************************************************)
(* Who owns a store. An administrator hands a store over to one of its     *)
(* staff in a transaction that locks the store's row; the owner edits and  *)
(* deletes staff, and administrators lock accounts, from reads made before *)
(* their transactions and without that lock.                               *)
(***************************************************************************)
EXTENDS Naturals, FiniteSets

CONSTANTS User,       \* accounts of the store
          FirstOwner, \* who registered it
          Caller      \* requests that may be under way together

VARIABLES role,    \* "owner", "staff" or, once deleted, "gone"
          active,  \* the account is active
          call     \* what each request has read; a handover holds the lock

vars == <<role, active, call>>

Idle == [op |-> "idle"]
Init == /\ role = [u \in User |-> IF u = FirstOwner THEN "owner" ELSE "staff"]
        /\ active = [u \in User |-> TRUE]
        /\ call = [c \in Caller |-> Idle]

Hold(c, what) == call[c] = Idle /\ call' = [call EXCEPT ![c] = what]
Done(c) == call' = [call EXCEPT ![c] = Idle]
Abandon(c) == call[c] # Idle /\ Done(c) /\ UNCHANGED <<role, active>>

Owners == {u \in User : role[u] = "owner"}
StoreLocked == \E c \in Caller : call[c].op = "handover"

(* The store's row is locked before the first plain read, so the snapshot  *)
(* is later than any handover that held the lock.                          *)
HandoverBegin(c, u, drop) == /\ ~StoreLocked
                             /\ role[u] = "staff" /\ active[u]
                             /\ Hold(c, [op |-> "handover", to |-> u, drop |-> drop])
                             /\ UNCHANGED <<role, active>>

(* Every owner is demoted, the recipient promoted unless it was deleted,   *)
(* and the result counted in the transaction's own view: rolled back       *)
(* unless there is one active owner.                                       *)
HandedOver(u) == [v \in User |-> IF v = u THEN "owner"
                                 ELSE IF role[v] = "owner" THEN "staff" ELSE role[v]]

(* Mutant of Handover: the active owners are not counted.                  *)
HandoverUncounted(c) ==
  /\ call[c].op = "handover"
  /\ role[call[c].to] # "gone"
  /\ role' = HandedOver(call[c].to)
  /\ active' = [v \in User |-> active[v] /\ ~(call[c].drop /\ v \in Owners)]
  /\ Done(c)

Handover(c) ==
  /\ call[c].op = "handover"
  /\ LET u == call[c].to IN
     /\ role[u] # "gone"
     /\ active[u]
     /\ role' = HandedOver(u)
     /\ active' = [v \in User |-> active[v] /\ ~(call[c].drop /\ v \in Owners)]
  /\ Done(c)

(* updateStaff and deleteStaff check the role they read, and write by id.  *)
StaffRead(c, u, op) == /\ role[u] = "staff" \/ (role[u] = "owner" /\ op = "enable")
                       /\ Hold(c, [op |-> op, who |-> u])
                       /\ UNCHANGED <<role, active>>
StaffStatus(c, op) == /\ call[c].op = op
                      /\ role[call[c].who] # "gone"
                      /\ active' = [active EXCEPT ![call[c].who] = (op = "enable")]
                      /\ Done(c)
                      /\ UNCHANGED role
StaffDelete(c) == /\ call[c].op = "delete"
                  /\ role[call[c].who] # "gone"
                  /\ role' = [role EXCEPT ![call[c].who] = "gone"]
                  /\ Done(c)
                  /\ UNCHANGED active

(* An administrator locks or unlocks any account.                          *)
AdminStatus(u) == /\ role[u] # "gone"
                  /\ active' = [active EXCEPT ![u] = ~@]
                  /\ UNCHANGED <<role, call>>

Step(c) == \/ Abandon(c)
           \/ \E u \in User, drop \in BOOLEAN : HandoverBegin(c, u, drop)
           \/ Handover(c)
           \/ \E u \in User, op \in {"enable", "disable", "delete"} : StaffRead(c, u, op)
           \/ \E op \in {"enable", "disable"} : StaffStatus(c, op)
           \/ StaffDelete(c)

Next == \/ \E c \in Caller : Step(c)
        \/ \E u \in User : AdminStatus(u)

Spec == Init /\ [][Next]_vars

-----------------------------------------------------------------------------
(* The accounts and the requests under way are well formed.                *)
TypeOK == /\ role \in [User -> {"owner", "staff", "gone"}]
          /\ active \in [User -> BOOLEAN]
          /\ \A c \in Caller : call[c].op \in {"idle", "handover", "enable", "disable", "delete"}

(* Whatever happens to the recipient while a handover is under way, the    *)
(* store that gets a new owner has exactly this one, and it is active:     *)
(* "so the single-owner invariant holds" (admin-ops.service.ts:692).       *)
HandoverLeavesOneOwner ==
  [][Owners' \ Owners # {} => /\ Cardinality(Owners') = 1
                              /\ \A u \in Owners' : active'[u]]_vars

(* A store keeps an owner: deleting is limited to WAREHOUSE_STAFF          *)
(* (docs/BUSINESS_RULES.md:101, ACC-002; user.service.ts:236-238).         *)
StoreKeepsOwner == Owners # {}
=============================================================================
