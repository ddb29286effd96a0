-------------------------- MODULE MCOrderLifecycle --------------------------
(***************************************************************************)
(* A shop with one order of one line: "counter" is an order of two units   *)
(* whose amount does not divide evenly, "momo" is paid by MoMo.            *)
(***************************************************************************)
EXTENDS OrderLifecycle, TLC

OwnChannel == [o \in Order |-> o]
OneLineQty == [o \in Order |-> 1 :> IF o = "counter" THEN 2 ELSE 1]
OneLineRefundable == [o \in Order |-> 1 :> IF o = "counter" THEN 3 ELSE 1]
TwoUnits == 1 :> 2
=============================================================================
