------------------------------ MODULE Support -------------------------------
(***************************************************************************)
(* A support ticket between a store and the platform team. Both sides read *)
(* the ticket first and write it in a later transaction, by its id alone,  *)
(* so a call acts on the status it has read.                               *)
(***************************************************************************)
EXTENDS Naturals

CONSTANT Clerk   \* calls of both sides that may be under way together

VARIABLES status,      \* of the ticket
          dated,       \* resolvedAt is set
          unread,      \* the sides that have a message they have not opened
          asked,       \* the store wrote since an administrator last set a status
          work         \* what each call has read

vars == <<status, dated, unread, asked, work>>

Status == {"OPEN", "IN_PROGRESS", "WAITING_STORE", "RESOLVED"}
Idle == [op |-> "idle"]

Init == /\ status = "OPEN"
        /\ dated = FALSE
        /\ unread = {"admin"}
        /\ asked = TRUE
        /\ work = [c \in Clerk |-> Idle]

Hold(c, what) == work[c] = Idle /\ work' = [work EXCEPT ![c] = what]
Done(c) == work' = [work EXCEPT ![c] = Idle]
GiveUp(c) == work[c] # Idle /\ Done(c) /\ UNCHANGED <<status, dated, unread, asked>>

ReadTicket(c, op) == /\ Hold(c, [op |-> op, was |-> status])
                     /\ UNCHANGED <<status, dated, unread, asked>>

(* A reply of the store gives the ticket back to the team and reopens it.  *)
NextUnlessResolved(was) ==     \* mutant of NextStatus
  IF was = "WAITING_STORE" THEN "OPEN" ELSE was
NextStatus(was) == IF was \in {"WAITING_STORE", "RESOLVED"} THEN "OPEN" ELSE was
ReplyAsStore(c) ==
  /\ work[c].op = "store"
  /\ status' = NextStatus(work[c].was)
  /\ dated' = (dated /\ status' = work[c].was)
  /\ unread' = (unread \cup {"admin"}) \ {"store"}
  /\ asked' = TRUE
  /\ Done(c)

(* An internal note touches nothing else; an answer waits for the store.   *)
ReplyAsAdmin(c, internal) ==
  /\ work[c].op = "admin"
  /\ \/ internal /\ UNCHANGED <<status, unread>>
     \/ /\ ~internal
        /\ status' = IF work[c].was = "RESOLVED" THEN status ELSE "WAITING_STORE"
        /\ unread' = (unread \cup {"store"}) \ {"admin"}
  /\ Done(c)
  /\ UNCHANGED <<dated, asked>>

(* The status is set whatever it is by now, and whoever wrote meanwhile.   *)
UpdateTicket(to) == /\ status' = to
                    /\ dated' = (to = "RESOLVED")
                    /\ asked' = FALSE
                    /\ UNCHANGED <<unread, work>>

(* Opening reads the messages, then marks them all as read.                *)
OpenTicket(c, side) == /\ side \in unread
                       /\ Hold(c, [op |-> "open", side |-> side])
                       /\ UNCHANGED <<status, dated, unread, asked>>
MarkOpened(c) == /\ work[c].op = "open"
                 /\ unread' = unread \ {work[c].side}
                 /\ Done(c)
                 /\ UNCHANGED <<status, dated, asked>>

Step(c) == \/ GiveUp(c)
           \/ \E op \in {"store", "admin"} : ReadTicket(c, op)
           \/ ReplyAsStore(c)
           \/ \E internal \in BOOLEAN : ReplyAsAdmin(c, internal)
           \/ \E side \in {"store", "admin"} : OpenTicket(c, side)
           \/ MarkOpened(c)

Next == (\E c \in Clerk : Step(c)) \/ (\E to \in Status : UpdateTicket(to))

Spec == Init /\ [][Next]_vars

-----------------------------------------------------------------------------
(* However their calls cross, a ticket is resolved only if an administrator*)
(* set it so after the last message of the store was stored, and then it   *)
(* is dated: a reply that crosses reopens it (support.service.ts:198-199). *)
(* Whether the administrator had seen that message is not asked (399-408). *)
RepliesReopen == status = "RESOLVED" => dated /\ ~asked
=============================================================================
