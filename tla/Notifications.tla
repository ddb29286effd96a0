---------------------------- MODULE Notifications ---------------------------
(***************************************************************************)
(* The notifications of one user. Listing them first creates those of the  *)
(* open alerts, pending prices and recent orders that have none, and one   *)
(* of the system that counts as read; posts and answers of the platform    *)
(* team create others; the user marks them read from several tabs.         *)
(***************************************************************************)
EXTENDS Naturals, FiniteSets, Sequences

CONSTANTS Tab,     \* requests of the user that may be under way together
          Event,   \* alerts, prices and orders
          MaxRows  \* bound: notifications

VARIABLES rows,  \* [about, read, stamps]: stamps counts how often readAt was set
          tab    \* what each request has found

vars == <<rows, tab>>

Post == "post"
System == "sync-ready"
Idle == [op |-> "idle"]
Init == rows = <<>> /\ tab = [t \in Tab |-> Idle]

Hold(t, what) == tab[t] = Idle /\ tab' = [tab EXCEPT ![t] = what]
Done(t) == tab' = [tab EXCEPT ![t] = Idle]
GiveUp(t) == tab[t] # Idle /\ Done(t) /\ UNCHANGED rows
About(e) == {n \in 1..Len(rows) : rows[n].about = e}
Add(about) == /\ Len(rows) < MaxRows
              /\ rows' = Append(rows, [about |-> about, read |-> about = System, stamps |-> 0])

(* syncRealNotifications looks for each event's notification, then creates *)
(* it; nothing keeps two requests from both doing so.                      *)
Missing(t, e) == About(e) = {} /\ Hold(t, [op |-> "sync", for |-> e]) /\ UNCHANGED rows
CreateMissing(t) == tab[t].op = "sync" /\ Add(tab[t].for) /\ Done(t)

Broadcast == Add(Post) /\ UNCHANGED tab

FindUnread(t, n) == /\ n \in 1..Len(rows) /\ ~rows[n].read
                    /\ Hold(t, [op |-> "read", row |-> n])
                    /\ UNCHANGED rows
Stamped(r) == [about |-> r.about, read |-> TRUE, stamps |-> r.stamps + 1]
AnyRow(n) == TRUE     \* mutant of Unread: the update looks for the id alone
Unread(n) == ~rows[n].read
MarkRead(t) ==
  /\ tab[t].op = "read"
  /\ LET n == tab[t].row IN rows' = IF Unread(n) THEN [rows EXCEPT ![n] = Stamped(@)] ELSE rows
  /\ Done(t)
MarkAllRead == /\ \E n \in 1..Len(rows) : ~rows[n].read
               /\ rows' = [n \in 1..Len(rows) |-> IF rows[n].read THEN rows[n] ELSE Stamped(rows[n])]
               /\ UNCHANGED tab

Step(t) == \/ GiveUp(t)
           \/ \E e \in Event \cup {System} : Missing(t, e)
           \/ CreateMissing(t)
           \/ \E n \in 1..MaxRows : FindUnread(t, n)
           \/ MarkRead(t)

Next == (\E t \in Tab : Step(t)) \/ Broadcast \/ MarkAllRead

Spec == Init /\ [][Next]_vars

-----------------------------------------------------------------------------
(* readAt tells when a notification was first read: marking it in one tab  *)
(* while another marks it, or all, does not move it. That of the system is *)
(* created as read and never gets one (notification.service.ts:178-201).   *)
ReadOnce == \A n \in 1..Len(rows) :
  rows[n].stamps = IF rows[n].read /\ rows[n].about # System THEN 1 ELSE 0
=============================================================================
