------------------------------ MODULE Scanner -------------------------------
(***************************************************************************)
(* Pairing sessions of barcode scanners: a map in memory, written to a     *)
(* file after each change and read back at the start of the process.       *)
(* Codes are not reused, so a session stands for its code.                 *)
(***************************************************************************)
EXTENDS Naturals, FiniteSets

CONSTANTS Store,
          Session,  \* sessions that may ever be opened
          Phone     \* requests that wait for the database

VARIABLES of,       \* the store each session was opened for
          mem,      \* activeSessions
          file,     \* the sessions a start would read from the file
          expired,  \* sessions past their time to live
          listening,\* sessions that have a browser in sseClients
          unsaved,  \* sessions that came or went since the last write of the file
          torn,     \* history: the last write that reached the file broke off
          phone     \* what each request waits for

vars == <<of, mem, file, expired, listening, unsaved, torn, phone>>

Idle == [op |-> "idle"]
Nobody == "nobody"
Init == /\ of = [s \in Session |-> Nobody]
        /\ mem = {} /\ file = {} /\ expired = {} /\ listening = {} /\ unsaved = {}
        /\ torn = FALSE
        /\ phone = [p \in Phone |-> Idle]

Wait(p, what) == phone[p] = Idle /\ phone' = [phone EXCEPT ![p] = what]
Done(p) == phone' = [phone EXCEPT ![p] = Idle]

(* persistSessions writes the whole map in place, so a write that breaks   *)
(* off leaves a file that cannot be parsed; failures are only logged.      *)
Persist == \/ file' = mem' /\ unsaved' = {} /\ torn' = FALSE
           \/ /\ file' = file /\ torn' = torn                \* not opened
              /\ unsaved' = unsaved \cup ((mem \ mem') \cup (mem' \ mem))
           \/ /\ file' = {} /\ torn' = TRUE                  \* truncated
              /\ unsaved' = unsaved \cup ((mem \ mem') \cup (mem' \ mem))

ListSessions(st) == {s \in mem \ expired : of[s] = st}

(* The store is looked up first; the rest runs without a break.            *)
CreateSession(p, st) == /\ Wait(p, [op |-> "create", for |-> st])
                        /\ UNCHANGED <<of, mem, file, expired, listening, unsaved, torn>>
OpenSession(p, s) ==
  /\ phone[p].op = "create"
  /\ LET st == phone[p].for IN
     /\ ListSessions(st) = {}
     /\ of[s] = Nobody
     /\ of' = [of EXCEPT ![s] = st]
     /\ mem' = mem \cup {s}
     /\ Persist
  /\ Done(p)
  /\ UNCHANGED <<expired, listening>>
ReuseSession(p) == /\ phone[p].op = "create"
                   /\ ListSessions(phone[p].for) # {}
                   /\ Done(p)
                   /\ UNCHANGED <<of, mem, file, expired, listening, unsaved, torn>>

Expire(s) == /\ s \in mem \ expired
             /\ expired' = expired \cup {s}
             /\ UNCHANGED <<of, mem, file, listening, unsaved, torn, phone>>

(* An expired session is dropped when it is asked for, closed by its host, *)
(* or swept with the others; the browsers hear of the last two.            *)
ForgetUnsaved(gone) ==     \* mutant of Forget: the file is not written
  mem' = mem \ gone /\ UNCHANGED <<file, unsaved, torn>>
Forget(gone) == mem' = mem \ gone /\ Persist
GetExpired(s) == /\ s \in mem \cap expired
                 /\ Forget({s})
                 /\ UNCHANGED <<of, expired, listening, phone>>
CloseSession(s) == /\ s \in mem \ expired
                   /\ Forget({s})
                   /\ listening' = listening \ {s}
                   /\ UNCHANGED <<of, expired, phone>>
CleanUp == /\ mem \cap expired # {}
           /\ Forget(expired)
           /\ listening' = listening \ (mem \cap expired)
           /\ UNCHANGED <<of, expired, phone>>

Subscribe(s) == /\ s \in mem \ expired
                /\ listening' = listening \cup {s}
                /\ UNCHANGED <<of, mem, file, expired, unsaved, torn, phone>>
Unsubscribe(s) == /\ s \in listening
                  /\ listening' = listening \ {s}
                  /\ UNCHANGED <<of, mem, file, expired, unsaved, torn, phone>>

(* A scan waits for the item; browsers that are gone by then are dropped.  *)
Scan(p, s) == /\ s \in mem \ expired
              /\ Wait(p, [op |-> "scan", in |-> s])
              /\ UNCHANGED <<of, mem, file, expired, listening, unsaved, torn>>
Push(p) == /\ phone[p].op = "scan"
           /\ listening' \in {listening, listening \ {phone[p].in}}
           /\ Done(p)
           /\ UNCHANGED <<of, mem, file, expired, unsaved, torn>>

Restart == /\ mem' = file \ expired
           /\ listening' = {}
           /\ unsaved' = {} /\ torn' = FALSE
           /\ phone' = [p \in Phone |-> Idle]
           /\ UNCHANGED <<of, file, expired>>

Next == \/ \E p \in Phone : \/ \E st \in Store : CreateSession(p, st)
                            \/ \E s \in Session : OpenSession(p, s)
                            \/ ReuseSession(p)
                            \/ \E s \in Session : Scan(p, s)
                            \/ Push(p)
        \/ \E s \in Session : \/ Expire(s)
                              \/ GetExpired(s)
                              \/ CloseSession(s)
                              \/ Subscribe(s)
                              \/ Unsubscribe(s)
        \/ CleanUp
        \/ Restart

Spec == Init /\ [][Next]_vars

-----------------------------------------------------------------------------
(* A store has one pairing that works, also after a restart, although two  *)
(* requests may look for it together (scanner.service.ts:132-139).         *)
OneSessionPerStore ==
  \A st \in Store, sessions \in {mem, file} :
    Cardinality({s \in sessions \ expired : of[s] = st}) <= 1

(* A restart brings back the sessions that were there and no closed one,   *)
(* but for those changed since the file could last be written; only when   *)
(* that write broke off are all of them gone (scanner.service.ts:39-51).   *)
RestartRestores ==
  ~torn => ((mem \ file) \cup (file \ mem)) \ expired \subseteq unsaved
=============================================================================
