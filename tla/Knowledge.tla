----------------------------- MODULE Knowledge ------------------------------
(***************************************************************************)
(* The assistant's learned answers: a map in memory, a JSON file written   *)
(* by a debounced save, and a SQLite vault. A save takes its data when its *)
(* directory is there, writes it to a temporary file and renames that.     *)
(***************************************************************************)
EXTENDS Naturals, FiniteSets

CONSTANTS Answer,   \* answers that may be learned
          HotLimit, \* answers kept in memory
          Asker,    \* requests that wait for an embedding
          MaxStops  \* bound: failed writes and restarts

VARIABLES items,     \* answers in memory
          file,      \* answers in the file
          vault,     \* answers in the vault
          cold,      \* answers that were learned without a place in memory
          timer,     \* the debounce timer that runs, 0 for none
          save,      \* the save under way: whether its data is taken, and the data
          pending,   \* pendingSave
          backfill,  \* where the backfill of embeddings is
          asker,     \* the answer each request is about to learn
          lost,      \* answers whose write failed, or which a restart forgot
          stops

vars == <<items, file, vault, cold, timer, save, pending, backfill, asker, lost, stops>>

NoAnswer == "none"
Off == [on |-> FALSE, taken |-> FALSE, data |-> {}]

Init == /\ items = {} /\ file = {} /\ vault = {} /\ cold = {} /\ lost = {}
        /\ timer = 0 /\ pending = FALSE /\ stops = 0
        /\ save = Off
        /\ backfill = "waiting"
        /\ asker = [a \in Asker |-> NoAnswer]

IsSaving == save.on

(* saveKnowledge clears the timer and sets a new one, which two names are  *)
(* enough to tell apart; the promise of a call whose timer it clears is    *)
(* never settled.                                                          *)
SetTimer == IF timer = 1 THEN 2 ELSE 1
Request == /\ timer' = SetTimer
           /\ backfill' = IF backfill = "saving" THEN "stuck" ELSE backfill

Learn(a, i) == /\ asker[a] = NoAnswer
               /\ i \notin items \cup vault \cup cold
               /\ \A b \in Asker : asker[b] # i
               /\ asker' = [asker EXCEPT ![a] = i]
               /\ UNCHANGED <<items, file, vault, cold, timer, save, pending, backfill, lost, stops>>

(* With its embedding, or without one, it goes to the vault, if that could *)
(* be opened and the statement succeeds, and to memory if there is room.   *)
(* The vault's quota may prune answers nobody asked for, the new one too.  *)
Insert(i) == vault \cup {i}
EnforceStorageQuota(rows, pruned) == rows \ pruned
Learned(a, ready, pruned) ==
  /\ asker[a] # NoAnswer
  /\ pruned \subseteq IF ready THEN Insert(asker[a]) ELSE {}
  /\ vault' = IF ready THEN EnforceStorageQuota(Insert(asker[a]), pruned) ELSE vault
  /\ \/ /\ Cardinality(items) < HotLimit
        /\ items' = items \cup {asker[a]}
        /\ Request
        /\ UNCHANGED cold
     \/ /\ Cardinality(items) >= HotLimit
        /\ cold' = cold \cup {asker[a]}
        /\ UNCHANGED <<items, timer, backfill>>
  /\ asker' = [asker EXCEPT ![a] = NoAnswer]
  /\ UNCHANGED <<file, save, pending, lost, stops>>

(* An answer found in memory counts the hit and asks for a save.           *)
Hit(i) == /\ i \in items
          /\ Request
          /\ UNCHANGED <<items, file, vault, cold, save, pending, asker, lost, stops>>

-----------------------------------------------------------------------------
Begin == save' = [Off EXCEPT !.on = TRUE]
FireForgetting ==     \* mutant of Fire: a save in progress is taken to be enough
  /\ timer # 0
  /\ timer' = 0
  /\ IF IsSaving THEN UNCHANGED save ELSE Begin
  /\ UNCHANGED <<items, file, vault, cold, pending, backfill, asker, lost, stops>>
Fire == /\ timer # 0
        /\ timer' = 0
        /\ \/ /\ ~IsSaving
              /\ Begin
              /\ backfill' = IF backfill = "saving" THEN "writing" ELSE backfill
              /\ UNCHANGED pending
           \/ /\ IsSaving
              /\ pending' = TRUE
              /\ backfill' = IF backfill = "saving" THEN "done" ELSE backfill
              /\ UNCHANGED save
        /\ UNCHANGED <<items, file, vault, cold, asker, lost, stops>>

TakeData == /\ save.on /\ ~save.taken
            /\ save' = [on |-> TRUE, taken |-> TRUE, data |-> items]
            /\ UNCHANGED <<items, file, vault, cold, timer, pending, backfill, asker, lost, stops>>

(* Whether it was written or not, the save ends, and asks for the next one *)
(* if one came meanwhile.                                                  *)
Finish == /\ save.taken
          /\ save' = Off
          /\ pending' = FALSE
          /\ timer' = IF pending THEN SetTimer ELSE timer
          /\ backfill' = CASE backfill = "writing" -> "done"
                           [] backfill = "saving" /\ pending -> "stuck"
                           [] OTHER -> backfill
Written == /\ Finish
           /\ file' = save.data
           /\ lost' = lost \ save.data
           /\ UNCHANGED <<items, vault, cold, asker, stops>>
WriteFails == /\ stops < MaxStops /\ stops' = stops + 1
              /\ Finish
              /\ lost' = lost \cup save.data
              /\ UNCHANGED <<items, file, vault, cold, asker>>

-----------------------------------------------------------------------------
Backfill == /\ \/ backfill = "waiting" /\ backfill' = "running" /\ UNCHANGED timer
               \/ backfill = "running" /\ backfill' = "saving" /\ timer' = SetTimer
               \/ backfill = "running" /\ backfill' = "done" /\ UNCHANGED timer
            /\ UNCHANGED <<items, file, vault, cold, save, pending, asker, lost, stops>>

(* The file is read again; what it holds is put into the vault.            *)
Restart == /\ stops < MaxStops /\ stops' = stops + 1
           /\ items' = file
           /\ lost' = lost \cup (items \ file)
           /\ vault' = vault \cup file
           /\ timer' = 0 /\ pending' = FALSE
           /\ save' = Off
           /\ backfill' = "waiting"
           /\ asker' = [a \in Asker |-> NoAnswer]
           /\ UNCHANGED <<file, cold>>

Next == \/ \E a \in Asker, i \in Answer : Learn(a, i)
        \/ \E a \in Asker, ready \in BOOLEAN, pruned \in SUBSET Answer : Learned(a, ready, pruned)
        \/ \E i \in Answer : Hit(i)
        \/ Fire
        \/ TakeData
        \/ Written
        \/ WriteFails
        \/ Backfill
        \/ Restart

(* Each request puts the save off by another debounce, and there is no     *)
(* longest wait: what happens is that the timer fires or is set again.     *)
Postpone == Next /\ timer # 0 /\ timer' \notin {0, timer}

Fairness == WF_vars(Fire \/ Postpone) /\ WF_vars(TakeData) /\ WF_vars(Written)
Spec == Init /\ [][Next]_vars /\ Fairness

-----------------------------------------------------------------------------
(* What is learned is in the file in the end and stays there, however      *)
(* learning, hits and saves overlap: a save asked for while another one    *)
(* runs is made after it, and no older one overwrites it. Only a failed    *)
(* write or a restart in between may lose it, or requests that come for    *)
(* ever within the debounce of one another (ai-memory.service.ts:449).     *)
KnowledgeSaved ==
    \A i \in Answer : [](i \in items => <>[](i \in file \/ i \in lost)) \/ <>[](timer # 0)
=============================================================================
