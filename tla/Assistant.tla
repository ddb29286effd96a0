----------------------------- MODULE Assistant ------------------------------
(***************************************************************************)
(* Asking the assistant: the daily quota of the store is checked, the      *)
(* rules give the facts, the learned answers or the language model the     *)
(* wording, and the interaction is recorded last. What is recorded is what *)
(* the next check counts.                                                  *)
(***************************************************************************)
EXTENDS Naturals, FiniteSets

CONSTANTS Asker,   \* questions that may be under way together
          Quota,   \* values of ai.dailyQuotaPerStore; 0 is its default, and no limit
          MaxUsed  \* bound: interactions of a day

VARIABLES quota,   \* the setting
          used,    \* the store's interactions today
          limit,   \* the largest limit that a question of today was let through by
          ask      \* where each question is

vars == <<quota, used, limit, ask>>

Idle == [st |-> "idle"]
Init == quota \in Quota /\ used = 0 /\ limit = 0 /\ ask = [a \in Asker |-> Idle]

At(a, st) == ask[a].st = st
To(a, what) == ask' = [ask EXCEPT ![a] = what]
ModelTurn == [st |-> "model", try |-> 1]

(* The setting is read, or its default if it cannot be, then the day's     *)
(* interactions are counted.                                               *)
ExhaustedAbove(q) == q # 0 /\ used > q    \* mutant of Exhausted
Exhausted(q) == q # 0 /\ used >= q
Limit(q) == IF q = 0 THEN MaxUsed + 1 ELSE q
AssertQuota(a, q) == /\ At(a, "idle")
                     /\ q \in {quota, 0}
                     /\ ~Exhausted(q)
                     /\ limit' = IF Limit(q) > limit THEN Limit(q) ELSE limit
                     /\ To(a, [st |-> "rules"])
                     /\ UNCHANGED <<quota, used>>

(* The rules' answer; an item that is not there ends the request. A chat   *)
(* is looked up among the learned answers, an explanation is not.          *)
AnswerQuestion(a) == /\ At(a, "rules")
                     /\ To(a, [st |-> "memory"]) \/ To(a, ModelTurn) \/ To(a, Idle)
                     /\ UNCHANGED <<quota, used, limit>>
FindSimilar(a) == /\ At(a, "memory")
                  /\ To(a, [st |-> "answered"]) \/ To(a, ModelTurn)
                  /\ UNCHANGED <<quota, used, limit>>

(* One retry after a rate limit or a server's error; an answer, a timeout, *)
(* another failure or a model that is not configured ends the turn, in the *)
(* last three cases with a learned answer or the rules'.                   *)
Retry(a) == /\ At(a, "model") /\ ask[a].try = 1
            /\ To(a, [ask[a] EXCEPT !.try = 2])
            /\ UNCHANGED <<quota, used, limit>>
Complete(a) == /\ At(a, "model")
               /\ To(a, [st |-> "answered"])
               /\ UNCHANGED <<quota, used, limit>>

(* Answers of every kind are recorded, failures of the model too; a record *)
(* that cannot be written does not stop the answer.                        *)
RecordInteraction(a) == /\ At(a, "answered")
                        /\ used < MaxUsed
                        /\ used' \in {used, used + 1}
                        /\ To(a, Idle)
                        /\ UNCHANGED <<quota, limit>>

SetQuota(q) == quota' = q /\ UNCHANGED <<used, limit, ask>>
Midnight == used' = 0 /\ limit' = 0 /\ UNCHANGED <<quota, ask>>

Step(a) == \/ \E q \in Quota \cup {0} : AssertQuota(a, q)
           \/ AnswerQuestion(a)
           \/ FindSimilar(a)
           \/ Retry(a)
           \/ Complete(a)
           \/ RecordInteraction(a)
Next == \/ \E a \in Asker : Step(a)
        \/ \E q \in Quota : SetQuota(q)
        \/ Midnight

Spec == Init /\ [][Next]_vars

-----------------------------------------------------------------------------
(* A store's interactions of a day stay within the largest quota a check   *)
(* of that day went by, but for the questions that were under way when the *)
(* last one within it was let through; those of the day before count too   *)
(* (assistant.controller.ts:12-28).                                        *)
UnderWay == Cardinality({a \in Asker : ~At(a, "idle")})
Allowed == IF limit = 0 THEN 1 ELSE limit
QuotaHolds == used + UnderWay < Allowed + Cardinality(Asker)
=============================================================================
