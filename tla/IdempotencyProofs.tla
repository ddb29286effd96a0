-------------------------- MODULE IdempotencyProofs --------------------------
(***************************************************************************)
(* What the Idempotency-Key middleware promises, for any number of         *)
(* attempts, keys and bodies, whichever operations carry an effect key.    *)
(***************************************************************************)
EXTENDS Idempotency, FiniteSetTheorems, TLAPS

EffectsOf(k) == {e \in effects : e.key = k}
Running(k) == {a \in Attempt : pc[a] = "run" /\ KeyOf(a) = k}

(* What may still run for a key: its attempts that do, and one more once   *)
(* its record has lapsed.  The record itself and each lapse have paid for  *)
(* one, whether it took effect or not.                                     *)
Budget(k) == lapses[k] + (IF rec[k] = NoRecord THEN 0 ELSE 1)
Lapsed(k) == IF k \in lapsed THEN 1 ELSE 0
WithinBudget ==
    \A k \in Key :
        /\ IsFiniteSet(EffectsOf(k)) /\ IsFiniteSet(Running(k))
        /\ Cardinality(EffectsOf(k)) + Cardinality(Running(k)) + Lapsed(k) <= Budget(k)

(* An effect key is taken once.                                            *)
KeyedOnce == \A e, f \in effects : e.key = f.key /\ e.key \in Keyed => e = f

(* Attempts beyond the comparison with a record are of its body, and so is *)
(* what they commit.                                                       *)
PastRecord == {"recover", "recoverOnly", "store", "reclaim", "run", "complete", "fail"}
BodiesAgree ==
    /\ \A a \in Attempt : pc[a] \in PastRecord => Of(a) # NoRecord /\ Of(a).body = BodyOf(a)
    /\ \A e \in effects : rec[e.key] # NoRecord /\ rec[e.key].body = e.body

(* The effects that the success of a key may be answered with.             *)
Own(k) == {e \in effects : (\A l \in Key : <<k, l>> \notin Extends) => e.key = k /\ e.body = rec[k].body}

(* What is about to be answered, or stored to be replayed, is own.         *)
FoundOwn ==
    /\ \A a \in Attempt : pc[a] \in {"store", "complete"} => found[a] \in Own(KeyOf(a))
    /\ \A k \in Key : rec[k] # NoRecord /\ rec[k].status = "COMPLETED" => rec[k].response \in Own(k)

(* An answered attempt is done.                                            *)
AnsweredAreDone == \A a \in Attempt : answer[a] = "ok" => pc[a] = "done"

(* The inductive invariant.                                                *)
RetriesSafe ==
    /\ TypeOK
    /\ WithinBudget
    /\ KeyedOnce
    /\ BodiesAgree
    /\ FoundOwn
    /\ AnsweredAreDone
    /\ AnswerIsOwnEffect
-----------------------------------------------------------------------------
(* An attempt that has arrived has a key, a body and perhaps a record.     *)
LEMMA RequestTyped ==
    ASSUME TypeOK, NEW a \in Attempt, pc[a] # "new"
    PROVE  /\ req[a] \in Request
           /\ KeyOf(a) \in Key /\ BodyOf(a) \in Body
           /\ rec[KeyOf(a)] \in {NoRecord}
                \cup [status : {"PROCESSING", "FAILED"}, body : Body, response : {NoEffect}]
                \cup [status : {"COMPLETED"}, body : Body, response : Effect]
BY DEF TypeOK, Request, KeyOf, BodyOf

(* What a lookup that finds a record may do to its attempt.                *)
LEMMA ExistingDoes ==
    ASSUME NEW a \in Attempt, NEW recover, Existing(a, recover)
    PROVE  /\ Of(a) # NoRecord
           /\ \/ /\ pc' = [pc EXCEPT ![a] = "done"]
                 /\ answer' = [answer EXCEPT ![a] = "conflict"]
                 /\ found' = found
              \/ /\ ~Foreign(a) /\ Of(a).status = "COMPLETED"
                 /\ pc' = [pc EXCEPT ![a] = "done"]
                 /\ answer' = [answer EXCEPT ![a] = "ok"]
                 /\ found' = [found EXCEPT ![a] = Of(a).response]
              \/ /\ ~Foreign(a)
                 /\ pc' = [pc EXCEPT ![a] = recover]
                 /\ answer' = answer /\ found' = found
BY DEF Existing, Replay, Reply, Goto

(* Types are kept; what is recovered is an effect because it is own.       *)
LEMMA TypeStep ==
    ASSUME TypeOK, FoundOwn, BodiesAgree, [Next]_vars
    PROVE  TypeOK'
<1>1. ASSUME NEW a \in Attempt, NEW k \in Key, NEW b \in Body, Arrive(a, k, b)
      PROVE  TypeOK'
  <2>1. [key |-> k, body |-> b] \in Request
    BY DEF Request
  <2> QED
    BY <1>1, <2>1 DEF Arrive, Goto, TypeOK
<1>2. ASSUME NEW a \in Attempt, Lookup(a) \/ Clash(a)
      PROVE  TypeOK'
  <2>1. UNCHANGED <<req, rec, lapsed, lapses, effects>> /\ pc[a] # "new"
    BY <1>2 DEF Lookup, Clash
  <2>2. CASE Lookup(a) /\ Of(a) = NoRecord
    <3>1. pc' = [pc EXCEPT ![a] = "insert"] /\ answer' = answer /\ found' = found
      BY <2>2 DEF Lookup, Existing, Goto
    <3> QED
      BY <2>1, <3>1 DEF TypeOK
  <2>3. CASE Existing(a, "recover") \/ Existing(a, "recoverOnly")
    <3>1. Of(a) # NoRecord /\ Of(a).status = "COMPLETED" => Of(a).response \in Effect
      BY <2>1, RequestTyped DEF Of
    <3>2. \/ /\ pc' = [pc EXCEPT ![a] = "done"]
             /\ answer' = [answer EXCEPT ![a] = "conflict"]
             /\ found' = found
          \/ /\ pc' = [pc EXCEPT ![a] = "done"]
             /\ answer' = [answer EXCEPT ![a] = "ok"]
             /\ found' = [found EXCEPT ![a] = Of(a).response] /\ Of(a).response \in Effect
          \/ /\ \/ pc' = [pc EXCEPT ![a] = "recover"]
                \/ pc' = [pc EXCEPT ![a] = "recoverOnly"]
             /\ answer' = answer /\ found' = found
      BY <2>3, <3>1, ExistingDoes
    <3> QED
      BY <2>1, <3>2 DEF TypeOK
  <2> QED
    BY <1>2, <2>2, <2>3 DEF Lookup, Clash
<1>3. ASSUME NEW a \in Attempt, Insert(a)
      PROVE  TypeOK'
  <2>1. /\ KeyOf(a) \in Key
        /\ Record("PROCESSING", BodyOf(a), NoEffect)
             \in [status : {"PROCESSING", "FAILED"}, body : Body, response : {NoEffect}]
    BY <1>3, RequestTyped DEF Insert, Record
  <2> HIDE DEF Record
  <2> QED
    BY <1>3, <2>1 DEF Insert, Goto, TypeOK
<1>4. ASSUME NEW a \in Attempt, Recover(a)
      PROVE  TypeOK'
  <2>1. Recoverable(KeyOf(a)) \subseteq Effect
    BY DEF Recoverable, TypeOK
  <2> QED
    BY <1>4, <2>1, ZenonT(60) DEF Recover, Reply, Goto, TypeOK
<1>5. ASSUME NEW a \in Attempt, Store(a) \/ Complete(a) \/ Fail(a)
      PROVE  TypeOK'
  <2>1. /\ KeyOf(a) \in Key /\ pc[a] # "new"
        /\ found[a] \in Effect \cup {NoEffect}
        /\ pc[a] \in {"store", "complete"} => found[a] \in Effect
    BY <1>5, RequestTyped DEF Store, Complete, Fail, FoundOwn, Own, TypeOK
  <2>2. Of(a).body \in Body
    BY <1>5, <2>1, RequestTyped DEF Store, Complete, Fail, BodiesAgree, PastRecord, Of
  <2>3. /\ pc[a] \in {"store", "complete"} => Record("COMPLETED", Of(a).body, found[a])
                 \in [status : {"COMPLETED"}, body : Body, response : Effect]
        /\ Record("FAILED", Of(a).body, NoEffect)
                 \in [status : {"PROCESSING", "FAILED"}, body : Body, response : {NoEffect}]
    BY <2>1, <2>2 DEF Record
  <2>4. \/ rec' = rec
        \/ /\ pc[a] \in {"store", "complete"}
           /\ rec' = [rec EXCEPT ![KeyOf(a)] = Record("COMPLETED", Of(a).body, found[a])]
        \/ rec' = [rec EXCEPT ![KeyOf(a)] = Record("FAILED", Of(a).body, NoEffect)]
    BY <1>5, <2>1 DEF Store, Complete, Fail, Of, TypeOK
  <2> HIDE DEF Record
  <2>5. rec' \in [Key -> {NoRecord}
                   \cup [status : {"PROCESSING", "FAILED"}, body : Body, response : {NoEffect}]
                   \cup [status : {"COMPLETED"}, body : Body, response : Effect]]
    BY <2>1, <2>3, <2>4 DEF TypeOK
  <2> QED
    BY <1>5, <2>1, <2>5 DEF Store, Complete, Fail, Reply, Goto, TypeOK
<1>6. ASSUME NEW a \in Attempt, Reclaim(a)
      PROVE  TypeOK'
  BY <1>6 DEF Reclaim, Reply, Goto, TypeOK
<1>7. ASSUME NEW a \in Attempt, Run(a)
      PROVE  TypeOK'
  <2>1. [key |-> KeyOf(a), body |-> BodyOf(a), by |-> a] \in Effect
    BY <1>7, RequestTyped DEF Run, Effect
  <2> QED
    BY <1>7, <2>1, ZenonT(60) DEF Run, Goto, TypeOK
<1>8. ASSUME NEW a \in Attempt, Die(a)
      PROVE  TypeOK'
  BY <1>8 DEF Die, Goto, TypeOK
<1>9. ASSUME NEW k \in Key, Lapse(k)
      PROVE  TypeOK'
  BY <1>9, LapseAssumption DEF Lapse, TypeOK
<1>10. CASE UNCHANGED vars
  BY <1>10 DEF vars, TypeOK
<1> QED
  BY <1>1, <1>2, <1>3, <1>4, <1>5, <1>6, <1>7, <1>8, <1>9, <1>10 DEF Next
-----------------------------------------------------------------------------
(* A record is never removed and always of the body it was made for.       *)
LEMMA RecordsStay ==
    ASSUME TypeOK, BodiesAgree, [Next]_vars
    PROVE  \A k \in Key : rec[k] # NoRecord => rec'[k] # NoRecord /\ rec'[k].body = rec[k].body
<1>1. ASSUME NEW a \in Attempt, Insert(a)
      PROVE  \A k \in Key : rec[k] # NoRecord => rec'[k] = rec[k]
  BY <1>1 DEF Insert, Of, TypeOK
<1>2. ASSUME NEW a \in Attempt, Store(a) \/ Complete(a) \/ Fail(a)
      PROVE  \A k \in Key : rec[k] # NoRecord => rec'[k] # NoRecord /\ rec'[k].body = rec[k].body
  <2>1. KeyOf(a) \in Key
    BY <1>2, RequestTyped DEF Store, Complete, Fail
  <2>2. \/ rec' = rec
        \/ \E status \in {"COMPLETED", "FAILED"} : \E response :
              rec' = [rec EXCEPT ![KeyOf(a)] = Record(status, rec[KeyOf(a)].body, response)]
    BY <1>2, <2>1 DEF Store, Complete, Fail, TypeOK
  <2>3. \A status \in {"COMPLETED", "FAILED"} : \A body, response :
           Record(status, body, response) # NoRecord /\ Record(status, body, response).body = body
    BY DEF Record, NoRecord
  <2> QED
    BY <2>1, <2>2, <2>3 DEF TypeOK
<1>3. Next => \/ UNCHANGED rec
              \/ \E a \in Attempt : Insert(a) \/ Store(a) \/ Complete(a) \/ Fail(a)
  BY DEF Next, Arrive, Lookup, Clash, Recover, Reclaim, Run, Die, Lapse
<1> QED
  BY <1>1, <1>2, <1>3 DEF vars

(* An attempt passes a record only when it finds or makes one of its body. *)
LEMMA PassesOwnRecord ==
    ASSUME TypeOK, BodiesAgree, [Next]_vars, NEW a \in Attempt, pc'[a] \in PastRecord
    PROVE  /\ pc[a] # "new" /\ req'[a] = req[a]
           /\ \/ pc[a] \in PastRecord
              \/ rec'[KeyOf(a)] # NoRecord /\ rec'[KeyOf(a)].body = BodyOf(a)
<1>1. ASSUME NEW b \in Attempt, NEW k \in Key, NEW body \in Body, Arrive(b, k, body)
      PROVE  pc[a] \in PastRecord /\ req'[a] = req[a]
  BY <1>1 DEF Arrive, Goto, TypeOK, PastRecord
<1>2. ASSUME NEW b \in Attempt, Lookup(b) \/ Clash(b)
      PROVE  /\ pc[a] # "new"
             /\ \/ pc[a] \in PastRecord
                \/ rec'[KeyOf(a)] # NoRecord /\ rec'[KeyOf(a)].body = BodyOf(a)
  <2>1. rec' = rec /\ pc[b] # "new"
    BY <1>2 DEF Lookup, Clash
  <2>2. CASE Lookup(b) /\ pc' = [pc EXCEPT ![b] = "insert"]
    BY <2>2 DEF TypeOK, PastRecord
  <2>3. CASE \E recover : Existing(b, recover)
    <3>1. \/ pc' = [pc EXCEPT ![b] = "done"]
          \/ Of(b) # NoRecord /\ ~Foreign(b) /\ \E recover : pc' = [pc EXCEPT ![b] = recover]
      BY <2>3, ExistingDoes
    <3> QED
      BY <2>1, <3>1 DEF Foreign, Of, TypeOK, PastRecord
  <2> QED
    BY <1>2, <2>2, <2>3 DEF Lookup, Clash, Goto
<1>3. ASSUME NEW b \in Attempt, Insert(b)
      PROVE  /\ pc[a] # "new"
             /\ \/ pc[a] \in PastRecord
                \/ rec'[KeyOf(a)] # NoRecord /\ rec'[KeyOf(a)].body = BodyOf(a)
  <2>1. CASE Of(b) = NoRecord
    <3>1. /\ KeyOf(b) \in Key /\ pc' = [pc EXCEPT ![b] = "run"] /\ pc[b] = "insert"
          /\ rec' = [rec EXCEPT ![KeyOf(b)] = Record("PROCESSING", BodyOf(b), NoEffect)]
      BY <1>3, <2>1, RequestTyped DEF Insert, Goto
    <3>2. rec'[KeyOf(b)] = Record("PROCESSING", BodyOf(b), NoEffect)
      BY <3>1 DEF TypeOK
    <3>3. rec'[KeyOf(b)] # NoRecord /\ rec'[KeyOf(b)].body = BodyOf(b)
      BY <3>2 DEF Record, NoRecord
    <3> QED
      BY <3>1, <3>3 DEF TypeOK, PastRecord
  <2>2. CASE Of(b) # NoRecord
    BY <1>3, <2>2 DEF Insert, Goto, TypeOK, PastRecord
  <2> QED
    BY <2>1, <2>2
<1>4. ASSUME NEW b \in Attempt,
             Recover(b) \/ Store(b) \/ Reclaim(b) \/ Run(b) \/ Complete(b) \/ Fail(b) \/ Die(b)
      PROVE  pc[a] \in PastRecord
  <2>1. CASE Die(b)
    BY <2>1 DEF Die, Goto, TypeOK, PastRecord
  <2>2. CASE pc[b] \in PastRecord /\ \E label : pc' = [pc EXCEPT ![b] = label]
    BY <2>2 DEF TypeOK, PastRecord
  <2>3. \/ Die(b)
        \/ pc[b] \in PastRecord /\ \E label : pc' = [pc EXCEPT ![b] = label]
    BY <1>4 DEF Recover, Store, Reclaim, Run, Complete, Fail, Reply, Goto, PastRecord
  <2> QED
    BY <2>1, <2>2, <2>3
<1>5. Next => UNCHANGED req \/ \E b \in Attempt, k \in Key, body \in Body : Arrive(b, k, body)
  BY DEF Next, Lookup, Clash, Insert, Recover, Store, Reclaim, Run, Complete, Fail, Die, Lapse
<1>6. (\E k \in Key : Lapse(k)) \/ UNCHANGED vars => pc' = pc
  BY DEF Lapse, vars
<1> QED
  BY <1>1, <1>2, <1>3, <1>4, <1>5, <1>6 DEF Next, vars, PastRecord

(* Past the comparison with the record, bodies still agree.                *)
LEMMA BodiesStep ==
    ASSUME TypeOK, BodiesAgree, [Next]_vars
    PROVE  BodiesAgree'
<1>1. ASSUME NEW a \in Attempt, pc'[a] \in PastRecord
      PROVE  Of(a)' # NoRecord /\ (Of(a).body = BodyOf(a))'
  <2>1. /\ pc[a] # "new" /\ req'[a] = req[a]
        /\ \/ pc[a] \in PastRecord
           \/ rec'[KeyOf(a)] # NoRecord /\ rec'[KeyOf(a)].body = BodyOf(a)
    BY <1>1, PassesOwnRecord
  <2>2. KeyOf(a) \in Key
    BY <2>1, RequestTyped
  <2>3. rec'[KeyOf(a)] # NoRecord /\ rec'[KeyOf(a)].body = BodyOf(a)
    BY <2>1, <2>2, RecordsStay DEF BodiesAgree, Of
  <2> QED
    BY <2>1, <2>3 DEF Of, KeyOf, BodyOf
<1>2. ASSUME NEW e \in effects'
      PROVE  rec'[e.key] # NoRecord /\ rec'[e.key].body = e.body
  <2>1. CASE e \in effects
    BY <2>1, RecordsStay DEF BodiesAgree, TypeOK, Effect
  <2>2. CASE e \notin effects
    <3>1. PICK a \in Attempt : Run(a) /\ e = [key |-> KeyOf(a), body |-> BodyOf(a), by |-> a]
      BY <2>2 DEF Next, vars, Arrive, Lookup, Insert, Clash, Recover, Store, Reclaim, Run,
                  Complete, Fail, Die, Lapse
    <3>2. rec' = rec /\ Of(a) # NoRecord /\ Of(a).body = BodyOf(a)
      BY <3>1 DEF Run, BodiesAgree, PastRecord
    <3> QED
      BY <3>1, <3>2 DEF Of
  <2> QED
    BY <2>1, <2>2
<1> QED
  BY <1>1, <1>2 DEF BodiesAgree
-----------------------------------------------------------------------------
(* What was own stays so: effects are kept, and so is the body of a record.*)
LEMMA OwnStays ==
    ASSUME TypeOK, BodiesAgree, [Next]_vars, NEW k \in Key, rec[k] # NoRecord
    PROVE  Own(k) \subseteq Own(k)'
<1>1. effects \subseteq effects'
  BY DEF Next, vars, Arrive, Lookup, Insert, Clash, Recover, Store, Reclaim, Run, Complete, Fail,
         Die, Lapse
<1>2. rec'[k].body = rec[k].body
  BY RecordsStay
<1> QED
  BY <1>1, <1>2 DEF Own

(* What a recovery or the endpoint comes back with.                        *)
LEMMA ComesBackWithOwn ==
    ASSUME TypeOK, BodiesAgree, NEW a \in Attempt,
           \/ Recover(a) /\ pc'[a] = "store"
           \/ Run(a) /\ pc'[a] = "complete"
    PROVE  found'[a] \in Own(KeyOf(a))'
<1>1. /\ KeyOf(a) \in Key /\ Of(a) # NoRecord /\ Of(a).body = BodyOf(a)
      /\ req' = req /\ rec' = rec
  BY RequestTyped DEF Recover, Run, BodiesAgree, PastRecord
<1>2. CASE Recover(a) /\ pc'[a] = "store"
  <2>1. effects' = effects /\ found'[a] \in Recoverable(KeyOf(a))
    BY <1>2 DEF Recover, Reply, Goto, TypeOK
  <2>2. Recoverable(KeyOf(a)) \subseteq Own(KeyOf(a))
    BY <1>1 DEF Recoverable, Own, BodiesAgree, TypeOK, Effect
  <2> QED
    BY <1>1, <2>1, <2>2 DEF Own, KeyOf
<1>3. CASE Run(a) /\ pc'[a] = "complete"
  <2> DEFINE e == [key |-> KeyOf(a), body |-> BodyOf(a), by |-> a]
  <2>1. effects' = effects \cup {e} /\ found'[a] = e
    BY <1>3 DEF Run, Goto, TypeOK
  <2>2. e.key = KeyOf(a) /\ e.body = rec[KeyOf(a)].body
    BY <1>1 DEF Of
  <2> HIDE DEF e
  <2> QED
    BY <1>1, <2>1, <2>2 DEF Own, KeyOf
<1> QED
  BY <1>2, <1>3

(* What is found to be answered is still own.                              *)
LEMMA FoundStep ==
    ASSUME TypeOK, BodiesAgree, FoundOwn, [Next]_vars
    PROVE  FoundOwn'
<1>1. ASSUME NEW a \in Attempt, pc'[a] \in {"store", "complete"}
      PROVE  found'[a] \in Own(KeyOf(a))'
  <2>1. pc[a] # "new" /\ req'[a] = req[a]
    BY <1>1, PassesOwnRecord DEF PastRecord
  <2>2. \/ Recover(a) /\ pc'[a] = "store"
        \/ Run(a) /\ pc'[a] = "complete"
        \/ pc'[a] = pc[a] /\ found'[a] = found[a]
    <3>1. ASSUME NEW b \in Attempt, Lookup(b) \/ Clash(b)
          PROVE  pc'[a] = pc[a] /\ found'[a] = found[a]
      <4>1. \/ pc' = [pc EXCEPT ![b] = "insert"] /\ found' = found
            \/ \E recover \in {"recover", "recoverOnly"} : Existing(b, recover)
        BY <3>1 DEF Lookup, Clash, Goto
      <4>2. \/ \E label \in {"insert", "recover", "recoverOnly", "done"} : pc' = [pc EXCEPT ![b] = label]
        BY <4>1, ExistingDoes
      <4>3. found' = found \/ \E r : found' = [found EXCEPT ![b] = r]
        BY <4>1, ExistingDoes
      <4> QED
        BY <1>1, <4>2, <4>3 DEF TypeOK
    <3>2. ASSUME NEW b \in Attempt, \/ \E k \in Key, body \in Body : Arrive(b, k, body)
                                    \/ Insert(b) \/ Reclaim(b) \/ Store(b) \/ Complete(b)
                                    \/ Fail(b) \/ Die(b)
          PROVE  pc'[a] = pc[a] /\ found'[a] = found[a]
      BY <1>1, <3>2 DEF Arrive, Insert, Reclaim, Store, Complete, Fail, Die, Reply, Goto, TypeOK
    <3>3. ASSUME NEW b \in Attempt, Recover(b) \/ Run(b)
          PROVE  \/ Recover(a) /\ pc'[a] = "store"
                 \/ Run(a) /\ pc'[a] = "complete"
                 \/ pc'[a] = pc[a] /\ found'[a] = found[a]
      BY <1>1, <3>3 DEF Recover, Run, Reply, Goto, TypeOK
    <3>4. (\E k \in Key : Lapse(k)) \/ UNCHANGED vars => pc' = pc /\ found' = found
      BY DEF Lapse, vars
    <3> QED
      BY <3>1, <3>2, <3>3, <3>4 DEF Next
  <2>3. CASE pc'[a] = pc[a] /\ found'[a] = found[a]
    <3>1. PICK k \in Key : k = KeyOf(a) /\ rec[k] # NoRecord /\ found[a] \in Own(k)
      BY <1>1, <2>3, RequestTyped DEF FoundOwn, BodiesAgree, PastRecord, Of
    <3>2. Own(k) \subseteq Own(k)'
      BY <3>1, OwnStays
    <3>3. KeyOf(a)' = k
      BY <2>1, <3>1 DEF KeyOf
    <3> QED
      BY <2>3, <3>1, <3>2, <3>3 DEF Own
  <2> QED
    BY <2>2, <2>3, ComesBackWithOwn
<1>2. ASSUME NEW k \in Key, rec'[k] # NoRecord, rec'[k].status = "COMPLETED"
      PROVE  rec'[k].response \in Own(k)'
  <2>1. CASE rec'[k] = rec[k]
    BY <1>2, <2>1, OwnStays DEF FoundOwn
  <2>2. CASE rec'[k] # rec[k]
    <3>1. PICK a \in Attempt : Insert(a) \/ Store(a) \/ Complete(a) \/ Fail(a)
      BY <2>2 DEF Next, vars, Arrive, Lookup, Clash, Recover, Reclaim, Run, Die, Lapse
    <3>2. KeyOf(a) \in Key /\ pc[a] # "new"
      BY <3>1, RequestTyped DEF Insert, Store, Complete, Fail
    <3>3. \/ rec' = [rec EXCEPT ![KeyOf(a)] = Record("PROCESSING", BodyOf(a), NoEffect)]
          \/ rec' = [rec EXCEPT ![KeyOf(a)] = Record("FAILED", rec[KeyOf(a)].body, NoEffect)]
          \/ /\ pc[a] \in {"store", "complete"}
             /\ rec' = [rec EXCEPT ![KeyOf(a)] = Record("COMPLETED", rec[KeyOf(a)].body, found[a])]
      BY <2>2, <3>1, <3>2 DEF Insert, Store, Complete, Fail, TypeOK
    <3>4. k = KeyOf(a) /\ pc[a] \in {"store", "complete"} /\ rec'[k].response = found[a]
      BY <1>2, <2>2, <3>2, <3>3 DEF TypeOK, Record
    <3>5. found[a] \in Own(k) /\ rec[k] # NoRecord
      BY <3>4 DEF FoundOwn, BodiesAgree, PastRecord, Of
    <3> QED
      BY <3>4, <3>5, OwnStays
  <2> QED
    BY <2>1, <2>2
<1> QED
  BY <1>1, <1>2 DEF FoundOwn

(* A success that is answered was found to be own, and stays found.        *)
LEMMA AnswerStep ==
    ASSUME TypeOK, BodiesAgree, FoundOwn, AnsweredAreDone, AnswerIsOwnEffect, [Next]_vars
    PROVE  AnsweredAreDone' /\ AnswerIsOwnEffect'
<1> DEFINE Answered(a) == (\A l \in Key : <<KeyOf(a), l>> \notin Extends)
                          => found[a] \in effects /\ found[a].key = KeyOf(a) /\ found[a].body = BodyOf(a)
<1>1. ASSUME NEW a \in Attempt, answer'[a] = "ok", answer[a] # "ok"
      PROVE  /\ pc'[a] = "done" /\ pc[a] # "new" /\ req' = req /\ effects \subseteq effects'
             /\ Of(a).body = BodyOf(a)
             /\ found'[a] \in Own(KeyOf(a))
  <2>1. ASSUME NEW b \in Attempt, Store(b) \/ Complete(b)
        PROVE  /\ pc'[a] = "done" /\ pc[a] # "new" /\ req' = req /\ effects' = effects
               /\ Of(a).body = BodyOf(a)
               /\ found'[a] \in Own(KeyOf(a))
    <3>1. a = b /\ pc[a] \in {"store", "complete"} /\ found' = found
      BY <1>1, <2>1 DEF Store, Complete, Reply, TypeOK
    <3>2. Of(a).body = BodyOf(a) /\ found'[a] \in Own(KeyOf(a))
      BY <3>1 DEF FoundOwn, BodiesAgree, PastRecord
    <3>3. pc'[a] = "done" /\ req' = req /\ effects' = effects
      BY <1>1, <2>1, <3>1 DEF Store, Complete, Reply, Goto, TypeOK
    <3> QED
      BY <3>1, <3>2, <3>3
  <2>2. ASSUME NEW b \in Attempt, Lookup(b) \/ Clash(b)
        PROVE  /\ pc'[a] = "done" /\ pc[a] # "new" /\ req' = req /\ effects' = effects
               /\ Of(a).body = BodyOf(a)
               /\ found'[a] \in Own(KeyOf(a))
    <3>1. \/ answer' = answer
          \/ /\ Of(b) # NoRecord /\ ~Foreign(b) /\ Of(b).status = "COMPLETED"
             /\ pc' = [pc EXCEPT ![b] = "done"]
             /\ answer' = [answer EXCEPT ![b] = "ok"]
             /\ found' = [found EXCEPT ![b] = Of(b).response]
          \/ answer' = [answer EXCEPT ![b] = "conflict"]
      <4>1. answer' = answer \/ \E recover : Existing(b, recover)
        BY <2>2 DEF Lookup, Clash, Goto
      <4> QED
        BY <4>1, ExistingDoes
    <3>2. /\ a = b /\ ~Foreign(a) /\ Of(a) # NoRecord /\ Of(a).status = "COMPLETED"
          /\ pc'[a] = "done" /\ found'[a] = Of(a).response
      BY <1>1, <3>1 DEF TypeOK
    <3>3. pc[a] # "new" /\ req' = req /\ effects' = effects
      BY <2>2, <3>2 DEF Lookup, Clash
    <3>4. Of(a).response \in Own(KeyOf(a))
      BY <3>2, <3>3, RequestTyped DEF FoundOwn, Of
    <3> QED
      BY <3>2, <3>3, <3>4 DEF Foreign
  <2>3. \/ \E b \in Attempt : Store(b) \/ Complete(b) \/ Lookup(b) \/ Clash(b)
    <3>1. ASSUME NEW b \in Attempt, Recover(b) \/ Reclaim(b) \/ Fail(b)
          PROVE  FALSE
      BY <1>1, <3>1 DEF Recover, Reclaim, Fail, Reply, TypeOK
    <3>2. answer' # answer
      BY <1>1
    <3> QED
      BY <3>1, <3>2 DEF Next, vars, Arrive, Insert, Run, Die, Lapse
  <2> QED
    BY <2>1, <2>2, <2>3
<1>2. ASSUME NEW a \in Attempt, answer[a] = "ok"
      PROVE  /\ pc'[a] = "done" /\ req'[a] = req[a] /\ found'[a] = found[a]
             /\ effects \subseteq effects'
  <2>1. pc[a] = "done"
    BY <1>2 DEF AnsweredAreDone
  <2>2. ASSUME NEW b \in Attempt, Lookup(b) \/ Clash(b)
        PROVE  pc'[a] = pc[a] /\ found'[a] = found[a]
    <3>1. a # b
      BY <2>1, <2>2 DEF Lookup, Clash
    <3>2. /\ \E label : pc' = [pc EXCEPT ![b] = label]
          /\ found' = found \/ \E r : found' = [found EXCEPT ![b] = r]
      <4>1. \/ pc' = [pc EXCEPT ![b] = "insert"] /\ found' = found
            \/ \E recover : Existing(b, recover)
        BY <2>2 DEF Lookup, Clash, Goto
      <4> QED
        BY <4>1, ExistingDoes
    <3> QED
      BY <3>1, <3>2 DEF TypeOK
  <2>3. ASSUME NEW b \in Attempt, \/ \E k \in Key, body \in Body : Arrive(b, k, body)
                                  \/ Insert(b) \/ Recover(b) \/ Store(b) \/ Reclaim(b) \/ Run(b)
                                  \/ Complete(b) \/ Fail(b) \/ Die(b)
        PROVE  pc'[a] = pc[a] /\ found'[a] = found[a] /\ req'[a] = req[a]
    BY <2>1, <2>3 DEF Arrive, Insert, Recover, Store, Reclaim, Run, Complete, Fail, Die, Reply,
                      Goto, TypeOK
  <2>4. /\ \A b \in Attempt : Lookup(b) \/ Clash(b) => req' = req
        /\ (\E k \in Key : Lapse(k)) \/ UNCHANGED vars => UNCHANGED <<pc, found, req>>
        /\ effects \subseteq effects'
    BY DEF Next, vars, Arrive, Lookup, Insert, Clash, Recover, Store, Reclaim, Run, Complete,
           Fail, Die, Lapse
  <2> QED
    BY <2>1, <2>2, <2>3, <2>4 DEF Next
<1>3. ASSUME NEW a \in Attempt, answer'[a] = "ok"
      PROVE  pc'[a] = "done" /\ Answered(a)'
  <2>1. CASE answer[a] = "ok"
    <3>1. Answered(a)
      BY <2>1 DEF AnswerIsOwnEffect
    <3>2. /\ pc'[a] = "done" /\ req'[a] = req[a] /\ found'[a] = found[a]
          /\ effects \subseteq effects'
      BY <1>2, <2>1
    <3> QED
      BY <3>1, <3>2 DEF KeyOf, BodyOf
  <2>2. CASE answer[a] # "ok"
    <3>1. /\ pc'[a] = "done" /\ req' = req /\ effects \subseteq effects'
          /\ Of(a).body = BodyOf(a)
          /\ found'[a] \in Own(KeyOf(a))
      BY <1>1, <1>3, <2>2
    <3> QED
      BY <3>1 DEF Own, Of, KeyOf, BodyOf
  <2> QED
    BY <2>1, <2>2
<1> QED
  BY <1>3 DEF AnsweredAreDone, AnswerIsOwnEffect
-----------------------------------------------------------------------------
(* No step commits a second effect under an effect key.                    *)
LEMMA KeyedStep ==
    ASSUME TypeOK, KeyedOnce, [Next]_vars
    PROVE  KeyedOnce'
<1>1. ASSUME NEW a \in Attempt, Run(a)
      PROVE  KeyedOnce'
  BY <1>1 DEF Run, KeyedOnce
<1>2. Next => UNCHANGED effects \/ \E a \in Attempt : Run(a)
  BY DEF Next, Arrive, Lookup, Insert, Clash, Recover, Store, Reclaim, Complete, Fail, Die, Lapse
<1> QED
  BY <1>1, <1>2 DEF vars, KeyedOnce

(* A step of an attempt lets at most that attempt run.                     *)
LEMMA RunningMoves ==
    ASSUME TypeOK, NEW a \in Attempt, NEW label, req' = req, pc' = [pc EXCEPT ![a] = label]
    PROVE  \A k \in Key : Running(k)' = IF label = "run" /\ KeyOf(a) = k THEN Running(k) \cup {a}
                                                                         ELSE Running(k) \ {a}
BY DEF Running, KeyOf, TypeOK

(* An attempt that goes elsewhere adds nobody who runs for a key.          *)
LEMMA NotMoreRunning ==
    ASSUME TypeOK, NEW a \in Attempt, NEW label, req' = req, pc' = [pc EXCEPT ![a] = label],
           NEW k \in Key, label # "run" \/ KeyOf(a) # k
    PROVE  Running(k)' \subseteq Running(k)
BY RunningMoves, ZenonT(60)

(* The sum that the budget bounds.                                         *)
LEMMA Counted ==
    ASSUME WithinBudget, TypeOK, NEW k \in Key
    PROVE  /\ IsFiniteSet(EffectsOf(k)) /\ Cardinality(EffectsOf(k)) \in Nat
           /\ IsFiniteSet(Running(k)) /\ Cardinality(Running(k)) \in Nat
           /\ Cardinality(EffectsOf(k)) + Cardinality(Running(k)) + Lapsed(k) <= Budget(k)
           /\ lapses[k] \in Nat /\ Budget(k) \in Nat /\ Lapsed(k) \in {0, 1}
<1>1. lapses[k] \in Nat
  BY LapseAssumption DEF TypeOK
<1> QED
  BY <1>1, FS_CardinalityType DEF WithinBudget, Budget, Lapsed

(* One more element adds at most one to the size of a finite set.          *)
LEMMA OneMore ==
    ASSUME NEW S, IsFiniteSet(S), NEW x
    PROVE  /\ IsFiniteSet(S \cup {x}) /\ Cardinality(S \cup {x}) \in Nat
           /\ Cardinality(S \cup {x}) <= Cardinality(S) + 1
<1>1. Cardinality(S) \in Nat
  BY FS_CardinalityType
<1>2. /\ IsFiniteSet(S \cup {x})
      /\ Cardinality(S \cup {x}) = Cardinality(S) \/ Cardinality(S \cup {x}) = Cardinality(S) + 1
  BY FS_AddElement, Zenon
<1> QED
  BY <1>1, <1>2

(* A step that lets nobody run and takes no effect costs nothing.          *)
LEMMA NothingSpent ==
    ASSUME WithinBudget, TypeOK, NEW k \in Key, effects' = effects, lapsed' \subseteq lapsed, lapses' = lapses,
           rec[k] # NoRecord => rec'[k] # NoRecord,
           Running(k)' \subseteq Running(k)
    PROVE  /\ IsFiniteSet(EffectsOf(k))' /\ IsFiniteSet(Running(k))'
           /\ (Cardinality(EffectsOf(k)) + Cardinality(Running(k)) + Lapsed(k) <= Budget(k))'
<1>1. EffectsOf(k)' = EffectsOf(k)
  BY DEF EffectsOf
<1>2. /\ IsFiniteSet(Running(k)') /\ Cardinality(Running(k)') \in Nat
      /\ Cardinality(Running(k)') <= Cardinality(Running(k))
  BY Counted, FS_Subset, FS_CardinalityType
<1>3. Lapsed(k)' <= Lapsed(k) /\ Lapsed(k)' \in {0, 1} /\ Budget(k)' >= Budget(k) /\ Budget(k)' \in Nat
  BY Counted DEF Lapsed, Budget
<1> QED
  BY <1>1, <1>2, <1>3, Counted

(* The record of a key, and each lapse of it, pay for one run.             *)
LEMMA RunGranted ==
    ASSUME WithinBudget, TypeOK, NEW k \in Key, NEW a, effects' = effects, lapses' = lapses,
           Running(k)' = Running(k) \cup {a},
           \/ rec[k] = NoRecord /\ rec'[k] # NoRecord /\ lapsed' = lapsed
           \/ k \in lapsed /\ k \notin lapsed' /\ rec' = rec
    PROVE  /\ IsFiniteSet(EffectsOf(k))' /\ IsFiniteSet(Running(k))'
           /\ (Cardinality(EffectsOf(k)) + Cardinality(Running(k)) + Lapsed(k) <= Budget(k))'
<1>1. EffectsOf(k)' = EffectsOf(k)
  BY DEF EffectsOf
<1>2. /\ IsFiniteSet(Running(k)') /\ Cardinality(Running(k)') \in Nat
      /\ Cardinality(Running(k)') <= Cardinality(Running(k)) + 1
  BY Counted, OneMore
<1>3. Budget(k)' - Lapsed(k)' = Budget(k) - Lapsed(k) + 1 /\ Budget(k)' \in Nat /\ Lapsed(k)' \in {0, 1}
  BY Counted DEF Lapsed, Budget
<1> QED
  BY <1>1, <1>2, <1>3, Counted

(* An attempt stops running when it takes effect.                          *)
LEMMA RunSpent ==
    ASSUME WithinBudget, TypeOK, NEW k \in Key, NEW a \in Running(k), NEW e,
           effects' \subseteq effects \cup {e}, UNCHANGED <<lapsed, lapses, rec>>,
           Running(k)' = Running(k) \ {a}
    PROVE  /\ IsFiniteSet(EffectsOf(k))' /\ IsFiniteSet(Running(k))'
           /\ (Cardinality(EffectsOf(k)) + Cardinality(Running(k)) + Lapsed(k) <= Budget(k))'
<1>1. /\ IsFiniteSet(EffectsOf(k) \cup {e})
      /\ Cardinality(EffectsOf(k) \cup {e}) \in Nat
      /\ Cardinality(EffectsOf(k) \cup {e}) <= Cardinality(EffectsOf(k)) + 1
  BY Counted, OneMore
<1>2. EffectsOf(k)' \subseteq EffectsOf(k) \cup {e}
  BY DEF EffectsOf
<1>3. /\ IsFiniteSet(EffectsOf(k)') /\ Cardinality(EffectsOf(k)') \in Nat
      /\ Cardinality(EffectsOf(k)') <= Cardinality(EffectsOf(k)) + 1
  BY <1>1, <1>2, FS_Subset, FS_CardinalityType, Counted
<1>4. /\ IsFiniteSet(Running(k)') /\ Cardinality(Running(k)') \in Nat
      /\ Cardinality(Running(k)') = Cardinality(Running(k)) - 1
  BY Counted, FS_RemoveElement, FS_CardinalityType
<1>5. Lapsed(k)' = Lapsed(k) /\ Budget(k)' = Budget(k)
  BY DEF Lapsed, Budget
<1> QED
  BY <1>3, <1>4, <1>5, Counted

(* Every step is paid for: by the record it creates or by a lapse.         *)
LEMMA BudgetStep ==
    ASSUME TypeOK, BodiesAgree, WithinBudget, [Next]_vars
    PROVE  WithinBudget'
<1> SUFFICES ASSUME NEW k \in Key
             PROVE  /\ IsFiniteSet(EffectsOf(k))' /\ IsFiniteSet(Running(k))'
                    /\ (Cardinality(EffectsOf(k)) + Cardinality(Running(k)) + Lapsed(k) <= Budget(k))'
  BY DEF WithinBudget
<1> DEFINE Kept == /\ IsFiniteSet(EffectsOf(k))' /\ IsFiniteSet(Running(k))'
                   /\ (Cardinality(EffectsOf(k)) + Cardinality(Running(k)) + Lapsed(k) <= Budget(k))'
<1>0. rec[k] # NoRecord => rec'[k] # NoRecord
  BY RecordsStay
<1>1. ASSUME NEW a \in Attempt, NEW l \in Key, NEW b \in Body, Arrive(a, l, b)
      PROVE  Kept
  <2>1. UNCHANGED <<rec, lapsed, lapses, effects>> /\ Running(k)' \subseteq Running(k)
    BY <1>1 DEF Arrive, Goto, Running, KeyOf, TypeOK
  <2> QED
    BY <2>1, <1>0, NothingSpent
<1>2. ASSUME NEW a \in Attempt,
             \/ Lookup(a) \/ Clash(a) \/ Recover(a) \/ Store(a) \/ Complete(a) \/ Fail(a) \/ Die(a)
      PROVE  Kept
  <2>1. /\ effects' = effects /\ lapsed' \subseteq lapsed /\ lapses' = lapses /\ req' = req
        /\ \E label \in {"insert", "recover", "recoverOnly", "store", "reclaim", "fail", "done"} :
              pc' = [pc EXCEPT ![a] = label]
    <3>1. CASE Lookup(a) \/ Clash(a)
      <4>1. \/ pc' = [pc EXCEPT ![a] = "insert"]
            \/ Existing(a, "recover") \/ Existing(a, "recoverOnly")
        BY <3>1 DEF Lookup, Clash, Goto
      <4> QED
        BY <3>1, <4>1, ExistingDoes DEF Lookup, Clash
    <3>2. CASE Recover(a) \/ Store(a) \/ Complete(a) \/ Fail(a) \/ Die(a)
      BY <3>2 DEF Recover, Store, Complete, Fail, Die, Reply, Goto
    <3> QED
      BY <1>2, <3>1, <3>2
  <2>2. Running(k)' \subseteq Running(k)
    BY <2>1, NotMoreRunning
  <2> QED
    BY <2>1, <2>2, <1>0, NothingSpent
<1>3. ASSUME NEW a \in Attempt, Insert(a)
      PROVE  Kept
  <2>1. CASE Of(a) = NoRecord
    <3>1. /\ UNCHANGED <<req, lapsed, lapses, effects>> /\ KeyOf(a) \in Key
          /\ pc' = [pc EXCEPT ![a] = "run"]
          /\ rec' = [rec EXCEPT ![KeyOf(a)] = Record("PROCESSING", BodyOf(a), NoEffect)]
      BY <1>3, <2>1, RequestTyped DEF Insert, Goto
    <3>2. CASE k = KeyOf(a)
      <4>1. rec[k] = NoRecord /\ rec'[k] # NoRecord
        BY <2>1, <3>1, <3>2 DEF Of, TypeOK, Record, NoRecord
      <4>2. Running(k)' = Running(k) \cup {a}
        BY <3>1, <3>2, RunningMoves
      <4> QED
        BY <3>1, <4>1, <4>2, RunGranted
    <3>3. CASE k # KeyOf(a)
      <4>1. Running(k)' \subseteq Running(k)
        BY <3>1, <3>3, NotMoreRunning
      <4> QED
        BY <3>1, <4>1, <1>0, NothingSpent
    <3> QED
      BY <3>2, <3>3
  <2>2. CASE Of(a) # NoRecord
    <3>1. /\ UNCHANGED <<req, rec, lapsed, lapses, effects>>
          /\ \E label \in {"clash"} : pc' = [pc EXCEPT ![a] = label]
      BY <1>3, <2>2 DEF Insert, Goto
    <3>2. Running(k)' \subseteq Running(k)
      BY <3>1, NotMoreRunning
    <3> QED
      BY <3>1, <3>2, <1>0, NothingSpent
  <2> QED
    BY <2>1, <2>2
<1>4. ASSUME NEW a \in Attempt, Reclaim(a)
      PROVE  Kept
  <2>1. /\ UNCHANGED <<req, rec, lapses, effects>>
        /\ \/ pc' = [pc EXCEPT ![a] = "done"] /\ lapsed' = lapsed
           \/ /\ KeyOf(a) \in lapsed /\ lapsed' = lapsed \ {KeyOf(a)}
              /\ pc' = [pc EXCEPT ![a] = "run"]
    BY <1>4 DEF Reclaim, Reply, Goto
  <2>2. CASE k = KeyOf(a) /\ k \in lapsed /\ lapsed' = lapsed \ {k} /\ pc' = [pc EXCEPT ![a] = "run"]
    <3>1. Running(k)' = Running(k) \cup {a}
      BY <2>1, <2>2, RunningMoves
    <3> QED
      BY <2>1, <2>2, <3>1, RunGranted
  <2>3. CASE lapsed' \subseteq lapsed /\ (pc' = [pc EXCEPT ![a] = "done"] \/ k # KeyOf(a))
    <3>1. \E label : pc' = [pc EXCEPT ![a] = label] /\ (label # "run" \/ KeyOf(a) # k)
      BY <2>1, <2>3
    <3>2. Running(k)' \subseteq Running(k)
      BY <2>1, <3>1, NotMoreRunning
    <3> QED
      BY <2>1, <2>3, <3>2, <1>0, NothingSpent
  <2> QED
    BY <2>1, <2>2, <2>3
<1>5. ASSUME NEW a \in Attempt, Run(a)
      PROVE  Kept
  <2> DEFINE e == [key |-> KeyOf(a), body |-> BodyOf(a), by |-> a]
  <2>1. /\ UNCHANGED <<req, rec, lapsed, lapses>> /\ pc[a] = "run"
        /\ effects' = effects \cup {e} \/ effects' = effects
        /\ \E label \in {"complete", "fail"} : pc' = [pc EXCEPT ![a] = label]
    BY <1>5 DEF Run, Goto
  <2>2. Running(k)' = Running(k) \ {a}
    BY <2>1, RunningMoves
  <2>3. CASE KeyOf(a) = k
    <3>1. a \in Running(k)
      BY <2>1, <2>3 DEF Running
    <3> QED
      BY <2>1, <2>2, <3>1, RunSpent
  <2>4. CASE KeyOf(a) # k
    <3>1. EffectsOf(k)' = EffectsOf(k)
      BY <2>1, <2>4 DEF EffectsOf
    <3>2. Running(k)' = Running(k)
      BY <2>2, <2>4 DEF Running
    <3>3. Lapsed(k)' = Lapsed(k) /\ Budget(k)' = Budget(k)
      BY <2>1 DEF Lapsed, Budget
    <3> QED
      BY <3>1, <3>2, <3>3, Counted
  <2> QED
    BY <2>3, <2>4
<1>6. ASSUME NEW l \in Key, Lapse(l)
      PROVE  Kept
  <2>1. EffectsOf(k)' = EffectsOf(k) /\ Running(k)' = Running(k)
    BY <1>6 DEF Lapse, EffectsOf, Running, KeyOf
  <2>2. /\ rec' = rec
        /\ \/ k # l /\ Lapsed(k)' = Lapsed(k) /\ lapses'[k] = lapses[k]
           \/ k = l /\ Lapsed(k)' = Lapsed(k) + 1 /\ lapses'[k] = lapses[k] + 1
    BY <1>6 DEF Lapse, Lapsed, TypeOK
  <2>3. Budget(k)' - Lapsed(k)' = Budget(k) - Lapsed(k) /\ Budget(k)' \in Nat /\ Lapsed(k)' \in {0, 1}
    BY <2>2, Counted DEF Budget, Lapsed
  <2> QED
    BY <2>1, <2>3, Counted
<1>7. CASE UNCHANGED vars
  <2>1. UNCHANGED <<rec, lapsed, lapses, effects>> /\ Running(k)' \subseteq Running(k)
    BY <1>7 DEF vars, Running, KeyOf
  <2> QED
    BY <2>1, <1>0, NothingSpent
<1> QED
  BY <1>1, <1>2, <1>3, <1>4, <1>5, <1>6, <1>7 DEF Next
-----------------------------------------------------------------------------
(* The initial state is safe.                                              *)
LEMMA RetriesSafeInit == Init => RetriesSafe
<1> SUFFICES ASSUME Init PROVE RetriesSafe
  OBVIOUS
<1>1. TypeOK
  BY LapseAssumption DEF Init, TypeOK
<1>2. \A k \in Key : /\ EffectsOf(k) = {} /\ Running(k) = {}
                     /\ Lapsed(k) = 0 /\ Budget(k) = 0
  BY DEF Init, EffectsOf, Running, Lapsed, Budget
<1>3. WithinBudget
  BY <1>2, FS_EmptySet DEF WithinBudget
<1>4. KeyedOnce /\ BodiesAgree /\ FoundOwn /\ AnsweredAreDone /\ AnswerIsOwnEffect
  BY DEF Init, KeyedOnce, BodiesAgree, FoundOwn, AnsweredAreDone, AnswerIsOwnEffect, PastRecord
<1> QED
  BY <1>1, <1>3, <1>4 DEF RetriesSafe

(* Every step keeps retries safe.                                          *)
LEMMA RetriesSafeStep == RetriesSafe /\ [Next]_vars => RetriesSafe'
BY TypeStep, BudgetStep, KeyedStep, BodiesStep, FoundStep, AnswerStep DEF RetriesSafe

(* The budget of a key, and the unique effect key, bound its effects.      *)
LEMMA EffectOnceFollows == RetriesSafe => EffectOnce
<1> SUFFICES ASSUME RetriesSafe, NEW k \in Key
             PROVE  Cardinality(EffectsOf(k)) <= 1 + (IF k \in Keyed THEN 0 ELSE lapses[k])
  BY DEF EffectOnce, EffectsOf
<1> USE DEF RetriesSafe
<1>1. CASE k \in Keyed
  <2>1. EffectsOf(k) = {} \/ \E e : EffectsOf(k) = {e}
    BY <1>1 DEF KeyedOnce, EffectsOf
  <2>2. Cardinality(EffectsOf(k)) \in {0, 1}
    BY <2>1, FS_EmptySet, FS_Singleton
  <2> QED
    BY <1>1, <2>2
<1>2. CASE k \notin Keyed
  BY <1>2, Counted DEF Budget
<1> QED
  BY <1>1, <1>2
-----------------------------------------------------------------------------
(* The inductive invariant holds in every reachable state.                 *)
THEOREM RetriesStaySafe == Spec => []RetriesSafe
BY RetriesSafeInit, RetriesSafeStep, PTL DEF Spec

(* A mutation whose effect carries an effect key takes effect once however *)
(* its attempts overlap, die or come late; another one once, and once more *)
(* at most for each time its record outlives its expiry.                   *)
THEOREM RetriesTakeEffectOnce == Spec => []EffectOnce
BY EffectOnceFollows, RetriesStaySafe, PTL

(* A client that is told of a success is told of an effect of its own key  *)
(* and body, unless its key begins another one of the same operation.      *)
THEOREM SuccessIsOwn == Spec => []AnswerIsOwnEffect
<1>1. RetriesSafe => AnswerIsOwnEffect
  BY DEF RetriesSafe
<1> QED
  BY <1>1, RetriesStaySafe, PTL
=============================================================================
