----------------------------- MODULE Idempotency -----------------------------
(***************************************************************************)
(* The Idempotency-Key middleware (common/middleware/idempotency.ts) around*)
(* the transaction of a mutation endpoint.  Attempts of one or several     *)
(* clients share keys; each statement on idempotency_requests is a step, so*)
(* is the transaction of the endpoint, and a process may die between any   *)
(* two.  A key stands for the triple of store, operation and header.       *)
(***************************************************************************)
EXTENDS Integers, FiniteSets

CONSTANTS Attempt, Key,
          Body,        \* what the requestHash of an attempt is the hash of
          Keyed,       \* the keys of operations whose effect carries the effect
                       \* key under a unique index and can be recovered by it:
                       \* ORDER_CREATE, POS_SALE_CREATE, RETURN_CREATE, INVENTORY_*
          Extends,     \* <<k, l>>: l begins with k, both of the same INVENTORY_ operation
          MaxLapses    \* bound on the times a record outlives its expiresAt

ASSUME LapseAssumption == MaxLapses \in Nat

VARIABLES req,      \* the key and the body of each attempt that has arrived
          rec,      \* [Key -> idempotency_requests row]
          lapsed,   \* the keys whose record has outlived its expiresAt
          lapses,   \* how often that has happened to each
          effects,  \* what endpoints have committed: [key, body, by]
          pc,       \* of each attempt
          found,    \* what an attempt has recovered or committed
          answer    \* what its client was told

vars == <<req, rec, lapsed, lapses, effects, pc, found, answer>>

NoEffect == [by |-> "nobody"]
NoRecord == [status |-> "NONE"]
Record(status, body, response) == [status |-> status, body |-> body, response |-> response]

Init ==
    /\ req = [a \in Attempt |-> <<>>]
    /\ rec = [k \in Key |-> NoRecord]
    /\ lapsed = {}
    /\ lapses = [k \in Key |-> 0]
    /\ effects = {}
    /\ pc = [a \in Attempt |-> "new"]
    /\ found = [a \in Attempt |-> NoEffect]
    /\ answer = [a \in Attempt |-> "none"]

KeyOf(a) == req[a].key
BodyOf(a) == req[a].body
Of(a) == rec[KeyOf(a)]
Goto(a, label) == pc' = [pc EXCEPT ![a] = label]
Reply(a, what) == answer' = [answer EXCEPT ![a] = what] /\ Goto(a, "done")

(* Mutant of Foreign: the request hash is not compared. *)
NeverForeign(a) == FALSE

(* The record was made by a request with another identity. *)
Foreign(a) == Of(a).body # BodyOf(a)

Replay(a) ==
    /\ Of(a).status = "COMPLETED"
    /\ Reply(a, "ok")
    /\ found' = [found EXCEPT ![a] = Of(a).response]

(* What an existing record lets an attempt do: a lapsed one is recovered by*)
(* the step named.                                                         *)
Existing(a, recover) ==
    /\ Of(a) # NoRecord
    /\ \/ /\ Foreign(a)
          /\ Reply(a, "conflict")
          /\ UNCHANGED found
       \/ ~Foreign(a) /\ Replay(a)
       \/ /\ ~Foreign(a)
          /\ Of(a).status = "PROCESSING" /\ KeyOf(a) \in lapsed
          /\ Goto(a, recover)
          /\ UNCHANGED <<found, answer>>
       \/ /\ ~Foreign(a)
          /\ Of(a).status = "FAILED" \/ (Of(a).status = "PROCESSING" /\ KeyOf(a) \notin lapsed)
          /\ Reply(a, "conflict")
          /\ UNCHANGED found

Arrive(a, k, b) ==
    /\ pc[a] = "new"
    /\ req' = [req EXCEPT ![a] = [key |-> k, body |-> b]]
    /\ Goto(a, "lookup")
    /\ UNCHANGED <<rec, lapsed, lapses, effects, found, answer>>

Lookup(a) ==
    /\ pc[a] = "lookup"
    /\ \/ Existing(a, "recover")
       \/ Of(a) = NoRecord /\ Goto(a, "insert") /\ UNCHANGED <<found, answer>>
    /\ UNCHANGED <<req, rec, lapsed, lapses, effects>>

(* Mutant of Insert: no unique index on store, operation and key. *)
InsertAgain(a) ==
    /\ pc[a] = "insert"
    /\ rec' = [rec EXCEPT ![KeyOf(a)] = Record("PROCESSING", BodyOf(a), NoEffect)]
    /\ Goto(a, "run")
    /\ UNCHANGED <<req, lapsed, lapses, effects, found, answer>>

(* The record is created, or its unique index finds another one (P2002),   *)
(* which is then read.                                                     *)
Insert(a) ==
    /\ pc[a] = "insert"
    /\ IF Of(a) = NoRecord
       THEN /\ rec' = [rec EXCEPT ![KeyOf(a)] = Record("PROCESSING", BodyOf(a), NoEffect)]
            /\ Goto(a, "run")
       ELSE UNCHANGED rec /\ Goto(a, "clash")
    /\ UNCHANGED <<req, lapsed, lapses, effects, found, answer>>

Clash(a) ==
    /\ pc[a] = "clash"
    /\ Existing(a, "recoverOnly")
    /\ UNCHANGED <<req, rec, lapsed, lapses, effects>>

(* The effects a recovery takes for those of the key: a movement's key     *)
(* startsWith the effect key.                                              *)
Recoverable(k) ==
    IF k \in Keyed THEN {e \in effects : e.key = k \/ <<k, e.key>> \in Extends} ELSE {}

Recover(a) ==
    /\ pc[a] \in {"recover", "recoverOnly"}
    /\ \/ /\ \E e \in Recoverable(KeyOf(a)) : found' = [found EXCEPT ![a] = e]
          /\ Goto(a, "store")
          /\ UNCHANGED answer
       \/ /\ Recoverable(KeyOf(a)) = {}
          /\ IF pc[a] = "recover"
             THEN Goto(a, "reclaim") /\ UNCHANGED answer
             ELSE Reply(a, "conflict")
          /\ UNCHANGED found
    /\ UNCHANGED <<req, rec, lapsed, lapses, effects>>

(* The record is completed, whatever it has become, and will not expire.   *)
Store(a) ==
    /\ pc[a] = "store"
    /\ rec' = [rec EXCEPT ![KeyOf(a)] = Record("COMPLETED", @.body, found[a])]
    /\ lapsed' = lapsed \ {KeyOf(a)}
    /\ Reply(a, "ok")
    /\ UNCHANGED <<req, lapses, effects, found>>

Reclaim(a) ==
    /\ pc[a] = "reclaim"
    /\ IF Of(a).status = "PROCESSING" /\ ~Foreign(a) /\ KeyOf(a) \in lapsed
       THEN lapsed' = lapsed \ {KeyOf(a)} /\ Goto(a, "run") /\ UNCHANGED answer
       ELSE Reply(a, "conflict") /\ UNCHANGED lapsed
    /\ UNCHANGED <<req, rec, lapses, effects, found>>

(* The endpoint commits its effect, unless the effect key is taken, or is  *)
(* refused or rolled back; the answer passes through the completion hook.  *)
Run(a) ==
    /\ pc[a] = "run"
    /\ \/ /\ \A e \in effects : e.key = KeyOf(a) => e.key \notin Keyed
          /\ LET e == [key |-> KeyOf(a), body |-> BodyOf(a), by |-> a]
             IN  effects' = effects \cup {e} /\ found' = [found EXCEPT ![a] = e]
          /\ Goto(a, "complete")
       \/ Goto(a, "fail") /\ UNCHANGED <<effects, found>>
    /\ UNCHANGED <<req, rec, lapsed, lapses, answer>>

(* The hook of res.json: a success completes the record; when that update  *)
(* fails, the error is answered instead, through the same hook.            *)
Complete(a) ==
    /\ pc[a] = "complete"
    /\ \/ /\ rec' = [rec EXCEPT ![KeyOf(a)] = Record("COMPLETED", @.body, found[a])]
          /\ Reply(a, "ok")
       \/ UNCHANGED <<rec, answer>> /\ Goto(a, "fail")
    /\ UNCHANGED <<req, lapsed, lapses, effects, found>>

Fail(a) ==
    /\ pc[a] = "fail"
    /\ rec' = [rec EXCEPT ![KeyOf(a)] = Record("FAILED", @.body, NoEffect)]
    /\ Reply(a, "error")
    /\ UNCHANGED <<req, lapsed, lapses, effects, found>>

(* The process dies, or gives up; the client gets no answer. *)
Die(a) ==
    /\ pc[a] \notin {"new", "done"}
    /\ Goto(a, "done")
    /\ UNCHANGED <<req, rec, lapsed, lapses, effects, found, answer>>

(* expiresAt passes; it matters to records still in progress. *)
Lapse(k) ==
    /\ rec[k].status = "PROCESSING"
    /\ k \notin lapsed
    /\ lapses[k] < MaxLapses
    /\ lapsed' = lapsed \cup {k}
    /\ lapses' = [lapses EXCEPT ![k] = @ + 1]
    /\ UNCHANGED <<req, rec, effects, pc, found, answer>>

Next ==
    \/ \E a \in Attempt :
          \/ \E k \in Key, b \in Body : Arrive(a, k, b)
          \/ Lookup(a) \/ Insert(a) \/ Clash(a) \/ Recover(a) \/ Store(a)
          \/ Reclaim(a) \/ Run(a) \/ Complete(a) \/ Fail(a) \/ Die(a)
    \/ \E k \in Key : Lapse(k)

Spec == Init /\ [][Next]_vars
-----------------------------------------------------------------------------
Request == [key : Key, body : Body]
Effect == [key : Key, body : Body, by : Attempt]

(* Types; in particular a completed record has a response to replay.       *)
TypeOK ==
    /\ req \in [Attempt -> Request \cup {<<>>}]
    /\ \A a \in Attempt : pc[a] # "new" => req[a] \in Request
    /\ rec \in [Key -> {NoRecord}
                   \cup [status : {"PROCESSING", "FAILED"}, body : Body, response : {NoEffect}]
                   \cup [status : {"COMPLETED"}, body : Body, response : Effect]]
    /\ lapsed \subseteq Key
    /\ lapses \in [Key -> 0..MaxLapses]
    /\ effects \subseteq Effect
    /\ pc \in [Attempt -> {"new", "lookup", "insert", "clash", "recover", "recoverOnly", "store",
                           "reclaim", "run", "complete", "fail", "done"}]
    /\ found \in [Attempt -> Effect \cup {NoEffect}]
    /\ answer \in [Attempt -> {"none", "ok", "conflict", "error"}]

(* IDE-001: retries that overlap, die or come late take effect once; an    *)
(* operation without an effect key of its own is repeated at most once for *)
(* each time its record lapses.                                            *)
EffectOnce ==
    \A k \in Key :
        Cardinality({e \in effects : e.key = k}) <= 1 + (IF k \in Keyed THEN 0 ELSE lapses[k])

(* IDE-001, "replay identical completed requests and reject conflicting    *)
(* reuse": a success that is answered, replayed or recovered, is that of an*)
(* effect committed for a request with the same key and the same body.     *)
(* (Not for an INVENTORY_ key that another one begins with: the recovery   *)
(* cannot tell their movements apart.)                                     *)
AnswerIsOwnEffect ==
    \A a \in Attempt :
        answer[a] = "ok" /\ (\A l \in Key : <<KeyOf(a), l>> \notin Extends)
        => found[a] \in effects /\ found[a].key = KeyOf(a) /\ found[a].body = BodyOf(a)
=============================================================================
