---------------------------- MODULE PlatformProofs ----------------------------
(***************************************************************************)
(* What holds around a store, of its ownership, registration, payment keys *)
(* and scanner pairings, for every set of requests, accounts, addresses,   *)
(* stores, keys and pairing codes.                                         *)
(***************************************************************************)
EXTENDS MCPlatform, SessionsProofs, Sequences, FiniteSetTheorems, TLAPS

(* A set of which no two elements differ has one element at most.          *)
LEMMA AtMostOne ==
    ASSUME NEW S, \A x, y \in S : x = y
    PROVE  Cardinality(S) <= 1
<1>1. CASE S = {}
  BY <1>1, FS_EmptySet
<1>2. ASSUME NEW x \in S
      PROVE  Cardinality(S) <= 1
  <2>1. S = {x}
    OBVIOUS
  <2>2. Cardinality({x}) = 1
    BY FS_Singleton
  <2> QED
    BY <2>1, <2>2
<1> QED
  BY <1>1, <1>2

(* The parts count with the same operator as this module.                  *)
LEMMA Counting == \A S : Owners!Cardinality(S) = Cardinality(S)
BY DEF Owners!Cardinality, Cardinality
-----------------------------------------------------------------------------
(* Ownership: what a request holds between its read and its write.         *)
Deed == [op : {"idle"}]
        \cup [op : {"handover"}, to : User, drop : BOOLEAN]
        \cup [op : {"enable", "disable", "delete"}, who : User]

(* The accounts and the requests about them have their types.              *)
StoreSafe ==
    /\ role \in [User -> {"owner", "staff", "gone"}]
    /\ enabled \in [User -> BOOLEAN]
    /\ deed \in [Request -> Deed]

(* A handover promotes the account it is to, which is active, and no other.*)
LEMMA HandedOverToOne ==
    ASSUME StoreSafe, NEW c \in Request, Owners!Handover(c)
    PROVE  /\ deed[c].to \in User
           /\ Owners!Owners' = {deed[c].to}
           /\ enabled[deed[c].to]
           /\ deed[c].to \notin Owners!Owners => enabled'[deed[c].to]
<1> DEFINE u == deed[c].to
<1>1. u \in User
  BY DEF StoreSafe, Deed, Owners!Handover
<1>2. \A v \in User : role'[v] = "owner" <=> v = u
  BY <1>1 DEF StoreSafe, Owners!Handover, Owners!HandedOver
<1>3. enabled[u] /\ (u \notin Owners!Owners => enabled'[u])
  BY <1>1 DEF StoreSafe, Owners!Handover
<1> QED
  BY <1>1, <1>2, <1>3 DEF Owners!Owners

(* Every step keeps accounts and requests in their types.                  *)
LEMMA StoreStep ==
    ASSUME StoreSafe, [Owners!Next]_(Owners!vars)
    PROVE  StoreSafe'
<1> USE DEF StoreSafe
<1>1. ASSUME NEW c \in Request, Owners!Done(c)
      PROVE  deed' \in [Request -> Deed]
  BY <1>1 DEF Owners!Done, Owners!Idle, Deed
<1>2. ASSUME NEW c \in Request, Owners!Abandon(c)
      PROVE  StoreSafe'
  BY <1>1, <1>2 DEF Owners!Abandon
<1>3. ASSUME NEW c \in Request, NEW u \in User, NEW drop \in BOOLEAN, Owners!HandoverBegin(c, u, drop)
      PROVE  StoreSafe'
  BY <1>3 DEF Owners!HandoverBegin, Owners!Hold, Deed
<1>4. ASSUME NEW c \in Request, Owners!Handover(c)
      PROVE  StoreSafe'
  <2>1. role' \in [User -> {"owner", "staff", "gone"}]
    BY <1>4, HandedOverToOne DEF Owners!Handover, Owners!HandedOver
  <2>2. enabled' \in [User -> BOOLEAN]
    BY <1>4 DEF Owners!Handover
  <2> QED
    BY <1>1, <1>4, <2>1, <2>2 DEF Owners!Handover
<1>5. ASSUME NEW c \in Request, NEW u \in User, NEW op \in {"enable", "disable", "delete"},
             Owners!StaffRead(c, u, op)
      PROVE  StoreSafe'
  BY <1>5 DEF Owners!StaffRead, Owners!Hold, Deed
<1>6. ASSUME NEW c \in Request, NEW op \in {"enable", "disable"}, Owners!StaffStatus(c, op)
      PROVE  StoreSafe'
  BY <1>1, <1>6 DEF Owners!StaffStatus
<1>7. ASSUME NEW c \in Request, Owners!StaffDelete(c)
      PROVE  StoreSafe'
  BY <1>1, <1>7 DEF Owners!StaffDelete
<1>8. ASSUME NEW u \in User, Owners!AdminStatus(u)
      PROVE  StoreSafe'
  BY <1>8 DEF Owners!AdminStatus
<1>9. CASE UNCHANGED Owners!vars
  BY <1>9 DEF Owners!vars
<1> QED
  BY <1>2, <1>3, <1>4, <1>5, <1>6, <1>7, <1>8, <1>9 DEF Owners!Next, Owners!Step

(* Every other step leaves or loses owners, but makes none.                *)
LEMMA OnlyHandoversPromote ==
    ASSUME StoreSafe, [Owners!Next]_(Owners!vars)
    PROVE  \/ \E c \in Request : Owners!Handover(c)
           \/ Owners!Owners' \subseteq Owners!Owners
<1>1. ASSUME NEW c \in Request, Owners!StaffDelete(c)
      PROVE  Owners!Owners' \subseteq Owners!Owners
  BY <1>1 DEF Owners!StaffDelete, Owners!Owners, StoreSafe
<1>2. ASSUME UNCHANGED role
      PROVE  Owners!Owners' \subseteq Owners!Owners
  BY <1>2 DEF Owners!Owners
<1> QED
  BY <1>1, <1>2 DEF Owners!Next, Owners!Step, Owners!Abandon, Owners!HandoverBegin, Owners!StaffRead,
                    Owners!StaffStatus, Owners!AdminStatus, Owners!vars

(* Whoever edits, locks or deletes the recipient while a handover is under *)
(* way: a store that gets a new owner has that one, and it is active       *)
(* (admin-ops.service.ts:692).                                             *)
THEOREM HandoverIsWhole == Owners!Spec => HandoverLeavesOneOwner
<1> DEFINE OneActive == /\ Owners!Cardinality(Owners!Owners') = 1
                        /\ \A u \in Owners!Owners' : enabled'[u]
<1>1. Owners!Init => StoreSafe
  BY DEF StoreSafe, Owners!Init, Owners!Idle, Deed
<1>2. StoreSafe /\ [Owners!Next]_(Owners!vars) => StoreSafe'
  BY StoreStep
<1>3. StoreSafe /\ [Owners!Next]_(Owners!vars) => [Owners!Owners' \ Owners!Owners # {} => OneActive]_(Owners!vars)
  <2> SUFFICES ASSUME StoreSafe, [Owners!Next]_(Owners!vars), Owners!Owners' \ Owners!Owners # {}
               PROVE  OneActive
    OBVIOUS
  <2>1. PICK c \in Request : Owners!Handover(c)
    BY OnlyHandoversPromote
  <2> QED
    BY <2>1, HandedOverToOne, Counting, FS_Singleton
<1> QED
  BY <1>1, <1>2, <1>3, PTL DEF Owners!Spec, HandoverLeavesOneOwner, Owners!HandoverLeavesOneOwner
-----------------------------------------------------------------------------
(* Payment keys: the row, and what a save holds between its read and its   *)
(* write.                                                                  *)
ConfigRow == [parts : [Wallet!Part -> Key \cup {"none"}], active : BOOLEAN, there : BOOLEAN]
Entry == [op : {"idle"}] \cup [op : {"save"}, given : SUBSET Wallet!Part, row : ConfigRow]

(* A save that is under way can still read what it keeps, because a server *)
(* that gets another key forgets its requests.                             *)
WalletSafe ==
    /\ config \in ConfigRow /\ key \in Key
    /\ entry \in [Request -> Entry]
    /\ \A o \in Request : entry[o].op = "save" => Wallet!KeptReadable(entry[o].row, entry[o].given)
    /\ Wallet!SaveLeavesReadable

(* The rows a server starts from are safe.                                 *)
LEMMA WalletInit ==
    ASSUME Wallet!Init
    PROVE  WalletSafe
BY DEF Wallet!Init, WalletSafe, Wallet!None, Wallet!Idle, Entry, ConfigRow, Wallet!SaveLeavesReadable

(* A request that ends leaves the others as they are.                      *)
LEMMA EntryDone ==
    ASSUME WalletSafe, NEW o \in Request, Wallet!Done(o)
    PROVE  /\ entry' \in [Request -> Entry]
           /\ \A r \in Request : entry'[r].op = "save" => entry'[r] = entry[r]
BY DEF WalletSafe, Wallet!Done, Wallet!Idle, Entry

(* A save writes a row of which every part is readable with its own key.   *)
LEMMA UpsertReadable ==
    ASSUME WalletSafe, NEW o \in Request, NEW how \in {"keep", "on", "off"}, Wallet!Upsert(o, how)
    PROVE  config' \in ConfigRow /\ Wallet!SaveLeavesReadable'
<1>1. /\ entry[o].given \in SUBSET Wallet!Part /\ entry[o].row \in ConfigRow
      /\ Wallet!KeptReadable(entry[o].row, entry[o].given)
  BY DEF WalletSafe, Entry, Wallet!Upsert
<1>2. config'.parts = [p \in Wallet!Part |->
                          IF p \in entry[o].given THEN key ELSE entry[o].row.parts[p]]
  BY DEF Wallet!Upsert
<1>3. \A p \in Wallet!Part : config'.parts[p] = key
  BY <1>1, <1>2 DEF Wallet!KeptReadable
<1>4. saved' = key
  BY DEF Wallet!Upsert
<1>5. config' \in ConfigRow
  <2> DEFINE on == IF how = "keep" THEN entry[o].row.there => entry[o].row.active ELSE how = "on"
             parts == [p \in Wallet!Part |-> IF p \in entry[o].given THEN key ELSE entry[o].row.parts[p]]
  <2>1. parts \in [Wallet!Part -> Key \cup {"none"}]
    BY <1>2, <1>3 DEF WalletSafe
  <2>2. on \in BOOLEAN
    BY <1>1 DEF ConfigRow
  <2>3. config' = [parts |-> parts, active |-> on, there |-> TRUE]
    BY DEF Wallet!Upsert
  <2> HIDE DEF on, parts
  <2> QED
    BY <2>1, <2>2, <2>3 DEF ConfigRow
<1> QED
  BY <1>3, <1>4, <1>5 DEF Wallet!SaveLeavesReadable

(* Every step keeps the payment keys readable.                             *)
LEMMA WalletStep ==
    ASSUME WalletSafe, [Wallet!Next]_(Wallet!vars)
    PROVE  WalletSafe'
<1> USE DEF WalletSafe
<1>1. ASSUME NEW o \in Request, Wallet!GiveUp(o)
      PROVE  WalletSafe'
  BY <1>1, EntryDone DEF Wallet!GiveUp, Wallet!KeptReadable, Wallet!SaveLeavesReadable
<1>2. ASSUME NEW o \in Request, NEW given \in SUBSET Wallet!Part, Wallet!ReadConfig(o, given)
      PROVE  WalletSafe'
  <2>1. entry' = [entry EXCEPT ![o] = [op |-> "save", given |-> given, row |-> config]]
    BY <1>2 DEF Wallet!ReadConfig, Wallet!Hold
  <2>2. entry' \in [Request -> Entry]
    BY <2>1 DEF Entry
  <2>3. \A r \in Request : entry'[r].op = "save" => Wallet!KeptReadable(entry'[r].row, entry'[r].given)
    BY <1>2, <2>1 DEF Wallet!ReadConfig
  <2> QED
    BY <1>2, <2>2, <2>3 DEF Wallet!ReadConfig, Wallet!KeptReadable, Wallet!SaveLeavesReadable
<1>3. ASSUME NEW o \in Request, NEW how \in {"keep", "on", "off"}, Wallet!Upsert(o, how)
      PROVE  WalletSafe'
  <2>1. Wallet!Done(o) /\ key' = key
    BY <1>3 DEF Wallet!Upsert
  <2> QED
    BY <1>3, <2>1, EntryDone, UpsertReadable DEF Wallet!KeptReadable
<1>4. ASSUME NEW on \in BOOLEAN, Wallet!SetActive(on)
      PROVE  WalletSafe'
  <2>1. config' \in ConfigRow /\ config'.parts = config.parts /\ config'.there = config.there
    BY <1>4 DEF Wallet!SetActive, ConfigRow
  <2> QED
    BY <1>4, <2>1 DEF Wallet!SetActive, Wallet!KeptReadable, Wallet!SaveLeavesReadable
<1>5. ASSUME NEW k \in Key, Wallet!Restart(k)
      PROVE  WalletSafe'
  BY <1>5 DEF Wallet!Restart, Wallet!Idle, Entry, Wallet!SaveLeavesReadable
<1>6. CASE UNCHANGED Wallet!vars
  BY <1>6 DEF Wallet!vars, Wallet!KeptReadable, Wallet!SaveLeavesReadable
<1> QED
  BY <1>1, <1>2, <1>3, <1>4, <1>5, <1>6 DEF Wallet!Next
-----------------------------------------------------------------------------
(* Scanner pairings: what a request waits for.                             *)
Waiting == [op : {"idle"}] \cup [op : {"create"}, for : Store] \cup [op : {"scan"}, in : Code]

(* No two sessions of S that work are for the same store.                  *)
OneOfEach(S) == \A s, t \in S \ expired : of[s] = of[t] => s = t

(* The sessions in memory and in the file were opened, and of a store only *)
(* one still works; where the two differ is remembered as unsaved.         *)
PairingSafe ==
    /\ of \in [Code -> Store \cup {"nobody"}]
    /\ mem \subseteq Code /\ file \subseteq Code
    /\ \A s \in mem \cup file : of[s] # "nobody"
    /\ phone \in [Request -> Waiting]
    /\ OneOfEach(mem) /\ OneOfEach(file)
    /\ Pairing!RestartRestores

(* Before the first pairing there is nothing to lose.                      *)
LEMMA PairingInit ==
    ASSUME Pairing!Init
    PROVE  PairingSafe
BY DEF Pairing!Init, PairingSafe, Pairing!Nobody, Pairing!Idle, Waiting, OneOfEach, Pairing!RestartRestores

(* Writing the file, or failing to, leaves it safe and its gaps known.     *)
LEMMA Persisted ==
    ASSUME PairingSafe, Pairing!Persist, expired' = expired,
           mem' \subseteq Code, \A s \in mem' : of'[s] # "nobody",
           \A s \in file : of'[s] = of[s], OneOfEach(mem)'
    PROVE  /\ file' \subseteq Code /\ \A s \in mem' \cup file' : of'[s] # "nobody"
           /\ OneOfEach(file)'
           /\ Pairing!RestartRestores'
<1>1. CASE file' = mem' /\ unsaved' = {}
  BY <1>1 DEF OneOfEach, Pairing!RestartRestores
<1>2. CASE /\ file' = file /\ torn' = torn
           /\ unsaved' = unsaved \cup ((mem \ mem') \cup (mem' \ mem))
  BY <1>2 DEF PairingSafe, OneOfEach, Pairing!RestartRestores
<1>3. CASE file' = {} /\ torn' = TRUE
  BY <1>3 DEF OneOfEach, Pairing!RestartRestores
<1> QED
  BY <1>1, <1>2, <1>3 DEF Pairing!Persist

(* Sessions that are forgotten leave the others safe.                      *)
LEMMA Forgotten ==
    ASSUME PairingSafe, NEW gone, Pairing!Forget(gone), UNCHANGED <<of, expired, phone>>
    PROVE  PairingSafe'
<1>1. mem' \subseteq mem /\ Pairing!Persist
  BY DEF Pairing!Forget
<1>2. OneOfEach(mem)'
  BY <1>1 DEF PairingSafe, OneOfEach
<1> QED
  BY <1>1, <1>2, Persisted DEF PairingSafe

(* A request that ends leaves typed requests.                              *)
LEMMA WaitingDone ==
    ASSUME PairingSafe, NEW p \in Request, Pairing!Done(p)
    PROVE  phone' \in [Request -> Waiting]
BY DEF PairingSafe, Pairing!Done, Pairing!Idle, Waiting

(* A session is opened only for a store without one, whatever was looked up*)
(* before.                                                                 *)
LEMMA SessionOpened ==
    ASSUME PairingSafe, NEW p \in Request, NEW s \in Code, Pairing!OpenSession(p, s)
    PROVE  PairingSafe'
<1> DEFINE st == phone[p].for
<1>1. st \in Store /\ st # "nobody"
  BY PlatformAssumption DEF PairingSafe, Waiting, Pairing!OpenSession
<1>2. /\ of[s] = "nobody" /\ of' = [of EXCEPT ![s] = st]
      /\ mem' = mem \cup {s} /\ Pairing!Persist /\ expired' = expired /\ Pairing!Done(p)
  BY DEF Pairing!OpenSession, Pairing!Nobody
<1>3. s \notin mem \cup file
  BY <1>2 DEF PairingSafe
<1>4. /\ of' \in [Code -> Store \cup {"nobody"}] /\ of'[s] = st
      /\ \A t \in Code : t # s => of'[t] = of[t]
  BY <1>1, <1>2 DEF PairingSafe
<1>5. \A t \in mem \ expired : of[t] # st
  BY DEF Pairing!OpenSession, Pairing!ListSessions
<1>6. OneOfEach(mem)'
  BY <1>2, <1>3, <1>4, <1>5 DEF PairingSafe, OneOfEach
<1>7. mem' \subseteq Code /\ (\A t \in mem' : of'[t] # "nobody") /\ \A t \in file : of'[t] = of[t]
  BY <1>1, <1>2, <1>3, <1>4 DEF PairingSafe
<1> QED
  BY <1>2, <1>4, <1>6, <1>7, Persisted, WaitingDone DEF PairingSafe

(* Every step keeps the pairings safe.                                     *)
LEMMA PairingStep ==
    ASSUME PairingSafe, [Pairing!Next]_(Pairing!vars)
    PROVE  PairingSafe'
<1>1. ASSUME UNCHANGED <<of, mem, file, expired, unsaved, torn>>, phone' \in [Request -> Waiting]
      PROVE  PairingSafe'
  BY <1>1 DEF PairingSafe, OneOfEach, Pairing!RestartRestores
<1>2. ASSUME NEW p \in Request, NEW st \in Store, Pairing!CreateSession(p, st)
      PROVE  PairingSafe'
  <2>1. phone' \in [Request -> Waiting]
    BY <1>2 DEF PairingSafe, Pairing!CreateSession, Pairing!Wait, Waiting
  <2> QED
    BY <1>1, <1>2, <2>1 DEF Pairing!CreateSession
<1>3. ASSUME NEW p \in Request, NEW s \in Code, Pairing!OpenSession(p, s)
      PROVE  PairingSafe'
  BY <1>3, SessionOpened
<1>4. ASSUME NEW p \in Request, Pairing!ReuseSession(p)
      PROVE  PairingSafe'
  BY <1>1, <1>4, WaitingDone DEF Pairing!ReuseSession
<1>5. ASSUME NEW p \in Request, NEW s \in Code, Pairing!Scan(p, s)
      PROVE  PairingSafe'
  <2>1. phone' \in [Request -> Waiting]
    BY <1>5 DEF PairingSafe, Pairing!Scan, Pairing!Wait, Waiting
  <2> QED
    BY <1>1, <1>5, <2>1 DEF Pairing!Scan
<1>6. ASSUME NEW p \in Request, Pairing!Push(p)
      PROVE  PairingSafe'
  BY <1>1, <1>6, WaitingDone DEF Pairing!Push
<1>7. ASSUME NEW s \in Code, Pairing!Expire(s)
      PROVE  PairingSafe'
  BY <1>7 DEF Pairing!Expire, PairingSafe, OneOfEach, Pairing!RestartRestores
<1>8. ASSUME NEW s \in Code, Pairing!GetExpired(s) \/ Pairing!CloseSession(s)
      PROVE  PairingSafe'
  BY <1>8, Forgotten DEF Pairing!GetExpired, Pairing!CloseSession
<1>9. ASSUME NEW s \in Code, Pairing!Subscribe(s) \/ Pairing!Unsubscribe(s)
      PROVE  PairingSafe'
  BY <1>1, <1>9 DEF Pairing!Subscribe, Pairing!Unsubscribe, PairingSafe
<1>10. ASSUME Pairing!CleanUp
       PROVE  PairingSafe'
  BY <1>10, Forgotten DEF Pairing!CleanUp
<1>11. ASSUME Pairing!Restart
       PROVE  PairingSafe'
  BY <1>11 DEF Pairing!Restart, Pairing!Idle, Waiting, PairingSafe, OneOfEach, Pairing!RestartRestores
<1>12. CASE UNCHANGED Pairing!vars
  BY <1>1, <1>12 DEF Pairing!vars, PairingSafe
<1> QED
  BY <1>2, <1>3, <1>4, <1>5, <1>6, <1>7, <1>8, <1>9, <1>10, <1>11, <1>12 DEF Pairing!Next

(* A store has one pairing that works, in memory and after a restart.      *)
LEMMA OneSessionFollows == PairingSafe => Pairing!OneSessionPerStore
<1> SUFFICES ASSUME PairingSafe, NEW st \in Store, NEW sessions \in {mem, file}
             PROVE  Pairing!Cardinality({s \in sessions \ expired : of[s] = st}) <= 1
  BY DEF Pairing!OneSessionPerStore
<1> DEFINE own == {s \in sessions \ expired : of[s] = st}
<1>1. \A s, t \in own : s = t
  BY DEF PairingSafe, OneOfEach
<1>2. Pairing!Cardinality(own) = Cardinality(own)
  BY DEF Pairing!Cardinality, Cardinality
<1> QED
  BY <1>1, <1>2, AtMostOne

(* A store's payment keys are readable after every save, whichever saves   *)
(* overlap and whatever keys the server had before; it has one pairing that*)
(* works, and a restart of the scanner's process revives and loses none but*)
(* those changed since the file could last be written.                     *)
THEOREM StoreSetupHolds == Wallet!Spec /\ Pairing!Spec => []SetupHolds
<1>1. Wallet!Spec => []WalletSafe
  BY WalletInit, WalletStep, PTL DEF Wallet!Spec
<1>2. Pairing!Spec => []PairingSafe
  BY PairingInit, PairingStep, PTL DEF Pairing!Spec
<1>3. WalletSafe /\ PairingSafe => SetupHolds
  BY OneSessionFollows DEF WalletSafe, PairingSafe, SetupHolds
<1> QED
  BY <1>1, <1>2, <1>3, PTL
-----------------------------------------------------------------------------
(* Registration: what a request has given, and how far it is.              *)
Given == [st : {"idle"}] \cup [st : {"send"}, email : Email]
         \cup [st : {"given", "verified", "free"}, email : Email, code : StoreCode, otp : SignUp!Otp]

(* Codes, stores and requests have their types.                            *)
SignUpTypes ==
    /\ otp \in [Email -> [n : 0..MaxOtps, expired : BOOLEAN]]
    /\ issued \in 0..MaxOtps
    /\ passed \in [SignUp!Otp -> Nat]
    /\ owner \in [StoreCode -> Email \cup {"nobody"}]
    /\ form \in [Request -> Given]

(* A code was issued for one address, and is forgotten when it has passed. *)
CodesPass ==
    /\ \A e \in Email : otp[e].n <= issued
    /\ \A e, d \in Email : otp[e].n # 0 /\ otp[e].n = otp[d].n => e = d
    /\ \A n \in SignUp!Otp : /\ passed[n] <= 1
                             /\ passed[n] # 0 => n <= issued /\ \A e \in Email : otp[e].n # n

(* An address has one store.                                               *)
OneStoreEach == \A c, d \in StoreCode : owner[c] = owner[d] => c = d \/ owner[c] = "nobody"

(* The stores there are, the requests that may still found one, and the    *)
(* codes that have passed.                                                 *)
Founded == {c \in StoreCode : owner[c] # "nobody"}
Founding == {f \in Request : form[f].st \in {"verified", "free"}}
Passed == {n \in SignUp!Otp : passed[n] # 0}

(* Every store, and every request that may still found one, is of another  *)
(* code that has passed.                                                   *)
StoresPaidFor ==
    /\ IsFiniteSet(Founded) /\ IsFiniteSet(Founding) /\ IsFiniteSet(Passed)
    /\ Cardinality(Founded) + Cardinality(Founding) <= Cardinality(Passed)

(* The inductive invariant of registrations.                               *)
SignUpSafe == SignUpTypes /\ CodesPass /\ OneStoreEach /\ StoresPaidFor

(* At first nobody has a code or a store.                                  *)
LEMMA SignUpInit ==
    ASSUME SignUp!Init
    PROVE  SignUpSafe
<1> USE PlatformAssumption DEF SignUp!Init, SignUp!Otp, SignUp!NoOtp, SignUp!Nobody, SignUp!Idle
<1>1. SignUpTypes
  BY DEF SignUpTypes, Given
<1>2. CodesPass /\ OneStoreEach
  BY DEF CodesPass, OneStoreEach
<1>3. Founded = {} /\ Founding = {} /\ Passed = {}
  BY DEF Founded, Founding, Passed
<1> QED
  BY <1>1, <1>2, <1>3, FS_EmptySet DEF SignUpSafe, StoresPaidFor

(* Nobody joins those who may found a store when a request goes elsewhere. *)
LEMMA FormsTyped ==
    ASSUME SignUpTypes, NEW f \in Request, NEW what \in Given, SignUp!To(f, what)
    PROVE  /\ form' \in [Request -> Given]
           /\ form'[f] = what
           /\ \A g \in Request : g # f => form'[g] = form[g]
BY DEF SignUpTypes, SignUp!To

(* A step keeps the balance when no store is founded, no code passes and   *)
(* nobody joins those who may found one.                                   *)
LEMMA NothingToPay ==
    ASSUME StoresPaidFor, owner' = owner, passed' = passed, Founding' \subseteq Founding
    PROVE  StoresPaidFor'
<1>1. Founded' = Founded /\ Passed' = Passed
  BY DEF Founded, Passed
<1>2. IsFiniteSet(Founding') /\ Cardinality(Founding') <= Cardinality(Founding)
  BY FS_Subset DEF StoresPaidFor
<1>3. /\ Cardinality(Founded) \in Nat /\ Cardinality(Founding) \in Nat
      /\ Cardinality(Founding') \in Nat /\ Cardinality(Passed) \in Nat
  BY <1>2, FS_CardinalityType DEF StoresPaidFor
<1> QED
  BY <1>1, <1>2, <1>3 DEF StoresPaidFor

(* A request that has given its code has given an address and a name, too, *)
(* and goes on with them.                                                  *)
LEMMA GivenTyped ==
    ASSUME SignUpTypes, NEW f \in Request, form[f].st \in {"given", "verified", "free"}
    PROVE  /\ form[f].email \in Email /\ form[f].code \in StoreCode
           /\ form[f].otp \in SignUp!Otp /\ form[f].otp # 0
           /\ \A st \in {"verified", "free"} :
                 /\ [form[f] EXCEPT !.st = st] \in Given
                 /\ [form[f] EXCEPT !.st = st].st = st
<1> DEFINE Whole == [st : {"given", "verified", "free"}, email : Email, code : StoreCode, otp : SignUp!Otp]
<1>1. form[f] \in Given
  BY DEF SignUpTypes
<1>2. form[f] \in Whole
  BY <1>1 DEF Given
<1>3. form[f].otp # 0
  BY <1>2, PlatformAssumption DEF SignUp!Otp
<1>4. \A st \in {"verified", "free"} :
         [form[f] EXCEPT !.st = st] \in Whole /\ [form[f] EXCEPT !.st = st].st = st
  BY <1>2
<1> QED
  BY <1>2, <1>3, <1>4 DEF Given

(* Forgetting what is kept for an address leaves no other code.            *)
LEMMA OtpForgotten ==
    ASSUME SignUpTypes, NEW e \in Email, otp' = [otp EXCEPT ![e] = SignUp!NoOtp]
    PROVE  /\ otp' \in [Email -> [n : 0..MaxOtps, expired : BOOLEAN]]
           /\ otp'[e].n = 0
           /\ \A d \in Email : d # e => otp'[d] = otp[d]
<1>1. SignUp!NoOtp \in [n : 0..MaxOtps, expired : BOOLEAN] /\ SignUp!NoOtp.n = 0
  BY PlatformAssumption DEF SignUp!NoOtp
<1> QED
  BY <1>1 DEF SignUpTypes

(* A code that is given and compared lets one request on.                  *)
LEMMA VerifySafe ==
    ASSUME SignUpSafe, NEW f \in Request, SignUp!VerifyOtp(f)
    PROVE  SignUpSafe'
<1> USE DEF SignUpSafe
<1> DEFINE e == form[f].email
           n == form[f].otp
<1>1. /\ form[f].st = "given" /\ e \in Email /\ n \in SignUp!Otp /\ n # 0
      /\ [form[f] EXCEPT !.st = "verified"] \in Given
      /\ [form[f] EXCEPT !.st = "verified"].st = "verified"
      /\ SignUp!Idle \in Given
  BY GivenTyped DEF SignUp!VerifyOtp, Given, SignUp!Idle
<1>2. UNCHANGED <<issued, owner>>
  BY DEF SignUp!VerifyOtp
<1>3. OneStoreEach'
  BY <1>2 DEF OneStoreEach
<1>4. CASE /\ otp[e].n = n /\ otp' = [otp EXCEPT ![e] = SignUp!NoOtp]
           /\ passed' = [passed EXCEPT ![n] = @ + 1]
           /\ SignUp!To(f, [form[f] EXCEPT !.st = "verified"])
  <2>1. passed[n] = 0 /\ n <= issued
    BY <1>1, <1>4 DEF CodesPass
  <2>2. /\ passed' \in [SignUp!Otp -> Nat] /\ passed'[n] = 1
        /\ \A m \in SignUp!Otp : m # n => passed'[m] = passed[m]
    BY <1>1, <1>4, <2>1 DEF SignUpTypes
  <2>3. /\ otp' \in [Email -> [n : 0..MaxOtps, expired : BOOLEAN]] /\ otp'[e].n = 0
        /\ \A d \in Email : d # e => otp'[d] = otp[d]
    BY <1>1, <1>4, OtpForgotten
  <2>4. /\ form' \in [Request -> Given]
        /\ form'[f] = [form[f] EXCEPT !.st = "verified"]
        /\ \A g \in Request : g # f => form'[g] = form[g]
    BY <1>1, <1>4, FormsTyped
  <2>5. SignUpTypes'
    BY <1>2, <2>2, <2>3, <2>4 DEF SignUpTypes
  <2>6. CodesPass'
    <3>1. \A d \in Email : otp'[d].n <= issued'
      BY <1>1, <1>2, <2>3 DEF CodesPass, SignUpTypes
    <3>2. \A d, b \in Email : otp'[d].n # 0 /\ otp'[d].n = otp'[b].n => d = b
      BY <2>3 DEF CodesPass
    <3>3. \A d \in Email : otp'[d].n # n
      BY <1>1, <1>4, <2>3 DEF CodesPass
    <3>4. ASSUME NEW m \in SignUp!Otp, m # n
          PROVE  /\ passed'[m] <= 1
                 /\ passed'[m] # 0 => m <= issued' /\ \A d \in Email : otp'[d].n # m
      <4>1. m # 0
        BY DEF SignUp!Otp
      <4> QED
        BY <1>2, <2>2, <2>3, <3>4, <4>1 DEF CodesPass
    <3> QED
      BY <1>2, <2>1, <2>2, <3>1, <3>2, <3>3, <3>4 DEF CodesPass
  <2>7. StoresPaidFor'
    <3>1. Founded' = Founded
      BY <1>2 DEF Founded
    <3>2. Founding' = Founding \cup {f} /\ f \notin Founding
      BY <1>1, <2>4 DEF Founding, SignUpTypes, Given
    <3>3. Passed' = Passed \cup {n} /\ n \notin Passed
      BY <1>1, <2>1, <2>2 DEF Passed
    <3>4. /\ IsFiniteSet(Founding') /\ Cardinality(Founding') = Cardinality(Founding) + 1
          /\ IsFiniteSet(Passed') /\ Cardinality(Passed') = Cardinality(Passed) + 1
      BY <3>2, <3>3, FS_AddElement DEF StoresPaidFor
    <3>5. /\ Cardinality(Founded) \in Nat /\ Cardinality(Founding) \in Nat
          /\ Cardinality(Passed) \in Nat
      BY FS_CardinalityType DEF StoresPaidFor
    <3> QED
      BY <3>1, <3>4, <3>5 DEF StoresPaidFor
  <2> QED
    BY <1>3, <2>5, <2>6, <2>7
<1>5. CASE /\ \/ otp' = otp
              \/ otp' = [otp EXCEPT ![e] = SignUp!NoOtp]
           /\ SignUp!To(f, SignUp!Idle) /\ UNCHANGED passed
  <2>1. /\ otp' \in [Email -> [n : 0..MaxOtps, expired : BOOLEAN]]
        /\ \A d \in Email : otp'[d].n \in {0, otp[d].n}
    <3>1. CASE otp' = otp
      BY <3>1 DEF SignUpTypes
    <3>2. CASE otp' = [otp EXCEPT ![e] = SignUp!NoOtp]
      BY <1>1, <3>2, OtpForgotten
    <3> QED
      BY <1>5, <3>1, <3>2
  <2>2. /\ form' \in [Request -> Given] /\ form'[f] = SignUp!Idle
        /\ \A g \in Request : g # f => form'[g] = form[g]
    BY <1>1, <1>5, FormsTyped
  <2>3. Founding' \subseteq Founding
    BY <2>2 DEF Founding, SignUp!Idle
  <2>4. CodesPass'
    BY <1>2, <1>5, <2>1 DEF CodesPass, SignUp!Otp, SignUpTypes
  <2> QED
    BY <1>2, <1>3, <1>5, <2>1, <2>2, <2>3, <2>4, NothingToPay DEF SignUpTypes
<1> QED
  BY <1>4, <1>5 DEF SignUp!VerifyOtp, SignUp!ForgetOtp

(* Sending a code forgets the one kept for its address, and no two codes   *)
(* have one number.                                                        *)
LEMMA SendSafe ==
    ASSUME SignUpSafe, NEW f \in Request, SignUp!SendRegisterOtp(f)
    PROVE  SignUpSafe'
<1> USE DEF SignUpSafe
<1> DEFINE e == form[f].email
<1>1. e \in Email /\ SignUp!Idle \in Given
  BY DEF SignUp!SendRegisterOtp, SignUpTypes, Given, SignUp!Idle
<1>2. /\ issued' = issued + 1 /\ issued < MaxOtps /\ UNCHANGED <<passed, owner>>
      /\ otp' = [otp EXCEPT ![e] = [n |-> issued + 1, expired |-> FALSE]]
      /\ SignUp!To(f, SignUp!Idle)
  BY DEF SignUp!SendRegisterOtp
<1>3. issued + 1 \in 0..MaxOtps /\ issued \in Nat
  BY <1>2, PlatformAssumption DEF SignUpTypes
<1>4. /\ otp' \in [Email -> [n : 0..MaxOtps, expired : BOOLEAN]] /\ otp'[e].n = issued + 1
      /\ \A d \in Email : d # e => otp'[d] = otp[d]
  BY <1>1, <1>2, <1>3 DEF SignUpTypes
<1>5. /\ form' \in [Request -> Given] /\ form'[f] = SignUp!Idle
      /\ \A g \in Request : g # f => form'[g] = form[g]
  BY <1>1, <1>2, FormsTyped
<1>6. CodesPass'
  <2>1. \A d \in Email : otp[d].n \in Nat /\ otp[d].n <= issued
    BY DEF CodesPass, SignUpTypes
  <2>2. \A d \in Email : otp'[d].n <= issued'
    BY <1>2, <1>3, <1>4, <2>1
  <2>3. \A d, b \in Email : otp'[d].n # 0 /\ otp'[d].n = otp'[b].n => d = b
    <3>1. \A d \in Email : d # e => otp'[d].n # otp'[e].n
      BY <1>1, <1>3, <1>4, <2>1
    <3>2. \A d, b \in Email : d # e /\ b # e /\ otp'[d].n # 0 /\ otp'[d].n = otp'[b].n => d = b
      BY <1>4 DEF CodesPass
    <3> QED
      BY <1>1, <3>1, <3>2
  <2>4. ASSUME NEW m \in SignUp!Otp
        PROVE  /\ passed'[m] <= 1
               /\ passed'[m] # 0 => m <= issued' /\ \A d \in Email : otp'[d].n # m
    <3>1. m \in Nat /\ passed[m] <= 1 /\ passed' = passed
      BY <1>2 DEF CodesPass, SignUp!Otp
    <3>2. passed[m] # 0 => m <= issued /\ \A d \in Email : otp[d].n # m
      BY DEF CodesPass
    <3> QED
      BY <1>1, <1>2, <1>3, <1>4, <3>1, <3>2
  <2> QED
    BY <2>2, <2>3, <2>4 DEF CodesPass
<1>7. Founding' \subseteq Founding
  BY <1>5 DEF Founding, SignUp!Idle
<1> QED
  BY <1>2, <1>3, <1>4, <1>5, <1>6, <1>7, NothingToPay DEF SignUpTypes, OneStoreEach

(* Of the requests that may found a store, only one with a free address and*)
(* a free name does, and then it is done.                                  *)
LEMMA FoundSafe ==
    ASSUME SignUpSafe, NEW f \in Request, SignUp!CreateStore(f)
    PROVE  SignUpSafe'
<1> USE DEF SignUpSafe
<1> DEFINE c == form[f].code
           e == form[f].email
<1>1. /\ c \in StoreCode /\ e \in Email /\ e # "nobody" /\ SignUp!Idle \in Given
      /\ form[f].st = "free"
  BY GivenTyped, PlatformAssumption DEF SignUp!CreateStore, Given, SignUp!Idle
<1>2. /\ owner[c] = "nobody" /\ (\A d \in StoreCode : owner[d] # e)
      /\ owner' = [owner EXCEPT ![c] = e]
      /\ SignUp!To(f, SignUp!Idle) /\ UNCHANGED <<otp, issued, passed>>
  BY DEF SignUp!CreateStore, SignUp!HasAccount, SignUp!Nobody
<1>3. /\ owner' \in [StoreCode -> Email \cup {"nobody"}] /\ owner'[c] = e
      /\ \A d \in StoreCode : d # c => owner'[d] = owner[d]
  BY <1>1, <1>2 DEF SignUpTypes
<1>4. /\ form' \in [Request -> Given] /\ form'[f] = SignUp!Idle
      /\ \A g \in Request : g # f => form'[g] = form[g]
  BY <1>1, <1>2, FormsTyped
<1>5. OneStoreEach'
  BY <1>1, <1>2, <1>3 DEF OneStoreEach
<1>6. StoresPaidFor'
  <2>1. Founded' = Founded \cup {c} /\ c \notin Founded
    BY <1>1, <1>2, <1>3 DEF Founded
  <2>2. Founding' = Founding \ {f} /\ f \in Founding
    BY <1>1, <1>4 DEF Founding, SignUp!Idle
  <2>3. Passed' = Passed
    BY <1>2 DEF Passed
  <2>4. /\ IsFiniteSet(Founded') /\ Cardinality(Founded') = Cardinality(Founded) + 1
        /\ IsFiniteSet(Founding') /\ Cardinality(Founding') = Cardinality(Founding) - 1
    BY <2>1, <2>2, FS_AddElement, FS_RemoveElement DEF StoresPaidFor
  <2>5. /\ Cardinality(Founded) \in Nat /\ Cardinality(Founding) \in Nat
        /\ Cardinality(Passed) \in Nat
    BY FS_CardinalityType DEF StoresPaidFor
  <2> QED
    BY <2>3, <2>4, <2>5 DEF StoresPaidFor
<1> QED
  BY <1>2, <1>3, <1>4, <1>5, <1>6 DEF SignUpTypes, CodesPass

(* A step by which no code is issued or passes and no store is founded.    *)
LEMMA QuietSafe ==
    ASSUME SignUpSafe, UNCHANGED <<issued, passed, owner>>, form' \in [Request -> Given],
           Founding' \subseteq Founding,
           otp' \in [Email -> [n : 0..MaxOtps, expired : BOOLEAN]],
           \A d \in Email : otp'[d].n \in {0, otp[d].n}
    PROVE  SignUpSafe'
<1> USE DEF SignUpSafe
<1>1. SignUpTypes'
  BY DEF SignUpTypes
<1>2. CodesPass'
  <2>1. \A d \in Email : otp'[d].n <= issued'
    BY DEF CodesPass, SignUpTypes
  <2>2. \A d, b \in Email : otp'[d].n # 0 /\ otp'[d].n = otp'[b].n => d = b
    BY DEF CodesPass
  <2>3. ASSUME NEW m \in SignUp!Otp
        PROVE  /\ passed'[m] <= 1
               /\ passed'[m] # 0 => m <= issued' /\ \A d \in Email : otp'[d].n # m
    BY DEF CodesPass, SignUp!Otp
  <2> QED
    BY <2>1, <2>2, <2>3 DEF CodesPass
<1> QED
  BY <1>1, <1>2, NothingToPay DEF OneStoreEach

(* Every step keeps registrations safe.                                    *)
LEMMA SignUpStep ==
    ASSUME SignUpSafe, [SignUp!Next]_(SignUp!vars)
    PROVE  SignUpSafe'
<1> USE DEF SignUpSafe
<1>1. /\ otp \in [Email -> [n : 0..MaxOtps, expired : BOOLEAN]]
      /\ form \in [Request -> Given] /\ SignUp!Idle \in Given
  BY DEF SignUpTypes, Given, SignUp!Idle
<1>2. ASSUME NEW f \in Request, NEW what \in Given, SignUp!To(f, what),
             what.st \notin {"verified", "free"} \/ f \in Founding
      PROVE  form' \in [Request -> Given] /\ Founding' \subseteq Founding
  BY <1>2, FormsTyped DEF Founding
<1>3. ASSUME NEW f \in Request, NEW e \in Email, SignUp!SendOtpRead(f, e)
      PROVE  SignUpSafe'
  <2> DEFINE what == [st |-> "send", email |-> e]
  <2>1. what \in Given /\ what.st = "send"
    BY DEF Given
  <2>2. SignUp!To(f, what) /\ UNCHANGED <<otp, issued, passed, owner>>
    BY <1>3 DEF SignUp!SendOtpRead
  <2> HIDE DEF what
  <2> QED
    BY <1>1, <1>2, <2>1, <2>2, QuietSafe
<1>4. ASSUME NEW f \in Request, NEW e \in Email, NEW c \in StoreCode, NEW n \in SignUp!Otp,
             SignUp!Register(f, e, c, n)
      PROVE  SignUpSafe'
  <2> DEFINE what == [st |-> "given", email |-> e, code |-> c, otp |-> n]
  <2>1. what \in Given /\ what.st = "given"
    BY DEF Given
  <2>2. SignUp!To(f, what) /\ UNCHANGED <<otp, issued, passed, owner>>
    BY <1>4 DEF SignUp!Register
  <2> HIDE DEF what
  <2> QED
    BY <1>1, <1>2, <2>1, <2>2, QuietSafe
<1>5. ASSUME NEW f \in Request, SignUp!CheckFree(f)
      PROVE  SignUpSafe'
  <2> DEFINE e == form[f].email
             what == [form[f] EXCEPT !.st = "free"]
  <2>1. e \in Email /\ what \in Given /\ f \in Founding
    BY <1>5, GivenTyped DEF SignUp!CheckFree, Founding
  <2>2. /\ SignUp!To(f, what) /\ UNCHANGED <<issued, passed, owner>>
        /\ otp' = [otp EXCEPT ![e] = SignUp!NoOtp]
    BY <1>5 DEF SignUp!CheckFree
  <2>3. /\ otp' \in [Email -> [n : 0..MaxOtps, expired : BOOLEAN]]
        /\ \A d \in Email : otp'[d].n \in {0, otp[d].n}
    BY <2>1, <2>2, OtpForgotten
  <2> HIDE DEF e, what
  <2> QED
    BY <1>2, <2>1, <2>2, <2>3, QuietSafe
<1>6. ASSUME NEW f \in Request, SignUp!GiveUp(f)
      PROVE  SignUpSafe'
  <2>1. SignUp!To(f, SignUp!Idle) /\ UNCHANGED <<otp, issued, passed, owner>>
    BY <1>6 DEF SignUp!GiveUp
  <2>2. SignUp!Idle.st = "idle"
    BY DEF SignUp!Idle
  <2> QED
    BY <1>1, <1>2, <2>1, <2>2, QuietSafe
<1>7. ASSUME NEW e \in Email, SignUp!OtpExpires(e)
      PROVE  SignUpSafe'
  <2>1. /\ otp' \in [Email -> [n : 0..MaxOtps, expired : BOOLEAN]]
        /\ \A d \in Email : otp'[d].n = otp[d].n
    BY <1>1, <1>7 DEF SignUp!OtpExpires
  <2> QED
    BY <1>1, <1>7, <2>1, QuietSafe DEF SignUp!OtpExpires, Founding
<1>8. ASSUME SignUp!Restart
      PROVE  SignUpSafe'
  <2>1. /\ form' \in [Request -> Given] /\ Founding' = {}
    BY <1>1, <1>8 DEF SignUp!Restart, Founding, SignUp!Idle
  <2>2. /\ otp' \in [Email -> [n : 0..MaxOtps, expired : BOOLEAN]]
        /\ \A d \in Email : otp'[d].n = 0
    BY <1>8, PlatformAssumption DEF SignUp!Restart, SignUp!NoOtp
  <2> QED
    BY <1>8, <2>1, <2>2, QuietSafe DEF SignUp!Restart
<1>9. ASSUME UNCHANGED <<otp, issued, passed, owner, form>>
      PROVE  SignUpSafe'
  BY <1>1, <1>9, QuietSafe DEF Founding
<1> QED
  BY <1>3, <1>4, <1>5, <1>6, <1>7, <1>8, <1>9, SendSafe, VerifySafe, FoundSafe
     DEF SignUp!Next, SignUp!Step, SignUp!SetSignup, SignUp!vars

(* However many requests give one code at the same time, one of them       *)
(* passes, an address gets one store, and there are no more stores than    *)
(* codes were sent.                                                        *)
THEOREM RegistrationCodesWorkOnce == SignUp!Spec => []CodesWorkOnce
<1>1. SignUpSafe => CodesWorkOnce
  <2> SUFFICES ASSUME SignUpSafe
               PROVE  SignUp!OtpOnce
    BY DEF CodesWorkOnce
  <2> USE DEF SignUpSafe
  <2>1. Passed \subseteq 1..issued /\ issued \in Nat
    BY PlatformAssumption DEF Passed, CodesPass, SignUp!Otp, SignUpTypes
  <2>2. IsFiniteSet(1..issued) /\ Cardinality(1..issued) = issued
    BY <2>1, FS_Interval
  <2>3. Cardinality(Passed) <= issued
    BY <2>1, <2>2, FS_Subset
  <2>4. Cardinality(Founded) <= issued
    BY <2>1, <2>3, FS_CardinalityType DEF StoresPaidFor
  <2>5. SignUp!Cardinality(Founded) = Cardinality(Founded)
    BY DEF SignUp!Cardinality, Cardinality
  <2> QED
    BY <2>4, <2>5 DEF SignUp!OtpOnce, CodesPass, OneStoreEach, Founded, SignUp!Nobody
<1>2. SignUp!Spec => []SignUpSafe
  BY SignUpInit, SignUpStep, PTL DEF SignUp!Spec
<1> QED
  BY <1>1, <1>2, PTL
-----------------------------------------------------------------------------
(* Support: what a side has read of the ticket.                            *)
Clerked == [op : {"idle"}] \cup [op : {"store", "admin"}, was : Desk!Status]
           \cup [op : {"open"}, side : {"store", "admin"}]

(* The ticket has a status, calls hold what they have read of one, and a   *)
(* resolved ticket is dated and unasked.                                   *)
TicketSafe ==
    /\ status \in Desk!Status
    /\ dated \in BOOLEAN /\ asked \in BOOLEAN
    /\ work \in [Request -> Clerked]
    /\ Desk!RepliesReopen

(* Calls of both sides keep it, on whatever status they have read.         *)
LEMMA TicketStep ==
    ASSUME TicketSafe, [Desk!Next]_(Desk!vars)
    PROVE  TicketSafe'
<1> USE DEF TicketSafe, Clerked, Desk!Idle, Desk!Done, Desk!Hold, Desk!Status, Desk!RepliesReopen
<1>1. ASSUME NEW c \in Request, Desk!GiveUp(c)
      PROVE  TicketSafe'
  BY <1>1 DEF Desk!GiveUp
<1>2. ASSUME NEW c \in Request, NEW op \in {"store", "admin"}, Desk!ReadTicket(c, op)
      PROVE  TicketSafe'
  BY <1>2 DEF Desk!ReadTicket
<1>3. ASSUME NEW c \in Request, Desk!ReplyAsStore(c)
      PROVE  TicketSafe'
  <2>1. status' \in {"OPEN", "IN_PROGRESS"}
    BY <1>3 DEF Desk!ReplyAsStore, Desk!NextStatus
  <2>2. dated' \in BOOLEAN /\ asked' \in BOOLEAN /\ work' \in [Request -> Clerked]
    BY <1>3 DEF Desk!ReplyAsStore
  <2> QED
    BY <2>1, <2>2
<1>4. ASSUME NEW c \in Request, NEW internal \in BOOLEAN, Desk!ReplyAsAdmin(c, internal)
      PROVE  TicketSafe'
  BY <1>4 DEF Desk!ReplyAsAdmin
<1>5. ASSUME NEW c \in Request, NEW side \in {"store", "admin"}, Desk!OpenTicket(c, side)
      PROVE  TicketSafe'
  BY <1>5 DEF Desk!OpenTicket
<1>6. ASSUME NEW c \in Request, Desk!MarkOpened(c)
      PROVE  TicketSafe'
  BY <1>6 DEF Desk!MarkOpened
<1>7. ASSUME NEW to \in Desk!Status, Desk!UpdateTicket(to)
      PROVE  TicketSafe'
  BY <1>7 DEF Desk!UpdateTicket
<1>8. CASE UNCHANGED Desk!vars
  BY <1>8 DEF Desk!vars
<1> QED
  BY <1>1, <1>2, <1>3, <1>4, <1>5, <1>6, <1>7, <1>8 DEF Desk!Next, Desk!Step
-----------------------------------------------------------------------------
(* Notifications: what a request of the user has found.                    *)
Announced == Event \cup {Bell!System}
Tabbed == [op : {"idle"}] \cup [op : {"sync"}, for : Announced] \cup [op : {"read"}, row : Nat]

(* A notification is stamped once, when it is read; that of the system is  *)
(* always read and never stamped.                                          *)
Stamps(r) == IF r.read /\ r.about # Bell!System THEN 1 ELSE 0
Notified == {r \in [about : Announced \cup {Bell!Post}, read : BOOLEAN, stamps : {0, 1}] :
             r.stamps = Stamps(r) /\ (r.about = Bell!System => r.read)}
BellSafe == rows \in Seq(Notified) /\ tab \in [Request -> Tabbed]

(* A row that is not read becomes one that is.                             *)
LEMMA StampedOnce ==
    ASSUME NEW r \in Notified, ~r.read
    PROVE  Bell!Stamped(r) \in Notified
<1>1. /\ r.about \in Announced \cup {Bell!Post} /\ r.about # Bell!System
      /\ r.stamps = 0
  BY DEF Notified, Stamps
<1>2. Bell!Stamped(r) = [about |-> r.about, read |-> TRUE, stamps |-> 1]
  BY <1>1 DEF Bell!Stamped
<1> QED
  BY <1>1, <1>2 DEF Notified, Stamps

(* Marking in one tab while another marks keeps what is stamped.           *)
LEMMA BellStep ==
    ASSUME BellSafe, [Bell!Next]_(Bell!vars)
    PROVE  BellSafe'
<1> USE DEF BellSafe, Bell!Done, Bell!Hold
<1>1. ASSUME NEW t \in Request, Bell!GiveUp(t)
      PROVE  BellSafe'
  BY <1>1 DEF Bell!GiveUp, Tabbed, Bell!Idle
<1>2. ASSUME NEW t \in Request, NEW e \in Announced, Bell!Missing(t, e)
      PROVE  BellSafe'
  BY <1>2 DEF Bell!Missing, Tabbed
<1>3. ASSUME NEW t \in Request, Bell!CreateMissing(t)
      PROVE  BellSafe'
  <2>1. tab[t].for \in Announced /\ tab' \in [Request -> Tabbed]
    BY <1>3 DEF Bell!CreateMissing, Tabbed, Bell!Idle
  <2>2. [about |-> tab[t].for, read |-> tab[t].for = Bell!System, stamps |-> 0] \in Notified
    BY <2>1 DEF Notified, Stamps
  <2> QED
    BY <1>3, <2>1, <2>2 DEF Bell!CreateMissing, Bell!Add
<1>4. ASSUME Bell!Broadcast
      PROVE  BellSafe'
  <2>1. [about |-> Bell!Post, read |-> Bell!Post = Bell!System, stamps |-> 0] \in Notified
    BY DEF Notified, Stamps, Bell!Post, Bell!System
  <2> QED
    BY <1>4, <2>1 DEF Bell!Broadcast, Bell!Add
<1>5. ASSUME NEW t \in Request, NEW n \in 1..MaxRows, Bell!FindUnread(t, n)
      PROVE  BellSafe'
  BY <1>5 DEF Bell!FindUnread, Tabbed
<1>6. ASSUME NEW t \in Request, Bell!MarkRead(t)
      PROVE  BellSafe'
  <2> DEFINE n == tab[t].row
  <2>1. tab' \in [Request -> Tabbed]
    BY <1>6 DEF Bell!MarkRead, Tabbed, Bell!Idle
  <2>2. CASE rows' = rows
    BY <2>1, <2>2
  <2>3. CASE Bell!Unread(n) /\ n \in DOMAIN rows
    <3>1. rows' = [rows EXCEPT ![n] = Bell!Stamped(rows[n])]
      BY <1>6, <2>3 DEF Bell!MarkRead
    <3>2. Bell!Stamped(rows[n]) \in Notified
      BY <2>3, StampedOnce DEF Bell!Unread
    <3> HIDE DEF n
    <3> QED
      BY <2>1, <2>3, <3>1, <3>2
  <2>4. CASE n \notin DOMAIN rows
    <3>1. rows' = [rows EXCEPT ![n] = Bell!Stamped(rows[n])] \/ rows' = rows
      BY <1>6 DEF Bell!MarkRead
    <3>2. rows' = rows
      BY <2>4, <3>1
    <3> QED
      BY <2>1, <3>2
  <2> QED
    BY <1>6, <2>2, <2>3, <2>4 DEF Bell!MarkRead
<1>7. ASSUME Bell!MarkAllRead
      PROVE  BellSafe'
  <2>1. \A n \in 1..Len(rows) :
            (IF rows[n].read THEN rows[n] ELSE Bell!Stamped(rows[n])) \in Notified
    BY StampedOnce
  <2> QED
    BY <1>7, <2>1 DEF Bell!MarkAllRead
<1>8. CASE UNCHANGED Bell!vars
  BY <1>8 DEF Bell!vars
<1> QED
  BY <1>1, <1>2, <1>3, <1>4, <1>5, <1>6, <1>7, <1>8 DEF Bell!Next, Bell!Step, Announced

(* So a notification tells when it was first read.                         *)
LEMMA ReadOnceFollows == BellSafe => Bell!ReadOnce
<1> SUFFICES ASSUME BellSafe, NEW n \in 1..Len(rows)
             PROVE  rows[n].stamps = IF rows[n].read /\ rows[n].about # Bell!System THEN 1 ELSE 0
  BY DEF Bell!ReadOnce
<1>1. rows[n] \in Notified
  BY DEF BellSafe
<1> QED
  BY <1>1 DEF Notified, Stamps
-----------------------------------------------------------------------------
(* Settings: what a request has read, and where its transaction is.        *)
Settable == Value \cup {Default}
Record == [before : Settable, after : Settable, committed : BOOLEAN]
Changing == [st : {"idle"}] \cup [st : {"read"}, value : Settable, before : Settable]
            \cup [st : {"wrote"}, value : Settable, at : Nat]

(* One transaction at a time has written, the newest record, which is not  *)
(* committed; so the newest committed record is of the newest change.      *)
ConsoleTypes == log \in Seq(Record) /\ change \in [Request -> Changing]
OneWriter == \A a, b \in Request : change[a].st = "wrote" /\ change[b].st = "wrote" => a = b
WritesNewest ==
    \A a \in Request : change[a].st = "wrote" =>
        /\ change[a].at = Len(log) /\ change[a].at \in DOMAIN log
        /\ log[change[a].at].after = change[a].value
ConsoleSafe == ConsoleTypes /\ OneWriter /\ WritesNewest /\ Console!HistoryTellsSetting

(* A change or a restore that has only read writes nothing.                *)
LEMMA ReadChangeSafe ==
    ASSUME ConsoleSafe, NEW a \in Request, NEW v \in Settable, NEW before \in Settable,
           Console!ReadChange(a, v, before)
    PROVE  ConsoleSafe'
<1>1. change' = [change EXCEPT ![a] = [st |-> "read", value |-> v, before |-> before]]
  BY DEF Console!ReadChange
<1>2. UNCHANGED <<setting, log>>
  BY DEF Console!ReadChange
<1>3. ConsoleTypes' /\ OneWriter' /\ WritesNewest'
  BY <1>1, <1>2 DEF ConsoleSafe, ConsoleTypes, OneWriter, WritesNewest, Changing
<1> QED
  BY <1>2, <1>3 DEF ConsoleSafe, Console!HistoryTellsSetting, Console!Committed

(* The record of a change is appended uncommitted, by the only writer.     *)
LEMMA UpsertSafe ==
    ASSUME ConsoleSafe, NEW a \in Request, Console!Upsert(a)
    PROVE  ConsoleSafe'
<1> DEFINE r == [before |-> change[a].before, after |-> change[a].value, committed |-> FALSE]
           c == [st |-> "wrote", value |-> change[a].value, at |-> Len(log) + 1]
<1>1. /\ log' = Append(log, r) /\ change' = [change EXCEPT ![a] = c]
      /\ setting' = setting /\ \A b \in Request : change[b].st # "wrote"
  BY DEF Console!Upsert, Console!RowFree
<1>2. change[a].before \in Settable /\ change[a].value \in Settable
  BY DEF Console!Upsert, ConsoleSafe, ConsoleTypes, Changing
<1>3. r \in Record /\ c \in Changing /\ r.committed = FALSE /\ r.after = change[a].value
  BY <1>2 DEF Record, Changing, ConsoleSafe, ConsoleTypes
<1>4. ConsoleTypes'
  BY <1>1, <1>3 DEF ConsoleSafe, ConsoleTypes
<1>5. DOMAIN log' = 1..Len(log) + 1 /\ log'[Len(log) + 1] = r
      /\ \A n \in DOMAIN log : n \in DOMAIN log' /\ log'[n] = log[n]
  BY <1>1 DEF ConsoleSafe, ConsoleTypes
<1>6. \A b \in Request : change'[b].st = "wrote" => b = a
  BY <1>1 DEF ConsoleSafe, ConsoleTypes
<1>7. change'[a] = c /\ Len(log') = Len(log) + 1
  BY <1>1 DEF ConsoleSafe, ConsoleTypes
<1>8. Console!Committed' = Console!Committed
  BY <1>3, <1>5 DEF Console!Committed, ConsoleSafe, ConsoleTypes
<1>9. Console!HistoryTellsSetting'
  BY <1>1, <1>5, <1>8 DEF Console!HistoryTellsSetting, Console!Committed, ConsoleSafe
<1>10. OneWriter' /\ WritesNewest'
  <2>1. c.at = Len(log) + 1 /\ c.value = change[a].value
    OBVIOUS
  <2>2. Len(log) + 1 \in DOMAIN log'
    BY <1>5 DEF ConsoleSafe, ConsoleTypes
  <2> QED
    BY <1>3, <1>5, <1>6, <1>7, <2>1, <2>2 DEF OneWriter, WritesNewest
<1> QED
  BY <1>4, <1>9, <1>10 DEF ConsoleSafe

(* A commit makes the newest record tell the value that it writes.         *)
LEMMA CommitSafe ==
    ASSUME ConsoleSafe, NEW a \in Request, Console!Commit(a)
    PROVE  ConsoleSafe'
<1>1. PICK m : m = change[a].at
  OBVIOUS
<1>2. /\ m \in DOMAIN log /\ log[m].after = change[a].value /\ m = Len(log)
      /\ change[a].value \in Settable
  BY <1>1 DEF Console!Commit, ConsoleSafe, ConsoleTypes, WritesNewest, Changing
<1>3. PICK r : r = [log[m] EXCEPT !.committed = TRUE]
  OBVIOUS
<1>4. log[m] \in Record /\ \A n \in DOMAIN log : n <= m
  BY <1>2 DEF ConsoleSafe, ConsoleTypes
<1>5. r \in Record /\ r.committed /\ r.after = log[m].after
  BY <1>3, <1>4 DEF Record
<1>6. /\ setting' = change[a].value /\ log' = [log EXCEPT ![m] = r]
      /\ change' = [change EXCEPT ![a] = Console!Idle]
  BY <1>1, <1>3 DEF Console!Commit
<1>7. DOMAIN log' = DOMAIN log /\ log'[m] = r
  BY <1>2, <1>6 DEF ConsoleSafe, ConsoleTypes
<1>8. ConsoleTypes'
  <2>1. log' \in Seq(Record)
    BY <1>2, <1>5, <1>6 DEF ConsoleSafe, ConsoleTypes
  <2>2. change' \in [Request -> Changing]
    BY <1>6 DEF ConsoleSafe, ConsoleTypes, Console!Idle, Changing
  <2> QED
    BY <2>1, <2>2 DEF ConsoleTypes
<1>9. \A b \in Request : change'[b].st # "wrote"
  BY <1>6 DEF ConsoleSafe, ConsoleTypes, OneWriter, Console!Idle, Console!Commit
<1>10. m \in Console!Committed' /\ setting' = log'[m].after /\ \A k \in Console!Committed' : k <= m
  BY <1>2, <1>4, <1>5, <1>6, <1>7 DEF Console!Committed
<1> QED
  BY <1>8, <1>9, <1>10 DEF ConsoleSafe, OneWriter, WritesNewest, Console!HistoryTellsSetting

(* What is rolled back leaves the history and the value as they were.      *)
LEMMA RollBackSafe ==
    ASSUME ConsoleSafe, NEW a \in Request, Console!RollBack(a)
    PROVE  ConsoleSafe'
<1>1. change' = [change EXCEPT ![a] = Console!Idle] /\ UNCHANGED <<setting, log>>
  BY DEF Console!RollBack
<1>2. ConsoleTypes' /\ OneWriter' /\ WritesNewest'
  BY <1>1 DEF ConsoleSafe, ConsoleTypes, OneWriter, WritesNewest, Changing, Console!Idle
<1> QED
  BY <1>1, <1>2 DEF ConsoleSafe, Console!HistoryTellsSetting, Console!Committed

(* Overlapping changes and restores keep the history true.                 *)
LEMMA ConsoleStep ==
    ASSUME ConsoleSafe, [Console!Next]_(Console!vars)
    PROVE  ConsoleSafe'
<1>1. ASSUME NEW a \in Request, NEW v \in Value, NEW before \in Value \cup {Default},
             Console!UpdateSetting(a, v, before)
      PROVE  ConsoleSafe'
  BY <1>1, ReadChangeSafe DEF Console!UpdateSetting, Settable
<1>2. ASSUME NEW a \in Request, NEW n \in DOMAIN log, NEW before \in Value \cup {Default},
             Console!RestoreSetting(a, n, before)
      PROVE  ConsoleSafe'
  <2>1. log[n] \in Record
    BY DEF ConsoleSafe, ConsoleTypes
  <2>2. log[n].before \in Settable
    BY <2>1 DEF Record
  <2> QED
    BY <1>2, <2>2, ReadChangeSafe DEF Console!RestoreSetting, Settable
<1>3. CASE UNCHANGED Console!vars
  BY <1>3 DEF Console!vars, ConsoleSafe, ConsoleTypes, OneWriter, WritesNewest,
              Console!HistoryTellsSetting, Console!Committed
<1> QED
  BY <1>1, <1>2, <1>3, UpsertSafe, CommitSafe, RollBackSafe DEF Console!Next, Console!Step
-----------------------------------------------------------------------------
(* Leads: what a call has read.                                            *)
Contacting == [op : {"idle", "create"}] \cup [op : {"merge"}, into : 1..MaxLeads, submissions : Nat]
              \cup [op : {"update", "contact"}, at : 1..MaxLeads, was : Contact!LeadStatus]

(* Leads are created in the order of their numbers, calls hold created     *)
(* ones, and every submission is counted.                                  *)
LeadTypes ==
    /\ lead \in [1..MaxLeads -> [status : Contact!LeadStatus \cup {"none"}, submissions : Nat]]
    /\ visit \in [Request -> Contacting]
    /\ submitted \in Nat
LeadsInOrder ==
    /\ \E k \in 0..MaxLeads : Contact!Created = 1..k
    /\ \A n \in 1..MaxLeads : lead[n] # Contact!NoLead => lead[n].status # "none"
CallsHoldLeads ==
    \A f \in Request : /\ visit[f].op = "merge" => visit[f].into \in Contact!Created
                       /\ visit[f].op \in {"update", "contact"} => visit[f].at \in Contact!Created
LeadSafe == LeadTypes /\ LeadsInOrder /\ CallsHoldLeads /\ Contact!SubmissionsCounted

(* A set of some of the leads has a newest one.                            *)
LEMMA NewestExists ==
    ASSUME NEW S \in SUBSET (1..MaxLeads), S # {}
    PROVE  Contact!Newest(S) \in S
<1> DEFINE Below == {ss \in Nat \X Nat : ss[1] < ss[2]}
           Older == {k \in Nat : MaxLeads - k \in S}
<1>1. IsWellFoundedOn(Below, Nat)
  BY NatLessThanWellFounded DEF OpToRel
<1>2. Older \subseteq Nat /\ Older # {}
  <2>1. PICK n \in S : TRUE
    OBVIOUS
  <2>2. MaxLeads - n \in Nat /\ MaxLeads - (MaxLeads - n) = n
    BY <2>1, PlatformAssumption
  <2> QED
    BY <2>1, <2>2
<1>3. PICK least \in Older : \A k \in Older : ~ (<<k, least>> \in Below)
  <2> HIDE DEF Below, Older
  <2> QED
    BY <1>1, <1>2, WFMin
<1>4. MaxLeads - least \in S
  OBVIOUS
<1>5. \A n \in S : n <= MaxLeads - least
  <2> TAKE n \in S
  <2>1. MaxLeads - n \in Older
    BY PlatformAssumption
  <2>2. ~ (MaxLeads - n < least)
    BY <1>3, <2>1
  <2> QED
    BY <1>3, <2>2, PlatformAssumption
<1> QED
  BY <1>4, <1>5 DEF Contact!Newest

(* One submission more of one lead is one more in all: the running totals  *)
(* from that lead on are one higher.                                       *)
LEMMA OneMore ==
    ASSUME LeadTypes, Contact!SubmissionsCounted, NEW at \in 1..MaxLeads, NEW l,
           l.submissions = lead[at].submissions + 1,
           lead' = [lead EXCEPT ![at] = l], submitted' = submitted + 1
    PROVE  Contact!SubmissionsCounted'
<1>1. PICK total \in [0..MaxLeads -> 0..submitted] :
          /\ total[0] = 0 /\ total[MaxLeads] = submitted
          /\ \A n \in 1..MaxLeads : total[n] = total[n - 1] + lead[n].submissions
  BY DEF Contact!SubmissionsCounted
<1> DEFINE new == [n \in 0..MaxLeads |-> IF n < at THEN total[n] ELSE total[n] + 1]
<1>2. new \in [0..MaxLeads -> 0..submitted']
  BY <1>1 DEF LeadTypes
<1>3. new[0] = 0 /\ new[MaxLeads] = submitted'
  BY <1>1, PlatformAssumption DEF LeadTypes
<1>4. ASSUME NEW n \in 1..MaxLeads
      PROVE  new[n] = new[n - 1] + lead'[n].submissions
  <2>1. n \in 0..MaxLeads /\ n - 1 \in 0..MaxLeads
    BY PlatformAssumption
  <2>2. lead[n] \in [status : Contact!LeadStatus \cup {"none"}, submissions : Nat]
    BY DEF LeadTypes
  <2>3. lead[n].submissions \in Nat
    BY <2>2
  <2>4. total[n] \in Nat /\ total[n - 1] \in Nat
    BY <1>1, <2>1
  <2>5. total[n] = total[n - 1] + lead[n].submissions
    BY <1>1
  <2>6. CASE n = at
    <3>1. lead'[n].submissions = lead[n].submissions + 1
      BY <2>6 DEF LeadTypes
    <3> QED
      BY <2>1, <2>3, <2>4, <2>5, <2>6, <3>1
  <2>7. CASE n # at
    <3>1. lead'[n] = lead[n]
      BY <2>7 DEF LeadTypes
    <3> QED
      BY <2>1, <2>3, <2>4, <2>5, <2>7, <3>1
  <2> QED
    BY <2>6, <2>7
<1> QED
  <2> HIDE DEF new
  <2> QED
    BY <1>2, <1>3, <1>4 DEF Contact!SubmissionsCounted

(* Without a submission the counts stay as they are.                       *)
LEMMA NoneMore ==
    ASSUME LeadTypes, Contact!SubmissionsCounted, submitted' = submitted,
           \A n \in 1..MaxLeads : lead'[n].submissions = lead[n].submissions
    PROVE  Contact!SubmissionsCounted'
BY DEF Contact!SubmissionsCounted

(* A call that only reads keeps the leads, and holds a created one.        *)
LEMMA HoldSafe ==
    ASSUME LeadSafe, NEW f \in Request, NEW v \in Contacting,
           v.op = "merge" => v.into \in Contact!Created,
           v.op \in {"update", "contact"} => v.at \in Contact!Created,
           visit' = [visit EXCEPT ![f] = v], UNCHANGED <<lead, submitted>>
    PROVE  LeadSafe'
<1>1. LeadTypes' /\ Contact!Created' = Contact!Created
  BY DEF LeadSafe, LeadTypes, Contact!Created
<1>2. LeadsInOrder'
  BY <1>1 DEF LeadSafe, LeadsInOrder
<1>3. Contact!SubmissionsCounted'
  BY NoneMore DEF LeadSafe
<1>4. CallsHoldLeads'
  BY <1>1 DEF LeadSafe, LeadTypes, CallsHoldLeads
<1> QED
  BY <1>1, <1>2, <1>3, <1>4 DEF LeadSafe

(* A created lead that is written stays created, and a call that writes is *)
(* done.                                                                   *)
LEMMA WriteSafe ==
    ASSUME LeadSafe, NEW f \in Request, NEW at \in Contact!Created,
           NEW l \in [status : Contact!LeadStatus, submissions : Nat],
           lead' = [lead EXCEPT ![at] = l], Contact!Done(f), submitted' \in Nat
    PROVE  LeadTypes' /\ LeadsInOrder' /\ CallsHoldLeads'
<1>1. at \in 1..MaxLeads /\ l \in [status : Contact!LeadStatus \cup {"none"}, submissions : Nat]
  BY DEF Contact!Created
<1>2. l.status # "none" /\ l # Contact!NoLead
  BY DEF Contact!LeadStatus, Contact!NoLead
<1>3. lead' \in [1..MaxLeads -> [status : Contact!LeadStatus \cup {"none"}, submissions : Nat]]
  BY <1>1 DEF LeadSafe, LeadTypes
<1>4. \A n \in 1..MaxLeads : lead'[n] = IF n = at THEN l ELSE lead[n]
  BY <1>1 DEF LeadSafe, LeadTypes
<1>5. Contact!Created' = Contact!Created
  BY <1>2, <1>4 DEF Contact!Created
<1>6. LeadsInOrder'
  BY <1>2, <1>4, <1>5 DEF LeadSafe, LeadsInOrder
<1>7. visit' = [visit EXCEPT ![f] = Contact!Idle] /\ Contact!Idle \in Contacting
  BY DEF Contact!Done, Contact!Idle, Contacting
<1>8. visit' \in [Request -> Contacting]
  BY <1>7 DEF LeadSafe, LeadTypes
<1>9. CallsHoldLeads'
  BY <1>5, <1>7 DEF LeadSafe, LeadTypes, CallsHoldLeads, Contact!Idle
<1> QED
  BY <1>3, <1>6, <1>8, <1>9 DEF LeadTypes

(* A merge or a new lead counts one submission more.                       *)
LEMMA MergeSafe ==
    ASSUME LeadSafe, NEW f \in Request, Contact!Merge(f)
    PROVE  LeadSafe'
<1>1. PICK at : at = visit[f].into
  OBVIOUS
<1>2. PICK l : l = [lead[at] EXCEPT !.submissions = lead[at].submissions + 1]
  OBVIOUS
<1>3. lead' = [lead EXCEPT ![at] = l]
  BY <1>1, <1>2 DEF Contact!Merge, Contact!Incremented
<1>4. at \in Contact!Created /\ at \in 1..MaxLeads
  BY <1>1 DEF Contact!Merge, LeadSafe, CallsHoldLeads, Contact!Created
<1>5. lead[at] \in [status : Contact!LeadStatus \cup {"none"}, submissions : Nat]
  BY <1>4 DEF LeadSafe, LeadTypes
<1>6. lead[at].status # "none"
  BY <1>4 DEF LeadSafe, LeadsInOrder, Contact!Created
<1>7. l \in [status : Contact!LeadStatus, submissions : Nat]
      /\ l.submissions = lead[at].submissions + 1
  BY <1>2, <1>5, <1>6
<1>8. submitted' = submitted + 1 /\ submitted' \in Nat /\ Contact!Done(f)
  BY DEF Contact!Merge, LeadSafe, LeadTypes
<1>9. Contact!SubmissionsCounted'
  BY <1>3, <1>4, <1>7, <1>8, OneMore DEF LeadSafe
<1> QED
  BY <1>3, <1>4, <1>7, <1>8, <1>9, WriteSafe DEF LeadSafe

(* A lead that is new is the next in order, with one submission.           *)
LEMMA CreateSafe ==
    ASSUME LeadSafe, NEW f \in Request, Contact!Create(f)
    PROVE  LeadSafe'
<1> DEFINE l == [status |-> "NEW", submissions |-> 1]
<1>1. PICK k \in 0..MaxLeads : Contact!Created = 1..k
  BY DEF LeadSafe, LeadsInOrder
<1>2. Contact!Cardinality(1..k) = k
  <2>1. Contact!Cardinality(1..k) = Cardinality(1..k)
    BY DEF Contact!Cardinality, Cardinality
  <2> QED
    BY <2>1, FS_Interval, PlatformAssumption
<1>3. k < MaxLeads /\ lead' = [lead EXCEPT ![k + 1] = l] /\ submitted' = submitted + 1
  BY <1>1, <1>2 DEF Contact!Create
<1>4. k + 1 \in 1..MaxLeads /\ k + 1 \notin Contact!Created
  BY <1>1, <1>3, PlatformAssumption
<1>5. lead[k + 1] = Contact!NoLead
  BY <1>4 DEF Contact!Created
<1>6. lead[k + 1].submissions = 0
  BY <1>5 DEF Contact!NoLead
<1>7. l.submissions = lead[k + 1].submissions + 1
  BY <1>6
<1>8. Contact!SubmissionsCounted'
  <2> HIDE DEF l
  <2> QED
    BY <1>3, <1>4, <1>7, OneMore DEF LeadSafe
<1>9. l \in [status : Contact!LeadStatus \cup {"none"}, submissions : Nat]
      /\ l.status # "none" /\ l # Contact!NoLead
  BY DEF Contact!LeadStatus, Contact!NoLead
<1>10. visit' = [visit EXCEPT ![f] = Contact!Idle] /\ Contact!Idle \in Contacting
  BY DEF Contact!Create, Contact!Done, Contact!Idle, Contacting
<1> HIDE DEF l
<1>11. LeadTypes'
  <2>1. lead' \in [1..MaxLeads -> [status : Contact!LeadStatus \cup {"none"}, submissions : Nat]]
    BY <1>3, <1>9 DEF LeadSafe, LeadTypes
  <2>2. visit' \in [Request -> Contacting]
    BY <1>10 DEF LeadSafe, LeadTypes
  <2>3. submitted' \in Nat
    BY <1>3 DEF LeadSafe, LeadTypes
  <2> QED
    BY <2>1, <2>2, <2>3 DEF LeadTypes
<1>12. \A n \in 1..MaxLeads : lead'[n] = IF n = k + 1 THEN l ELSE lead[n]
  BY <1>3, <1>4 DEF LeadSafe, LeadTypes
<1>13. Contact!Created' = 1..(k + 1) /\ k + 1 \in 0..MaxLeads
  <2>1. Contact!Created' = Contact!Created \cup {k + 1}
    BY <1>4, <1>9, <1>12 DEF Contact!Created
  <2> QED
    BY <1>1, <1>4, <2>1, PlatformAssumption
<1>14. LeadsInOrder'
  BY <1>9, <1>12, <1>13 DEF LeadSafe, LeadsInOrder
<1>15. CallsHoldLeads'
  <2>1. Contact!Created \subseteq Contact!Created'
    BY <1>1, <1>13
  <2> QED
    BY <1>10, <2>1 DEF LeadSafe, LeadTypes, CallsHoldLeads, Contact!Idle
<1> QED
  BY <1>8, <1>11, <1>14, <1>15 DEF LeadSafe

(* A status that is set counts nothing.                                    *)
LEMMA StatusSafe ==
    ASSUME LeadSafe, NEW f \in Request, visit[f].op \in {"update", "contact"},
           NEW to \in Contact!LeadStatus, lead' = [lead EXCEPT ![visit[f].at].status = to],
           Contact!Done(f), submitted' = submitted
    PROVE  LeadSafe'
<1>1. PICK at : at = visit[f].at
  OBVIOUS
<1>2. PICK l : l = [lead[at] EXCEPT !.status = to]
  OBVIOUS
<1>3. lead' = [lead EXCEPT ![at] = l]
  BY <1>1, <1>2
<1>4. at \in Contact!Created /\ at \in 1..MaxLeads
  BY <1>1 DEF LeadSafe, CallsHoldLeads, Contact!Created
<1>5. lead[at] \in [status : Contact!LeadStatus \cup {"none"}, submissions : Nat]
  BY <1>4 DEF LeadSafe, LeadTypes
<1>6. l \in [status : Contact!LeadStatus, submissions : Nat] /\ l.submissions = lead[at].submissions
  BY <1>2, <1>5
<1>7. \A n \in 1..MaxLeads : lead'[n].submissions = lead[n].submissions
  BY <1>3, <1>4, <1>6 DEF LeadSafe, LeadTypes
<1>8. Contact!SubmissionsCounted'
  BY <1>7, NoneMore DEF LeadSafe
<1>9. submitted' \in Nat
  BY DEF LeadSafe, LeadTypes
<1> QED
  BY <1>3, <1>4, <1>6, <1>8, <1>9, WriteSafe DEF LeadSafe

(* Overlapping submissions and administrators' calls lose no submission.   *)
LEMMA LeadStep ==
    ASSUME LeadSafe, [Contact!Next]_(Contact!vars)
    PROVE  LeadSafe'
<1>1. ASSUME NEW f \in Request, Contact!Done(f), UNCHANGED <<lead, submitted>>
      PROVE  LeadSafe'
  <2>1. Contact!Idle \in Contacting /\ Contact!Idle.op = "idle"
    BY DEF Contacting, Contact!Idle
  <2> QED
    BY <1>1, <2>1, HoldSafe DEF Contact!Done
<1>2. ASSUME NEW f \in Request, Contact!FindOpen(f)
      PROVE  LeadSafe'
  <2>1. CASE Contact!OpenLeads # {}
    <3> DEFINE n == Contact!Newest(Contact!OpenLeads)
               v == [op |-> "merge", into |-> n, submissions |-> lead[n].submissions]
    <3>1. n \in Contact!Created /\ n \in 1..MaxLeads
      BY <2>1, NewestExists DEF Contact!OpenLeads, Contact!Created
    <3>2. lead[n].submissions \in Nat
      BY <3>1 DEF LeadSafe, LeadTypes
    <3>3. v \in Contacting /\ v.op = "merge" /\ v.into = n
      BY <3>1, <3>2 DEF Contacting
    <3>4. visit' = [visit EXCEPT ![f] = v] /\ UNCHANGED <<lead, submitted>>
      BY <1>2, <2>1 DEF Contact!FindOpen, Contact!Hold
    <3> HIDE DEF v
    <3> QED
      BY <3>1, <3>3, <3>4, HoldSafe
  <2>2. CASE Contact!OpenLeads = {}
    <3>1. [op |-> "create"] \in Contacting
      BY DEF Contacting
    <3> QED
      BY <1>2, <2>2, <3>1, HoldSafe DEF Contact!FindOpen, Contact!Hold
  <2> QED
    BY <2>1, <2>2
<1>3. ASSUME NEW f \in Request, NEW n \in 1..MaxLeads, NEW op \in {"update", "contact"},
             Contact!ReadLead(f, n, op)
      PROVE  LeadSafe'
  <2> DEFINE v == [op |-> op, at |-> n, was |-> lead[n].status]
  <2>1. n \in Contact!Created
    BY <1>3 DEF Contact!ReadLead
  <2>2. lead[n].status \in Contact!LeadStatus
    BY <2>1 DEF LeadSafe, LeadTypes, LeadsInOrder, Contact!Created
  <2>3. v \in Contacting /\ v.op = op /\ v.at = n
    BY <2>2 DEF Contacting
  <2>4. visit' = [visit EXCEPT ![f] = v] /\ UNCHANGED <<lead, submitted>>
    BY <1>3 DEF Contact!ReadLead, Contact!Hold
  <2> HIDE DEF v
  <2> QED
    BY <2>1, <2>3, <2>4, HoldSafe
<1>4. ASSUME NEW f \in Request, NEW to \in Contact!LeadStatus, Contact!Update(f, to)
      PROVE  LeadSafe'
  BY <1>4, StatusSafe DEF Contact!Update
<1>5. ASSUME NEW f \in Request, Contact!AddNote(f)
      PROVE  LeadSafe'
  <2>1. CASE visit[f].was = "NEW"
    <3>1. "CONTACTED" \in Contact!LeadStatus
      BY DEF Contact!LeadStatus
    <3> QED
      BY <1>5, <2>1, <3>1, StatusSafe DEF Contact!AddNote
  <2>2. CASE visit[f].was # "NEW"
    BY <1>5, <2>2, <1>1 DEF Contact!AddNote
  <2> QED
    BY <2>1, <2>2
<1>6. CASE UNCHANGED Contact!vars
  <2>1. Contact!SubmissionsCounted'
    BY <1>6, NoneMore DEF Contact!vars, LeadSafe
  <2> QED
    BY <1>6, <2>1 DEF Contact!vars, LeadSafe, LeadTypes, LeadsInOrder, CallsHoldLeads, Contact!Created
<1>7. ASSUME NEW f \in Request, Contact!GiveUp(f)
      PROVE  LeadSafe'
  BY <1>1, <1>7 DEF Contact!GiveUp
<1> QED
  BY <1>2, <1>3, <1>4, <1>5, <1>6, <1>7, MergeSafe, CreateSafe DEF Contact!Next, Contact!Step
-----------------------------------------------------------------------------
(* The desks start empty.                                                  *)
LEMMA DesksInit ==
    /\ Desk!Init => TicketSafe
    /\ Bell!Init => BellSafe
    /\ Console!Init => ConsoleSafe
    /\ Contact!Init => LeadSafe
<1>1. Desk!Init => TicketSafe
  <2>1. Desk!Idle \in Clerked
    BY DEF Desk!Idle, Clerked
  <2> QED
    BY <2>1 DEF Desk!Init, TicketSafe, Desk!Status, Desk!RepliesReopen
<1>2. Bell!Init => BellSafe
  BY DEF Bell!Init, BellSafe, Tabbed, Bell!Idle
<1>3. Console!Init => ConsoleSafe
  BY DEF Console!Init, ConsoleSafe, ConsoleTypes, OneWriter, WritesNewest, Changing, Console!Idle,
         Console!HistoryTellsSetting, Console!Committed
<1>4. ASSUME Contact!Init
      PROVE  LeadSafe
  <2>1. lead = [n \in 1..MaxLeads |-> Contact!NoLead] /\ submitted = 0
        /\ visit = [f \in Request |-> Contact!Idle]
    BY <1>4 DEF Contact!Init
  <2>2. LeadTypes
    BY <2>1 DEF LeadTypes, Contact!NoLead, Contact!Idle, Contacting
  <2>3. Contact!Created = 1..0
    BY <2>1 DEF Contact!Created
  <2>4. LeadsInOrder
    BY <2>1, <2>3, PlatformAssumption DEF LeadsInOrder
  <2>5. CallsHoldLeads
    BY <2>1 DEF CallsHoldLeads, Contact!Idle
  <2>6. Contact!SubmissionsCounted
    <3> DEFINE none == [n \in 0..MaxLeads |-> 0]
    <3>1. none \in [0..MaxLeads -> 0..submitted] /\ none[0] = 0 /\ none[MaxLeads] = submitted
      BY <2>1, PlatformAssumption
    <3>2. ASSUME NEW n \in 1..MaxLeads
          PROVE  none[n] = none[n - 1] + lead[n].submissions
      <4>1. lead[n].submissions = 0 /\ n \in 0..MaxLeads /\ n - 1 \in 0..MaxLeads
        BY <2>1, PlatformAssumption DEF Contact!NoLead
      <4> QED
        BY <4>1
    <3> HIDE DEF none
    <3> QED
      BY <3>1, <3>2 DEF Contact!SubmissionsCounted
  <2> QED
    BY <2>2, <2>4, <2>5, <2>6 DEF LeadSafe
<1> QED
  BY <1>1, <1>2, <1>3, <1>4

(* However the users of the desks cross, a ticket looks finished only      *)
(* after its last question, every submission of a lead is counted, a       *)
(* notification keeps when it was first read, and the newest record of the *)
(* history tells the setting's value.                                      *)
THEOREM DesksKeepRecords ==
    Desk!Spec /\ Contact!Spec /\ Bell!Spec /\ Console!Spec => []DeskKeepsRecords
<1>1. Desk!Spec => []TicketSafe
  BY DesksInit, TicketStep, PTL DEF Desk!Spec
<1>2. Contact!Spec => []LeadSafe
  BY DesksInit, LeadStep, PTL DEF Contact!Spec
<1>3. Bell!Spec => []BellSafe
  BY DesksInit, BellStep, PTL DEF Bell!Spec
<1>4. Console!Spec => []ConsoleSafe
  BY DesksInit, ConsoleStep, PTL DEF Console!Spec
<1>5. TicketSafe /\ LeadSafe /\ BellSafe /\ ConsoleSafe => DeskKeepsRecords
  BY ReadOnceFollows DEF TicketSafe, LeadSafe, ConsoleSafe, DeskKeepsRecords
<1> QED
  BY <1>1, <1>2, <1>3, <1>4, <1>5, PTL
-----------------------------------------------------------------------------
(* A behaviour of the run is one of every component: the components share  *)
(* nothing and those that are not its part rest.                           *)
THEOREM PartsAreComponents ==
    MCSpec => /\ Spec /\ Owners!Spec /\ SignUp!Spec /\ Desk!Spec /\ Contact!Spec
              /\ Bell!Spec /\ Console!Spec /\ Wallet!Spec /\ Pairing!Spec
<1> USE DEF vars, store, registration, desk, contact, bell, console, wallet, pairing, Owners!vars,
            SignUp!vars, Desk!vars, Contact!vars, Bell!vars, Console!vars, Wallet!vars, Pairing!vars
<1>1. MCInit => /\ Init /\ Owners!Init /\ SignUp!Init /\ Desk!Init /\ Contact!Init
                /\ Bell!Init /\ Console!Init /\ Wallet!Init /\ Pairing!Init
  BY DEF MCInit
<1>2. [MCNext]_MCVars => [Next]_vars
  BY DEF MCNext, MCVars, Only, Others
<1>3. [MCNext]_MCVars => [Owners!Next]_(Owners!vars)
  BY DEF MCNext, MCVars, Only, Others
<1>4. [MCNext]_MCVars => [SignUp!Next]_(SignUp!vars)
  BY DEF MCNext, MCVars, Only, Others
<1>5. [MCNext]_MCVars => [Desk!Next]_(Desk!vars)
  BY DEF MCNext, MCVars, Only, Others
<1>6. [MCNext]_MCVars => [Contact!Next]_(Contact!vars)
  BY DEF MCNext, MCVars, Only, Others
<1>7. [MCNext]_MCVars => [Bell!Next]_(Bell!vars)
  BY DEF MCNext, MCVars, Only, Others
<1>8. [MCNext]_MCVars => [Console!Next]_(Console!vars)
  BY DEF MCNext, MCVars, Only, Others
<1>9. [MCNext]_MCVars => [Wallet!Next]_(Wallet!vars)
  BY DEF MCNext, MCVars, Only, Others
<1>10. [MCNext]_MCVars => [Pairing!Next]_(Pairing!vars)
  BY DEF MCNext, MCVars, Only, Others
<1> QED
  BY <1>1, <1>2, <1>3, <1>4, <1>5, <1>6, <1>7, <1>8, <1>9, <1>10, PTL
     DEF MCSpec, Spec, Owners!Spec, SignUp!Spec, Desk!Spec, Contact!Spec, Bell!Spec, Console!Spec,
         Wallet!Spec, Pairing!Spec

(* So everything that the run checks holds of it, for any number of        *)
(* requests, accounts, addresses, keys, stores and codes.                  *)
THEOREM PlatformHolds ==
    MCSpec => /\ [](TokensWorkOnce /\ CodesWorkOnce /\ DeskKeepsRecords /\ SetupHolds)
              /\ HandoverLeavesOneOwner
  BY PartsAreComponents, AccountTokensWorkOnce, RegistrationCodesWorkOnce, DesksKeepRecords,
     StoreSetupHolds, HandoverIsWhole, PTL
=============================================================================
