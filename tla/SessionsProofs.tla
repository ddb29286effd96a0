---------------------------- MODULE SessionsProofs ----------------------------
(***************************************************************************)
(* What holds of the sessions and reset tokens of an account for every set *)
(* of concurrent requests, however many sessions and tokens there are.     *)
(***************************************************************************)
EXTENDS Sessions, FiniteSetTheorems, TLAPS

(* Sessions are opened in the order of their numbers, and a rotation or an *)
(* expiry is of one that was.                                              *)
OpenedInOrder ==
    /\ \E n \in 0..MaxSessions : \A s \in Session : Opened(s) <=> s <= n
    /\ \A c \in Caller : call[c].op \in {"rotate", "lapse"} => Opened(call[c].of)

(* A live reset token was issued after the last reset that succeeded.      *)
LiveSinceReset == \A t \in Token : token[t].st = "live" => token[t].issued = resets

(* The inductive invariant.                                                *)
AccountSafe ==
    /\ TypeOK
    /\ OpenedInOrder
    /\ SessionsAreChains
    /\ LiveSinceReset
    /\ OneResetPerIssue
-----------------------------------------------------------------------------
SessionRow == [st : {"none", "live", "lapsed", "revoked"}, from : 0..MaxSessions, ended : BOOLEAN]
TokenRow == [st : {"none", "live", "lapsed", "used"}, issued : Nat, spent : SUBSET Nat]

(* A request under way holds what its kind of request holds.               *)
LEMMA Held ==
    ASSUME TypeOK, NEW c \in Caller
    PROVE  /\ call[c].op \in {"rotate", "lapse"} => call[c].of \in Session
           /\ call[c].op = "reset" => call[c].with \in Token
           /\ call[c].op = "staff" => call[c].was \in BOOLEAN
BY DEF TypeOK, Call, Idle

(* A request that ends leaves the others as they are.                      *)
LEMMA DoneTyped ==
    ASSUME TypeOK, NEW c \in Caller, Done(c)
    PROVE  call' \in [Caller -> Call] /\ \A d \in Caller : d # c => call'[d] = call[d]
BY DEF Done, TypeOK, Call

(* The next session is the first that was not opened yet.                  *)
LEMMA NextIsUnopened ==
    ASSUME TypeOK, OpenedInOrder, NextSession \in Session
    PROVE  \A s \in Session : Opened(s) <=> s < NextSession
<1>1. PICK n \in 0..MaxSessions : \A s \in Session : Opened(s) <=> s <= n
  BY DEF OpenedInOrder
<1>2. {s \in Session : Opened(s)} = 1..n
  BY <1>1, SessionsAssumption DEF Session
<1>3. Cardinality(1..n) = n
  BY <1>1, FS_Interval, SessionsAssumption
<1>4. NextSession = n + 1
  BY <1>2, <1>3 DEF NextSession
<1> QED
  BY <1>1, <1>4, SessionsAssumption DEF Session

(* The rows after all were revoked, and after a session was opened.        *)
LEMMA AllRevokedRows ==
    ASSUME TypeOK, sess' = AllRevoked
    PROVE  /\ sess' \in [Session -> SessionRow]
           /\ \A s \in Session : /\ Opened(s)' <=> Opened(s)
                                 /\ sess'[s].from = sess[s].from
                                 /\ Opened(s) => sess'[s].st = "revoked"
BY DEF AllRevoked, Opened, TypeOK, SessionRow

(* The rows after a session was opened.                                    *)
LEMMA OpenedRows ==
    ASSUME TypeOK, NEW rows \in [Session -> SessionRow], NEW from \in 0..MaxSessions,
           NextSession \in Session, sess' = WithSession(rows, from)
    PROVE  /\ sess' \in [Session -> SessionRow]
           /\ sess'[NextSession] = [st |-> "live", from |-> from, ended |-> FALSE]
           /\ \A s \in Session : s # NextSession => sess'[s] = rows[s]
<1>1. [st |-> "live", from |-> from, ended |-> FALSE] \in SessionRow
  BY DEF SessionRow
<1> QED
  BY <1>1 DEF WithSession

(* The rows after one session was revoked.                                 *)
LEMMA RevokedRow ==
    ASSUME TypeOK, NEW s \in Session
    PROVE  LET rows == [sess EXCEPT ![s].st = "revoked"]
           IN  /\ rows \in [Session -> SessionRow]
               /\ rows[s].st = "revoked" /\ rows[s].from = sess[s].from /\ rows[s].ended = sess[s].ended
               /\ \A r \in Session : r # s => rows[r] = sess[r]
BY DEF TypeOK, SessionRow

(* How a step may change the session rows: it revokes all of them, opens   *)
(* one on its own or instead of a live one, or moves one towards its end.  *)
Moved(s) ==
    /\ \/ sess[s].st = "live" /\ sess'[s].st = "lapsed"
       \/ Opened(s) /\ sess'[s].st = "revoked"
    /\ sess'[s].from = sess[s].from /\ sess'[s].ended = sess[s].ended
    /\ \A r \in Session : r # s => sess'[r] = sess[r]
RowsStep ==
    \/ UNCHANGED sess
    \/ sess' = AllRevoked
    \/ NextSession \in Session /\ sess' = WithSession(sess, 0)
    \/ /\ NextSession \in Session
       /\ \E s \in Session : /\ sess[s].st = "live"
                             /\ sess' = WithSession([sess EXCEPT ![s].st = "revoked"], s)
    \/ \E s \in Session : Moved(s) /\ sess' \in [Session -> SessionRow]

(* Every step changes the session rows as RowsStep says.                   *)
LEMMA RowsStepHolds ==
    ASSUME TypeOK, OpenedInOrder, [Next]_vars
    PROVE  RowsStep
<1>1. ASSUME NEW c \in Caller, Rotate(c)
      PROVE  RowsStep
  BY <1>1, Held DEF Rotate, RowsStep
<1>2. ASSUME NEW c \in Caller, RevokeLapsed(c)
      PROVE  RowsStep
  <2>1. call[c].of \in Session /\ Opened(call[c].of)
    BY <1>2, Held DEF RevokeLapsed, OpenedInOrder
  <2>2. sess' = [sess EXCEPT ![call[c].of].st = "revoked"]
    BY <1>2 DEF RevokeLapsed
  <2>3. Moved(call[c].of) /\ sess' \in [Session -> SessionRow]
    BY <2>1, <2>2, RevokedRow DEF Moved
  <2> QED
    BY <2>1, <2>3 DEF RowsStep
<1>3. ASSUME NEW s \in Session, Logout(s)
      PROVE  RowsStep
  <2>1. Moved(s) /\ sess' \in [Session -> SessionRow]
    BY <1>3, RevokedRow DEF Logout, Moved, Opened
  <2> QED
    BY <2>1 DEF RowsStep
<1>4. ASSUME NEW s \in Session, Lapse(s)
      PROVE  RowsStep
  <2>1. Moved(s) /\ sess' \in [Session -> SessionRow]
    BY <1>4 DEF Lapse, Moved, TypeOK, SessionRow
  <2> QED
    BY <2>1 DEF RowsStep
<1>5. ASSUME NEW c \in Caller,
             \/ Abandon(c) \/ LoginRead(c) \/ LoginOpen(c) \/ (\E s \in Session : RefreshRead(c, s))
             \/ Replayed(c) \/ StaffRead(c) \/ StaffDisable(c) \/ StaffEnable(c)
             \/ StaffPassword(c) \/ ForgotInvalidate(c) \/ ForgotIssue(c)
             \/ (\E t \in Token : ResetRead(c, t)) \/ Reset(c)
      PROVE  RowsStep
  BY <1>5 DEF Abandon, LoginRead, LoginOpen, RefreshRead, Replayed, StaffRead, StaffDisable,
              StaffEnable, StaffPassword, ForgotInvalidate, ForgotIssue, ResetRead, Reset, RowsStep
<1>6. \/ LogoutEverywhere \/ RevokeSessions \/ (\E t \in Token : TokenLapses(t))
      \/ (\E on \in BOOLEAN : SetStatus(on) \/ SetStoreStatus(on)) \/ UNCHANGED vars
      => RowsStep
  BY DEF LogoutEverywhere, RevokeSessions, TokenLapses, SetStatus, SetStoreStatus, vars, RowsStep
<1> QED
  BY <1>1, <1>2, <1>3, <1>4, <1>5, <1>6 DEF Next, Step
-----------------------------------------------------------------------------
(* The rows after a step are rows; what was opened stays so, and the       *)
(* opened ones still are the first ones.                                   *)
LEMMA RowsAfter ==
    ASSUME TypeOK, OpenedInOrder, RowsStep
    PROVE  /\ sess' \in [Session -> SessionRow]
           /\ \A s \in Session : Opened(s) => Opened(s)'
           /\ \E n \in 0..MaxSessions : \A s \in Session : Opened(s)' <=> s <= n
<1>1. ASSUME \/ UNCHANGED sess \/ sess' = AllRevoked
             \/ \E s \in Session : Moved(s) /\ sess' \in [Session -> SessionRow]
      PROVE  /\ sess' \in [Session -> SessionRow]
             /\ \A s \in Session : Opened(s)' <=> Opened(s)
  <2>1. CASE UNCHANGED sess
    BY <2>1 DEF TypeOK, SessionRow, Opened
  <2>2. CASE sess' = AllRevoked
    BY <2>2, AllRevokedRows
  <2>3. CASE \E s \in Session : Moved(s) /\ sess' \in [Session -> SessionRow]
    BY <2>3 DEF Moved, Opened
  <2> QED
    BY <1>1, <2>1, <2>2, <2>3
<1>2. ASSUME NextSession \in Session,
             NEW rows \in [Session -> SessionRow], NEW from \in 0..MaxSessions,
             sess' = WithSession(rows, from),
             \A s \in Session : rows[s].st # "none" <=> Opened(s)
      PROVE  /\ sess' \in [Session -> SessionRow]
             /\ \A s \in Session : Opened(s) => Opened(s)'
             /\ \E m \in 0..MaxSessions : \A s \in Session : Opened(s)' <=> s <= m
  <2>1. /\ sess' \in [Session -> SessionRow]
        /\ sess'[NextSession] = [st |-> "live", from |-> from, ended |-> FALSE]
        /\ \A s \in Session : s # NextSession => sess'[s] = rows[s]
    BY <1>2, OpenedRows
  <2>2. \A s \in Session : Opened(s) <=> s < NextSession
    BY <1>2, NextIsUnopened
  <2>3. \A s \in Session : s \in Nat /\ NextSession \in Nat
    BY <1>2 DEF Session
  <2>4. PICK m \in 0..MaxSessions : m = NextSession
    BY <1>2, SessionsAssumption DEF Session
  <2>5. \A s \in Session : Opened(s)' <=> s <= NextSession
    BY <1>2, <2>1, <2>2, <2>3 DEF Opened
  <2>6. \A s \in Session : Opened(s)' <=> s <= m
    BY <2>4, <2>5
  <2>7. \A s \in Session : Opened(s) => Opened(s)'
    BY <2>2, <2>3, <2>5
  <2> QED
    BY <2>1, <2>6, <2>7
<1>3. CASE NextSession \in Session /\ sess' = WithSession(sess, 0)
  <2>1. sess \in [Session -> SessionRow] /\ 0 \in 0..MaxSessions
    BY SessionsAssumption DEF TypeOK, SessionRow
  <2> QED
    BY <1>2, <1>3, <2>1 DEF Opened
<1>4. ASSUME NextSession \in Session, NEW s \in Session, sess[s].st = "live",
             sess' = WithSession([sess EXCEPT ![s].st = "revoked"], s)
      PROVE  /\ sess' \in [Session -> SessionRow]
             /\ \A r \in Session : Opened(r) => Opened(r)'
             /\ \E m \in 0..MaxSessions : \A r \in Session : Opened(r)' <=> r <= m
  <2> DEFINE rows == [sess EXCEPT ![s].st = "revoked"]
  <2>1. rows \in [Session -> SessionRow] /\ s \in 0..MaxSessions
    BY RevokedRow, SessionsAssumption DEF Session
  <2>2. \A r \in Session : rows[r].st # "none" <=> Opened(r)
    BY <1>4, RevokedRow DEF Opened
  <2>3. sess' = WithSession(rows, s)
    BY <1>4
  <2> HIDE DEF rows
  <2> QED
    BY <1>2, <1>4, <2>1, <2>2, <2>3
<1>5. CASE \/ UNCHANGED sess \/ sess' = AllRevoked
           \/ \E s \in Session : Moved(s) /\ sess' \in [Session -> SessionRow]
  <2>1. PICK n \in 0..MaxSessions : \A s \in Session : Opened(s) <=> s <= n
    BY DEF OpenedInOrder
  <2>2. sess' \in [Session -> SessionRow] /\ \A s \in Session : Opened(s)' <=> Opened(s)
    BY <1>1, <1>5
  <2>3. \A s \in Session : Opened(s)' <=> s <= n
    BY <2>1, <2>2
  <2>4. \E m \in 0..MaxSessions : \A s \in Session : Opened(s)' <=> s <= m
    BY <2>1, <2>3
  <2> QED
    BY <2>2, <2>4
<1>6. CASE NextSession \in Session /\ \E s \in Session :
             sess[s].st = "live" /\ sess' = WithSession([sess EXCEPT ![s].st = "revoked"], s)
  BY <1>4, <1>6
<1> QED
  BY <1>3, <1>5, <1>6 DEF RowsStep
-----------------------------------------------------------------------------
(* Whatever a step does to the rows, what was continued stays revoked, and *)
(* so does what followed a session that ended.                             *)
LEMMA ChainsStep ==
    ASSUME TypeOK, OpenedInOrder, SessionsAreChains, RowsStep
    PROVE  SessionsAreChains'
<1>1. \A s \in Session : sess[s].from = 0 \/ sess[s].from \in Session
  BY SessionsAssumption DEF TypeOK, Session
<1>2. CASE UNCHANGED sess
  BY <1>2 DEF SessionsAreChains, Opened
<1>3. CASE sess' = AllRevoked
  BY <1>1, <1>3, AllRevokedRows DEF SessionsAreChains, Opened
<1>4. ASSUME NEW s \in Session, Moved(s)
      PROVE  SessionsAreChains'
  <2>1. \A r \in Session : /\ Opened(r)' <=> Opened(r)
                           /\ sess'[r].from = sess[r].from /\ sess'[r].ended = sess[r].ended
                           /\ sess[r].st = "revoked" => sess'[r].st = "revoked"
    BY <1>4 DEF Moved, Opened
  <2> QED
    BY <1>1, <2>1 DEF SessionsAreChains
<1>5. CASE NextSession \in Session /\ sess' = WithSession(sess, 0)
  <2>1. sess \in [Session -> SessionRow] /\ 0 \in 0..MaxSessions
    BY SessionsAssumption DEF TypeOK, SessionRow
  <2>2. PICK k \in Session : k = NextSession
    BY <1>5
  <2>3. /\ sess'[k] = [st |-> "live", from |-> 0, ended |-> FALSE]
        /\ \A r \in Session : r # k => sess'[r] = sess[r]
    BY <1>5, <2>1, <2>2, OpenedRows
  <2>4. ~Opened(k)
    BY <2>2, NextIsUnopened DEF Session
  <2> QED
    BY <1>1, <2>3, <2>4 DEF SessionsAreChains, Opened
<1>6. ASSUME NextSession \in Session, NEW s \in Session, sess[s].st = "live",
             sess' = WithSession([sess EXCEPT ![s].st = "revoked"], s)
      PROVE  SessionsAreChains'
  <2>1. PICK k \in Session : k = NextSession
    BY <1>6
  <2>2. ~Opened(k) /\ Opened(s) /\ k # s /\ s # 0
    BY <1>6, <2>1, NextIsUnopened DEF Session, Opened
  <2> DEFINE rows == [sess EXCEPT ![s].st = "revoked"]
  <2>3. rows \in [Session -> SessionRow] /\ s \in 0..MaxSessions
    BY RevokedRow, SessionsAssumption DEF Session
  <2>4. /\ sess'[k] = [st |-> "live", from |-> s, ended |-> FALSE]
        /\ \A r \in Session : r # k => sess'[r] = rows[r]
    <3> HIDE DEF rows
    <3>1. sess' = WithSession(rows, s)
      BY <1>6 DEF rows
    <3> QED
      BY <1>6, <2>1, <2>3, <3>1, OpenedRows
  <2>5. /\ sess'[s].st = "revoked" /\ sess'[s].from = sess[s].from /\ sess'[s].ended = sess[s].ended
        /\ \A r \in Session : r # k /\ r # s => sess'[r] = sess[r]
    BY <2>2, <2>4, RevokedRow
  <2>6. ~sess[s].ended /\ \A r \in Session : Opened(r) => sess[r].from # s
    BY <1>6, <2>2 DEF SessionsAreChains
  <2>7. \A r \in Session : Opened(r) /\ sess[r].from # 0 => sess[r].from # k
    BY <1>1, <2>2 DEF SessionsAreChains, Opened
  <2>8. \A r \in Session : Opened(r)' <=> Opened(r) \/ r = k
    BY <2>2, <2>4, <2>5 DEF Opened
  <2>9. \A r \in Session : sess[r].st = "revoked" => sess'[r].st = "revoked"
    BY <2>2, <2>5 DEF Opened
  <2> HIDE DEF rows
  <2>10. ASSUME NEW r \in Session, Opened(r)', NEW q \in Session, Opened(q)', q # r, sess'[q].from # 0
         PROVE  sess'[q].from # sess'[r].from
    <3>1. \A p \in Session : p # k => sess'[p].from = sess[p].from
      BY <2>5
    <3>2. sess'[k].from = s
      BY <2>4
    <3> QED
      BY <2>6, <2>8, <2>10, <3>1, <3>2 DEF SessionsAreChains
  <2>11. ASSUME NEW r \in Session, Opened(r)', sess'[r].from # 0
         PROVE  /\ sess'[sess'[r].from].st = "revoked"
                /\ sess'[sess'[r].from].ended => sess'[r].st = "revoked"
    <3>1. CASE r = k
      BY <2>4, <2>5, <2>6, <3>1
    <3>2. CASE r # k
      <4>1. Opened(r) /\ sess'[r].from = sess[r].from
        BY <2>5, <2>8, <2>11, <3>2
      <4>2. /\ sess[r].from \in Session /\ sess[r].from # k /\ sess[r].from # s
            /\ sess[sess[r].from].st = "revoked"
            /\ sess[sess[r].from].ended => sess[r].st = "revoked"
        BY <1>1, <2>6, <2>7, <2>11, <4>1 DEF SessionsAreChains
      <4> QED
        BY <2>5, <2>9, <4>1, <4>2
    <3> QED
      BY <3>1, <3>2
  <2>12. ASSUME NEW r \in Session, Opened(r)', sess'[r].ended
         PROVE  sess'[r].st = "revoked"
    BY <2>4, <2>5, <2>8, <2>12 DEF SessionsAreChains
  <2> QED
    BY <2>10, <2>11, <2>12 DEF SessionsAreChains
<1> QED
  BY <1>2, <1>3, <1>4, <1>5, <1>6 DEF RowsStep
-----------------------------------------------------------------------------
(* The session is open after the step.                                    *)
OpenedAfter(s) == sess'[s].st # "none"

(* Each request holds what it may hold, and rotates or revokes sessions    *)
(* that were opened, after a step as before it.                            *)
LEMMA CallsStep ==
    ASSUME TypeOK, OpenedInOrder, [Next]_vars
    PROVE  /\ call' \in [Caller -> Call]
           /\ \A c \in Caller : call'[c].op \in {"rotate", "lapse"} => OpenedAfter(call'[c].of)
<1>1. \A s \in Session : Opened(s) => OpenedAfter(s)
  BY RowsStepHolds, RowsAfter DEF Opened, OpenedAfter
<1>2. ASSUME UNCHANGED call \/ \E c \in Caller : Done(c)
      PROVE  /\ call' \in [Caller -> Call]
             /\ \A c \in Caller : call'[c].op \in {"rotate", "lapse"} => OpenedAfter(call'[c].of)
  <2>1. call' \in [Caller -> Call]
    BY <1>2, DoneTyped DEF TypeOK
  <2>2. ASSUME NEW d \in Caller, call'[d].op \in {"rotate", "lapse"}
        PROVE  call'[d] = call[d]
    BY <1>2, <2>2 DEF Done, Idle, TypeOK
  <2>3. ASSUME NEW d \in Caller, call'[d].op \in {"rotate", "lapse"}
        PROVE  OpenedAfter(call'[d].of)
    <3>1. call[d].op \in {"rotate", "lapse"} /\ call'[d] = call[d]
      BY <2>2, <2>3
    <3>2. call[d].of \in Session /\ Opened(call[d].of)
      BY <3>1, Held DEF OpenedInOrder
    <3> QED
      BY <1>1, <3>1, <3>2
  <2> QED
    BY <2>1, <2>3
<1>3. ASSUME NEW c \in Caller, NEW what \in Call, Hold(c, what),
             what.op \in {"rotate", "lapse"} => OpenedAfter(what.of)
      PROVE  /\ call' \in [Caller -> Call]
             /\ \A d \in Caller : call'[d].op \in {"rotate", "lapse"} => OpenedAfter(call'[d].of)
  <2>1. call' \in [Caller -> Call] /\ call'[c] = what /\ \A d \in Caller : d # c => call'[d] = call[d]
    BY <1>3 DEF Hold, TypeOK
  <2>2. ASSUME NEW d \in Caller, d # c, call[d].op \in {"rotate", "lapse"}
        PROVE  OpenedAfter(call[d].of)
    <3>1. call[d].of \in Session /\ Opened(call[d].of)
      BY <2>2, Held DEF OpenedInOrder
    <3> QED
      BY <1>1, <3>1
  <2>3. ASSUME NEW d \in Caller, call'[d].op \in {"rotate", "lapse"}
        PROVE  OpenedAfter(call'[d].of)
    <3>1. CASE d = c
      BY <1>3, <2>1, <2>3, <3>1
    <3>2. CASE d # c
      BY <2>1, <2>2, <2>3, <3>2
    <3> QED
      BY <3>1, <3>2
  <2> QED
    BY <2>1, <2>3
<1>4. ASSUME NEW c \in Caller, NEW s \in Session, RefreshRead(c, s)
      PROVE  /\ call' \in [Caller -> Call]
             /\ \A d \in Caller : call'[d].op \in {"rotate", "lapse"} => OpenedAfter(call'[d].of)
  <2>1. OpenedAfter(s) \/ Hold(c, [op |-> "replay"])
    BY <1>1, <1>4 DEF RefreshRead, Opened
  <2>2. /\ [op |-> "replay"] \in Call /\ [op |-> "lapse", of |-> s] \in Call
        /\ [op |-> "rotate", of |-> s] \in Call
    BY DEF Call
  <2>3. CASE Hold(c, [op |-> "replay"])
    <3> DEFINE what == [op |-> "replay"]
    <3>1. what \in Call /\ Hold(c, what) /\ what.op \notin {"rotate", "lapse"}
      BY <2>2, <2>3
    <3> HIDE DEF what
    <3> QED
      BY <1>3, <3>1
  <2>4. CASE Hold(c, [op |-> "lapse", of |-> s]) /\ OpenedAfter(s)
    <3> DEFINE what == [op |-> "lapse", of |-> s]
    <3>1. what \in Call /\ Hold(c, what) /\ OpenedAfter(what.of)
      BY <2>2, <2>4
    <3> HIDE DEF what
    <3> QED
      BY <1>3, <3>1
  <2>5. CASE Hold(c, [op |-> "rotate", of |-> s]) /\ OpenedAfter(s)
    <3> DEFINE what == [op |-> "rotate", of |-> s]
    <3>1. what \in Call /\ Hold(c, what) /\ OpenedAfter(what.of)
      BY <2>2, <2>5
    <3> HIDE DEF what
    <3> QED
      BY <1>3, <3>1
  <2> QED
    BY <1>4, <2>1, <2>3, <2>4, <2>5 DEF RefreshRead
<1>5. ASSUME NEW c \in Caller,
             \/ LoginRead(c) \/ StaffRead(c) \/ ForgotInvalidate(c) \/ \E t \in Token : ResetRead(c, t)
      PROVE  \E what \in Call : Hold(c, what) /\ what.op \notin {"rotate", "lapse"}
  <2>1. CASE LoginRead(c)
    BY <2>1 DEF LoginRead, Call
  <2>2. CASE StaffRead(c)
    BY <2>2 DEF StaffRead, Call, TypeOK
  <2>3. CASE ForgotInvalidate(c)
    BY <2>3 DEF ForgotInvalidate, Call
  <2>4. CASE \E t \in Token : ResetRead(c, t)
    BY <2>4 DEF ResetRead, Call
  <2> QED
    BY <1>5, <2>1, <2>2, <2>3, <2>4
<1>6. ASSUME NEW c \in Caller,
             \/ Abandon(c) \/ LoginOpen(c) \/ Rotate(c) \/ Replayed(c) \/ RevokeLapsed(c)
             \/ StaffDisable(c) \/ StaffEnable(c) \/ StaffPassword(c) \/ ForgotIssue(c) \/ Reset(c)
      PROVE  Done(c)
  BY <1>6 DEF Abandon, LoginOpen, Rotate, Replayed, RevokeLapsed, StaffDisable, StaffEnable,
              StaffPassword, ForgotIssue, Reset
<1>7. \/ (\E s \in Session : Logout(s) \/ Lapse(s)) \/ LogoutEverywhere \/ RevokeSessions
      \/ (\E t \in Token : TokenLapses(t)) \/ (\E on \in BOOLEAN : SetStatus(on) \/ SetStoreStatus(on))
      \/ UNCHANGED vars
      => UNCHANGED call
  BY DEF Logout, Lapse, LogoutEverywhere, RevokeSessions, TokenLapses, SetStatus, SetStoreStatus, vars
<1> QED
  BY <1>2, <1>3, <1>4, <1>5, <1>6, <1>7 DEF Next, Step
-----------------------------------------------------------------------------
(* The tokens after those of the account were invalidated.                 *)
LEMMA AllSpentTokens ==
    ASSUME TypeOK
    PROVE  /\ AllSpent \in [Token -> TokenRow]
           /\ \A t \in Token : /\ AllSpent[t].st # "live"
                               /\ AllSpent[t].issued = token[t].issued
                               /\ AllSpent[t].spent = token[t].spent
BY DEF AllSpent, Issued, TypeOK, TokenRow

(* Resetting a password invalidates every other token, so that a live one  *)
(* always was issued since, and the one it consumes is consumed for good.  *)
LEMMA TokensStep ==
    ASSUME TypeOK, LiveSinceReset, OneResetPerIssue, [Next]_vars
    PROVE  token' \in [Token -> TokenRow] /\ resets' \in Nat /\ LiveSinceReset' /\ OneResetPerIssue'
<1>1. ASSUME NEW c \in Caller, ForgotInvalidate(c)
      PROVE  token' \in [Token -> TokenRow] /\ resets' \in Nat /\ LiveSinceReset' /\ OneResetPerIssue'
  <2>1. token' = AllSpent /\ resets' = resets
    BY <1>1 DEF ForgotInvalidate
  <2> QED
    BY <2>1, AllSpentTokens DEF TypeOK, LiveSinceReset, OneResetPerIssue
<1>2. ASSUME NEW c \in Caller, ForgotIssue(c)
      PROVE  token' \in [Token -> TokenRow] /\ resets' \in Nat /\ LiveSinceReset' /\ OneResetPerIssue'
  <2>1. PICK n \in Token : n = NextToken
    BY <1>2 DEF ForgotIssue
  <2>2. [st |-> "live", issued |-> resets, spent |-> {}] \in TokenRow
    BY DEF TypeOK, TokenRow
  <2>3. token' = [token EXCEPT ![n] = [st |-> "live", issued |-> resets, spent |-> {}]] /\ resets' = resets
    BY <1>2, <2>1 DEF ForgotIssue
  <2>4. /\ token' \in [Token -> TokenRow]
        /\ token'[n] = [st |-> "live", issued |-> resets, spent |-> {}]
        /\ \A t \in Token : t # n => token'[t] = token[t]
    BY <2>2, <2>3 DEF TypeOK, TokenRow
  <2> QED
    BY <2>3, <2>4 DEF TypeOK, LiveSinceReset, OneResetPerIssue
<1>3. ASSUME NEW t \in Token, TokenLapses(t)
      PROVE  token' \in [Token -> TokenRow] /\ resets' \in Nat /\ LiveSinceReset' /\ OneResetPerIssue'
  BY <1>3 DEF TokenLapses, TypeOK, TokenRow, LiveSinceReset, OneResetPerIssue
<1>4. ASSUME NEW c \in Caller, Reset(c)
      PROVE  token' \in [Token -> TokenRow] /\ resets' \in Nat /\ LiveSinceReset' /\ OneResetPerIssue'
  <2>1. PICK t \in Token : t = call[c].with
    BY <1>4, Held DEF Reset
  <2>2. /\ token[t].st = "live"
        /\ token' = [AllSpent EXCEPT ![t].st = "used", ![t].spent = @ \cup {resets}]
        /\ resets' = resets + 1
    BY <1>4, <2>1 DEF Reset, Unspent
  <2>3. /\ token' \in [Token -> TokenRow]
        /\ \A r \in Token : token'[r].st # "live" /\ token'[r].issued = token[r].issued
        /\ token'[t].spent = token[t].spent \cup {resets}
        /\ \A r \in Token : r # t => token'[r].spent = token[r].spent
    <3> DEFINE rows == AllSpent
    <3>1. /\ rows \in [Token -> TokenRow]
          /\ \A r \in Token : /\ rows[r].st # "live" /\ rows[r].issued = token[r].issued
                              /\ rows[r].spent = token[r].spent
      BY AllSpentTokens
    <3>2. token' = [rows EXCEPT ![t].st = "used", ![t].spent = @ \cup {resets}] /\ resets \in Nat
      BY <2>2 DEF TypeOK
    <3> HIDE DEF rows
    <3> QED
      BY <3>1, <3>2 DEF TokenRow
  <2>4. token[t].issued = resets /\ resets' \in Nat
    BY <2>2 DEF LiveSinceReset, TypeOK
  <2> QED
    BY <2>3, <2>4 DEF LiveSinceReset, OneResetPerIssue
<1>5. ASSUME NEW c \in Caller,
             \/ Abandon(c) \/ LoginRead(c) \/ LoginOpen(c) \/ (\E s \in Session : RefreshRead(c, s))
             \/ Rotate(c) \/ Replayed(c) \/ RevokeLapsed(c) \/ StaffRead(c) \/ StaffDisable(c)
             \/ StaffEnable(c) \/ StaffPassword(c) \/ (\E t \in Token : ResetRead(c, t))
      PROVE  UNCHANGED <<token, resets>>
  BY <1>5 DEF Abandon, LoginRead, LoginOpen, RefreshRead, Rotate, Replayed, RevokeLapsed, StaffRead,
              StaffDisable, StaffEnable, StaffPassword, ResetRead
<1>6. \/ (\E s \in Session : Logout(s) \/ Lapse(s)) \/ LogoutEverywhere \/ RevokeSessions
      \/ (\E on \in BOOLEAN : SetStatus(on) \/ SetStoreStatus(on)) \/ UNCHANGED vars
      => UNCHANGED <<token, resets>>
  BY DEF Logout, Lapse, LogoutEverywhere, RevokeSessions, SetStatus, SetStoreStatus, vars
<1>7. UNCHANGED <<token, resets>> =>
        token' \in [Token -> TokenRow] /\ resets' \in Nat /\ LiveSinceReset' /\ OneResetPerIssue'
  BY DEF TypeOK, TokenRow, LiveSinceReset, OneResetPerIssue
<1> QED
  BY <1>1, <1>2, <1>3, <1>4, <1>5, <1>6, <1>7 DEF Next, Step
-----------------------------------------------------------------------------
(* The account and its store are active or they are not.                   *)
LEMMA AccountStep ==
    ASSUME TypeOK, [Next]_vars
    PROVE  active' \in BOOLEAN /\ open' \in BOOLEAN
<1>1. ASSUME NEW c \in Caller, Step(c)
      PROVE  active' \in BOOLEAN /\ open' \in BOOLEAN
  BY <1>1 DEF Step, TypeOK, Abandon, LoginRead, LoginOpen, RefreshRead, Rotate, Replayed, RevokeLapsed,
              StaffRead, StaffDisable, StaffEnable, StaffPassword, ForgotInvalidate, ForgotIssue,
              ResetRead, Reset
<1>2. \/ (\E s \in Session : Logout(s) \/ Lapse(s)) \/ LogoutEverywhere \/ RevokeSessions
      \/ (\E t \in Token : TokenLapses(t)) \/ (\E on \in BOOLEAN : SetStatus(on) \/ SetStoreStatus(on))
      \/ UNCHANGED vars
      => active' \in BOOLEAN /\ open' \in BOOLEAN
  BY DEF TypeOK, Logout, Lapse, LogoutEverywhere, RevokeSessions, TokenLapses, SetStatus,
         SetStoreStatus, vars
<1> QED
  BY <1>1, <1>2 DEF Next

(* Whatever order the requests of an account run in, its sessions and      *)
(* reset tokens stay safe (auth.service.ts:386-411, 699-720).              *)
THEOREM AccountsStaySafe == Spec => []AccountSafe
<1>1. Init => AccountSafe
  <2> SUFFICES ASSUME Init PROVE AccountSafe
    OBVIOUS
  <2>1. TypeOK
    BY SessionsAssumption DEF Init, TypeOK, NoSession, NoToken, Idle, Call
  <2>2. OpenedInOrder
    <3>1. \A s \in Session : ~Opened(s) /\ s \in 1..MaxSessions
      BY DEF Init, Opened, NoSession, Session
    <3>2. 0 \in 0..MaxSessions /\ \A s \in Session : Opened(s) <=> s <= 0
      BY <3>1, SessionsAssumption
    <3>3. \A c \in Caller : call[c].op \notin {"rotate", "lapse"}
      BY DEF Init, Idle
    <3> QED
      BY <3>2, <3>3 DEF OpenedInOrder
  <2>3. SessionsAreChains
    BY DEF Init, SessionsAreChains, Opened, NoSession
  <2>4. LiveSinceReset /\ OneResetPerIssue
    BY DEF Init, LiveSinceReset, OneResetPerIssue, NoToken
  <2> QED
    BY <2>1, <2>2, <2>3, <2>4 DEF AccountSafe
<1>2. AccountSafe /\ [Next]_vars => AccountSafe'
  <2> SUFFICES ASSUME TypeOK, OpenedInOrder, SessionsAreChains, LiveSinceReset, OneResetPerIssue,
                      [Next]_vars
               PROVE  AccountSafe'
    BY DEF AccountSafe
  <2>1. TypeOK'
    BY RowsStepHolds, RowsAfter, CallsStep, TokensStep, AccountStep DEF TypeOK, SessionRow, TokenRow
  <2>2. OpenedInOrder'
    BY RowsStepHolds, RowsAfter, CallsStep DEF OpenedInOrder, Opened, OpenedAfter
  <2>3. SessionsAreChains'
    BY RowsStepHolds, ChainsStep
  <2>4. LiveSinceReset' /\ OneResetPerIssue'
    BY TokensStep
  <2> QED
    BY <2>1, <2>2, <2>3, <2>4 DEF AccountSafe
<1> QED
  BY <1>1, <1>2, PTL DEF Spec

(* A refresh token is exchanged at most once, and no session that was      *)
(* continued, or that existed when all were revoked, is continued by a live*)
(* one (auth.service.ts:386-411).                                          *)
THEOREM RefreshTokensRotateOnce == Spec => []SessionsAreChains
<1>1. AccountSafe => SessionsAreChains
  BY DEF AccountSafe
<1> QED
  BY <1>1, AccountsStaySafe, PTL

(* A reset token sets at most one password, and none once another reset has*)
(* succeeded since it was issued (auth.service.ts:699-720).                *)
THEOREM ResetTokensWorkOnce == Spec => []OneResetPerIssue
<1>1. AccountSafe => OneResetPerIssue
  BY DEF AccountSafe
<1> QED
  BY <1>1, AccountsStaySafe, PTL

(* Whatever crosses, no token of an account works twice.                   *)
THEOREM AccountTokensWorkOnce == Spec => []TokensWorkOnce
<1>1. SessionsAreChains /\ OneResetPerIssue => TokensWorkOnce
  BY DEF TokensWorkOnce
<1> QED
  BY <1>1, RefreshTokensRotateOnce, ResetTokensWorkOnce, PTL
=============================================================================
