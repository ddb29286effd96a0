------------------------------ MODULE Sessions ------------------------------
(***************************************************************************)
(* The sessions of one account and its password reset tokens.  A session   *)
(* is a row holding the hash of a refresh token; refreshing revokes it and *)
(* opens its successor.  Handlers read the account or the session first,   *)
(* outside of the transaction that writes; a call holds what it read.      *)
(* Passwords are left out: whether a login proved the right one is         *)
(* decided when it reads the account.                                      *)
(***************************************************************************)
EXTENDS Naturals, FiniteSets

CONSTANTS Caller,       \* requests that may be under way together
          MaxSessions,  \* sessions ever opened
          MaxTokens     \* reset tokens ever issued

ASSUME SessionsAssumption == MaxSessions \in Nat /\ MaxTokens \in Nat

VARIABLES active,   \* the account is active
          open,     \* its store is
          sess,     \* the session rows, in the order they were opened
          token,    \* the reset tokens, in the order they were issued
          resets,   \* how many resets have succeeded
          call      \* what each request under way has read

vars == <<active, open, sess, token, resets, call>>

Session == 1..MaxSessions
Token == 1..MaxTokens
NoSession == [st |-> "none", from |-> 0, ended |-> FALSE]
NoToken == [st |-> "none", issued |-> 0, spent |-> {}]
Idle == [op |-> "idle"]

Init == /\ active = TRUE
        /\ open = TRUE
        /\ sess = [s \in Session |-> NoSession]
        /\ token = [t \in Token |-> NoToken]
        /\ resets = 0
        /\ call = [c \in Caller |-> Idle]

Usable == active /\ open
Issued(t) == token[t].st # "none"
Opened(s) == sess[s].st # "none"
NextSession == Cardinality({s \in Session : Opened(s)}) + 1
NextToken == Cardinality({t \in Token : Issued(t)}) + 1

(* Every row of the account is revoked, the expired ones too. "ended"      *)
(* records that a session existed when all were.                           *)
AllRevoked == [s \in Session |-> IF Opened(s)
                 THEN [sess[s] EXCEPT !.st = "revoked", !.ended = TRUE] ELSE sess[s]]
WithSession(rows, from) ==
  [rows EXCEPT ![NextSession] = [st |-> "live", from |-> from, ended |-> FALSE]]

Hold(c, what) == call[c] = Idle /\ call' = [call EXCEPT ![c] = what]
Done(c) == call' = [call EXCEPT ![c] = Idle]

(* A request ends without effect: refused, failed, or its process gone.    *)
Abandon(c) == call[c] # Idle /\ Done(c) /\ UNCHANGED <<active, open, sess, token, resets>>

-----------------------------------------------------------------------------
LoginRead(c) == /\ Usable
                /\ Hold(c, [op |-> "login"])
                /\ UNCHANGED <<active, open, sess, token, resets>>

(* The session of a login is inserted whatever has happened to the account *)
(* since it was read.                                                      *)
LoginOpen(c) == /\ call[c].op = "login"
                /\ NextSession \in Session
                /\ sess' = WithSession(sess, 0)
                /\ Done(c)
                /\ UNCHANGED <<active, open, token, resets>>

(* refreshToken reads the session with its account. A revoked token was    *)
(* used before; an expired one is revoked; one of an inactive account is   *)
(* refused.                                                                *)
RefreshRead(c, s) ==
  /\ \/ sess[s].st = "revoked" /\ Hold(c, [op |-> "replay"])
     \/ sess[s].st = "lapsed" /\ Hold(c, [op |-> "lapse", of |-> s])
     \/ sess[s].st = "live" /\ Usable /\ Hold(c, [op |-> "rotate", of |-> s])
  /\ UNCHANGED <<active, open, sess, token, resets>>

(* Mutant of Rotate: it decides from what was read before the transaction.           *)
RotateFromRead(c) ==
  /\ call[c].op = "rotate"
  /\ NextSession \in Session
  /\ sess' = WithSession([sess EXCEPT ![call[c].of].st = "revoked"], call[c].of)
  /\ Done(c)
  /\ UNCHANGED <<active, open, token, resets>>

(* One transaction: the session is revoked if it still is live, and its    *)
(* successor opened; if it is not, somebody else has used the token.       *)
Rotate(c) ==
  /\ call[c].op = "rotate"
  /\ LET s == call[c].of IN
     \/ /\ sess[s].st = "live"
        /\ NextSession \in Session
        /\ sess' = WithSession([sess EXCEPT ![s].st = "revoked"], s)
     \/ sess[s].st # "live" /\ sess' = AllRevoked
  /\ Done(c)
  /\ UNCHANGED <<active, open, token, resets>>

Replayed(c) == /\ call[c].op = "replay"
               /\ sess' = AllRevoked
               /\ Done(c)
               /\ UNCHANGED <<active, open, token, resets>>

RevokeLapsed(c) == /\ call[c].op = "lapse"
                   /\ sess' = [sess EXCEPT ![call[c].of].st = "revoked"]
                   /\ Done(c)
                   /\ UNCHANGED <<active, open, token, resets>>

(* Logging out of one device needs an active account and a live row.       *)
Logout(s) == /\ Usable /\ sess[s].st \in {"live", "lapsed"}
             /\ sess' = [sess EXCEPT ![s].st = "revoked"]
             /\ UNCHANGED <<active, open, token, resets, call>>

(* Logging out everywhere needs an active account, being logged out by an  *)
(* administrator does not.                                                 *)
LogoutEverywhere == /\ Usable
                    /\ sess' = AllRevoked
                    /\ UNCHANGED <<active, open, token, resets, call>>
RevokeSessions == /\ \E s \in Session : sess[s].st \in {"live", "lapsed"}
                  /\ sess' = AllRevoked
                  /\ UNCHANGED <<active, open, token, resets, call>>

Lapse(s) == /\ sess[s].st = "live"
            /\ sess' = [sess EXCEPT ![s].st = "lapsed"]
            /\ UNCHANGED <<active, open, token, resets, call>>

-----------------------------------------------------------------------------
(* An administrator locks or unlocks the account or its store.             *)
SetStatus(on) == /\ active # on
                 /\ active' = on
                 /\ sess' = IF on THEN sess ELSE AllRevoked
                 /\ UNCHANGED <<open, token, resets, call>>
SetStoreStatus(on) == /\ open # on
                      /\ open' = on
                      /\ sess' = IF on THEN sess ELSE AllRevoked
                      /\ UNCHANGED <<active, token, resets, call>>

(* The owner edits a member of staff: "was" is what was read of it.        *)
StaffRead(c) == /\ Hold(c, [op |-> "staff", was |-> active])
                /\ UNCHANGED <<active, open, sess, token, resets>>
StaffDisable(c) == /\ call[c].op = "staff"
                   /\ active' = FALSE
                   /\ sess' = IF call[c].was THEN AllRevoked ELSE sess
                   /\ Done(c)
                   /\ UNCHANGED <<open, token, resets>>
StaffEnable(c) == /\ call[c].op = "staff"
                  /\ active' = TRUE
                  /\ Done(c)
                  /\ UNCHANGED <<open, sess, token, resets>>
StaffPassword(c) == /\ call[c].op = "staff"
                    /\ sess' = AllRevoked
                    /\ Done(c)
                    /\ UNCHANGED <<active, open, token, resets>>

-----------------------------------------------------------------------------
AllSpent == [t \in Token |-> IF Issued(t)
                               THEN [token[t] EXCEPT !.st = "used"] ELSE token[t]]

(* forgotPassword: earlier tokens are invalidated, then one is issued.     *)
ForgotInvalidate(c) == /\ Usable
                       /\ Hold(c, [op |-> "forgot"])
                       /\ token' = AllSpent
                       /\ UNCHANGED <<active, open, sess, resets>>
ForgotIssue(c) ==
  /\ call[c].op = "forgot"
  /\ NextToken \in Token
  /\ token' = [token EXCEPT ![NextToken] = [st |-> "live", issued |-> resets, spent |-> {}]]
  /\ Done(c)
  /\ UNCHANGED <<active, open, sess, resets>>

(* resetPassword: the transaction's snapshot shows the token unused, then  *)
(* it is consumed if it still is, with every other one.                    *)
ResetRead(c, t) == /\ Usable
                   /\ token[t].st = "live"
                   /\ Hold(c, [op |-> "reset", with |-> t])
                   /\ UNCHANGED <<active, open, sess, token, resets>>
(* Mutant of Unspent: the update trusts what the snapshot showed.          *)
UnspentWhenRead(t) == TRUE
Unspent(t) == token[t].st = "live"
TokenLapses(t) == /\ token[t].st = "live"
                  /\ token' = [token EXCEPT ![t].st = "lapsed"]
                  /\ UNCHANGED <<active, open, sess, resets, call>>
Reset(c) ==
  /\ call[c].op = "reset"
  /\ LET t == call[c].with IN
     /\ Unspent(t)
     /\ token' = [AllSpent EXCEPT ![t].st = "used", ![t].spent = @ \cup {resets}]
  /\ resets' = resets + 1
  /\ sess' = AllRevoked
  /\ Done(c)
  /\ UNCHANGED <<active, open>>

Step(c) == \/ Abandon(c)
           \/ LoginRead(c)
           \/ LoginOpen(c)
           \/ \E s \in Session : RefreshRead(c, s)
           \/ Rotate(c)
           \/ Replayed(c)
           \/ RevokeLapsed(c)
           \/ StaffRead(c)
           \/ StaffDisable(c)
           \/ StaffEnable(c)
           \/ StaffPassword(c)
           \/ ForgotInvalidate(c)
           \/ ForgotIssue(c)
           \/ \E t \in Token : ResetRead(c, t)
           \/ Reset(c)

Next == \/ \E c \in Caller : Step(c)
        \/ \E s \in Session : Logout(s)
        \/ LogoutEverywhere
        \/ RevokeSessions
        \/ \E s \in Session : Lapse(s)
        \/ \E t \in Token : TokenLapses(t)
        \/ \E on \in BOOLEAN : SetStatus(on) \/ SetStoreStatus(on)

Spec == Init /\ [][Next]_vars

-----------------------------------------------------------------------------
Call == {Idle} \cup [op : {"login", "forgot", "replay"}] \cup [op : {"rotate", "lapse"}, of : Session]
          \cup [op : {"reset"}, with : Token] \cup [op : {"staff"}, was : BOOLEAN]

(* The account, its rows and the requests under way are well formed.       *)
TypeOK ==
  /\ active \in BOOLEAN /\ open \in BOOLEAN
  /\ sess \in [Session -> [st : {"none", "live", "lapsed", "revoked"},
                           from : 0..MaxSessions, ended : BOOLEAN]]
  /\ token \in [Token -> [st : {"none", "live", "lapsed", "used"}, issued : Nat, spent : SUBSET Nat]]
  /\ resets \in Nat
  /\ call \in [Caller -> Call]

(* A refresh token is exchanged once, however many requests present it     *)
(* together, and a session that somebody else has continued, or that was   *)
(* there when all were revoked, is never continued by a live one: not by   *)
(* a rotation that had read it before (auth.service.ts:386-411).           *)
SessionsAreChains ==
  \A s \in Session : Opened(s) =>
    /\ \A r \in Session : Opened(r) /\ r # s /\ sess[r].from # 0 => sess[r].from # sess[s].from
    /\ sess[s].from # 0 =>
         /\ sess[sess[s].from].st = "revoked"
         /\ sess[sess[s].from].ended => sess[s].st = "revoked"
    /\ sess[s].ended => sess[s].st = "revoked"

(* A reset token sets one password, and none that was issued before an     *)
(* earlier reset succeeded: two requests with the same token, or with the  *)
(* tokens of two emails, do not both succeed (auth.service.ts:699-720).    *)
OneResetPerIssue == \A t \in Token : token[t].spent \subseteq {token[t].issued}

(* Both: a token, of either kind, works once.                              *)
TokensWorkOnce == SessionsAreChains /\ OneResetPerIssue
=============================================================================
