----------------------------- MODULE LoginGuard -----------------------------
(***************************************************************************)
(* The lock on password login. Failures are rows of the audit log; a login *)
(* is refused while enough of them, later than the last success or the     *)
(* last clearing, lie in the window. The check is a read, the password is  *)
(* compared next, and the outcome is written last.                         *)
(***************************************************************************)
EXTENDS Naturals, FiniteSets

CONSTANTS Caller,      \* attempts that may be under way together
          MaxAttempts, \* ops.security.loginLockout
          MaxGuesses   \* bound: failures ever recorded

VARIABLES failures,  \* failures in the window since the last reset
          guesses,   \* failures ever recorded
          blind,     \* a check could not read the audit log
          attempt    \* where each login is

vars == <<failures, guesses, blind, attempt>>

Init == /\ failures = 0
        /\ guesses = 0
        /\ blind = FALSE
        /\ attempt = [c \in Caller |-> "idle"]

Locked == failures >= MaxAttempts
To(c, from, to) == attempt[c] = from /\ attempt' = [attempt EXCEPT ![c] = to]

(* Mutant of Check: the lock is not looked at.                             *)
CheckAny(c) == To(c, "idle", "checked") /\ UNCHANGED <<failures, guesses, blind>>

Check(c) == /\ ~Locked
            /\ To(c, "idle", "checked")
            /\ UNCHANGED <<failures, guesses, blind>>

(* Availability first: an unreadable audit log lets the login through.     *)
FailOpen(c) == /\ To(c, "idle", "checked")
               /\ blind' = TRUE
               /\ UNCHANGED <<failures, guesses>>

(* Mutant of Blocked: the refused attempt counts as a failure.             *)
BlockedCounts(c) == /\ Locked
                    /\ attempt[c] = "idle"
                    /\ failures' = MaxAttempts + 1
                    /\ UNCHANGED <<guesses, blind, attempt>>

(* A refused attempt is logged as LOGIN_BLOCKED, which is not counted.     *)
Blocked(c) == /\ Locked
              /\ attempt[c] = "idle"
              /\ UNCHANGED vars

(* An unknown or inactive account, a wrong password or a wrong code. The   *)
(* row may fail to be written, without any effect on the answer.           *)
Record(c) == /\ To(c, "checked", "idle")
             /\ guesses < MaxGuesses
             /\ failures' = failures + 1
             /\ guesses' = guesses + 1
             /\ UNCHANGED blind
Unrecorded(c) == To(c, "checked", "idle") /\ UNCHANGED <<failures, guesses, blind>>

(* The session is created first, the row USER_LOGIN that resets the count  *)
(* after it, and its failure is ignored.                                   *)
Succeed(c) == To(c, "checked", "in") /\ UNCHANGED <<failures, guesses, blind>>
RecordSuccess(c) == To(c, "in", "idle") /\ failures' = 0 /\ UNCHANGED <<guesses, blind>>
SuccessUnrecorded(c) == To(c, "in", "idle") /\ UNCHANGED <<failures, guesses, blind>>

(* An administrator lifts the lock.                                        *)
Clear == failures > 0 /\ failures' = 0 /\ UNCHANGED <<guesses, blind, attempt>>

(* The oldest failure leaves the window.                                   *)
WindowPasses == /\ failures > 0
                /\ failures' = failures - 1
                /\ UNCHANGED <<guesses, blind, attempt>>

Step(c) == \/ Check(c)
           \/ FailOpen(c)
           \/ Blocked(c)
           \/ Record(c)
           \/ Unrecorded(c)
           \/ Succeed(c)
           \/ RecordSuccess(c)
           \/ SuccessUnrecorded(c)

Next == (\E c \in Caller : Step(c)) \/ Clear \/ WindowPasses

Fairness == WF_vars(WindowPasses)
Spec == Init /\ [][Next]_vars /\ Fairness

-----------------------------------------------------------------------------
(* The counts and the attempts are well formed.                            *)
TypeOK == /\ failures \in Nat /\ guesses \in Nat
          /\ blind \in BOOLEAN
          /\ attempt \in [Caller -> {"idle", "checked", "in"}]

(* While the audit log can be read, the failures that count never exceed   *)
(* the allowed attempts by more than the logins that had passed the check  *)
(* before the last allowed one failed (login-guard.service.ts:99-107).     *)
LockoutBoundsGuesses ==
  ~blind => failures + Cardinality({c \in Caller : attempt[c] = "checked"})
              < MaxAttempts + Cardinality(Caller)

(* A lock lifts by itself however often the account is tried meanwhile:    *)
(* "a blocked attacker cannot extend the lock forever by retrying"         *)
(* (login-guard.service.ts:14-15).                                         *)
LockLifts == Locked ~> ~Locked
=============================================================================
