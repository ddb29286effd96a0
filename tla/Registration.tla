---------------------------- MODULE Registration ----------------------------
(***************************************************************************)
(* Registering a store: a one-time code for an e-mail address is kept in   *)
(* the memory of the process; the registration gives it, then creates the  *)
(* store, its warehouse, its owner and a session in one transaction. The   *)
(* code is required, as it is in production.                               *)
(***************************************************************************)
EXTENDS Naturals, FiniteSets

CONSTANTS Email, StoreCode,
          Form,    \* requests that may be under way together
          MaxOtps  \* bound: codes ever issued

VARIABLES signup,  \* the setting signup.enabled
          otp,     \* registerOtpStore: the code kept for each address
          issued,  \* codes issued so far
          passed,  \* how often each code has let a registration pass
          owner,   \* the owner of each store
          form     \* what each request has given, and how far it is

vars == <<signup, otp, issued, passed, owner, form>>

Nobody == "nobody"
NoOtp == [n |-> 0, expired |-> FALSE]
Idle == [st |-> "idle"]
Otp == 1..MaxOtps

Init == /\ signup = TRUE
        /\ otp = [e \in Email |-> NoOtp]
        /\ issued = 0
        /\ passed = [n \in Otp |-> 0]
        /\ owner = [c \in StoreCode |-> Nobody]
        /\ form = [f \in Form |-> Idle]

HasAccount(e) == \E c \in StoreCode : owner[c] = e
To(f, what) == form' = [form EXCEPT ![f] = what]

(* Signing up must be enabled, and the address and the store's code free,  *)
(* when they are looked up; the code is kept after that.                   *)
SendOtpRead(f, e) == /\ form[f] = Idle
                     /\ signup /\ ~HasAccount(e)
                     /\ To(f, [st |-> "send", email |-> e])
                     /\ UNCHANGED <<signup, otp, issued, passed, owner>>
SendRegisterOtp(f) == /\ form[f].st = "send"
                      /\ issued < MaxOtps
                      /\ issued' = issued + 1
                      /\ otp' = [otp EXCEPT ![form[f].email] = [n |-> issued + 1, expired |-> FALSE]]
                      /\ To(f, Idle)
                      /\ UNCHANGED <<signup, passed, owner>>
OtpExpires(e) == /\ otp[e].n # 0 /\ ~otp[e].expired
                 /\ otp' = [otp EXCEPT ![e].expired = TRUE]
                 /\ UNCHANGED <<signup, issued, passed, owner, form>>

Register(f, e, c, n) == /\ form[f] = Idle
                        /\ signup
                        /\ To(f, [st |-> "given", email |-> e, code |-> c, otp |-> n])
                        /\ UNCHANGED <<signup, otp, issued, passed, owner>>

(* Comparing the code and forgetting it take place without a break. A code *)
(* that does not match stays.                                              *)
KeepOtp(e) == otp        \* mutant of ForgetOtp: it is forgotten after the look-ups only
ForgetOtp(e) == [otp EXCEPT ![e] = NoOtp]
VerifyOtp(f) ==
  /\ form[f].st = "given"
  /\ LET e == form[f].email IN
     \/ /\ otp[e].n # 0 /\ ~otp[e].expired /\ otp[e].n = form[f].otp
        /\ otp' = ForgetOtp(e)
        /\ passed' = [passed EXCEPT ![form[f].otp] = @ + 1]
        /\ To(f, [form[f] EXCEPT !.st = "verified"])
     \/ /\ otp[e].n = 0 \/ otp[e].expired
        /\ otp' = [otp EXCEPT ![e] = NoOtp]
        /\ To(f, Idle) /\ UNCHANGED passed
     \/ /\ otp[e].n # 0 /\ ~otp[e].expired /\ otp[e].n # form[f].otp
        /\ To(f, Idle) /\ UNCHANGED <<otp, passed>>
  /\ UNCHANGED <<signup, issued, owner>>

(* The address and the code are free; what is kept for the address is      *)
(* forgotten again, also a code that was issued since.                     *)
CheckFree(f) == /\ form[f].st = "verified"
                /\ ~HasAccount(form[f].email)
                /\ owner[form[f].code] = Nobody
                /\ otp' = [otp EXCEPT ![form[f].email] = NoOtp]
                /\ To(f, [form[f] EXCEPT !.st = "free"])
                /\ UNCHANGED <<signup, issued, passed, owner>>

(* The unique columns refuse a code or an address that was taken since,    *)
(* and everything is rolled back.                                          *)
CreateStore(f) == /\ form[f].st = "free"
                  /\ owner[form[f].code] = Nobody
                  /\ ~HasAccount(form[f].email)
                  /\ owner' = [owner EXCEPT ![form[f].code] = form[f].email]
                  /\ To(f, Idle)
                  /\ UNCHANGED <<signup, otp, issued, passed>>
GiveUp(f) == /\ form[f] # Idle
             /\ To(f, Idle)
             /\ UNCHANGED <<signup, otp, issued, passed, owner>>

SetSignup(on) == signup' = on /\ UNCHANGED <<otp, issued, passed, owner, form>>
Restart == /\ otp' = [e \in Email |-> NoOtp]
           /\ form' = [f \in Form |-> Idle]
           /\ UNCHANGED <<signup, issued, passed, owner>>

Step(f) == \/ \E e \in Email : SendOtpRead(f, e)
           \/ SendRegisterOtp(f)
           \/ \E e \in Email, c \in StoreCode, n \in Otp : Register(f, e, c, n)
           \/ VerifyOtp(f)
           \/ CheckFree(f)
           \/ CreateStore(f)
           \/ GiveUp(f)
Next == \/ \E f \in Form : Step(f)
        \/ \E e \in Email : OtpExpires(e)
        \/ \E on \in BOOLEAN : SetSignup(on)
        \/ Restart

Spec == Init /\ [][Next]_vars

-----------------------------------------------------------------------------
(* A code lets one registration pass, however many requests give it at the *)
(* same time, and there is no more than one store to an address.           *)
OtpOnce == /\ \A n \in Otp : passed[n] <= 1
           /\ \A c, d \in StoreCode : owner[c] = owner[d] => c = d \/ owner[c] = Nobody
           /\ Cardinality({c \in StoreCode : owner[c] # Nobody}) <= issued
=============================================================================
