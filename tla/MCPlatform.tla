------------------------------ MODULE MCPlatform ------------------------------
(***************************************************************************)
(* Accounts and what surrounds a store, in parts that share no state, of   *)
(* which a behaviour is about one, part:                                   *)
(*   - the sessions and reset tokens of an account (Sessions, which this   *)
(*     module extends);                                                    *)
(*   - the owner o and two members of staff (Ownership);                   *)
(*   - two addresses that register for two stores (Registration);          *)
(*   - a support ticket, submissions of a lead, notifications of an event  *)
(*     and a platform setting, each for two requests at a time (Support,   *)
(*     Leads, Notifications, Settings);                                    *)
(*   - the payment keys of a store, of a server with two encryption keys,  *)
(*     and the pairings of two stores' scanners (PaymentConfig, Scanner).  *)
(***************************************************************************)
EXTENDS Sessions

CONSTANTS Request,               \* of a part, that may be under way together
          User, FirstOwner,      \* of the store that is handed over
          Email, StoreCode, MaxOtps,
          Key,                   \* encryption keys a server is started with
          Store, Code,           \* stores and their scanners' pairing codes
          MaxLeads, MaxSubmissions,
          Event, MaxRows,        \* that notifications are about; bound of those
          Value, Default,        \* of a platform setting
          MaxChanges

VARIABLES part,
          role, enabled, deed,
          signup, otp, issued, passed, owner, form,
          status, dated, unread, asked, work,
          lead, submitted, visit,
          rows, tab,
          setting, log, change,
          config, saved, key, entry,
          of, mem, file, expired, listening, unsaved, torn, phone

(* "nobody", which stands for an empty column, is no address and no store; *)
(* notifications of an event are not those of the system.                  *)
ASSUME PlatformAssumption ==
    /\ MaxOtps \in Nat /\ MaxLeads \in Nat /\ MaxSubmissions \in Nat
    /\ "nobody" \notin Email \cup Store
    /\ "sync-ready" \notin Event

Owners == INSTANCE Ownership WITH
    Caller <- Request, active <- enabled, call <- deed
SignUp == INSTANCE Registration WITH
    Form <- Request
Desk == INSTANCE Support WITH Clerk <- Request
Contact == INSTANCE Leads WITH Form <- Request, form <- visit
Bell == INSTANCE Notifications WITH Tab <- Request
Console == INSTANCE Settings WITH Admin <- Request, call <- change
Wallet == INSTANCE PaymentConfig WITH Owner <- Request, form <- entry
Pairing == INSTANCE Scanner WITH Session <- Code, Phone <- Request

store == <<role, enabled, deed>>
registration == <<signup, otp, issued, passed, owner, form>>
desk == <<status, dated, unread, asked, work>>
contact == <<lead, submitted, visit>>
bell == <<rows, tab>>
console == <<setting, log, change>>
wallet == <<config, saved, key, entry>>
pairing == <<of, mem, file, expired, listening, unsaved, torn, phone>>

Others(p) ==
    /\ IF p = "sessions" THEN TRUE ELSE UNCHANGED vars
    /\ IF p = "store" THEN TRUE ELSE UNCHANGED store
    /\ IF p = "registration" THEN TRUE ELSE UNCHANGED registration
    /\ IF p = "desk" THEN TRUE ELSE UNCHANGED desk
    /\ IF p = "contact" THEN TRUE ELSE UNCHANGED contact
    /\ IF p = "bell" THEN TRUE ELSE UNCHANGED bell
    /\ IF p = "console" THEN TRUE ELSE UNCHANGED console
    /\ IF p = "wallet" THEN TRUE ELSE UNCHANGED wallet
    /\ IF p = "pairing" THEN TRUE ELSE UNCHANGED pairing
Only(p, Action) == part = p /\ Action /\ Others(p) /\ UNCHANGED part

MCInit ==
    /\ part \in {"sessions", "store", "registration", "desk", "contact", "bell", "console",
                 "wallet", "pairing"}
    /\ Init /\ Owners!Init /\ SignUp!Init /\ Desk!Init /\ Contact!Init /\ Bell!Init
    /\ Console!Init /\ Pairing!Init
    /\ Wallet!Init /\ (part # "wallet" => key = CHOOSE k \in Key : TRUE)     \* any will do

MCNext ==
    \/ Only("sessions", Next)
    \/ Only("store", Owners!Next)
    \/ Only("registration", SignUp!Next)
    \/ Only("desk", Desk!Next)
    \/ Only("contact", Contact!Next)
    \/ Only("bell", Bell!Next)
    \/ Only("console", Console!Next)
    \/ Only("wallet", Wallet!Next)
    \/ Only("pairing", Pairing!Next)

MCVars == <<part, vars, store, registration, desk, contact, bell, console, wallet, pairing>>
MCSpec == MCInit /\ [][MCNext]_MCVars
-----------------------------------------------------------------------------
(* A registration code is used once, by whatever requests present it       *)
(* together, and an address gets one store.                                *)
CodesWorkOnce == SignUp!OtpOnce

(* A handover leaves the store with one owner, who is active.              *)
HandoverLeavesOneOwner == Owners!HandoverLeavesOneOwner

(* What the desks keep adds up when their users cross: a ticket is resolved*)
(* only by a call that was made after the store last wrote, every          *)
(* submission of a lead is counted, a notification is read once, and the   *)
(* history tells a setting's value.                                        *)
DeskKeepsRecords ==
    /\ Desk!RepliesReopen /\ Contact!SubmissionsCounted
    /\ Bell!ReadOnce /\ Console!HistoryTellsSetting

(* What a store sets up works: its payment keys are readable after every   *)
(* save, and it has one scanner pairing, also after a restart, unless the  *)
(* pairings could not be written.                                          *)
SetupHolds == Wallet!SaveLeavesReadable /\ Pairing!OneSessionPerStore /\ Pairing!RestartRestores
=============================================================================
