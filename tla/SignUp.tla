------------------------------- MODULE SignUp -------------------------------
(***************************************************************************)
(* One person comes to Hook with one email (AuthService): by a password     *)
(* and a code, by Google or Apple, by the older register(), or because a    *)
(* partner makes the account; and what they are granted on the way          *)
(* (CreditService, ReferralService, WaitlistService): the welcome bonus,    *)
(* the gift of the waitlist, the bonus of whoever referred them.            *)
(* Sessions of the portal and resets are in Accounts, spending in Checkout. *)
(***************************************************************************)
EXTENDS Naturals, Sequences, FiniteSets

CONSTANTS
  Visits,       \* numbers from 1: requests, each of one operation
  MaxMishaps    \* bound on crashes, failed writes and lapses together

VARIABLES
  account,   \* the User of the email: via (none: there is none), active, verified, status,
             \* and which operations opened it (history)
  sessions,  \* SignupSessions, oldest first: [token, verified]
  code,      \* [Visits -> Otp a request sent: none, live, used, expired], see Purpose
  entry,     \* WaitlistEntry of the email: made, gone, quiet, redeemed, pending, granted
  ledger,    \* CreditLedger of the two users: [key, type, amount]
  referral,  \* Referral of the person: none, pending, qualified
  rcode,     \* referralCode of the referrer: the request that made it, 0 none
  shown,     \* the codes the referrer was shown
  paid,      \* the person's orders with a successful payment
  mailed,    \* a broadcast reached the person
  visit,     \* [Visits -> a request: op, on, ref, at, the entry and the user it read]
  mishaps

signVars == <<account, sessions, code, entry, ledger, referral, rcode, shown, paid, mailed, visit, mishaps>>

NoUser == [via |-> "none", active |-> FALSE, verified |-> FALSE, status |-> "none", opened |-> {}]
NoEntry == [made |-> FALSE, gone |-> FALSE, quiet |-> FALSE, redeemed |-> FALSE, pending |-> 0, granted |-> FALSE]
Ask(op, on, ref) == [op |-> op, on |-> on, ref |-> ref, at |-> "start", seen |-> NoEntry, user |-> NoUser]

(* does[r]: the operation, the token, code, order or amount it is on, and   *)
(* the referral code it brings; joined: the email is on the waitlist        *)
Init(does, joined) ==
  /\ account = NoUser /\ sessions = <<>>
  /\ code = [r \in Visits |-> "none"]
  /\ entry = [NoEntry EXCEPT !.made = joined]
  /\ ledger = {} /\ referral = "none" /\ rcode = 0 /\ shown = {} /\ paid = {} /\ mailed = FALSE
  /\ visit = [r \in Visits |-> does[r]]
  /\ mishaps = 0

Now(r, ops, at) == visit[r].op \in ops /\ visit[r].at = at
Goto(r, at) == visit' = [visit EXCEPT ![r] = [@ EXCEPT !.at = at]]
Done(r) == Goto(r, "done")
WithUser(r, at) == visit' = [visit EXCEPT ![r] = [@ EXCEPT !.at = at, !.user = account]]
Session(t) == {s \in {sessions[i] : i \in 1..Len(sessions)} : s.token = t}
Without(t) == SelectSeq(sessions, LAMBDA s : s.token # t)
Recorded(key, type, amount) ==
  IF \E e \in ledger : e.key = key THEN ledger
  ELSE ledger \cup {[key |-> key, type |-> type, amount |-> amount]}
Has(type) == \E e \in ledger : e.type = type
(* what the grants and the waitlist keep, and what the account is made of   *)
credit == <<entry, ledger, referral, rcode, shown, paid, mailed>>
door == <<account, sessions, code>>

-----------------------------------------------------------------------------
(* startSignup: only the newest of earlier sessions is deleted              *)
ReadSignup(r) ==
  /\ Now(r, {"start"}, "start")
  /\ IF account.via # "none" THEN Done(r)
     ELSE visit' = [visit EXCEPT ![r] = [@ EXCEPT !.at = "drop",
            !.on = IF sessions = <<>> THEN 0 ELSE sessions[Len(sessions)].token]]
  /\ UNCHANGED <<door, credit, mishaps>>
DropPrevious(r) ==
  /\ Now(r, {"start"}, "drop") /\ sessions' = Without(visit[r].on) /\ Goto(r, "open")
  /\ UNCHANGED <<account, code, credit, mishaps>>
OpenSession(r) ==
  /\ Now(r, {"start"}, "open")
  /\ sessions' = Append(sessions, [token |-> r, verified |-> FALSE]) /\ Goto(r, "burn")
  /\ UNCHANGED <<account, code, credit, mishaps>>
(* createOtp: the codes before it of its purpose are used up, then one is   *)
(* added                                                                    *)
Purpose(r) == IF visit[r].op \in {"forgot", "reset"} THEN "password_reset" ELSE "email_verification"
BurnCodes(r) ==
  /\ visit[r].at = "burn"
  /\ code' = [c \in Visits |-> IF code[c] = "live" /\ Purpose(c) = Purpose(r) THEN "used" ELSE code[c]]
  /\ Goto(r, "code")
  /\ UNCHANGED <<account, sessions, credit, mishaps>>
SendCode(r) ==
  /\ visit[r].at = "code" /\ code' = [code EXCEPT ![r] = "live"] /\ Done(r)
  /\ UNCHANGED <<account, sessions, credit, mishaps>>
Resend(r) ==
  /\ Now(r, {"resend"}, "start")
  /\ Goto(r, IF \E s \in Session(visit[r].on) : ~s.verified THEN "burn" ELSE "done")
  /\ UNCHANGED <<door, credit, mishaps>>

RequestReset(r) ==
  /\ Now(r, {"forgot"}, "start") /\ Goto(r, IF account.via = "none" THEN "done" ELSE "burn")
  /\ UNCHANGED <<door, credit, mishaps>>

(* verifySignup, verifyOtp and resetPassword: the code and the user are     *)
(* found, then two writes go out side by side; the user that was read is    *)
(* written back whole                                                       *)
Proving == {"verify", "otp", "reset"}
Valid(r) ==
  /\ code[visit[r].ref] = "live" /\ Purpose(visit[r].ref) = Purpose(r)
  /\ IF visit[r].op = "verify" THEN Session(visit[r].on) # {} ELSE account.via # "none"
FindCode(r) ==
  /\ Now(r, Proving, "start") /\ WithUser(r, IF Valid(r) THEN "both" ELSE "done")
  /\ UNCHANGED <<door, credit, mishaps>>
Proven(r) == IF visit[r].op = "otp" THEN "grant" ELSE "done"
MarkUsed(r) ==
  /\ Now(r, Proving, "both") \/ Now(r, Proving, "mark")
  /\ code' = [code EXCEPT ![visit[r].ref] = "used"]
  /\ Goto(r, IF visit[r].at = "both" THEN "prove" ELSE Proven(r))
  /\ UNCHANGED <<account, sessions, credit, mishaps>>
VerifySession(r) ==
  /\ Now(r, {"verify"}, "both") \/ Now(r, {"verify"}, "prove")
  /\ sessions' = [i \in 1..Len(sessions) |->
       IF sessions[i].token = visit[r].on THEN [sessions[i] EXCEPT !.verified = TRUE] ELSE sessions[i]]
  /\ Goto(r, IF visit[r].at = "both" THEN "mark" ELSE "done")
  /\ UNCHANGED <<account, code, credit, mishaps>>
OpenWith(r, op, status) ==
  /\ Now(r, {op}, "both") \/ Now(r, {op}, "prove")
  /\ account' = [visit[r].user EXCEPT !.active = TRUE, !.verified = TRUE, !.status = status,
                                      !.opened = account.opened \cup {op}]
  /\ Goto(r, IF visit[r].at = "both" THEN "mark" ELSE Proven(r))
  /\ UNCHANGED <<sessions, code, credit, mishaps>>
ActivateAccount(r) == OpenWith(r, "otp", visit[r].user.status)
ResetPassword(r) == OpenWith(r, "reset", "active")

(* completeSignup, loginWithGoogle, loginWithApple, register, the partner's *)
(* createCustomer and the admin's create look for the account before they   *)
(* make it                                                                  *)
ReadComplete(r) ==
  /\ Now(r, {"complete"}, "start")
  /\ Goto(r, IF (\E s \in Session(visit[r].on) : s.verified) /\ account.via = "none" THEN "insert" ELSE "done")
  /\ UNCHANGED <<door, credit, mishaps>>
ReadProvider(r) ==
  /\ Now(r, {"google", "apple"}, "start")
  /\ WithUser(r, IF account.via = "none" THEN "insert"
                 ELSE IF account.active /\ account.status = "active" THEN "link" ELSE "done")
  /\ UNCHANGED <<door, credit, mishaps>>
LinkProvider(r) ==
  /\ Now(r, {"google", "apple"}, "link")
  /\ account' = [visit[r].user EXCEPT !.verified = TRUE, !.opened = account.opened] /\ Done(r)
  /\ UNCHANGED <<sessions, code, credit, mishaps>>
ReadRegister(r) ==
  /\ Now(r, {"register", "partner", "create"}, "start")
  /\ Goto(r, IF account.via = "none" THEN "insert" ELSE "done")
  /\ UNCHANGED <<door, credit, mishaps>>
(* what follows the insert; the email is unique: who is second gets an error*)
(* mutant: Apple's sign-in forgets the grants                               *)
AfterBut(op, granting) ==
  CASE op = "complete" -> "tidy"
    [] op \in granting -> "grant"
    [] op = "register" -> "burn"
    [] OTHER -> "done"
AfterForgetting(op) == AfterBut(op, {"google"})
After(op) == AfterBut(op, {"google", "apple"})
Insert(r, ops, active, verified, status) ==
  /\ Now(r, ops, "insert")
  /\ IF account.via # "none" THEN Done(r) /\ UNCHANGED account
     ELSE /\ account' = [via |-> visit[r].op, active |-> active, verified |-> verified, status |-> status,
                         opened |-> IF active THEN {visit[r].op} ELSE {}]
          /\ Goto(r, After(visit[r].op))
  /\ UNCHANGED <<sessions, code, credit, mishaps>>
InsertAccount(r) == Insert(r, {"complete"}, TRUE, TRUE, "active")
InsertProvider(r) == Insert(r, {"google", "apple"}, TRUE, TRUE, "active")
Register(r) == Insert(r, {"register"}, FALSE, FALSE, "active")
CreateCustomer(r) == Insert(r, {"partner"}, TRUE, FALSE, "pending_password")
CreateUser(r) == Insert(r, {"create"}, TRUE, TRUE, "active")
DeleteSession(r) ==
  /\ Now(r, {"complete"}, "tidy") /\ sessions' = Without(visit[r].on) /\ Goto(r, "grant")
  /\ UNCHANGED <<account, code, credit, mishaps>>

-----------------------------------------------------------------------------
(* grantWaitlistBonus, first part of grantWelcomeBonus                      *)
ReadEntry(r) ==
  /\ visit[r].at = "grant"
  /\ visit' = [visit EXCEPT ![r] = [@ EXCEPT !.seen = entry,
       !.at = IF ~entry.made \/ entry.gone THEN "welcome"
              ELSE IF entry.pending > 0 /\ ~entry.granted THEN "waitlist" ELSE "save"]]
  /\ UNCHANGED <<door, credit, mishaps>>
RecordWaitlist(r) ==
  /\ visit[r].at = "waitlist"
  /\ ledger' = Recorded("waitlist", "waitlist_bonus", visit[r].seen.pending)
  /\ visit' = [visit EXCEPT ![r] = [@ EXCEPT !.at = "save", !.seen = [@ EXCEPT !.granted = TRUE]]]
  /\ UNCHANGED <<door, entry, referral, rcode, shown, paid, mailed, mishaps>>
(* only what changed is written                                             *)
SaveEntry(r) ==
  /\ visit[r].at = "save"
  /\ entry' = [entry EXCEPT !.redeemed = TRUE, !.granted = @ \/ visit[r].seen.granted] /\ Goto(r, "welcome")
  /\ UNCHANGED <<door, ledger, referral, rcode, shown, paid, mailed, mishaps>>
(* grantWelcomeBonus: by type first, and under the key of the user          *)
ReadWelcome(r) ==
  /\ visit[r].at = "welcome"
  /\ Goto(r, IF Has("welcome_bonus") THEN "refer" ELSE "bonus")
  /\ UNCHANGED <<door, credit, mishaps>>
RecordWelcome(r) ==
  /\ visit[r].at = "bonus" /\ ledger' = Recorded("welcome", "welcome_bonus", 1) /\ Goto(r, "refer")
  /\ UNCHANGED <<door, entry, referral, rcode, shown, paid, mailed, mishaps>>
(* applyCode, for a code that is the referrer's now; a code does not reach  *)
(* verifyOtp, and googleLogin passes none on                                *)
ReadReferral(r) ==
  /\ visit[r].at = "refer"
  /\ Goto(r, IF visit[r].op \in {"complete", "apple"} /\ visit[r].ref # 0 /\ visit[r].ref = rcode /\ referral = "none"
             THEN "referral" ELSE "done")
  /\ UNCHANGED <<door, credit, mishaps>>
CreateReferral(r) ==
  /\ visit[r].at = "referral" /\ referral' = (IF referral = "none" THEN "pending" ELSE referral) /\ Done(r)
  /\ UNCHANGED <<door, entry, ledger, rcode, shown, paid, mailed, mishaps>>
(* the topup script, beside the running service: who has less than a        *)
(* welcome gets one                                                         *)
ReadBalance(r) ==
  /\ Now(r, {"topup"}, "start") /\ account.via # "none"
  /\ Goto(r, IF ledger = {} THEN "top" ELSE "done") /\ UNCHANGED <<door, credit, mishaps>>
TopUp(r) ==
  /\ Now(r, {"topup"}, "top") /\ ledger' = Recorded("welcome-topup", "welcome_bonus", 1) /\ Done(r) /\ UNCHANGED <<door, entry, referral, rcode, shown, paid, mailed, mishaps>>

(* ensureCode: a code is made where none was read                           *)
ReadCode(r) ==
  /\ Now(r, {"mint"}, "start")
  /\ IF rcode # 0 THEN shown' = shown \cup {rcode} /\ Done(r) ELSE UNCHANGED shown /\ Goto(r, "mint")
  /\ UNCHANGED <<door, entry, ledger, referral, rcode, paid, mailed, mishaps>>
SetCode(r) ==
  /\ Now(r, {"mint"}, "mint") /\ rcode' = r /\ shown' = shown \cup {r} /\ Done(r)
  /\ UNCHANGED <<door, entry, ledger, referral, paid, mailed, mishaps>>
(* the person pays an order, and the outbox delivers its effects, once or   *)
(* again: isFirstPaidOrder and qualify                                      *)
PayOrder(r) ==
  /\ Now(r, {"pay"}, "start") /\ account.via # "none"
  /\ paid' = paid \cup {visit[r].on} /\ Goto(r, "effects")
  /\ UNCHANGED <<door, entry, ledger, referral, rcode, shown, mailed, mishaps>>
Redeliver(r) ==
  /\ Now(r, {"redeliver"}, "start") /\ visit[r].on \in paid /\ Goto(r, "effects")
  /\ UNCHANGED <<door, credit, mishaps>>
First(o) == paid \ {o} = {}
ReadPending(r) ==
  /\ visit[r].at = "effects"
  /\ Goto(r, IF First(visit[r].on) /\ referral = "pending" THEN "claim" ELSE "done")
  /\ UNCHANGED <<door, credit, mishaps>>
ClaimReferral(r) ==
  /\ visit[r].at = "claim"
  /\ IF referral = "pending" THEN referral' = "qualified" /\ Goto(r, "reward") ELSE UNCHANGED referral /\ Done(r)
  /\ UNCHANGED <<door, entry, ledger, rcode, shown, paid, mailed, mishaps>>
RecordReward(r) ==
  /\ visit[r].at = "reward" /\ ledger' = Recorded("referral", "referral_bonus", 1) /\ Done(r)
  /\ UNCHANGED <<door, entry, referral, rcode, shown, paid, mailed, mishaps>>

-----------------------------------------------------------------------------
(* WaitlistService: join, unsubscribe, remove, broadcast, gift              *)
ReadJoin(r) ==
  /\ Now(r, {"join"}, "start") /\ Goto(r, IF entry.made THEN "done" ELSE "join")
  /\ UNCHANGED <<door, credit, mishaps>>
CreateEntry(r) ==
  /\ Now(r, {"join"}, "join") /\ entry' = [entry EXCEPT !.made = TRUE] /\ Done(r)
  /\ UNCHANGED <<door, ledger, referral, rcode, shown, paid, mailed, mishaps>>
Unsubscribe(r) ==
  /\ Now(r, {"unsubscribe"}, "start") /\ entry' = [entry EXCEPT !.quiet = @ \/ entry.made] /\ Done(r)
  /\ UNCHANGED <<door, ledger, referral, rcode, shown, paid, mailed, mishaps>>
Remove(r) ==
  /\ Now(r, {"remove"}, "start") /\ entry.made /\ entry' = [entry EXCEPT !.gone = TRUE] /\ Done(r)
  /\ UNCHANGED <<door, ledger, referral, rcode, shown, paid, mailed, mishaps>>
ReadTargets(r) ==
  /\ Now(r, {"broadcast"}, "start")
  /\ Goto(r, IF entry.made /\ ~entry.gone /\ ~entry.quiet THEN "mail" ELSE "done")
  /\ UNCHANGED <<door, credit, mishaps>>
Mail(r) ==
  /\ Now(r, {"broadcast"}, "mail") /\ mailed' = TRUE /\ Done(r)
  /\ UNCHANGED <<door, entry, ledger, referral, rcode, shown, paid, mishaps>>
(* gift: to the user the entry was redeemed by, or kept for the sign-up     *)
ReadGift(r) ==
  /\ Now(r, {"gift"}, "start")
  /\ Goto(r, IF ~entry.made \/ entry.gone \/ entry.granted THEN "done"
             ELSE IF entry.redeemed THEN "give" ELSE "keep")
  /\ UNCHANGED <<door, credit, mishaps>>
KeepGift(r) ==
  /\ Now(r, {"gift"}, "keep") /\ entry' = [entry EXCEPT !.pending = visit[r].on] /\ Done(r)
  /\ UNCHANGED <<door, ledger, referral, rcode, shown, paid, mailed, mishaps>>
(* mutant: a key of each request's own                                      *)
GiveUnder(r, key) ==
  /\ Now(r, {"gift"}, "give") /\ ledger' = Recorded(key, "waitlist_bonus", visit[r].on) /\ Goto(r, "given")
  /\ UNCHANGED <<door, entry, referral, rcode, shown, paid, mailed, mishaps>>
GiveAnew(r) == GiveUnder(r, IF r = 1 THEN "a gift" ELSE "another gift")
Give(r) == GiveUnder(r, "waitlist")
SaveGiven(r) ==
  /\ Now(r, {"gift"}, "given") /\ entry' = [entry EXCEPT !.granted = TRUE] /\ Done(r)
  /\ UNCHANGED <<door, ledger, referral, rcode, shown, paid, mailed, mishaps>>
(* users.giftCredit, under the key of the form                              *)
GiftCredit(r) ==
  /\ Now(r, {"admin"}, "start") /\ account.via # "none"
  /\ ledger' = Recorded("admin", "admin_adjustment", visit[r].on) /\ Done(r)
  /\ UNCHANGED <<door, entry, referral, rcode, shown, paid, mailed, mishaps>>

-----------------------------------------------------------------------------
(* the process stops, or a write fails: what is swallowed goes on behind    *)
(* the grant that failed                                                    *)
Crash(r) ==
  /\ visit[r].at \notin {"start", "done"} /\ mishaps < MaxMishaps
  /\ mishaps' = mishaps + 1 /\ Done(r) /\ UNCHANGED <<door, credit>>
Swallow(r) ==
  /\ visit[r].at \in {"waitlist", "save", "bonus"} /\ mishaps < MaxMishaps
  /\ mishaps' = mishaps + 1 /\ Goto(r, IF visit[r].at = "bonus" THEN "refer" ELSE "welcome")
  /\ UNCHANGED <<door, credit>>
LapseCode(c) ==
  /\ code[c] = "live" /\ mishaps < MaxMishaps /\ mishaps' = mishaps + 1
  /\ code' = [code EXCEPT ![c] = "expired"] /\ UNCHANGED <<account, sessions, credit, visit>>
LapseSession(t) ==
  /\ Session(t) # {} /\ mishaps < MaxMishaps /\ mishaps' = mishaps + 1
  /\ sessions' = Without(t) /\ UNCHANGED <<account, code, credit, visit>>

Next == \E r \in Visits :
  \/ ReadSignup(r) \/ DropPrevious(r) \/ OpenSession(r) \/ BurnCodes(r) \/ SendCode(r) \/ Resend(r)
  \/ RequestReset(r) \/ FindCode(r) \/ MarkUsed(r) \/ VerifySession(r) \/ ActivateAccount(r) \/ ResetPassword(r)
  \/ ReadComplete(r) \/ ReadProvider(r) \/ LinkProvider(r) \/ ReadRegister(r) \/ InsertAccount(r)
  \/ InsertProvider(r) \/ Register(r) \/ CreateCustomer(r) \/ CreateUser(r) \/ DeleteSession(r)
  \/ ReadEntry(r) \/ RecordWaitlist(r) \/ SaveEntry(r) \/ ReadWelcome(r) \/ RecordWelcome(r)
  \/ ReadReferral(r) \/ CreateReferral(r) \/ ReadBalance(r) \/ TopUp(r) \/ ReadCode(r) \/ SetCode(r)
  \/ PayOrder(r) \/ Redeliver(r) \/ ReadPending(r) \/ ClaimReferral(r) \/ RecordReward(r)
  \/ ReadJoin(r) \/ CreateEntry(r) \/ Unsubscribe(r) \/ Remove(r) \/ ReadTargets(r) \/ Mail(r)
  \/ ReadGift(r) \/ KeepGift(r) \/ Give(r) \/ SaveGiven(r) \/ GiftCredit(r)
  \/ Crash(r) \/ Swallow(r) \/ LapseCode(r) \/ LapseSession(r)

-----------------------------------------------------------------------------
Quiet == mishaps = 0 /\ \A r \in Visits : visit[r].at = "done"

(* The gift of the waitlist, the welcome and the bonus of a referral are    *)
(* credited at most once, though an admin's gift races the sign-up that     *)
(* redeems it, two doors race for the account, and effects are redelivered; *)
(* but for the welcome, once by the script beside once by a door.           *)
GrantedOnce ==
  \A type \in {"waitlist_bonus", "welcome_bonus", "referral_bonus"} :
    \A e, f \in ledger : e.type = type /\ f.type = type => e = f \/ {e.key, f.key} = {"welcome", "welcome-topup"}

(* Whichever of the four doors that grant opened the account, first or after*)
(* another, the person has the welcome bonus once every request has ended   *)
(* undisturbed: also when several raced for the account, when an admin's    *)
(* gift or the top-up came between, and when the password was reset while   *)
(* the code of register() was being verified.                               *)
Granting == {"complete", "google", "apple", "otp"}
EveryDoorWelcomes == (Quiet /\ account.opened \cap Granting # {}) => Has("welcome_bonus")

-----------------------------------------------------------------------------
(* Not so: a gift kept for the sign-up is credited when the account exists. *)
PendingIsGranted == (Quiet /\ account.active /\ entry.pending > 0 /\ ~entry.gone) => Has("waitlist_bonus")
(* Not so: an entry marked as granted was credited what the gift says.      *)
GiftIsCredited == \A r \in Visits : Now(r, {"gift"}, "done") /\ entry.granted /\ entry.pending = 0
                    => \E e \in ledger : e.type = "waitlist_bonus" /\ e.amount = visit[r].on
(* Not so: who was referred and has paid has earned the referrer the bonus. *)
FirstOrderQualifies == (Quiet /\ referral # "none" /\ paid # {}) => Has("referral_bonus")
(* Not so: a qualified referral is paid sooner or later.                    *)
QualifiedIsPaid == (referral = "qualified" /\ \A r \in Visits : visit[r].at = "done") => Has("referral_bonus")
(* Not so: a door that grants has welcomed, mishaps or not.                 *)
WelcomeIsGiven ==
  (account.opened \cap Granting # {} /\ \A r \in Visits : visit[r].at = "done") => Has("welcome_bonus")
(* Not so: register()'s account is welcomed however it became usable.       *)
ActivatedIsWelcomed == (Quiet /\ account.via = "register" /\ account.active) => Has("welcome_bonus")
(* Not so: the script tops nobody up who is being welcomed.                 *)
ToppedUpOrWelcomed == \A e, f \in ledger : e.type = "welcome_bonus" /\ f.type = "welcome_bonus" => e = f
(* Not so: an account whose password was set stays one.                     *)
ResetStays == [][account.status = "active" => account'.status = "active"]_signVars
(* Not so: a code the referrer was shown works.                             *)
ShownCodeWorks == shown \subseteq {rcode}
(* Not so: who joins the waitlist is on it.                                 *)
JoinedIsListed == \A r \in Visits : Now(r, {"join"}, "done") /\ mishaps = 0
                    => ~entry.gone \/ \E q \in Visits : Now(q, {"remove"}, "start")
(* Not so: one sign-up session of an email is alive.                        *)
OneLiveSession == Len(sessions) <= 1
(* Not so: one code of an email is alive.                                   *)
OneLiveCode == Cardinality({c \in Visits : code[c] = "live"}) <= 1
(* Not so: who has unsubscribed gets no broadcast.                          *)
QuietIsLeftAlone == [][mailed' = mailed \/ ~entry.quiet]_signVars
=============================================================================
