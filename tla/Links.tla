------------------------------- MODULE Links -------------------------------
(***************************************************************************)
(* How one payment is opened at a provider and found again                 *)
(* (PaymentLinkService, PaymentService.initialize, webhook, verifyAttempt,  *)
(* verifyByReference).  A customer makes links to the payment page, whoever *)
(* holds a link opens an attempt with a reference of its own, and the app   *)
(* may open the payment under its first reference, 0.  A link, and an       *)
(* attempt, has the number of the request that made it.  The order stays    *)
(* payable and the provider's amounts agree: OrderPayment and Sourcing      *)
(* have what a confirmation does to the order and to an item.               *)
(***************************************************************************)
EXTENDS Integers, FiniteSets

CONSTANTS
  PayRequests, \* numbers from 1
  MaxLapses    \* bound on the links and attempts that outlive their time

VARIABLES
  payment,  \* [topup, status, ref, url]: Payment, whose transactionRef is ref
  links,    \* [PayRequests -> status of PaymentLink, or none]
  attempts, \* [PayRequests -> PaymentAttempt: link, key, status, url]
  overdue,  \* the links and attempts past their expiresAt
  charge,   \* [references -> what the provider has: none, open, paid]
  event,    \* [references -> the webhook: none, sent, confirmed, processed, ignored]
  req       \* [PayRequests -> a request: op, at, link, ref, active]

linkVars == <<payment, links, attempts, overdue, charge, event, req>>

Refs == {0} \cup PayRequests
Usable == {"active", "processing"}
Dead == {"expired", "revoked", "cancelled"}
Active == {"initializing", "processing"}
NoAttempt == [link |-> 0, key |-> 0, status |-> "none", url |-> FALSE]
Idle(op) == [op |-> op, at |-> "start", link |-> 0, ref |-> 0, active |-> 0]

(* does[r] is what request r asks for; a replacement's first link makes the *)
(* payment                                                                  *)
Init(does) ==
  /\ payment = [topup  |-> does[1] = "topup", ref |-> 0, url |-> FALSE,
                status |-> IF does[1] = "topup" THEN "none" ELSE "PENDING"]
  /\ links = [r \in PayRequests |-> "none"]
  /\ attempts = [r \in PayRequests |-> NoAttempt]
  /\ overdue = {}
  /\ charge = [x \in Refs |-> "none"]
  /\ event = [x \in Refs |-> "none"]
  /\ req = [r \in PayRequests |-> Idle(does[r])]

Now(r, op, at) == req[r].op \in op /\ req[r].at = at
Goto(r, at) == req' = [req EXCEPT ![r] = [@ EXCEPT !.at = at]]
Done(r) == req' = [req EXCEPT ![r] = Idle("done")]
Confirmed == payment.status = "CONFIRMED"
Closed(s, to) == [l \in PayRequests |-> IF l \in s /\ links[l] \in Usable THEN to ELSE links[l]]

-----------------------------------------------------------------------------
(* PaymentLinkService.create and createForSubstitution                      *)
StartCreate(r) ==
  /\ Now(r, {"create", "topup"}, "start")
  /\ IF Confirmed THEN Done(r) ELSE Goto(r, IF payment.status = "none" THEN "payment" ELSE "revoke")
  /\ UNCHANGED <<payment, links, attempts, overdue, charge, event>>
(* itemResolutionId is unique: who is second gets an error                  *)
CreatePayment(r) ==
  /\ Now(r, {"topup"}, "payment")
  /\ IF payment.status = "none"
     THEN payment' = [payment EXCEPT !.status = "PENDING"] /\ Goto(r, "revoke")
     ELSE Done(r) /\ UNCHANGED payment
  /\ UNCHANGED <<links, attempts, overdue, charge, event>>
RevokeOthers(r) ==
  /\ Now(r, {"create", "topup"}, "revoke")
  /\ links' = Closed(PayRequests, "revoked") /\ Goto(r, "insert")
  /\ UNCHANGED <<payment, attempts, overdue, charge, event>>
InsertLink(r) ==
  /\ Now(r, {"create", "topup"}, "insert")
  /\ links' = [links EXCEPT ![r] = "active"] /\ Done(r)
  /\ UNCHANGED <<payment, attempts, overdue, charge, event>>

(* resolve: a link found past its time is closed, unless it was paid        *)
Resolved(l) == IF l \in overdue /\ links[l] \in Usable THEN "expired" ELSE links[l]
KeyOf(r) == IF req[r].op = "again" THEN 0 ELSE r
Same(r, l) == {a \in PayRequests : attempts[a].status # "none" /\ attempts[a].link = l /\ attempts[a].key = KeyOf(r)}

(* PaymentLinkService.initialize: one who comes back to an open checkout is *)
(* handed its address                                                       *)
StartInitialize(r, l) ==
  LET live == {a \in PayRequests \ overdue : attempts[a].status \in Active} IN
  /\ Now(r, {"open", "again"}, "start") /\ links[l] # "none"
  /\ links' = [links EXCEPT ![l] = Resolved(l)]
  /\ IF Resolved(l) \in Dead \/ Same(r, l) # {} \/ Confirmed
     THEN Done(r)
     ELSE \E a \in IF live = {} THEN {0} ELSE live :
            IF a # 0 /\ attempts[a].url THEN Done(r)
            ELSE req' = [req EXCEPT ![r] = [@ EXCEPT !.at = "retire", !.link = l, !.active = a]]
  /\ UNCHANGED <<payment, attempts, overdue, charge, event>>
(* an attempt without an address is dead weight; those past their time too  *)
Retire(r) ==
  /\ Now(r, {"open", "again"}, "retire")
  /\ attempts' = [a \in PayRequests |->
       IF a = req[r].active THEN [attempts[a] EXCEPT !.status = "cancelled"]
       ELSE IF a \in overdue /\ attempts[a].status \in Active THEN [attempts[a] EXCEPT !.status = "expired"]
       ELSE attempts[a]]
  /\ Goto(r, "attempt")
  /\ UNCHANGED <<payment, links, overdue, charge, event>>
InsertAttempt(r) ==
  /\ Now(r, {"open", "again"}, "attempt")
  /\ IF Same(r, req[r].link) # {}
     THEN Done(r) /\ UNCHANGED attempts
     ELSE /\ attempts' = [attempts EXCEPT ![r] =
               [link |-> req[r].link, key |-> KeyOf(r), status |-> "initializing", url |-> FALSE]]
          /\ req' = [req EXCEPT ![r] = [@ EXCEPT !.at = "call", !.ref = r]]
  /\ UNCHANGED <<payment, links, overdue, charge, event>>

(* provider.initialize; a reference is opened once, and an answer may be    *)
(* lost after the provider has opened it                                    *)
OpenCharge(r) ==
  /\ req[r].at = "call" /\ charge[req[r].ref] = "none"
  /\ charge' = [charge EXCEPT ![req[r].ref] = "open"] /\ Goto(r, "land")
  /\ UNCHANGED <<payment, links, attempts, overdue, event>>
OpenFails(r) ==
  /\ req[r].at \in {"call", "land"} /\ Goto(r, "failed")
  /\ UNCHANGED <<payment, links, attempts, overdue, charge, event>>

(* mutant: the payment is moved to PROCESSING whatever it has become        *)
LandIf(r, moved) ==
  /\ Now(r, {"open", "again"}, "land")
  /\ payment' = IF moved THEN [payment EXCEPT !.status = "PROCESSING", !.ref = r, !.url = TRUE] ELSE payment
  /\ attempts' = [attempts EXCEPT ![r] =
       IF moved THEN [@ EXCEPT !.status = "processing", !.url = TRUE] ELSE [@ EXCEPT !.status = "cancelled"]]
  /\ links' = IF moved THEN Closed({req[r].link}, "processing") ELSE links
  /\ Done(r) /\ UNCHANGED <<overdue, charge, event>>
LandBlindly(r) == LandIf(r, TRUE)
Land(r) == LandIf(r, ~Confirmed)
Fail(r) ==
  /\ Now(r, {"open", "again"}, "failed")
  /\ attempts' = [attempts EXCEPT ![r] = IF @.status = "initializing" THEN [@ EXCEPT !.status = "failed"] ELSE @]
  /\ links' = [links EXCEPT ![req[r].link] = IF @ = "processing" THEN "active" ELSE @]
  /\ Done(r) /\ UNCHANGED <<payment, overdue, charge, event>>

-----------------------------------------------------------------------------
(* PaymentService.initialize, under the reference the payment has           *)
StartDirect(r) ==
  /\ Now(r, {"direct"}, "start")
  /\ IF Confirmed \/ (payment.url /\ payment.status = "PROCESSING")
     THEN Done(r)
     ELSE req' = [req EXCEPT ![r] = [@ EXCEPT !.at = "call", !.ref = payment.ref]]
  /\ UNCHANGED <<payment, links, attempts, overdue, charge, event>>
LandDirect(r) ==
  /\ Now(r, {"direct"}, "land")
  /\ payment' = IF Confirmed THEN payment ELSE [payment EXCEPT !.status = "PROCESSING", !.url = TRUE]
  /\ Done(r) /\ UNCHANGED <<links, attempts, overdue, charge, event>>
FailDirect(r) ==
  /\ Now(r, {"direct"}, "failed") /\ Done(r)
  /\ UNCHANGED <<payment, links, attempts, overdue, charge, event>>

(* PaymentLinkService.revoke: the link is saved as it was read              *)
StartRevoke(r, l) ==
  /\ Now(r, {"revoke"}, "start") /\ links[l] # "none"
  /\ IF links[l] \in Dead \cup {"paid"} THEN Done(r)
     ELSE req' = [req EXCEPT ![r] = [@ EXCEPT !.at = "save", !.link = l]]
  /\ UNCHANGED <<payment, links, attempts, overdue, charge, event>>
SaveRevoked(r) ==
  /\ Now(r, {"revoke"}, "save")
  /\ links' = [links EXCEPT ![req[r].link] = "revoked"] /\ Goto(r, "attempts")
  /\ UNCHANGED <<payment, attempts, overdue, charge, event>>
CancelAttempts(r) ==
  /\ Now(r, {"revoke"}, "attempts")
  /\ attempts' = [a \in PayRequests |->
       IF attempts[a].link = req[r].link /\ attempts[a].status \in Active
       THEN [attempts[a] EXCEPT !.status = "cancelled"] ELSE attempts[a]]
  /\ Done(r) /\ UNCHANGED <<payment, links, overdue, charge, event>>

-----------------------------------------------------------------------------
(* time passes; the customer pays on a page of the provider that is open    *)
Lapse(x) ==
  /\ Cardinality(overdue) < MaxLapses /\ x \notin overdue
  /\ links[x] \in Usable \/ attempts[x].status \in Active
  /\ overdue' = overdue \cup {x}
  /\ UNCHANGED <<payment, links, attempts, charge, event, req>>
Pays(x) ==
  /\ charge[x] = "open"
  /\ charge' = [charge EXCEPT ![x] = "paid"] /\ event' = [event EXCEPT ![x] = "sent"]
  /\ UNCHANGED <<payment, links, attempts, overdue, req>>

(* confirmPayment and confirmSubstitutionPayment, of the payment and links  *)
ConfirmPayment ==
  /\ payment' = [payment EXCEPT !.status = "CONFIRMED"]
  /\ links' = IF Confirmed /\ payment.topup THEN links ELSE Closed(PayRequests, "paid")

(* PaymentService.webhook: the payment is found by the attempt of the       *)
(* reference, or has the reference itself                                   *)
(* mutant: only the payment's own reference is looked at                    *)
FoundByReference(x) == payment.ref = x
Found(x) == (x # 0 /\ attempts[x].status # "none") \/ payment.ref = x
Webhook(x) ==
  /\ event[x] = "sent" /\ Found(x)
  /\ ConfirmPayment /\ event' = [event EXCEPT ![x] = "confirmed"]
  /\ UNCHANGED <<attempts, overdue, charge, req>>
WebhookUnknown(x) ==
  /\ event[x] = "sent" /\ ~Found(x)
  /\ event' = [event EXCEPT ![x] = "ignored"]
  /\ UNCHANGED <<payment, links, attempts, overdue, charge, req>>
MarkConfirmed(x) == attempts' = IF x = 0 THEN attempts ELSE [attempts EXCEPT ![x] = [@ EXCEPT !.status = "confirmed"]]
WebhookProcessed(x) ==
  /\ event[x] = "confirmed"
  /\ MarkConfirmed(x) /\ event' = [event EXCEPT ![x] = "processed"]
  /\ UNCHANGED <<payment, links, overdue, charge, req>>
(* reconcileStalePayments and status: verifyByReference                     *)
VerifyByReference ==
  /\ payment.status = "PROCESSING" /\ charge[payment.ref] = "paid"
  /\ ConfirmPayment /\ MarkConfirmed(payment.ref)
  /\ UNCHANGED <<overdue, charge, event, req>>
(* PaymentLinkService.status: verifyAttempt of the link's latest attempt    *)
Newest(l) == LET of == {a \in PayRequests : attempts[a].status # "none" /\ attempts[a].link = l}
             IN {a \in of : \A b \in of : b <= a}
VerifyAttempt(l) ==
  /\ Resolved(l) \notin Dead \cup {"none"} /\ ~Confirmed
  /\ \E a \in Newest(l) : /\ attempts[a].status = "processing" /\ charge[a] = "paid"
                          /\ MarkConfirmed(a)
  /\ ConfirmPayment /\ UNCHANGED <<overdue, charge, event, req>>

-----------------------------------------------------------------------------
Handles(x) == Webhook(x) \/ WebhookUnknown(x) \/ WebhookProcessed(x)
Next ==
  \/ \E r \in PayRequests :
       \/ StartCreate(r) \/ CreatePayment(r) \/ RevokeOthers(r) \/ InsertLink(r)
       \/ \E l \in PayRequests : StartInitialize(r, l) \/ StartRevoke(r, l)
       \/ Retire(r) \/ InsertAttempt(r) \/ OpenCharge(r) \/ OpenFails(r) \/ Land(r) \/ Fail(r)
       \/ StartDirect(r) \/ LandDirect(r) \/ FailDirect(r)
       \/ SaveRevoked(r) \/ CancelAttempts(r)
  \/ \E x \in PayRequests : Lapse(x) \/ VerifyAttempt(x)
  \/ \E x \in Refs : Pays(x) \/ Handles(x)
  \/ VerifyByReference

(* the provider repeats a webhook until it is answered; the job of          *)
(* reconcileStalePayments runs every few minutes                            *)
Fairness ==
  /\ \A x \in Refs : WF_linkVars(Handles(x))
  /\ WF_linkVars(VerifyByReference)

-----------------------------------------------------------------------------
(* A payment that was confirmed while a provider was still being asked for  *)
(* a checkout is not taken back to PROCESSING by the answer.                *)
ConfirmedNeverReverts == [][Confirmed => payment'.status = "CONFIRMED"]_linkVars

(* What was paid under an attempt's reference confirms the payment, also    *)
(* when a later attempt has replaced the payment's own reference.           *)
AttemptPaidIsConfirmed == []<>((\E x \in PayRequests : charge[x] = "paid") => Confirmed)

(* The same of the reference the app opened the payment under.              *)
FirstPaidIsConfirmed == []<>(charge[0] = "paid" => Confirmed)
(* The reference a refund will name is one that was paid.                   *)
RefundableReference == Confirmed => charge[payment.ref] = "paid"
(* The customer is charged once.                                            *)
ChargedOnce == Cardinality({x \in Refs : charge[x] = "paid"}) <= 1
(* A link that was paid stays so.                                           *)
PaidLinkStays == [][\A l \in PayRequests : links[l] = "paid" => links'[l] = "paid"]_linkVars
(* At most one link of the payment can be used.                             *)
OneUsableLink == Cardinality({l \in PayRequests : links[l] \in Usable}) <= 1
=============================================================================
