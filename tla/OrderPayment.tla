----------------------------- MODULE OrderPayment -----------------------------
(***************************************************************************)
(* One order and the payment that activates it: paid in full (PREPAID), or *)
(* its delivery fee paid online first (PAY_AT_HANDOVER).  Meeting on them:  *)
(*   - PaymentService: initializeOrder, webhook, verifyByReference and      *)
(*     confirmPayment, refundDeliveryFee;                                   *)
(*   - OrderService: cancelCustomerOrder, expireUnpaidOrders;               *)
(*   - PodService.decide and AdminOrdersController.cancel;                  *)
(*   - FulfilmentService.consumeApprovedOrder, run from the outbox.         *)
(* A transaction is one step; every await outside one ends a step, and what *)
(* was read before it is remembered in seen.                                *)
(***************************************************************************)
EXTENDS Naturals, FiniteSets

CONSTANTS Method,      \* commercePaymentMethod
          Webhooks,    \* deliveries of the provider's charge.success
          Polls,       \* status requests and reconcile-payments ticks
          Payers,      \* requests to initialize the payment
          Admins,      \* requests to AdminOrdersController.cancel
          Operators,   \* requests to PodService.decide
          Workers,     \* outbox consumers of ORDER_APPROVED_FOR_FULFILMENT
          MaxCrashes   \* bound: requests that die, and restorations that throw

ASSUME MethodAssumption == Method \in {"PREPAID", "PAY_AT_HANDOVER"}
ASSUME CrashAssumption == MaxCrashes \in Nat
ASSUME ProcsAssumption == \* a request is of one kind
  /\ Webhooks \cap (Polls \cup Payers \cup Admins \cup Operators \cup Workers) = {}
  /\ Polls \cap (Payers \cup Admins \cup Operators \cup Workers) = {}
  /\ Payers \cap (Admins \cup Operators \cup Workers) = {}
  /\ Admins \cap (Operators \cup Workers) = {} /\ Operators \cap Workers = {}

Prepaid == Method = "PREPAID"
Confirmers == Webhooks \cup Polls
Staff == Admins \cup Operators
Procs == Confirmers \cup Payers \cup Staff \cup Workers

VARIABLES
  (* the order: commerceStatus, commercePaymentStatus; its sourcing task *)
  ordStatus, ordPay, task,
  (* the payment: commerceStatus, refundedAmount = amountMinor *)
  payStatus, reserved,
  (* the provider: the link is out, the charge was made, refunds made *)
  linked, charged, refunds,
  (* the customer's ledger: earn:, earn-reversal:, refund: of this order *)
  earned, reversed, creditBack,
  (* outbox events; an open IntegrationException; the webhook is processed *)
  events, exception, webhookDone,
  (* requests *)
  pc, seen, crashes

orderVars == <<ordStatus, ordPay, task>>
payVars == <<payStatus, reserved>>
providerVars == <<linked, charged, refunds>>
ledgerVars == <<earned, reversed, creditBack>>
recordVars == <<events, exception, webhookDone>>
vars == <<orderVars, payVars, providerVars, ledgerVars, recordVars, pc, seen, crashes>>

Unpaid == IF Prepaid THEN "AWAITING_PAYMENT" ELSE "AWAITING_DELIVERY_FEE"
OrderStatuses == {Unpaid, "APPROVED", "IN_FULFILMENT", "CANCELLED"} \cup (IF Prepaid THEN {} ELSE {"REVIEW"})
OrderPays == {"PROCESSING"} \cup (IF Prepaid THEN {"PENDING", "CONFIRMED"} ELSE {"DUE_AT_HANDOVER"})
PayStatuses == {"PENDING", "PROCESSING", "CONFIRMED"} \cup (IF Prepaid THEN {} ELSE {"REFUNDED"})
Steps == {"idle", "verified", "read", "confirmed", "initialize", "cancel", "restore", "decide",
          "feeRead", "feeReserve", "feeCall", "feeSettle", "stopTask", "tasks", "advance"}

TypeOK ==
  /\ ordStatus \in OrderStatuses /\ ordPay \in OrderPays
  /\ task \in {"none", "live", "cancelled"}
  /\ payStatus \in PayStatuses /\ reserved \in BOOLEAN
  /\ linked \in BOOLEAN /\ charged \in BOOLEAN /\ refunds \in Nat
  /\ earned \in BOOLEAN /\ reversed \in BOOLEAN /\ creditBack \in BOOLEAN
  /\ events \in SUBSET {"ORDER_APPROVED", "PAYMENT_CONFIRMED"}
  /\ exception \in BOOLEAN /\ webhookDone \in BOOLEAN
  /\ pc \in [Procs -> Steps]
  /\ seen \in [Procs -> OrderStatuses \cup {"none"}]
  /\ crashes \in Nat

Init ==
  /\ ordStatus = Unpaid /\ task = "none"
  /\ ordPay = IF Prepaid THEN "PENDING" ELSE "DUE_AT_HANDOVER"
  /\ payStatus = "PENDING" /\ reserved = FALSE
  /\ linked = FALSE /\ charged = FALSE /\ refunds = 0
  /\ earned = FALSE /\ reversed = FALSE /\ creditBack = FALSE
  /\ events = {} /\ exception = FALSE /\ webhookDone = FALSE
  /\ pc = [p \in Procs |-> "idle"] /\ seen = [p \in Procs |-> "none"]
  /\ crashes = 0

-----------------------------------------------------------------------------
(* Requests.                                                               *)

data == <<orderVars, payVars, providerVars, ledgerVars, recordVars>>

Goto(p, from, to) == pc[p] = from /\ pc' = [pc EXCEPT ![p] = to] /\ UNCHANGED <<seen, crashes>>

\* Reads the order and remembers its commerceStatus.
ReadOrder(p, from, to) ==
  /\ pc[p] = from
  /\ pc' = [pc EXCEPT ![p] = to] /\ seen' = [seen EXCEPT ![p] = ordStatus]
  /\ UNCHANGED <<data, crashes>>

Done(p, from) ==
  /\ pc[p] = from
  /\ pc' = [pc EXCEPT ![p] = "idle"] /\ seen' = [seen EXCEPT ![p] = "none"]
  /\ UNCHANGED crashes

Crash(p) ==
  /\ pc[p] # "idle" /\ crashes < MaxCrashes
  /\ pc' = [pc EXCEPT ![p] = "idle"] /\ seen' = [seen EXCEPT ![p] = "none"]
  /\ crashes' = crashes + 1
  /\ UNCHANGED data

-----------------------------------------------------------------------------
(* Initializing, and the customer on the provider's page.                  *)

StartInitialize(p) ==
  /\ IF Prepaid THEN ordPay # "CONFIRMED" /\ ordStatus # "CANCELLED"
                ELSE ordStatus = "AWAITING_DELIVERY_FEE"
  /\ ~(linked /\ payStatus = "PROCESSING")
  /\ Goto(p, "idle", "initialize")
  /\ UNCHANGED data

InitializeIf(p, unconfirmed) ==
  /\ IF unconfirmed
       THEN /\ payStatus' = "PROCESSING"
            /\ ordPay' = IF ordPay = "CONFIRMED" THEN ordPay ELSE "PROCESSING"
            /\ linked' = TRUE
       ELSE UNCHANGED <<payStatus, ordPay, linked>>
  /\ Done(p, "initialize")
  /\ UNCHANGED <<ordStatus, task, reserved, charged, refunds, ledgerVars, recordVars>>

\* Mutant: the transaction does not look at what the payment has become.
InitializeBlindly(p) == InitializeIf(p, TRUE)

Initialize(p) == InitializeIf(p, payStatus # "CONFIRMED")

CustomerPays ==
  /\ linked /\ ~charged
  /\ charged' = TRUE
  /\ UNCHANGED <<orderVars, payVars, linked, refunds, ledgerVars, recordVars, pc, seen, crashes>>

-----------------------------------------------------------------------------
(* Confirming.                                                             *)

VerifyIf(c, wanted) ==
  /\ wanted
  /\ charged /\ refunds = 0
  /\ Goto(c, "idle", "verified")
  /\ UNCHANGED data

\* Mutant: the job looks for payments that were never initialized.
VerifyPending(c) == VerifyIf(c, IF c \in Webhooks THEN ~webhookDone ELSE payStatus = "PENDING")

\* The provider is asked; it answers success for a charge not yet refunded.
Verify(c) == VerifyIf(c, IF c \in Webhooks THEN ~webhookDone ELSE payStatus = "PROCESSING")

\* A charge that was refunded is not a success: the webhook fails, and says so.
VerifyRefused(c) ==
  /\ c \in Webhooks /\ pc[c] = "idle" /\ ~webhookDone
  /\ refunds > 0
  /\ exception' = TRUE
  /\ UNCHANGED <<orderVars, payVars, providerVars, ledgerVars, events, webhookDone, pc, seen, crashes>>

ReadForConfirm(c) == ReadOrder(c, "verified", "read")

Confirmed(c) == IF c \in Webhooks THEN Goto(c, "read", "confirmed") ELSE Done(c, "read")

\* confirmPayment's transaction for a prepaid order.
ConfirmPrepaidIf(c, activate) ==
  /\ Prepaid
  /\ payStatus' = "CONFIRMED"
  /\ IF activate
       THEN ordPay' = "CONFIRMED" /\ ordStatus' = "APPROVED"
       ELSE UNCHANGED <<ordPay, ordStatus>>
  /\ IF ~activate /\ seen[c] = "CANCELLED"
       THEN exception' = TRUE /\ UNCHANGED <<earned, events>>
       ELSE /\ UNCHANGED exception
            /\ IF activate \/ payStatus # "CONFIRMED"
                 THEN earned' = TRUE /\ events' = {"ORDER_APPROVED", "PAYMENT_CONFIRMED"}
                 ELSE UNCHANGED <<earned, events>>
  /\ Confirmed(c)
  /\ UNCHANGED <<task, reserved, providerVars, reversed, creditBack, webhookDone>>

\* Mutant: a cancelled order is not excluded.
ConfirmReviving(c) == ConfirmPrepaidIf(c, ordPay # "CONFIRMED")

ConfirmPrepaid(c) == ConfirmPrepaidIf(c, ordPay # "CONFIRMED" /\ ordStatus # "CANCELLED")

\* ... and for a delivery fee.
ConfirmFeeAs(c, status, pay, emitted) ==
  /\ ~Prepaid
  /\ payStatus' = "CONFIRMED"
  /\ IF payStatus # "CONFIRMED" /\ ordStatus = "AWAITING_DELIVERY_FEE"
       THEN ordStatus' = status /\ ordPay' = pay /\ events' = events \cup emitted
       ELSE UNCHANGED <<ordStatus, ordPay, events>>
  /\ Confirmed(c)
  /\ UNCHANGED <<task, reserved, providerVars, ledgerVars, exception, webhookDone>>

Reviewed(autoApprove) == IF autoApprove THEN "APPROVED" ELSE "REVIEW"

FeeEvents(autoApprove) ==
  {"PAYMENT_CONFIRMED"} \cup (IF autoApprove THEN {"ORDER_APPROVED"} ELSE {})

ConfirmFee(c, autoApprove) ==
  ConfirmFeeAs(c, Reviewed(autoApprove), "DUE_AT_HANDOVER", FeeEvents(autoApprove))

MarkProcessed(c) ==
  /\ webhookDone' = TRUE
  /\ Done(c, "confirmed")
  /\ UNCHANGED <<orderVars, payVars, providerVars, ledgerVars, events, exception>>

-----------------------------------------------------------------------------
(* Cancelling.                                                             *)

\* restoreOrderIncentives: keyed entries, so a second run adds nothing.
Restore == /\ creditBack' = TRUE
           /\ reversed' = (reversed \/ earned)
           /\ UNCHANGED earned

CancelUnpaid ==
  /\ ordStatus' = "CANCELLED"
  /\ Restore
  /\ UNCHANGED <<ordPay, task, payVars, providerVars, recordVars, pc, seen, crashes>>

CancelCustomerOrder == ordStatus = Unpaid /\ ordPay # "CONFIRMED" /\ CancelUnpaid

ExpireUnpaidOrder ==
  /\ Prepaid /\ ordStatus = "AWAITING_PAYMENT" /\ ordPay \notin {"CONFIRMED", "PROCESSING"}
  /\ CancelUnpaid

\* AdminOrdersController.cancel: checked on the copy, saved without a guard.
StartAdminCancel(p) ==
  /\ ordStatus # "CANCELLED" /\ ordPay # "CONFIRMED"
  /\ Goto(p, "idle", "cancel")
  /\ UNCHANGED data

AdminCancelSave(p) ==
  /\ ordStatus' = "CANCELLED"
  /\ Goto(p, "cancel", "restore")
  /\ UNCHANGED <<ordPay, task, payVars, providerVars, ledgerVars, recordVars>>

AfterRestore(p) == Goto(p, "restore", IF Prepaid THEN "stopTask" ELSE "feeRead")

\* Mutant: what the order used is not given back.
AdminSkipRestore(p) == AfterRestore(p) /\ UNCHANGED data

AdminRestore(p) ==
  /\ Restore
  /\ AfterRestore(p)
  /\ UNCHANGED <<orderVars, payVars, providerVars, recordVars>>

\* Outside a transaction a restoration that throws is logged, and that is all.
RestoreFails(p) ==
  /\ crashes < MaxCrashes
  /\ pc[p] = "restore"
  /\ pc' = [pc EXCEPT ![p] = IF Prepaid THEN "stopTask" ELSE "feeRead"]
  /\ crashes' = crashes + 1
  /\ UNCHANGED <<data, seen>>

StopTask(p) ==
  /\ task' = IF task = "live" THEN "cancelled" ELSE task
  /\ Done(p, "stopTask")
  /\ UNCHANGED <<ordStatus, ordPay, payVars, providerVars, ledgerVars, recordVars>>

\* PodService.decide, guarded on the status it read.
StartDecide(p) == ordStatus = "REVIEW" /\ ReadOrder(p, "idle", "decide")

\* A paid fee rules PREPAYMENT_REQUIRED out for every reviewed order.  The
\* update of the payment picks the order's first one, which is a group's.
Approve(p) ==
  /\ IF ordStatus = seen[p]
       THEN /\ ordStatus' = "APPROVED" /\ ordPay' = "DUE_AT_HANDOVER"
            /\ events' = events \cup {"ORDER_APPROVED"}
       ELSE UNCHANGED <<ordStatus, ordPay, events>>
  /\ Done(p, "decide")
  /\ UNCHANGED <<task, payVars, providerVars, ledgerVars, exception, webhookDone>>

Decline(p) ==
  /\ IF ordStatus = seen[p]
       THEN /\ ordStatus' = "CANCELLED" /\ Restore
            /\ Goto(p, "decide", "feeRead")
       ELSE UNCHANGED <<ordStatus, ledgerVars>> /\ Done(p, "decide")
  /\ UNCHANGED <<ordPay, task, payVars, providerVars, recordVars>>

-----------------------------------------------------------------------------
(* refundDeliveryFee and, in it, PaymentService.refund.                    *)

\* decide ends here; an administrator's cancellation goes on to the tasks.
AfterFee(p, from) == IF p \in Operators THEN Done(p, from) ELSE Goto(p, from, "stopTask")

FeeRead(p) ==
  /\ IF payStatus = "CONFIRMED" /\ ~reserved THEN Goto(p, "feeRead", "feeReserve")
                                            ELSE AfterFee(p, "feeRead")
  /\ UNCHANGED <<orderVars, payVars, providerVars, ledgerVars, recordVars>>

FeeReserveIf(p, free) ==
  /\ IF free THEN reserved' = TRUE /\ Goto(p, "feeReserve", "feeCall")
             ELSE UNCHANGED reserved /\ AfterFee(p, "feeReserve")
  /\ UNCHANGED <<orderVars, payStatus, providerVars, ledgerVars, recordVars>>

\* Mutant: the reservation does not compare with the captured amount.
FeeReserveUnguarded(p) == FeeReserveIf(p, TRUE)

FeeReserve(p) == FeeReserveIf(p, ~reserved)

\* The provider refunds and says so, refuses, or its answer is lost.
FeeCall(p) ==
  /\ \/ /\ refunds' = refunds + 1 /\ UNCHANGED reserved
        /\ Goto(p, "feeCall", "feeSettle") \/ AfterFee(p, "feeCall")
     \/ /\ reserved' \in {reserved, FALSE} /\ UNCHANGED refunds
        /\ AfterFee(p, "feeCall")
  /\ UNCHANGED <<orderVars, payStatus, linked, charged, ledgerVars, recordVars>>

FeeSettle(p) ==
  /\ payStatus' = "REFUNDED"
  /\ AfterFee(p, "feeSettle")
  /\ UNCHANGED <<orderVars, reserved, providerVars, ledgerVars, recordVars>>

-----------------------------------------------------------------------------
(* consumeApprovedOrder.                                                   *)

StartConsume(w) ==
  /\ "ORDER_APPROVED" \in events
  /\ ordStatus \in {"APPROVED", "IN_FULFILMENT"}
  /\ Goto(w, "idle", "tasks")
  /\ UNCHANGED data

CreateTasks(w) ==
  /\ task' = IF task = "none" THEN "live" ELSE task
  /\ Goto(w, "tasks", "advance")
  /\ UNCHANGED <<ordStatus, ordPay, payVars, providerVars, ledgerVars, recordVars>>

AdvanceIf(w, approved) ==
  /\ ordStatus' = IF approved THEN "IN_FULFILMENT" ELSE ordStatus
  /\ Done(w, "advance")
  /\ UNCHANGED <<ordPay, task, payVars, providerVars, ledgerVars, recordVars>>

Advance(w) == AdvanceIf(w, ordStatus = "APPROVED")

-----------------------------------------------------------------------------
ConfirmStep(c) == \/ ReadForConfirm(c) \/ ConfirmPrepaid(c)
                  \/ \E autoApprove \in BOOLEAN : ConfirmFee(c, autoApprove)
                  \/ MarkProcessed(c)

AdminStep(p) == AdminCancelSave(p) \/ AdminRestore(p) \/ StopTask(p)

FeeStep(p) == FeeRead(p) \/ FeeReserve(p) \/ FeeCall(p) \/ FeeSettle(p)

Next ==
  \/ CustomerPays \/ CancelCustomerOrder \/ ExpireUnpaidOrder
  \/ \E p \in Payers : StartInitialize(p) \/ Initialize(p)
  \/ \E c \in Confirmers : Verify(c) \/ VerifyRefused(c) \/ ConfirmStep(c)
  \/ \E p \in Admins : StartAdminCancel(p) \/ RestoreFails(p) \/ AdminStep(p)
  \/ \E p \in Operators : StartDecide(p) \/ Approve(p) \/ Decline(p)
  \/ \E p \in Staff : FeeStep(p)
  \/ \E w \in Workers : StartConsume(w) \/ CreateTasks(w) \/ Advance(w)
  \/ \E p \in Procs : Crash(p)

\* reconcile-payments comes round to a payment that is still PROCESSING; the
\* outbox redelivers; a request that runs goes on.
Fairness ==
  /\ \A c \in Polls : WF_vars(Verify(c))
  /\ \A c \in Confirmers : WF_vars(ConfirmStep(c))
  /\ \A w \in Workers : WF_vars(StartConsume(w)) /\ WF_vars(CreateTasks(w) \/ Advance(w))
  /\ \A p \in Admins : WF_vars(AdminStep(p))
  /\ \A p \in Staff : WF_vars(FeeStep(p))

Spec == Init /\ [][Next]_vars
FairSpec == Spec /\ Fairness
-----------------------------------------------------------------------------
(* Properties.                                                             *)

Cancelled == ordStatus = "CANCELLED"
Standing == ordStatus \in {"APPROVED", "IN_FULFILMENT"}

\* "A cancelled order must never be brought back to life by a payment that
\* lands late" (payment.service.ts:569), nor by an operator's decision or an
\* outbox event that was read before the cancellation.
CancelledIsFinal == [][Cancelled => ordStatus' = "CANCELLED"]_vars

\* A confirmation is only ever left for a refund: a request to initialize that
\* was on its way "can't overwrite" it (payment.service.ts:160).
ConfirmationNotOverwritten ==
  [][payStatus = "CONFIRMED" => payStatus' \in {"CONFIRMED", "REFUNDED"}]_vars

\* The order says it is paid only if its payment says so, whatever the order in
\* which initialize, webhook, poll and cancellation met.
PaidTogether ==
  /\ ordPay = "CONFIRMED" => payStatus = "CONFIRMED"
  /\ Prepaid /\ Standing => ordPay = "CONFIRMED"

\* An order is approved only together with the event that starts fulfilment
\* (pod.service.ts:150), on each of the three paths that approve.
ApprovedHasEvent == Standing => "ORDER_APPROVED" \in events

\* The delivery fee goes back at most once, however many cancel or decline,
\* die or are refused meanwhile (refundDeliveryFee is "safe to call twice").
FeeRefundedOnce == refunds <= 1

\* What the order says and the money agree: both of these, whatever raced.
MoneyAgrees == PaidTogether /\ FeeRefundedOnce

\* A cancelled order's credit is back, or an administrator is about to give it
\* back (order-restoration.service.ts:11-26), whoever cancelled and whatever
\* raced it, as long as no request died and no restoration threw.
CreditsReturned == crashes = 0 =>
  (Cancelled => creditBack \/ \E p \in Admins : pc[p] = "restore")

\* What was charged is confirmed although no webhook comes (reconcileStalePayments).
PaidIsConfirmed == charged ~> payStatus \notin {"PENDING", "PROCESSING"}

-----------------------------------------------------------------------------
(* What comments say and the code does not do.                             *)

\* "The order was already cancelled when payment landed, so open a refund
\* exception for finance instead of silently keeping the money"
\* (payment.service.ts:583), for a payment that no administrator raced.
PaidCancelledIsRaised == Prepaid /\ Cancelled /\ payStatus = "CONFIRMED" => exception

\* The delivery fee is refunded "if the order is cancelled before dispatch"
\* (payment.service.ts:392): it does not stay confirmed on a cancelled order
\* that nobody is working on.
FeeNotKept ==
  Cancelled /\ payStatus = "CONFIRMED" /\ (\A p \in Procs : pc[p] = "idle") => exception \/ reserved

\* "A paid order must go through a refund, not a plain cancel"
\* (orders.controller.ts:266).
PaidIsNotCancelled == [][~Cancelled /\ ordStatus' = "CANCELLED" => ordPay # "CONFIRMED"]_vars

\* A refunded payment does not become a confirmed one again: confirmation is
\* "replay-safe against races" (payment.service.ts:439).
RefundIsKept == [][payStatus = "REFUNDED" => payStatus' = "REFUNDED"]_vars

\* "A live task must stop ... or they keep working an order that no longer
\* exists" (orders.controller.ts:292-293): once the cancellation is through.
CancelledHasNoTask ==
  Cancelled /\ (\A p \in Procs : pc[p] = "idle") => task # "live"
=============================================================================
