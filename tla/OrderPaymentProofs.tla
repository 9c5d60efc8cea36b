-------------------------- MODULE OrderPaymentProofs --------------------------
(***************************************************************************)
(* What OrderPayment guarantees for any number of requests, payment method *)
(* and crashes.  The invariant is inductive in four parts: the types, what *)
(* a request at a step knows, who holds the delivery fee's reservation,    *)
(* and what the order's state says of the payment and the outbox.  Then,   *)
(* what Links guarantees of the payment's status, what OrderDesk           *)
(* guarantees of a decision, an order's groups and its codes, what         *)
(* Network guarantees of the places and the addresses hook keeps, what     *)
(* Notices guarantees of who is told and how often, and what FieldForce    *)
(* guarantees of a market's staff.                                         *)
(***************************************************************************)
EXTENDS MCOrders, Operations, Integers, FiniteSetTheorems, SequenceTheorems, TLAPS

FeeSteps == {"feeRead", "feeReserve", "feeCall", "feeSettle"}

\* A decision acts on an order it read in review, and only a Pay on Delivery
\* order is reviewed or has a fee to refund.
StepInv ==
  /\ \A p \in Procs : pc[p] = "decide" => seen[p] = "REVIEW"
  /\ Prepaid => \A p \in Procs : pc[p] \notin FeeSteps \cup {"decide"}

\* One request at most is at the provider, holding the reservation, and only
\* before the refund; a refund that was made keeps it.
FeeInv ==
  /\ refunds <= 1
  /\ \A p \in Procs : pc[p] = "feeCall" => reserved /\ refunds = 0
  /\ \A p, q \in Procs : pc[p] = "feeCall" /\ pc[q] = "feeCall" => p = q
  /\ refunds = 1 => reserved

IInv == TypeOK /\ StepInv /\ FeeInv /\ PaidTogether /\ ApprovedHasEvent

USE DEF Prepaid, Unpaid, OrderStatuses, OrderPays, PayStatuses, Steps

-----------------------------------------------------------------------------
(* Steps of a request.                                                     *)

\* What is left of the invariant to show once a request moved to a step: the
\* bookkeeping of steps holds whatever the step, for these three ways to move.
LEMMA MoveTyped ==
  ASSUME TypeOK, NEW p \in Procs, NEW s \in Steps,
         pc' = [pc EXCEPT ![p] = s],
         \/ seen' = seen
         \/ seen' = [seen EXCEPT ![p] = "none"]
         \/ seen' = [seen EXCEPT ![p] = ordStatus]
  PROVE  pc' \in [Procs -> Steps] /\ seen' \in [Procs -> OrderStatuses \cup {"none"}]
BY DEF TypeOK

\* A request that goes nowhere near a decision or the fee disturbs neither.
LEMMA MoveKeeps ==
  ASSUME TypeOK, StepInv, FeeInv, NEW p \in Procs, NEW s \in Steps \ (FeeSteps \cup {"decide"}),
         pc' = [pc EXCEPT ![p] = s],
         \/ seen' = seen
         \/ seen' = [seen EXCEPT ![p] = "none"]
         \/ seen' = [seen EXCEPT ![p] = ordStatus],
         UNCHANGED <<reserved, refunds>>
  PROVE  StepInv' /\ FeeInv'
<1>1. \A q \in Procs : pc'[q] = (IF q = p THEN s ELSE pc[q]) BY DEF TypeOK
<1>2. \A q \in Procs : q # p => seen'[q] = seen[q] BY DEF TypeOK
<1>3. StepInv' BY <1>1, <1>2 DEF StepInv, FeeSteps
<1>4. FeeInv' BY <1>1 DEF FeeInv, FeeSteps
<1> QED BY <1>3, <1>4

-----------------------------------------------------------------------------
(* The invariant.                                                          *)

LEMMA InitIInv == Init => IInv
<1> SUFFICES ASSUME Init PROVE IInv
  OBVIOUS
<1>1. pc \in [Procs -> Steps] /\ seen \in [Procs -> OrderStatuses \cup {"none"}]
  BY DEF Init
<1>2. TypeOK BY <1>1, MethodAssumption DEF Init, TypeOK
<1>3. StepInv /\ FeeInv BY DEF Init, StepInv, FeeInv, FeeSteps
<1>4. PaidTogether /\ ApprovedHasEvent BY DEF Init, PaidTogether, ApprovedHasEvent, Standing
<1> QED BY <1>2, <1>3, <1>4 DEF IInv

\* The steps that touch neither the order's state nor the payment.
LEMMA QuietStep ==
  ASSUME IInv, NEW p \in Procs, NEW s \in Steps \ (FeeSteps \cup {"decide"}),
         pc' = [pc EXCEPT ![p] = s],
         \/ seen' = seen
         \/ seen' = [seen EXCEPT ![p] = "none"]
         \/ seen' = [seen EXCEPT ![p] = ordStatus],
         UNCHANGED <<orderVars, payVars, providerVars, ledgerVars, events>>,
         exception' \in BOOLEAN, webhookDone' \in BOOLEAN, crashes' \in Nat
  PROVE  IInv'
<1> USE DEF orderVars, payVars, providerVars, ledgerVars
<1>1. StepInv' /\ FeeInv' BY MoveKeeps DEF IInv
<1>2. pc' \in [Procs -> Steps] /\ seen' \in [Procs -> OrderStatuses \cup {"none"}]
  BY MoveTyped DEF IInv
<1>3. TypeOK' BY <1>2 DEF IInv, TypeOK
<1>4. PaidTogether' /\ ApprovedHasEvent' BY DEF IInv, PaidTogether, ApprovedHasEvent, Standing
<1> QED BY <1>1, <1>3, <1>4 DEF IInv

\* Requests that start, read, die or only file what they did.
LEMMA ReadingSteps ==
  ASSUME IInv, NEW p \in Procs,
         \/ StartInitialize(p) \/ Verify(p) \/ ReadForConfirm(p) \/ MarkProcessed(p)
         \/ StartAdminCancel(p) \/ StartConsume(p) \/ Crash(p)
  PROVE  IInv'
<1> USE DEF Goto, Done, ReadOrder, data, recordVars
<1> crashes \in Nat /\ exception \in BOOLEAN /\ webhookDone \in BOOLEAN BY DEF IInv, TypeOK
<1>1. CASE StartInitialize(p) BY <1>1, QuietStep DEF StartInitialize, FeeSteps
<1>2. CASE Verify(p) BY <1>2, QuietStep DEF Verify, VerifyIf, FeeSteps
<1>3. CASE ReadForConfirm(p) BY <1>3, QuietStep DEF ReadForConfirm, FeeSteps
<1>4. CASE MarkProcessed(p) BY <1>4, QuietStep DEF MarkProcessed, FeeSteps
<1>5. CASE StartAdminCancel(p) BY <1>5, QuietStep DEF StartAdminCancel, FeeSteps
<1>6. CASE StartConsume(p) BY <1>6, QuietStep DEF StartConsume, FeeSteps
<1>7. CASE Crash(p)
  <2>1. crashes' \in Nat BY <1>7 DEF Crash
  <2>2. pc' = [pc EXCEPT ![p] = "idle"] /\ seen' = [seen EXCEPT ![p] = "none"] /\ UNCHANGED data
    BY <1>7 DEF Crash
  <2> QED BY <2>1, <2>2, QuietStep DEF FeeSteps
<1> QED BY <1>1, <1>2, <1>3, <1>4, <1>5, <1>6, <1>7

\* Initializing leaves a confirmed payment, and so a paid order, alone.
LEMMA InitializeStep ==
  ASSUME IInv, NEW p \in Procs, Initialize(p) PROVE IInv'
<1> USE DEF Initialize, InitializeIf, Done, ledgerVars, recordVars
<1>1. pc' = [pc EXCEPT ![p] = "idle"] /\ seen' = [seen EXCEPT ![p] = "none"]
  BY DEF IInv
<1>2. StepInv' /\ FeeInv' BY <1>1, MoveKeeps DEF IInv, FeeSteps
<1>3. pc' \in [Procs -> Steps] /\ seen' \in [Procs -> OrderStatuses \cup {"none"}]
  BY <1>1, MoveTyped DEF IInv
<1>4. TypeOK'
  <2>1. ordPay' \in OrderPays /\ payStatus' \in PayStatuses /\ linked' \in BOOLEAN
    BY DEF IInv, TypeOK
  <2>2. crashes' = crashes BY DEF IInv
  <2>3. UNCHANGED <<ordStatus, task, reserved, charged, refunds, earned, reversed, creditBack, events, exception, webhookDone>>
    OBVIOUS
  <2> HIDE DEF Initialize
  <2> QED BY <1>3, <2>1, <2>2, <2>3 DEF IInv, TypeOK
<1>5. PaidTogether' /\ ApprovedHasEvent' BY DEF IInv, PaidTogether, ApprovedHasEvent, Standing
<1> QED BY <1>2, <1>4, <1>5 DEF IInv

\* A confirmation moves its request on, or ends it.
LEMMA ConfirmedMoves ==
  ASSUME IInv, NEW c \in Procs, Confirmed(c), UNCHANGED <<reserved, refunds>>
  PROVE  /\ StepInv' /\ FeeInv'
         /\ pc' \in [Procs -> Steps] /\ seen' \in [Procs -> OrderStatuses \cup {"none"}]
<1>1. \E s \in {"confirmed", "idle"} : pc' = [pc EXCEPT ![c] = s]
  BY DEF Confirmed, Goto, Done
<1>2. seen' = seen \/ seen' = [seen EXCEPT ![c] = "none"]
  BY DEF Confirmed, Goto, Done
<1>3. PICK s \in {"confirmed", "idle"} : pc' = [pc EXCEPT ![c] = s] BY <1>1
<1>4. StepInv' /\ FeeInv' BY <1>2, <1>3, MoveKeeps DEF IInv, FeeSteps
<1> QED BY <1>2, <1>3, <1>4, MoveTyped DEF IInv

LEMMA ConfirmSteps ==
  ASSUME IInv, NEW c \in Procs,
         ConfirmPrepaid(c) \/ \E autoApprove \in BOOLEAN : ConfirmFee(c, autoApprove)
  PROVE  IInv'
<1> USE DEF providerVars, ledgerVars
<1>0. crashes' = crashes /\ UNCHANGED <<reserved, refunds>>
  BY DEF ConfirmPrepaid, ConfirmPrepaidIf, ConfirmFee, ConfirmFeeAs, Confirmed, Goto, Done
<1>1. CASE ConfirmPrepaid(c)
  <2> USE <1>1 DEF ConfirmPrepaid, ConfirmPrepaidIf
  <2>1. StepInv' /\ FeeInv' /\ pc' \in [Procs -> Steps]
        /\ seen' \in [Procs -> OrderStatuses \cup {"none"}]
    BY <1>0, ConfirmedMoves
  <2>2. ordStatus' \in OrderStatuses /\ ordPay' \in OrderPays /\ payStatus' \in PayStatuses
    BY DEF IInv, TypeOK
  <2>t. events' \in SUBSET {"ORDER_APPROVED", "PAYMENT_CONFIRMED"} /\ earned' \in BOOLEAN
        /\ exception' \in BOOLEAN
    BY DEF IInv, TypeOK
  <2>u. UNCHANGED <<task, linked, charged, reversed, creditBack, webhookDone>>
    OBVIOUS
  <2>3. PaidTogether' /\ ApprovedHasEvent' BY DEF IInv, PaidTogether, ApprovedHasEvent, Standing
  <2> HIDE DEF ConfirmPrepaid
  <2>4. TypeOK' BY <1>0, <2>1, <2>2, <2>t, <2>u DEF IInv, TypeOK
  <2> QED BY <2>1, <2>3, <2>4 DEF IInv
<1>2. ASSUME NEW autoApprove \in BOOLEAN, ConfirmFee(c, autoApprove) PROVE IInv'
  <2> USE <1>2 DEF ConfirmFee, ConfirmFeeAs, Reviewed, FeeEvents
  <2>1. StepInv' /\ FeeInv' /\ pc' \in [Procs -> Steps]
        /\ seen' \in [Procs -> OrderStatuses \cup {"none"}]
    BY <1>0, ConfirmedMoves
  <2>2. ordStatus' \in OrderStatuses /\ ordPay' \in OrderPays /\ payStatus' \in PayStatuses
    BY DEF IInv, TypeOK
  <2>t. events' \in SUBSET {"ORDER_APPROVED", "PAYMENT_CONFIRMED"}
    BY DEF IInv, TypeOK
  <2>u. UNCHANGED <<task, linked, charged, earned, reversed, creditBack, exception, webhookDone>>
    OBVIOUS
  <2>3. PaidTogether' BY MethodAssumption DEF IInv, TypeOK, PaidTogether
  <2>4. ApprovedHasEvent' BY DEF IInv, ApprovedHasEvent, Standing
  <2> HIDE DEF ConfirmFee
  <2>5. TypeOK' BY <1>0, <2>1, <2>2, <2>t, <2>u DEF IInv, TypeOK
  <2> QED BY <2>1, <2>3, <2>4, <2>5 DEF IInv
<1> QED BY <1>1, <1>2

\* Giving back what the order used keeps the ledger well formed.
LEMMA RestoreTyped ==
  ASSUME TypeOK, Restore PROVE creditBack' \in BOOLEAN /\ reversed' \in BOOLEAN
BY DEF Restore, TypeOK

\* The steps no request remembers: the customer's, the two cancellations in one
\* transaction, and a webhook that is refused.
LEMMA UnattendedSteps ==
  ASSUME IInv,
         \/ CustomerPays \/ CancelCustomerOrder \/ ExpireUnpaidOrder
         \/ \E c \in Confirmers : VerifyRefused(c)
  PROVE  IInv'
<1> USE DEF CustomerPays, CancelCustomerOrder, ExpireUnpaidOrder, CancelUnpaid, VerifyRefused,
            payVars, providerVars, ledgerVars, recordVars
<1>1. UNCHANGED <<pc, seen, crashes, reserved, refunds, payStatus, ordPay, events>>
      /\ ordStatus' \in {ordStatus, "CANCELLED"}
  BY DEF orderVars, Restore
<1>2. UNCHANGED <<task, linked, earned, webhookDone>>
  BY DEF orderVars, Restore
<1>3. charged' \in BOOLEAN /\ exception' \in BOOLEAN
  BY DEF IInv, TypeOK
<1>4. creditBack' \in BOOLEAN /\ reversed' \in BOOLEAN
  BY RestoreTyped DEF IInv, TypeOK
<1>5. TypeOK' BY <1>1, <1>2, <1>3, <1>4 DEF IInv, TypeOK
<1>6. StepInv' /\ FeeInv' BY <1>1 DEF IInv, StepInv, FeeInv
<1>7. PaidTogether' /\ ApprovedHasEvent'
  BY <1>1 DEF IInv, PaidTogether, ApprovedHasEvent, Standing
<1> QED BY <1>5, <1>6, <1>7 DEF IInv

\* The steps of a request that concern neither the payment nor the fee.
LEMMA PlainSteps ==
  ASSUME IInv, NEW p \in Procs,
         AdminCancelSave(p) \/ StopTask(p) \/ CreateTasks(p) \/ Advance(p)
  PROVE  IInv'
<1> USE DEF AdminCancelSave, StopTask, CreateTasks, Advance, AdvanceIf, Goto, Done
<1>1. PICK s \in {"restore", "idle", "advance"} :
        /\ pc' = [pc EXCEPT ![p] = s]
        /\ seen' = seen \/ seen' = [seen EXCEPT ![p] = "none"]
  OBVIOUS
<1>2. /\ task' \in {task, "live", "cancelled"}
      /\ UNCHANGED <<crashes, ordPay, payVars, providerVars, ledgerVars, recordVars>>
  OBVIOUS
<1>3. ordStatus' \in {ordStatus, "CANCELLED"} \/ (ordStatus = "APPROVED" /\ ordStatus' = "IN_FULFILMENT")
  OBVIOUS
<1> HIDE DEF AdminCancelSave, StopTask, CreateTasks, Advance
<1> USE DEF payVars, providerVars, ledgerVars, recordVars
<1>4. StepInv' /\ FeeInv' BY <1>1, <1>2, MoveKeeps DEF IInv, FeeSteps
<1>5. pc' \in [Procs -> Steps] /\ seen' \in [Procs -> OrderStatuses \cup {"none"}]
  BY <1>1, MoveTyped DEF IInv
<1>6. TypeOK' BY <1>2, <1>3, <1>5 DEF IInv, TypeOK
<1>7. PaidTogether' /\ ApprovedHasEvent'
  BY <1>2, <1>3 DEF IInv, PaidTogether, ApprovedHasEvent, Standing
<1> QED BY <1>4, <1>6, <1>7 DEF IInv

\* A request for a Pay on Delivery order may go on to decide or to the fee, as
\* long as it does not go to the provider.
LEMMA MoveToFee ==
  ASSUME IInv, NEW p \in Procs, NEW s \in Steps \ {"feeCall"},
         pc' = [pc EXCEPT ![p] = s],
         \/ seen' = seen
         \/ seen' = [seen EXCEPT ![p] = "none"]
         \/ seen' = [seen EXCEPT ![p] = ordStatus],
         s = "decide" => seen'[p] = "REVIEW",
         Prepaid => s \notin FeeSteps \cup {"decide"},
         UNCHANGED <<reserved, refunds>>
  PROVE  /\ StepInv' /\ FeeInv'
         /\ pc' \in [Procs -> Steps] /\ seen' \in [Procs -> OrderStatuses \cup {"none"}]
<1>1. \A q \in Procs : pc'[q] = (IF q = p THEN s ELSE pc[q]) BY DEF IInv, TypeOK
<1>2. \A q \in Procs : q # p => seen'[q] = seen[q] BY DEF IInv, TypeOK
<1>3. StepInv' BY <1>1, <1>2 DEF IInv, StepInv, FeeSteps
<1>4. FeeInv' BY <1>1 DEF IInv, FeeInv
<1>5. pc' \in [Procs -> Steps] /\ seen' \in [Procs -> OrderStatuses \cup {"none"}]
  BY MoveTyped DEF IInv
<1> QED BY <1>3, <1>4, <1>5

LEMMA DecisionSteps ==
  ASSUME IInv, NEW p \in Procs,
         AdminRestore(p) \/ RestoreFails(p) \/ StartDecide(p) \/ Approve(p) \/ Decline(p)
  PROVE  IInv'
<1> USE DEF payVars, providerVars, ledgerVars, recordVars
<1>0. pc[p] = "decide" => ~Prepaid /\ seen[p] = "REVIEW" BY DEF IInv, StepInv
<1>1. CASE AdminRestore(p) \/ RestoreFails(p)
  <2> USE <1>1 DEF AdminRestore, RestoreFails, AfterRestore, Restore, Goto, data
  <2>1. PICK s \in {"stopTask", "feeRead"} :
          pc' = [pc EXCEPT ![p] = s] /\ (Prepaid => s = "stopTask")
    OBVIOUS
  <2>2. UNCHANGED <<orderVars, payVars, providerVars, recordVars, earned, seen>>
        /\ crashes' \in {crashes, crashes + 1}
    OBVIOUS
  <2>r. creditBack' \in BOOLEAN /\ reversed' \in BOOLEAN
    BY RestoreTyped DEF IInv, TypeOK
  <2> HIDE <1>1
  <2>3. StepInv' /\ FeeInv' /\ pc' \in [Procs -> Steps]
        /\ seen' \in [Procs -> OrderStatuses \cup {"none"}]
    BY <2>1, <2>2, MoveToFee DEF FeeSteps
  <2>4. crashes' \in Nat BY <2>2 DEF IInv, TypeOK
  <2>5. TypeOK' BY <2>2, <2>3, <2>4, <2>r DEF IInv, TypeOK, orderVars
  <2>6. PaidTogether' /\ ApprovedHasEvent'
    BY <2>2 DEF IInv, PaidTogether, ApprovedHasEvent, Standing, orderVars
  <2> QED BY <2>3, <2>5, <2>6 DEF IInv
<1>2. CASE StartDecide(p)
  <2> USE <1>2 DEF StartDecide, ReadOrder
  <2>1. ~Prepaid BY DEF IInv, TypeOK
  <2>2. seen'[p] = "REVIEW" BY DEF IInv, TypeOK
  <2>3. UNCHANGED <<orderVars, payVars, providerVars, ledgerVars, recordVars, crashes>>
    BY DEF data
  <2>4. StepInv' /\ FeeInv' /\ pc' \in [Procs -> Steps]
        /\ seen' \in [Procs -> OrderStatuses \cup {"none"}]
    BY <2>1, <2>2, <2>3, MoveToFee DEF FeeSteps
  <2> HIDE <1>2
  <2>5. TypeOK' BY <2>3, <2>4 DEF IInv, TypeOK, orderVars
  <2>6. PaidTogether' /\ ApprovedHasEvent'
    BY <2>3 DEF IInv, PaidTogether, ApprovedHasEvent, Standing, orderVars
  <2> QED BY <2>4, <2>5, <2>6 DEF IInv
<1>3. CASE Approve(p)
  <2> USE <1>3 DEF Approve, Done
  <2>1. ~Prepaid BY <1>0
  <2>2. ordStatus' \in {ordStatus, "APPROVED"} /\ ordPay' \in {ordPay, "DUE_AT_HANDOVER"}
        /\ events' \in SUBSET {"ORDER_APPROVED", "PAYMENT_CONFIRMED"}
    BY DEF IInv, TypeOK
  <2>3. UNCHANGED <<task, payVars, providerVars, ledgerVars, exception, webhookDone, crashes>>
    OBVIOUS
  <2>4. StepInv' /\ FeeInv' /\ pc' \in [Procs -> Steps]
        /\ seen' \in [Procs -> OrderStatuses \cup {"none"}]
    BY <2>3, MoveToFee DEF FeeSteps
  <2>6. ApprovedHasEvent' BY DEF IInv, ApprovedHasEvent, Standing
  <2> HIDE <1>3
  <2>5. TypeOK' BY <2>1, <2>2, <2>3, <2>4 DEF IInv, TypeOK
  <2>7. PaidTogether' BY <2>1, <2>2, <2>3 DEF IInv, TypeOK, PaidTogether
  <2> QED BY <2>4, <2>5, <2>6, <2>7 DEF IInv
<1>4. CASE Decline(p)
  <2> USE <1>4 DEF Decline, Restore, Goto, Done
  <2>1. ~Prepaid BY <1>0
  <2>2. PICK s \in {"feeRead", "idle"} :
          /\ pc' = [pc EXCEPT ![p] = s]
          /\ seen' = seen \/ seen' = [seen EXCEPT ![p] = "none"]
    OBVIOUS
  <2>3. UNCHANGED <<ordPay, task, payVars, providerVars, recordVars, earned, crashes>>
        /\ ordStatus' \in {ordStatus, "CANCELLED"}
    OBVIOUS
  <2>r. creditBack' \in BOOLEAN /\ reversed' \in BOOLEAN
    BY RestoreTyped DEF IInv, TypeOK
  <2> HIDE <1>4
  <2>4. StepInv' /\ FeeInv' /\ pc' \in [Procs -> Steps]
        /\ seen' \in [Procs -> OrderStatuses \cup {"none"}]
    BY <2>1, <2>2, <2>3, MoveToFee DEF FeeSteps
  <2>5. TypeOK' BY <2>3, <2>4, <2>r DEF IInv, TypeOK
  <2>6. PaidTogether' /\ ApprovedHasEvent'
    BY <2>3 DEF IInv, PaidTogether, ApprovedHasEvent, Standing
  <2> QED BY <2>4, <2>5, <2>6 DEF IInv
<1> QED BY <1>1, <1>2, <1>3, <1>4

\* Reading the payment and settling it move the request; only the reservation
\* and the provider's answer bear on who holds the fee.
LEMMA FeeMoves ==
  ASSUME IInv, NEW p \in Procs, NEW s \in {"feeReserve", "feeSettle", "stopTask", "idle"},
         pc[p] \in FeeSteps,
         pc' = [pc EXCEPT ![p] = s],
         seen' = seen \/ seen' = [seen EXCEPT ![p] = "none"],
         payStatus' \in {payStatus, "REFUNDED"},
         UNCHANGED <<orderVars, reserved, providerVars, ledgerVars, recordVars, crashes>>
  PROVE  IInv'
<1> USE DEF orderVars, providerVars, ledgerVars, recordVars
<1>1. ~Prepaid BY DEF IInv, StepInv
<1>2. StepInv' /\ FeeInv' /\ pc' \in [Procs -> Steps]
      /\ seen' \in [Procs -> OrderStatuses \cup {"none"}]
  BY <1>1, MoveToFee DEF FeeSteps
<1>3. TypeOK' BY <1>1, <1>2 DEF IInv, TypeOK
<1>4. PaidTogether' /\ ApprovedHasEvent'
  BY <1>1 DEF IInv, TypeOK, PaidTogether, ApprovedHasEvent, Standing
<1> QED BY <1>2, <1>3, <1>4 DEF IInv

\* Whoever reserves the fee is alone at the provider, before any refund; the
\* provider's answer takes it away from there.
LEMMA ReservingSteps ==
  ASSUME IInv, NEW p \in Procs, FeeReserve(p) \/ FeeCall(p) PROVE StepInv' /\ FeeInv'
<1> USE DEF AfterFee, Goto, Done, orderVars, ledgerVars, recordVars, FeeSteps, providerVars
<1>1. CASE FeeReserve(p)
  <2> USE <1>1 DEF FeeReserve, FeeReserveIf
  <2>1. PICK s \in {"feeCall", "stopTask", "idle"} :
          /\ pc' = [pc EXCEPT ![p] = s]
          /\ seen' = seen \/ seen' = [seen EXCEPT ![p] = "none"]
          /\ s = "feeCall" => ~reserved /\ reserved' = TRUE
          /\ s # "feeCall" => reserved' = reserved
    BY Zenon
  <2>2. ~Prepaid /\ refunds' = refunds BY DEF IInv, StepInv
  <2>3. \A q \in Procs : pc'[q] = (IF q = p THEN s ELSE pc[q]) BY <2>1 DEF IInv, TypeOK
  <2>4. \A q \in Procs : q # p => seen'[q] = seen[q] BY <2>1 DEF IInv, TypeOK
  <2> HIDE <1>1
  <2>5. StepInv' BY <2>2, <2>3, <2>4 DEF IInv, StepInv
  <2>6. CASE s = "feeCall"
    <3>1. refunds = 0 /\ \A q \in Procs : pc[q] # "feeCall"
      BY <2>1, <2>6 DEF IInv, TypeOK, FeeInv
    <3> QED BY <2>1, <2>2, <2>3, <2>5, <2>6, <3>1 DEF FeeInv
  <2>7. CASE s # "feeCall" BY <2>1, <2>2, <2>3, <2>5, <2>7 DEF IInv, FeeInv
  <2> QED BY <2>6, <2>7
<1>2. CASE FeeCall(p)
  <2> USE <1>2 DEF FeeCall
  <2>1. reserved /\ refunds = 0 /\ ~Prepaid /\ \A q \in Procs : pc[q] = "feeCall" => q = p
    BY DEF IInv, StepInv, FeeInv
  <2>2. PICK s \in {"feeSettle", "stopTask", "idle"} :
          /\ pc' = [pc EXCEPT ![p] = s]
          /\ seen' = seen \/ seen' = [seen EXCEPT ![p] = "none"]
    OBVIOUS
  <2>3. (refunds' = 1 /\ reserved') \/ refunds' = 0
    <3>1. CASE refunds' = refunds + 1 /\ UNCHANGED reserved
      <4>1. reserved' BY <2>1, <3>1, Zenon
      <4> QED BY <2>1, <3>1, <4>1
    <3>2. CASE refunds' = refunds BY <2>1, <3>2
    <3> QED BY <3>1, <3>2
  <2>4. \A q \in Procs : pc'[q] = (IF q = p THEN s ELSE pc[q]) BY <2>2 DEF IInv, TypeOK
  <2>5. \A q \in Procs : q # p => seen'[q] = seen[q] BY <2>2 DEF IInv, TypeOK
  <2> HIDE <1>2
  <2>6. StepInv' BY <2>1, <2>4, <2>5 DEF IInv, StepInv
  <2>7. \A q \in Procs : pc'[q] # "feeCall" BY <2>1, <2>4
  <2>8. FeeInv' BY <2>3, <2>7 DEF FeeInv
  <2> QED BY <2>6, <2>8
<1> QED BY <1>1, <1>2

\* refundDeliveryFee, whole.
LEMMA FeeStepsKeep ==
  ASSUME IInv, NEW p \in Procs, FeeStep(p) PROVE IInv'
<1> USE DEF FeeStep, AfterFee, Goto, Done
<1>1. CASE FeeRead(p)
  <2>1. PICK s \in {"feeReserve", "stopTask", "idle"} :
          /\ pc' = [pc EXCEPT ![p] = s]
          /\ seen' = seen \/ seen' = [seen EXCEPT ![p] = "none"]
    BY <1>1 DEF FeeRead
  <2>2. UNCHANGED <<data, crashes>> /\ pc[p] \in FeeSteps
    BY <1>1 DEF FeeRead, data, FeeSteps
  <2> QED BY <2>1, <2>2, FeeMoves DEF data, payVars
<1>2. CASE FeeSettle(p)
  <2>1. PICK s \in {"stopTask", "idle"} :
          /\ pc' = [pc EXCEPT ![p] = s]
          /\ seen' = seen \/ seen' = [seen EXCEPT ![p] = "none"]
    BY <1>2 DEF FeeSettle
  <2>2. /\ UNCHANGED <<orderVars, reserved, providerVars, ledgerVars, recordVars, crashes>>
        /\ payStatus' = "REFUNDED" /\ pc[p] \in FeeSteps
    BY <1>2 DEF FeeSettle, FeeSteps
  <2> QED BY <2>1, <2>2, FeeMoves
<1>3. CASE FeeReserve(p) \/ FeeCall(p)
  <2> USE <1>3 DEF FeeReserve, FeeReserveIf, FeeCall
  <2>1. StepInv' /\ FeeInv' BY ReservingSteps
  <2>2. PICK s \in {"feeCall", "feeSettle", "stopTask", "idle"} :
          /\ pc' = [pc EXCEPT ![p] = s]
          /\ seen' = seen \/ seen' = [seen EXCEPT ![p] = "none"]
    OBVIOUS
  <2>3. pc' \in [Procs -> Steps] /\ seen' \in [Procs -> OrderStatuses \cup {"none"}]
    BY <2>2, MoveTyped DEF IInv
  <2>4. UNCHANGED <<orderVars, payStatus, linked, charged, ledgerVars, recordVars, crashes>>
    BY DEF providerVars
  <2>5. reserved' \in BOOLEAN
    <3>1. reserved \in BOOLEAN BY DEF IInv, TypeOK
    <3>2. CASE FeeReserve(p) BY <3>1, <3>2
    <3>3. CASE FeeCall(p) BY <3>1, <3>3
    <3> QED BY <1>3, <3>2, <3>3
  <2>r. refunds' \in Nat
    <3>1. refunds' \in {refunds, refunds + 1} BY DEF providerVars
    <3> QED BY <3>1 DEF IInv, TypeOK
  <2> HIDE <1>3
  <2>6. TypeOK' BY <2>3, <2>4, <2>5, <2>r DEF IInv, TypeOK, orderVars, ledgerVars, recordVars
  <2>7. PaidTogether' /\ ApprovedHasEvent'
    BY <2>4 DEF IInv, PaidTogether, ApprovedHasEvent, Standing, orderVars, recordVars
  <2> QED BY <2>1, <2>6, <2>7 DEF IInv
<1> QED BY <1>1, <1>2, <1>3

LEMMA NextIInv == IInv /\ [Next]_vars => IInv'
<1> SUFFICES ASSUME IInv, [Next]_vars PROVE IInv'
  OBVIOUS
<1> USE DEF Procs, Staff, Confirmers
<1>1. CASE UNCHANGED vars
  <2>1. UNCHANGED <<ordStatus, ordPay, task, payStatus, reserved, linked, charged, refunds>>
    BY <1>1 DEF vars, orderVars, payVars, providerVars
  <2>2. UNCHANGED <<earned, reversed, creditBack, events, exception, webhookDone, pc, seen, crashes>>
    BY <1>1 DEF vars, ledgerVars, recordVars
  <2>3. TypeOK' BY <2>1, <2>2 DEF IInv, TypeOK
  <2> QED BY <2>1, <2>2, <2>3
        DEF IInv, StepInv, FeeInv, PaidTogether, ApprovedHasEvent, Standing
<1>2. CASE CustomerPays \/ CancelCustomerOrder \/ ExpireUnpaidOrder
  BY <1>2, UnattendedSteps
<1>3. ASSUME NEW p \in Payers, StartInitialize(p) \/ Initialize(p) PROVE IInv'
  BY <1>3, ReadingSteps, InitializeStep
<1>4. ASSUME NEW c \in Confirmers, Verify(c) \/ VerifyRefused(c) \/ ConfirmStep(c) PROVE IInv'
  BY <1>4, ReadingSteps, UnattendedSteps, ConfirmSteps DEF ConfirmStep
<1>5. ASSUME NEW p \in Admins, StartAdminCancel(p) \/ RestoreFails(p) \/ AdminStep(p) PROVE IInv'
  BY <1>5, ReadingSteps, PlainSteps, DecisionSteps DEF AdminStep
<1>6. ASSUME NEW p \in Operators, StartDecide(p) \/ Approve(p) \/ Decline(p) PROVE IInv'
  BY <1>6, DecisionSteps
<1>7. ASSUME NEW p \in Staff, FeeStep(p) PROVE IInv'
  BY <1>7, FeeStepsKeep
<1>8. ASSUME NEW w \in Workers, StartConsume(w) \/ CreateTasks(w) \/ Advance(w) PROVE IInv'
  BY <1>8, ReadingSteps, PlainSteps
<1>9. ASSUME NEW p \in Procs, Crash(p) PROVE IInv'
  BY <1>9, ReadingSteps
<1> HIDE DEF Procs, Staff, Confirmers
<1> QED BY <1>1, <1>2, <1>3, <1>4, <1>5, <1>6, <1>7, <1>8, <1>9 DEF Next

-----------------------------------------------------------------------------
(* Theorems.                                                               *)

\* The inductive invariant holds of every reachable state.
THEOREM OrderPaymentInvariant == Spec => []IInv
<1>1. Init => IInv BY InitIInv
<1>2. IInv /\ [Next]_vars => IInv' BY NextIInv
<1> QED BY <1>1, <1>2, PTL DEF Spec

\* The statuses are those of the payment method: a delivery fee never makes a
\* Pay on Delivery order a paid one (confirmPayment's handover branch).
THEOREM OrderPaymentTypeCorrect == Spec => []TypeOK
<1>1. IInv => TypeOK BY DEF IInv
<1> QED BY <1>1, OrderPaymentInvariant, PTL

\* An order that says it is paid has a confirmed payment, and a prepaid order
\* is not fulfilled without one (initializeOrder, confirmPayment).
THEOREM OrderPaymentPaidTogether == Spec => []PaidTogether
<1>1. IInv => PaidTogether BY DEF IInv
<1> QED BY <1>1, OrderPaymentInvariant, PTL

\* No approval without the event that starts fulfilment (emitOrderApproved).
THEOREM OrderPaymentApprovedHasEvent == Spec => []ApprovedHasEvent
<1>1. IInv => ApprovedHasEvent BY DEF IInv
<1> QED BY <1>1, OrderPaymentInvariant, PTL

\* The provider refunds the delivery fee at most once (refundDeliveryFee).
THEOREM OrderPaymentFeeRefundedOnce == Spec => []FeeRefundedOnce
<1>1. IInv => FeeRefundedOnce BY DEF IInv, FeeInv, FeeRefundedOnce
<1> QED BY <1>1, OrderPaymentInvariant, PTL

\* The two together: what the order says and the money agree.
THEOREM OrderPaymentMoneyAgrees == Spec => []MoneyAgrees
<1>1. PaidTogether /\ FeeRefundedOnce => MoneyAgrees BY DEF MoneyAgrees
<1> QED BY <1>1, OrderPaymentPaidTogether, OrderPaymentFeeRefundedOnce, PTL

\* Nothing revives a cancelled order: every write of the status is guarded, or
\* is a cancellation.  A decision's guard is what it read, hence StepInv.
THEOREM OrderPaymentCancelledIsFinal == Spec => CancelledIsFinal
<1>1. IInv /\ [Next]_vars => (Cancelled => ordStatus' = "CANCELLED")
  <2> SUFFICES ASSUME IInv, [Next]_vars, ordStatus = "CANCELLED" PROVE ordStatus' = "CANCELLED"
    BY DEF Cancelled
  <2> USE DEF orderVars, data
  <2>1. CASE UNCHANGED vars BY <2>1 DEF vars
  <2>2. CASE CustomerPays \/ CancelCustomerOrder \/ ExpireUnpaidOrder
    BY <2>2 DEF CustomerPays, CancelCustomerOrder, ExpireUnpaidOrder, CancelUnpaid
  <2>3. ASSUME NEW p \in Payers, StartInitialize(p) \/ Initialize(p) PROVE ordStatus' = "CANCELLED"
    BY <2>3 DEF StartInitialize, Initialize, InitializeIf
  <2>4. ASSUME NEW c \in Confirmers, Verify(c) \/ VerifyRefused(c) \/ ConfirmStep(c)
        PROVE ordStatus' = "CANCELLED"
    BY <2>4 DEF Verify, VerifyIf, VerifyRefused, ConfirmStep, ReadForConfirm, ReadOrder,
         ConfirmPrepaid, ConfirmPrepaidIf, ConfirmFee, ConfirmFeeAs, MarkProcessed
  <2>5. ASSUME NEW p \in Admins, StartAdminCancel(p) \/ RestoreFails(p) \/ AdminStep(p)
        PROVE ordStatus' = "CANCELLED"
    BY <2>5 DEF StartAdminCancel, RestoreFails, AdminStep, AdminCancelSave, AdminRestore, StopTask
  <2>6. ASSUME NEW p \in Operators, StartDecide(p) \/ Approve(p) \/ Decline(p)
        PROVE ordStatus' = "CANCELLED"
    <3>1. pc[p] = "decide" => seen[p] = "REVIEW" BY DEF IInv, StepInv, Procs, Staff
    <3> QED BY <2>6, <3>1 DEF StartDecide, ReadOrder, Approve, Decline, Done
  <2>7. ASSUME NEW p \in Staff, FeeStep(p) PROVE ordStatus' = "CANCELLED"
    BY <2>7 DEF FeeStep, FeeRead, FeeReserve, FeeReserveIf, FeeCall, FeeSettle
  <2>8. ASSUME NEW w \in Workers, StartConsume(w) \/ CreateTasks(w) \/ Advance(w)
        PROVE ordStatus' = "CANCELLED"
    BY <2>8 DEF StartConsume, CreateTasks, Advance, AdvanceIf
  <2>9. ASSUME NEW p \in Procs, Crash(p) PROVE ordStatus' = "CANCELLED"
    BY <2>9 DEF Crash
  <2> QED BY <2>1, <2>2, <2>3, <2>4, <2>5, <2>6, <2>7, <2>8, <2>9 DEF Next
<1> QED BY <1>1, OrderPaymentInvariant, PTL DEF Spec, CancelledIsFinal

\* A confirmed payment is only ever left for a refund (initializeOrder's guard).
THEOREM OrderPaymentConfirmationNotOverwritten == Spec => ConfirmationNotOverwritten
<1>1. [Next]_vars => (payStatus = "CONFIRMED" => payStatus' \in {"CONFIRMED", "REFUNDED"})
  <2> SUFFICES ASSUME [Next]_vars, payStatus = "CONFIRMED"
               PROVE  payStatus' \in {"CONFIRMED", "REFUNDED"}
    OBVIOUS
  <2> USE DEF payVars, data
  <2>1. CASE UNCHANGED vars BY <2>1 DEF vars
  <2>2. CASE CustomerPays \/ CancelCustomerOrder \/ ExpireUnpaidOrder
    BY <2>2 DEF CustomerPays, CancelCustomerOrder, ExpireUnpaidOrder, CancelUnpaid
  <2>3. ASSUME NEW p \in Payers, StartInitialize(p) \/ Initialize(p)
        PROVE payStatus' \in {"CONFIRMED", "REFUNDED"}
    BY <2>3 DEF StartInitialize, Initialize, InitializeIf
  <2>4. ASSUME NEW c \in Confirmers, Verify(c) \/ VerifyRefused(c) \/ ConfirmStep(c)
        PROVE payStatus' \in {"CONFIRMED", "REFUNDED"}
    BY <2>4 DEF Verify, VerifyIf, VerifyRefused, ConfirmStep, ReadForConfirm, ReadOrder,
         ConfirmPrepaid, ConfirmPrepaidIf, ConfirmFee, ConfirmFeeAs, MarkProcessed
  <2>5. ASSUME NEW p \in Admins, StartAdminCancel(p) \/ RestoreFails(p) \/ AdminStep(p)
        PROVE payStatus' \in {"CONFIRMED", "REFUNDED"}
    BY <2>5 DEF StartAdminCancel, RestoreFails, AdminStep, AdminCancelSave, AdminRestore, StopTask
  <2>6. ASSUME NEW p \in Operators, StartDecide(p) \/ Approve(p) \/ Decline(p)
        PROVE payStatus' \in {"CONFIRMED", "REFUNDED"}
    BY <2>6 DEF StartDecide, ReadOrder, Approve, Decline
  <2>7. ASSUME NEW p \in Staff, FeeStep(p) PROVE payStatus' \in {"CONFIRMED", "REFUNDED"}
    BY <2>7 DEF FeeStep, FeeRead, FeeReserve, FeeReserveIf, FeeCall, FeeSettle
  <2>8. ASSUME NEW w \in Workers, StartConsume(w) \/ CreateTasks(w) \/ Advance(w)
        PROVE payStatus' \in {"CONFIRMED", "REFUNDED"}
    BY <2>8 DEF StartConsume, CreateTasks, Advance, AdvanceIf
  <2>9. ASSUME NEW p \in Procs, Crash(p) PROVE payStatus' \in {"CONFIRMED", "REFUNDED"}
    BY <2>9 DEF Crash
  <2> QED BY <2>1, <2>2, <2>3, <2>4, <2>5, <2>6, <2>7, <2>8, <2>9 DEF Next
<1> QED BY <1>1, PTL DEF Spec, ConfirmationNotOverwritten
-----------------------------------------------------------------------------
(* Credit comes back.                                                      *)

\* A step that neither cancels the order nor takes an administrator from the
\* restoration he is at owes nobody anything.
LEMMA NothingOwed ==
  ASSUME TypeOK, CreditsReturned, UNCHANGED <<creditBack, crashes>>, Cancelled' => Cancelled,
         \A p \in Procs : pc[p] = "restore" => pc'[p] = "restore"
  PROVE  CreditsReturned'
BY DEF CreditsReturned, Procs, Staff

\* The restoration is the last thing that may be owed, and it is owed by the
\* administrator's request that cancelled; every other cancellation restores in
\* the transaction that cancels.
LEMMA StepReturns ==
  ASSUME TypeOK, CreditsReturned, [Next]_vars PROVE CreditsReturned'
<1> USE DEF TypeOK, Cancelled, orderVars, payVars, providerVars, ledgerVars, recordVars, data, Goto, Done
<1>r. Restore => CreditsReturned' BY DEF Restore, CreditsReturned
<1>1. CASE UNCHANGED vars BY <1>1, NothingOwed DEF vars
<1>2. CASE CustomerPays BY <1>2, NothingOwed DEF CustomerPays
<1>3. CASE CancelCustomerOrder \/ ExpireUnpaidOrder
  BY <1>r, <1>3 DEF CancelCustomerOrder, ExpireUnpaidOrder, CancelUnpaid
<1>4. ASSUME NEW p \in Payers, StartInitialize(p) \/ Initialize(p) PROVE CreditsReturned'
  BY <1>4, NothingOwed DEF StartInitialize, Initialize, InitializeIf
<1>5. ASSUME NEW c \in Confirmers, Verify(c) \/ VerifyRefused(c) \/ ReadForConfirm(c) \/ MarkProcessed(c)
      PROVE CreditsReturned'
  BY <1>5, NothingOwed DEF Verify, VerifyIf, VerifyRefused, ReadForConfirm, ReadOrder, MarkProcessed
<1>6. ASSUME NEW c \in Confirmers, ConfirmPrepaid(c) PROVE CreditsReturned'
  BY <1>6, NothingOwed DEF ConfirmPrepaid, ConfirmPrepaidIf, Confirmed
<1>7. ASSUME NEW c \in Confirmers, NEW autoApprove \in BOOLEAN, ConfirmFee(c, autoApprove)
      PROVE CreditsReturned'
  BY <1>7, NothingOwed DEF ConfirmFee, ConfirmFeeAs, Confirmed, Reviewed
<1>8. ASSUME NEW p \in Admins, StartAdminCancel(p) \/ StopTask(p) PROVE CreditsReturned'
  BY <1>8, NothingOwed DEF StartAdminCancel, StopTask
<1>9. ASSUME NEW p \in Admins, AdminCancelSave(p) PROVE CreditsReturned'
  <2>1. p \in Procs BY DEF Procs, Staff
  <2>2. pc'[p] = "restore" BY <1>9, <2>1 DEF AdminCancelSave
  <2> QED BY <2>2 DEF CreditsReturned
<1>10. ASSUME NEW p \in Admins, AdminRestore(p) PROVE CreditsReturned'
  BY <1>r, <1>10 DEF AdminRestore
<1>11. ASSUME NEW p \in Procs, RestoreFails(p) \/ Crash(p) PROVE CreditsReturned'
  BY <1>11 DEF RestoreFails, Crash, CreditsReturned
<1>12. ASSUME NEW p \in Operators, StartDecide(p) \/ Approve(p) PROVE CreditsReturned'
  BY <1>12, NothingOwed DEF StartDecide, ReadOrder, Approve
<1>13. ASSUME NEW p \in Operators, Decline(p) PROVE CreditsReturned'
  <2>1. CASE ordStatus = seen[p] BY <1>r, <1>13, <2>1 DEF Decline
  <2>2. CASE ordStatus # seen[p] BY <1>13, <2>2, NothingOwed DEF Decline
  <2> QED BY <2>1, <2>2
<1>14. ASSUME NEW p \in Staff, FeeStep(p) PROVE CreditsReturned'
  BY <1>14, NothingOwed DEF FeeStep, FeeRead, FeeReserve, FeeReserveIf, FeeCall, FeeSettle, AfterFee
<1>15. ASSUME NEW w \in Workers, StartConsume(w) \/ CreateTasks(w) \/ Advance(w)
       PROVE CreditsReturned'
  BY <1>15, NothingOwed DEF StartConsume, CreateTasks, Advance, AdvanceIf
<1>16. ASSUME NEW p \in Admins PROVE p \in Procs BY DEF Procs, Staff
<1> QED
  BY <1>1, <1>2, <1>3, <1>4, <1>5, <1>6, <1>7, <1>8, <1>9, <1>10, <1>11, <1>12, <1>13, <1>14, <1>15, <1>16
  DEF Next, ConfirmStep, AdminStep

\* While no request died and no restoration threw, a cancelled order's credit
\* is back, or the administrator who cancelled it is about to give it back:
\* none of the cancellations that race it takes the debt over and drops it.
THEOREM OrderPaymentCreditsReturned == Spec => []CreditsReturned
<1>1. Init => CreditsReturned BY DEF Init, CreditsReturned, Cancelled
<1>2. TypeOK /\ CreditsReturned /\ [Next]_vars => CreditsReturned' BY StepReturns
<1> QED BY <1>1, <1>2, OrderPaymentTypeCorrect, PTL DEF Spec

-----------------------------------------------------------------------------
(* The links to the payment page.                                          *)

\* The payment is a record with a status, whatever is done to it.
PaymentInv == DOMAIN payment = {"topup", "status", "ref", "url"}

LEMMA PaymentSteps ==
  ASSUME PaymentInv, [ByLink!Next]_(ByLink!linkVars)
  PROVE  PaymentInv' /\ (ByLink!Confirmed => payment'.status = "CONFIRMED")
<1> USE DEF PaymentInv, ByLink!Confirmed
<1>1. CASE UNCHANGED payment BY <1>1
<1>2. ASSUME NEW r \in PayRequests, ByLink!CreatePayment(r) \/ ByLink!Land(r) \/ ByLink!LandDirect(r)
      PROVE  PaymentInv' /\ (ByLink!Confirmed => payment'.status = "CONFIRMED")
  BY <1>2 DEF ByLink!CreatePayment, ByLink!Land, ByLink!LandIf, ByLink!LandDirect
<1>3. CASE ByLink!ConfirmPayment BY <1>3 DEF ByLink!ConfirmPayment
<1>4. CASE ByLink!Next /\ ~UNCHANGED payment
  <2>1. CASE \E r \in PayRequests : ByLink!CreatePayment(r) \/ ByLink!Land(r) \/ ByLink!LandDirect(r)
    BY <1>2, <2>1
  <2>2. CASE \E x \in PayRequests : ByLink!VerifyAttempt(x) BY <1>3, <2>2 DEF ByLink!VerifyAttempt
  <2>3. CASE \E x \in ByLink!Refs : ByLink!Webhook(x) BY <1>3, <2>3 DEF ByLink!Webhook
  <2>4. CASE ByLink!VerifyByReference BY <1>3, <2>4 DEF ByLink!VerifyByReference
  <2> QED
    BY <1>4, <2>1, <2>2, <2>3, <2>4
    DEF ByLink!Next, ByLink!Handles, ByLink!StartCreate, ByLink!RevokeOthers, ByLink!InsertLink, ByLink!StartInitialize,
        ByLink!StartRevoke, ByLink!Retire, ByLink!InsertAttempt, ByLink!OpenCharge, ByLink!OpenFails, ByLink!Fail,
        ByLink!StartDirect, ByLink!FailDirect, ByLink!SaveRevoked, ByLink!CancelAttempts, ByLink!Lapse, ByLink!Pays,
        ByLink!WebhookUnknown, ByLink!WebhookProcessed
<1> QED BY <1>1, <1>4 DEF ByLink!linkVars

\* A payment that was confirmed is not taken back by the answer of a provider who was asked for a
\* checkout before (payment-link.service.ts's landing, payment.service.ts's guard).
THEOREM LinksConfirmedNeverReverts ==
  ASSUME NEW does
  PROVE  ByLink!Init(does) /\ [][ByLink!Next]_(ByLink!linkVars) => ConfirmedNeverReverts
<1>1. ByLink!Init(does) => PaymentInv BY DEF ByLink!Init, PaymentInv
<1>2. PaymentInv /\ [ByLink!Next]_(ByLink!linkVars) => PaymentInv' BY PaymentSteps
<1>3. PaymentInv /\ [ByLink!Next]_(ByLink!linkVars)
       => [ByLink!Confirmed => payment'.status = "CONFIRMED"]_(ByLink!linkVars)
  BY PaymentSteps
<1> QED BY <1>1, <1>2, <1>3, PTL DEF ConfirmedNeverReverts, ByLink!ConfirmedNeverReverts

-----------------------------------------------------------------------------
(* OrderDesk: requests, and what they are asked for, as Desk!Ask made them. *)
DeskFields == {"op", "on", "at", "seen"}
OrderFields == {"status", "method", "high", "override", "timeline", "address", "call"}
PackFields == {"code", "locked", "waiting"}

\* The plan of a split is a sequence of sets of items, and no request is
\* number 0, which is the code nobody can read.
Asked(does) ==
  /\ 0 \notin DeskRequests
  /\ \A r \in DeskRequests :
       /\ \E op, on : does[r] = Desk!Ask(op, on)
       /\ does[r].op = "split" => does[r].on \in Seq(SUBSET Items)

\* The records have their fields, and a request stays what was asked.
DeskShape(does) ==
  /\ DOMAIN deskReq = DeskRequests /\ DOMAIN deskOrder = OrderFields /\ DOMAIN pack = PackFields
  /\ \A r \in DeskRequests :
       DOMAIN deskReq[r] = DeskFields /\ deskReq[r].op = does[r].op /\ deskReq[r].on = does[r].on

\* A split about to be written has a plan that parts the items, a decision
\* was taken on an order in review, a code is drawn where none could be read.
DeskReads == \A r \in DeskRequests :
  /\ deskReq[r].op = "split" /\ deskReq[r].at = "write" => Desk!Partition(deskReq[r].on)
  /\ deskReq[r].at = "decide" => Desk!InReview(deskReq[r].seen)
  /\ deskReq[r].at = "draw" => deskReq[r].seen.code = 0

\* An order that was decided is not in review again.
DecidedOnce == decided = {} \/ ((\E r : decided = {r}) /\ ~Desk!InReview(deskOrder))

\* A code that was told is the one that opens.
CodeIsTold == deskTold \subseteq {pack.code} /\ (pack.code = 0 => deskTold = {})

DeskInv(does) == DeskShape(does) /\ DeskReads /\ Desk!ItemsInOneGroup /\ DecidedOnce /\ CodeIsTold

\* A request that goes to another step leaves the requests as they were made,
\* and what the others remember.
LEMMA DeskGoes ==
  ASSUME NEW does, DeskShape(does), NEW r \in DeskRequests, NEW at, NEW what,
         \/ deskReq' = [deskReq EXCEPT ![r] = [@ EXCEPT !.at = at]]
         \/ deskReq' = [deskReq EXCEPT ![r] = [@ EXCEPT !.at = at, !.seen = what]]
  PROVE  /\ DOMAIN deskReq' = DeskRequests
         /\ \A q \in DeskRequests : DOMAIN deskReq'[q] = DeskFields /\ deskReq'[q].op = does[q].op
                                    /\ deskReq'[q].on = does[q].on
         /\ deskReq'[r].at = at
         /\ \A q \in DeskRequests : q # r => deskReq'[q] = deskReq[q]
  BY DEF DeskShape, DeskFields

LEMMA DeskRemembers ==
  ASSUME NEW does, DeskShape(does), NEW r \in DeskRequests, NEW at, NEW what,
         Desk!Remember(r, at, what)
  PROVE  /\ DOMAIN deskReq' = DeskRequests
         /\ \A q \in DeskRequests : DOMAIN deskReq'[q] = DeskFields /\ deskReq'[q].op = does[q].op
                                    /\ deskReq'[q].on = does[q].on
         /\ deskReq'[r].at = at /\ deskReq'[r].seen = what
         /\ \A q \in DeskRequests : q # r => deskReq'[q] = deskReq[q]
  BY DEF DeskShape, DeskFields, Desk!Remember

LEMMA DeskIsDone ==
  ASSUME NEW does, DeskShape(does), NEW r \in DeskRequests, Desk!Done(r)
  PROVE  /\ DOMAIN deskReq' = DeskRequests
         /\ \A q \in DeskRequests : DOMAIN deskReq'[q] = DeskFields /\ deskReq'[q].op = does[q].op
                                    /\ deskReq'[q].on = does[q].on
         /\ deskReq'[r].at = "done"
         /\ \A q \in DeskRequests : q # r => deskReq'[q] = deskReq[q]
  BY DEF DeskShape, DeskFields, Desk!Done, Desk!Goto

\* A split by a plan that parts the items leaves each in one delivery.
LEMMA SplitIsWhole ==
  ASSUME NEW r \in DeskRequests, NEW before, deskReq[r].on \in Seq(SUBSET Items),
         Desk!Partition(deskReq[r].on), Desk!Regrouped(r, before)
  PROVE  Desk!ItemsInOneGroup'
<1> DEFINE plan == deskReq[r].on
           group(k) == [id |-> <<r, k>>, items |-> plan[k], fee |-> Desk!Share(plan, k, before)]
<1>1. groups' = {group(k) : k \in 1..Len(plan)} BY DEF Desk!Regrouped, Desk!Retired
<1>2. SUFFICES ASSUME NEW i \in Items
               PROVE  \E g \in groups' : groupOf'[i] = g.id /\ {h \in groups' : i \in h.items} = {g}
  BY DEF Desk!ItemsInOneGroup
<1>3. PICK k \in 1..Len(plan) : i \in plan[k] BY DEF Desk!Partition
<1>4. \A l \in 1..Len(plan) : i \in plan[l] => l = k BY <1>3 DEF Desk!Partition
<1>5. groupOf'[i] = <<r, k>>
  <2>1. (CHOOSE l \in 1..Len(plan) : i \in plan[l]) = k BY <1>3, <1>4
  <2> QED BY <2>1 DEF Desk!Regrouped
<1>6. group(k) \in groups' BY <1>1
<1>7. {h \in groups' : i \in h.items} = {group(k)} BY <1>1, <1>3, <1>4
<1> QED BY <1>5, <1>6, <1>7

\* What a step keeps if it does not split, decide or touch a code.
DeskKeeps ==
  /\ DOMAIN deskOrder' = OrderFields /\ deskOrder'.status = deskOrder.status /\ deskOrder'.method = deskOrder.method
  /\ decided' = decided /\ groups' = groups /\ groupOf' = groupOf
  /\ DOMAIN pack' = PackFields /\ pack'.code = pack.code /\ deskTold' = deskTold

\* A request that is done, or goes to a step of which nothing is remembered.
LEMMA DeskDone ==
  ASSUME NEW does, DeskInv(does), NEW r \in DeskRequests, Desk!Done(r) \/ Desk!Goto(r, "save"), DeskKeeps
  PROVE  DeskInv(does)'
<1>1. PICK at \in {"done", "save"} : deskReq' = [deskReq EXCEPT ![r] = [@ EXCEPT !.at = at]]
  BY DEF Desk!Done, Desk!Goto
<1>2. /\ DOMAIN deskReq' = DeskRequests
      /\ \A q \in DeskRequests : DOMAIN deskReq'[q] = DeskFields /\ deskReq'[q].op = does[q].op
                                 /\ deskReq'[q].on = does[q].on
      /\ deskReq'[r].at = at
      /\ \A q \in DeskRequests : q # r => deskReq'[q] = deskReq[q]
  BY <1>1, DeskGoes DEF DeskInv
<1>3. DeskShape(does)' BY <1>2 DEF DeskKeeps, DeskInv, DeskShape
<1>4. DeskReads' BY <1>2, <1>1 DEF DeskInv, DeskReads, Desk!Partition
<1>5. Desk!ItemsInOneGroup' BY DEF DeskKeeps, DeskInv, Desk!ItemsInOneGroup
<1>6. DecidedOnce' BY DEF DeskKeeps, DeskInv, DecidedOnce, Desk!InReview
<1>7. CodeIsTold' BY DEF DeskKeeps, DeskInv, CodeIsTold
<1> QED BY <1>3, <1>4, <1>5, <1>6, <1>7 DEF DeskInv

\* A request that read something, and remembers it for the step it goes to.
LEMMA DeskRead ==
  ASSUME NEW does, DeskInv(does), NEW r \in DeskRequests, NEW at, NEW what, Desk!Remember(r, at, what), DeskKeeps,
         deskReq[r].op = "split" /\ at = "write" => Desk!Partition(deskReq[r].on),
         at = "decide" => Desk!InReview(what),
         at = "draw" => what.code = 0
  PROVE  DeskInv(does)'
<1>1. /\ DOMAIN deskReq' = DeskRequests
      /\ \A q \in DeskRequests : DOMAIN deskReq'[q] = DeskFields /\ deskReq'[q].op = does[q].op
                                 /\ deskReq'[q].on = does[q].on
      /\ deskReq'[r].at = at /\ deskReq'[r].seen = what
      /\ \A q \in DeskRequests : q # r => deskReq'[q] = deskReq[q]
  BY DeskRemembers DEF DeskInv
<1>2. DeskShape(does)' BY <1>1 DEF DeskKeeps, DeskInv, DeskShape
<1>3. deskReq'[r].op = deskReq[r].op /\ deskReq'[r].on = deskReq[r].on BY <1>1 DEF DeskInv, DeskShape
<1>4. DeskReads' BY <1>1, <1>3 DEF DeskInv, DeskReads, Desk!Partition
<1>5. Desk!ItemsInOneGroup' BY DEF DeskKeeps, DeskInv, Desk!ItemsInOneGroup
<1>6. DecidedOnce' BY DEF DeskKeeps, DeskInv, DecidedOnce, Desk!InReview
<1>7. CodeIsTold' BY DEF DeskKeeps, DeskInv, CodeIsTold
<1> QED BY <1>2, <1>4, <1>5, <1>6, <1>7 DEF DeskInv

\* Calls, overrides, corrections, the hub and the courier.
LEMMA DeskAside ==
  ASSUME NEW does, DeskInv(does), NEW r \in DeskRequests,
         \/ Desk!ReadCall(r) \/ Desk!SaveCall(r) \/ Desk!ReadOverride(r) \/ Desk!InsertOverride(r)
         \/ Desk!SaveOverride(r) \/ Desk!RestoreCustomer(r) \/ Desk!Refuse(r)
         \/ Desk!ReadCorrection(r) \/ Desk!SaveCorrection(r)
         \/ Desk!Consolidate(r) \/ Desk!Book(r) \/ Desk!PickUp(r)
         \/ Desk!ReadSwitch(r) \/ Desk!SwitchCourier(r)
  PROVE  DeskInv(does)'
<1>1. DOMAIN deskOrder = OrderFields /\ DOMAIN pack = PackFields BY DEF DeskInv, DeskShape
<1>2. CASE Desk!ReadCall(r)
  <2>1. DeskKeeps BY <1>1, <1>2 DEF Desk!ReadCall, DeskKeeps
  <2>2. Desk!Remember(r, "save", deskOrder) \/ Desk!Done(r) BY <1>2 DEF Desk!ReadCall
  <2> QED BY <2>1, <2>2, DeskDone, DeskRead
<1>3. CASE Desk!SaveCall(r)
  <2>1. DeskKeeps BY <1>1, <1>3 DEF Desk!SaveCall, DeskKeeps, OrderFields
  <2> QED BY <1>3, <2>1, DeskDone DEF Desk!SaveCall
<1>4. CASE Desk!ReadOverride(r)
  <2>1. DeskKeeps BY <1>1, <1>4 DEF Desk!ReadOverride, DeskKeeps
  <2>2. Desk!Remember(r, "insert", deskOrder) \/ Desk!Done(r) BY <1>4 DEF Desk!ReadOverride
  <2> QED BY <2>1, <2>2, DeskDone, DeskRead
<1>5. CASE Desk!InsertOverride(r)
  <2>1. DeskKeeps BY <1>1, <1>5 DEF Desk!InsertOverride, DeskKeeps
  <2> QED BY <1>5, <2>1, DeskDone DEF Desk!InsertOverride
<1>6. CASE Desk!SaveOverride(r)
  <2>1. DeskKeeps BY <1>1, <1>6 DEF Desk!SaveOverride, DeskKeeps, OrderFields
  <2> QED BY <1>6, <2>1, DeskDone DEF Desk!SaveOverride
<1>7. CASE Desk!RestoreCustomer(r) \/ Desk!Refuse(r)
  <2>1. DeskKeeps BY <1>1, <1>7 DEF Desk!RestoreCustomer, Desk!Refuse, DeskKeeps
  <2> QED BY <1>7, <2>1, DeskDone DEF Desk!RestoreCustomer, Desk!Refuse
<1>8. CASE Desk!ReadCorrection(r)
  <2>1. DeskKeeps BY <1>1, <1>8 DEF Desk!ReadCorrection, DeskKeeps
  <2>2. Desk!Remember(r, "save", deskOrder) \/ Desk!Done(r) BY <1>8 DEF Desk!ReadCorrection
  <2> QED BY <2>1, <2>2, DeskDone, DeskRead
<1>9. CASE Desk!SaveCorrection(r)
  <2>1. DeskKeeps BY <1>1, <1>9 DEF Desk!SaveCorrection, DeskKeeps, OrderFields
  <2> QED BY <1>9, <2>1, DeskDone DEF Desk!SaveCorrection
<1>10. CASE Desk!Consolidate(r) \/ Desk!Book(r) \/ Desk!PickUp(r)
  <2>1. DeskKeeps BY <1>1, <1>10 DEF Desk!Consolidate, Desk!Book, Desk!PickUp, DeskKeeps
  <2> QED BY <1>10, <2>1, DeskDone DEF Desk!Consolidate, Desk!Book, Desk!PickUp
<1>11. CASE Desk!ReadSwitch(r)
  <2>1. DeskKeeps BY <1>1, <1>11 DEF Desk!ReadSwitch, DeskKeeps
  <2>2. Desk!Remember(r, "switch", shipment) \/ Desk!Done(r) BY <1>11 DEF Desk!ReadSwitch
  <2> QED BY <2>1, <2>2, DeskDone, DeskRead
<1>12. CASE Desk!SwitchCourier(r)
  <2>1. DeskKeeps BY <1>1, <1>12 DEF Desk!SwitchCourier, DeskKeeps, OrderFields
  <2> QED BY <1>12, <2>1, DeskDone DEF Desk!SwitchCourier
<1> QED BY <1>2, <1>3, <1>4, <1>5, <1>6, <1>7, <1>8, <1>9, <1>10, <1>11, <1>12

\* A decision is made of an order in review, which no decision left there.
LEMMA DeskDecision ==
  ASSUME NEW does, DeskInv(does), NEW r \in DeskRequests, Desk!ReadDecision(r) \/ Desk!Decide(r)
  PROVE  DeskInv(does)'
<1>1. DOMAIN deskOrder = OrderFields /\ DOMAIN pack = PackFields BY DEF DeskInv, DeskShape
<1>2. CASE Desk!ReadDecision(r)
  <2>1. DeskKeeps BY <1>1, <1>2 DEF Desk!ReadDecision, DeskKeeps
  <2>2. (Desk!InReview(deskOrder) /\ Desk!Remember(r, "decide", deskOrder)) \/ Desk!Done(r)
    BY <1>2 DEF Desk!ReadDecision
  <2> QED BY <2>1, <2>2, DeskDone, DeskRead
<1>3. CASE Desk!Decide(r) /\ ~Desk!AsRead(deskReq[r].seen)
  <2>1. DeskKeeps BY <1>1, <1>3 DEF Desk!Decide, DeskKeeps
  <2> QED BY <1>3, <2>1, DeskDone DEF Desk!Decide
<1>4. CASE Desk!Decide(r) /\ Desk!AsRead(deskReq[r].seen)
  <2>1. Desk!Done(r) /\ UNCHANGED <<groups, groupOf, pack, deskTold>> BY <1>4 DEF Desk!Decide
  <2>2. deskReq[r].at = "decide" BY <1>4 DEF Desk!Decide, Desk!Now
  <2>3. Desk!InReview(deskReq[r].seen) BY <2>2 DEF DeskInv, DeskReads
  <2>4. Desk!InReview(deskOrder) BY <1>4, <2>3 DEF Desk!InReview, Desk!AsRead
  <2>5. decided = {} BY <2>4 DEF DeskInv, DecidedOnce
  <2>6. decided' = {r} BY <1>4, <2>5 DEF Desk!Decide
  <2>7. deskReq[r].op \in {"approve", "prepay", "decline"} BY <1>4 DEF Desk!Decide, Desk!Now
  <2>8. DOMAIN deskOrder' = OrderFields /\ deskOrder'.status # "review"
    BY <1>1, <1>4, <2>7 DEF Desk!Decide, Desk!Outcome, OrderFields
  <2>9. DecidedOnce' BY <2>6, <2>8 DEF DecidedOnce, Desk!InReview
  <2>10. /\ DOMAIN deskReq' = DeskRequests
         /\ \A q \in DeskRequests : DOMAIN deskReq'[q] = DeskFields /\ deskReq'[q].op = does[q].op
                                    /\ deskReq'[q].on = does[q].on
         /\ deskReq'[r].at = "done"
         /\ \A q \in DeskRequests : q # r => deskReq'[q] = deskReq[q]
    BY <2>1, DeskIsDone DEF DeskInv
  <2>11. DeskShape(does)' BY <1>1, <2>1, <2>8, <2>10 DEF DeskShape
  <2>12. DeskReads' BY <2>10 DEF DeskInv, DeskReads, Desk!Partition
  <2>13. Desk!ItemsInOneGroup' /\ CodeIsTold' BY <2>1 DEF DeskInv, Desk!ItemsInOneGroup, CodeIsTold
  <2> QED BY <2>9, <2>11, <2>12, <2>13 DEF DeskInv
<1> QED BY <1>2, <1>3, <1>4

\* A split replaces the deliveries of the order.
LEMMA DeskSplit ==
  ASSUME NEW does, Asked(does), DeskInv(does), NEW r \in DeskRequests,
         Desk!ReadSplit(r) \/ Desk!WriteSplit(r) \/ Desk!RetrySplit(r)
  PROVE  DeskInv(does)'
<1>1. DOMAIN deskOrder = OrderFields /\ DOMAIN pack = PackFields BY DEF DeskInv, DeskShape
<1>2. CASE Desk!ReadSplit(r)
  <2>1. DeskKeeps BY <1>1, <1>2 DEF Desk!ReadSplit, DeskKeeps
  <2>2. (Desk!Partition(deskReq[r].on) /\ Desk!Remember(r, "write", deskOrder)) \/ Desk!Done(r)
    BY <1>2 DEF Desk!ReadSplit
  <2> QED BY <2>1, <2>2, DeskDone, DeskRead
<1>3. CASE ~Desk!ReadSplit(r)
  <2>1. Desk!Done(r) /\ UNCHANGED <<pack, deskTold, decided>> BY <1>3 DEF Desk!WriteSplit, Desk!RetrySplit
  <2>2. deskReq[r].op = "split" /\ deskReq[r].at = "write" BY <1>3 DEF Desk!WriteSplit, Desk!RetrySplit, Desk!Now
  <2>3. Desk!Partition(deskReq[r].on) /\ deskReq[r].on \in Seq(SUBSET Items)
    BY <2>2 DEF DeskInv, DeskReads, DeskShape, Asked
  <2>4. (\E before : Desk!Regrouped(r, before)) \/ UNCHANGED <<groups, groupOf, deskOrder>>
    BY <1>3 DEF Desk!WriteSplit, Desk!RetrySplit
  <2>5. Desk!ItemsInOneGroup'
    <3>1. CASE UNCHANGED <<groups, groupOf, deskOrder>> BY <3>1 DEF DeskInv, Desk!ItemsInOneGroup
    <3>2. CASE \E before : Desk!Regrouped(r, before) BY <2>3, <3>2, SplitIsWhole
    <3> QED BY <2>4, <3>1, <3>2
  <2>6. /\ DOMAIN deskOrder' = OrderFields
        /\ deskOrder'.status = deskOrder.status /\ deskOrder'.method = deskOrder.method
    BY <1>1, <2>4 DEF Desk!Regrouped, OrderFields
  <2>7. DecidedOnce' BY <2>1, <2>6 DEF DeskInv, DecidedOnce, Desk!InReview
  <2>8. /\ DOMAIN deskReq' = DeskRequests
        /\ \A q \in DeskRequests : DOMAIN deskReq'[q] = DeskFields /\ deskReq'[q].op = does[q].op
                                   /\ deskReq'[q].on = does[q].on
        /\ deskReq'[r].at = "done"
        /\ \A q \in DeskRequests : q # r => deskReq'[q] = deskReq[q]
    BY <2>1, DeskIsDone DEF DeskInv
  <2>9. DeskShape(does)' BY <1>1, <2>1, <2>6, <2>8 DEF DeskShape
  <2>10. DeskReads' BY <2>8 DEF DeskInv, DeskReads, Desk!Partition
  <2>11. CodeIsTold' BY <2>1 DEF DeskInv, CodeIsTold
  <2> QED BY <2>5, <2>7, <2>9, <2>10, <2>11 DEF DeskInv
<1> QED BY <1>2, <1>3

\* A code is drawn where there is none, and none is drawn over it.
LEMMA DeskCode ==
  ASSUME NEW does, Asked(does), DeskInv(does), NEW r \in DeskRequests,
         Desk!ReadPack(r) \/ Desk!DrawCode(r) \/ Desk!LockPack(r) \/ Desk!ReceivePack(r)
  PROVE  DeskInv(does)'
<1>1. DOMAIN deskOrder = OrderFields /\ DOMAIN pack = PackFields /\ CodeIsTold BY DEF DeskInv, DeskShape
<1>2. CASE Desk!ReadPack(r) /\ Desk!Remember(r, "draw", pack) /\ pack.code = 0 /\ deskTold' = deskTold
  <2>1. DeskKeeps BY <1>1, <1>2 DEF Desk!ReadPack, DeskKeeps
  <2> QED BY <1>2, <2>1, DeskRead
<1>3. CASE Desk!LockPack(r) \/ Desk!ReceivePack(r)
  <2>1. DeskKeeps BY <1>1, <1>3 DEF Desk!LockPack, Desk!ReceivePack, DeskKeeps, PackFields
  <2> QED BY <1>3, <2>1, DeskDone DEF Desk!LockPack, Desk!ReceivePack
<1>4. CASE Desk!Done(r) /\ (Desk!ReadPack(r) \/ Desk!DrawCode(r))
  <2>1. UNCHANGED <<deskOrder, groups, groupOf, decided>> BY <1>4 DEF Desk!ReadPack, Desk!DrawCode
  <2>2. deskReq[r].at = "draw" => deskReq[r].seen.code = 0 BY DEF DeskInv, DeskReads
  <2>3. DOMAIN pack' = PackFields BY <1>1, <1>4 DEF Desk!ReadPack, Desk!DrawCode, PackFields
  <2>4. CodeIsTold'
    <3>1. CASE Desk!ReadPack(r) BY <1>1, <3>1 DEF Desk!ReadPack, CodeIsTold
    <3>2. CASE Desk!DrawCode(r) /\ Desk!StillUnread(deskReq[r].seen)
      <4>1. deskReq[r].at = "draw" /\ pack.code = 0
        BY <2>2, <3>2 DEF Desk!DrawCode, Desk!Now, Desk!StillUnread
      <4>2. deskTold = {} BY <1>1, <4>1 DEF CodeIsTold
      <4>3. pack'.code = r /\ deskTold' = {r} BY <1>1, <3>2, <4>2 DEF Desk!DrawCode, PackFields
      <4> QED BY <4>3 DEF CodeIsTold, Asked
    <3>3. CASE Desk!DrawCode(r) /\ ~Desk!StillUnread(deskReq[r].seen)
      BY <1>1, <3>3 DEF Desk!DrawCode, CodeIsTold
    <3> QED BY <1>4, <3>1, <3>2, <3>3
  <2>5. /\ DOMAIN deskReq' = DeskRequests
        /\ \A q \in DeskRequests : DOMAIN deskReq'[q] = DeskFields /\ deskReq'[q].op = does[q].op
                                   /\ deskReq'[q].on = does[q].on
        /\ deskReq'[r].at = "done"
        /\ \A q \in DeskRequests : q # r => deskReq'[q] = deskReq[q]
    BY <1>4, DeskIsDone DEF DeskInv
  <2>6. DeskShape(does)' BY <1>1, <2>1, <2>3, <2>5 DEF DeskShape
  <2>7. DeskReads' BY <2>5 DEF DeskInv, DeskReads, Desk!Partition
  <2>8. Desk!ItemsInOneGroup' /\ DecidedOnce' BY <2>1 DEF DeskInv, Desk!ItemsInOneGroup, DecidedOnce, Desk!InReview
  <2> QED BY <2>4, <2>6, <2>7, <2>8 DEF DeskInv
<1>5. Desk!DrawCode(r) => Desk!Done(r) BY DEF Desk!DrawCode
<1>6. Desk!ReadPack(r) => Desk!Done(r) \/ (Desk!Remember(r, "draw", pack) /\ pack.code = 0 /\ deskTold' = deskTold)
  BY DEF Desk!ReadPack
<1> QED BY <1>2, <1>3, <1>4, <1>5, <1>6

\* Operators at one order, as many as there are: every item is in one
\* delivery, the one it names; an order in review is decided once; and every
\* handover code that was told opens the package.  The plans of the splits are
\* sequences of sets of items, which is what the route lets through.
THEOREM DeskDeskHolds ==
  ASSUME NEW does, NEW status, NEW high, Asked(does)
  PROVE  Desk!Init(does, status, high) /\ [][Desk!Next]_deskVars => []DeskHolds
<1>1. Desk!Init(does, status, high) => DeskInv(does)
  <2> SUFFICES ASSUME Desk!Init(does, status, high) PROVE DeskInv(does)
    OBVIOUS
  <2>1. DeskShape(does)
    <3>1. deskReq = [r \in DeskRequests |-> does[r]] BY DEF Desk!Init
    <3>2. ASSUME NEW r \in DeskRequests PROVE DOMAIN does[r] = DeskFields
      <4>1. PICK op, on : does[r] = [op |-> op, on |-> on, at |-> "start", seen |-> <<>>]
        BY DEF Asked, Desk!Ask
      <4> QED BY <4>1 DEF DeskFields
    <3>3. DOMAIN deskOrder = OrderFields /\ DOMAIN pack = PackFields BY DEF Desk!Init, OrderFields, PackFields
    <3> QED BY <3>1, <3>2, <3>3 DEF DeskShape
  <2>2. ASSUME NEW r \in DeskRequests PROVE deskReq[r].at = "start"
    <3>1. PICK op, on : does[r] = [op |-> op, on |-> on, at |-> "start", seen |-> <<>>]
      BY DEF Asked, Desk!Ask
    <3> QED BY <3>1 DEF Desk!Init
  <2>3. DeskReads BY <2>2 DEF DeskReads
  <2>4. Desk!ItemsInOneGroup
    <3>1. groups = {[id |-> <<0, 1>>, items |-> Items, fee |-> Fee]} /\ groupOf = [i \in Items |-> <<0, 1>>]
      BY DEF Desk!Init
    <3> QED BY <3>1 DEF Desk!ItemsInOneGroup
  <2>5. DecidedOnce
    <3>1. decided = {} BY DEF Desk!Init
    <3> QED BY <3>1 DEF DecidedOnce
  <2>6. CodeIsTold
    <3>1. deskTold = {} BY DEF Desk!Init
    <3> QED BY <3>1 DEF CodeIsTold
  <2> QED BY <2>1, <2>3, <2>4, <2>5, <2>6 DEF DeskInv
<1>2. DeskInv(does) /\ [Desk!Next]_deskVars => DeskInv(does)'
  <2> SUFFICES ASSUME DeskInv(does), [Desk!Next]_deskVars PROVE DeskInv(does)'
    OBVIOUS
  <2>1. CASE UNCHANGED deskVars
    <3>1. UNCHANGED <<deskOrder, groups, groupOf, pack, deskTold, decided, deskReq>> BY <2>1 DEF deskVars
    <3>2. DeskShape(does)' BY <3>1 DEF DeskInv, DeskShape
    <3>3. DeskReads' BY <3>1 DEF DeskInv, DeskReads, Desk!InReview, Desk!Partition
    <3>4. Desk!ItemsInOneGroup' BY <3>1 DEF DeskInv, Desk!ItemsInOneGroup
    <3>5. DecidedOnce' /\ CodeIsTold' BY <3>1 DEF DeskInv, DecidedOnce, CodeIsTold, Desk!InReview
    <3> QED BY <3>2, <3>3, <3>4, <3>5 DEF DeskInv
  <2>2. CASE Desk!Next
    <3>1. PICK r \in DeskRequests :
            \/ Desk!ReadCall(r) \/ Desk!SaveCall(r) \/ Desk!ReadOverride(r) \/ Desk!InsertOverride(r)
            \/ Desk!SaveOverride(r) \/ Desk!ReadDecision(r) \/ Desk!Decide(r) \/ Desk!RestoreCustomer(r)
            \/ Desk!Refuse(r) \/ Desk!ReadCorrection(r) \/ Desk!SaveCorrection(r) \/ Desk!ReadSplit(r)
            \/ Desk!WriteSplit(r) \/ Desk!RetrySplit(r) \/ Desk!Consolidate(r) \/ Desk!Book(r)
            \/ Desk!PickUp(r) \/ Desk!ReadSwitch(r) \/ Desk!SwitchCourier(r) \/ Desk!ReadPack(r)
            \/ Desk!DrawCode(r) \/ Desk!LockPack(r) \/ Desk!ReceivePack(r)
      BY <2>2 DEF Desk!Next
    <3> QED BY <3>1, DeskAside, DeskDecision, DeskSplit, DeskCode
  <2> QED BY <2>1, <2>2
<1>3. DeskInv(does) => DeskHolds
  <2>1. DecidedOnce => Desk!DecidedByOne BY DEF DecidedOnce, Desk!DecidedByOne
  <2> QED BY <2>1 DEF DeskInv, DeskHolds, CodeIsTold, Desk!ToldCodeOpens
<1> QED BY <1>1, <1>2, <1>3, PTL
-----------------------------------------------------------------------------
(* Network: the records have their fields; a market, a hub or an address is *)
(* where it says, but for what history knows; and a request that is open    *)
(* has looked at what it is to set.                                         *)
PlacingFields == {"op", "on", "to", "at", "set"}
HubFields == {"state", "city", "markets", "status"}
MarketFields == {"state", "city", "hub", "status"}
AddressFields == {"state", "city", "area", "default", "status"}
AreaFields == {"state", "name", "status"}

PlacesShape ==
  /\ DOMAIN placing = Placings /\ \A r \in Placings : DOMAIN placing[r] = PlacingFields
  /\ DOMAIN hub = Hubs /\ \A h \in Hubs : DOMAIN hub[h] = HubFields
  /\ DOMAIN market = Markets /\ \A m \in Markets : DOMAIN market[m] = MarketFields
  /\ DOMAIN address = Addresses
  /\ \A a \in Addresses :
       DOMAIN address[a] = AddressFields /\ (address[a].status = "none" => address[a] = Network!NoAddress)
  /\ \A n \in area : DOMAIN n = AreaFields

MarketHolds(m) == market[m] # Network!NoMarket =>
  /\ market[m].state # "none"
  /\ Network!InCity(m, market[m].state, market[m].city) /\ Network!AtHub(m, market[m].state, market[m].hub)
HubHolds(h) == hub[h] # Network!NoHub =>
  hub[h].state # "none" /\ Network!InCity(h, hub[h].state, hub[h].city)
AddressHolds(a) == address[a].status # "none" =>
  Network!Lives(a, address[a].state, address[a].city, address[a].area)

\* What a request found out of a market, a hub or an address, it may write.
At(r, op, steps) == placing[r].op = op /\ placing[r].at \in steps
MarketAsked(r) == At(r, "market", {"create", "write"}) =>
  /\ placing[r].on \in Markets /\ placing[r].set.state # "none"
  /\ placing[r].at = "create" => DOMAIN placing[r].set = MarketFields
  /\ placing[r].at = "write" => DOMAIN placing[r].set \in {{"state", "city"}, {"state", "city", "hub"}}
  /\ Network!InCity(placing[r].on, placing[r].set.state, placing[r].set.city)
  /\ Network!AtHub(placing[r].on, placing[r].set.state,
       IF "hub" \in DOMAIN placing[r].set THEN placing[r].set.hub ELSE market[placing[r].on].hub)
HubAssigned(r) == At(r, "assignMarketHub", {"write"}) =>
  /\ placing[r].on \in Markets /\ DOMAIN placing[r].set = {"hub"}
  /\ market[placing[r].on].state # "none"
  /\ Network!AtHub(placing[r].on, market[placing[r].on].state, placing[r].set.hub)
MarketsAssigned(r) == At(r, "assignHubMarkets", {"write", "markets"}) =>
  /\ placing[r].on \in Hubs /\ hub[placing[r].on].state # "none"
  /\ placing[r].set.markets = placing[r].to.markets
  /\ \A m \in Markets : m \in placing[r].to.markets =>
       market[m].state # "none" /\ Network!AtHub(m, market[m].state, placing[r].on)
HubAsked(r) == At(r, "hub", {"create", "write"}) =>
  /\ placing[r].on \in Hubs /\ placing[r].set.state # "none"
  /\ placing[r].at = "create" => DOMAIN placing[r].set = HubFields
  /\ placing[r].at = "write" => DOMAIN placing[r].set = {"state", "city", "markets"}
  /\ Network!InCity(placing[r].on, placing[r].set.state, placing[r].set.city)
AddressAsked(r) == At(r, "address", {"clear", "count", "create", "write"}) =>
  /\ placing[r].on \in Addresses
  /\ \/ DOMAIN placing[r].set = AddressFields /\ placing[r].set.status = "active"
     \/ /\ DOMAIN placing[r].set \subseteq {"state", "city", "area", "default"}
        /\ placing[r].at \in {"clear", "write"} /\ address[placing[r].on].status # "none"
  /\ Network!Lives(placing[r].on,
       IF "state" \in DOMAIN placing[r].set THEN placing[r].set.state ELSE address[placing[r].on].state,
       IF "city" \in DOMAIN placing[r].set THEN placing[r].set.city ELSE address[placing[r].on].city,
       IF "area" \in DOMAIN placing[r].set THEN placing[r].set.area ELSE address[placing[r].on].area)
DefaultAsked(r) == At(r, "setDefault", {"clear", "write"}) \/ At(r, "archive", {"write"}) =>
  /\ placing[r].on \in Addresses /\ address[placing[r].on].status # "none"
  /\ DOMAIN placing[r].set \subseteq {"default", "status"}
  /\ "status" \in DOMAIN placing[r].set => placing[r].op = "archive" /\ placing[r].set.status = "archived"
  /\ placing[r].op = "archive" /\ "default" \in DOMAIN placing[r].set => placing[r].set.default = FALSE
\* Who names the default, alone at work on the book, has cleared it.
BookAsked(r) == "book" \notin crossed =>
  /\ placing[r].op \in {"address", "setDefault"} /\ placing[r].at = "write"
       /\ "default" \in DOMAIN placing[r].set /\ placing[r].set.default = TRUE => Network!Defaults \subseteq {placing[r].on}
  /\ placing[r].op = "address" /\ placing[r].at \in {"count", "create"} /\ placing[r].set.default = TRUE
       => Network!Defaults = {}
  /\ placing[r].op = "archive" /\ placing[r].at = "promote" => Network!Defaults = {}
PlaceAsked(r) ==
  /\ MarketAsked(r) /\ HubAssigned(r) /\ MarketsAssigned(r) /\ HubAsked(r)
  /\ AddressAsked(r) /\ DefaultAsked(r) /\ BookAsked(r)

RecordsHold ==
  /\ \A m \in Markets : MarketHolds(m)
  /\ \A h \in Hubs : HubHolds(h)
  /\ \A a \in Addresses : AddressHolds(a)
PlacesInv ==
  /\ PlacesShape /\ Network!Overlapping \subseteq crossed
  /\ RecordsHold /\ Network!OneDefault /\ \A r \in Placings : PlaceAsked(r)

-----------------------------------------------------------------------------
\* A request goes to a step with what it is to set, and history is kept.
PlacingGoes(r, at, set) ==
  /\ DOMAIN placing' = Placings
  /\ \A q \in Placings :
       /\ DOMAIN placing'[q] = PlacingFields
       /\ placing'[q].op = placing[q].op /\ placing'[q].on = placing[q].on /\ placing'[q].to = placing[q].to
  /\ placing'[r].at = at /\ placing'[r].set = set
  /\ \A q \in Placings : q # r => placing'[q] = placing[q]
Remembers == crossed' = crossed \cup Network!Overlapping' /\ uprooted' = uprooted \cup Network!Uproots

LEMMA PlacingGo ==
  ASSUME PlacesShape, NEW r \in Placings, NEW at, NEW set, Network!Goes(r, at, set)
  PROVE  PlacingGoes(r, at, set)
  BY DEF Network!Goes, PlacesShape, PlacingGoes, PlacingFields
LEMMA PlacingDone ==
  ASSUME PlacesShape, NEW r \in Placings, Network!Done(r)
  PROVE  PlacingGoes(r, "done", <<>>)
  BY PlacingGo DEF Network!Done

\* What lies in a city goes on to, unless history knows that it moved.
AreasStay == \A n \in area : \E k \in area' : k.state = n.state /\ k.name = n.name
LEMMA InCityStays ==
  ASSUME Remembers, NEW x \in Markets \cup Hubs \cup Addresses, NEW s, NEW c,
         Network!InCity(x, s, c), Network!LiesAt(x, c)
  PROVE  Network!InCity(x, s, c)'
<1>1. CASE <<x, c>> \in uprooted BY <1>1 DEF Remembers, Network!InCity
<1>2. CASE city[c].state = s /\ city'[c].state # s
  <2>1. c \in Network!Moved BY <1>2 DEF Network!Moved, Network!InCity
  <2>2. <<x, c>> \in Network!Uproots BY <2>1 DEF Network!Uproots
  <2> QED BY <2>2 DEF Remembers, Network!InCity
<1>3. CASE city'[c].state = s BY <1>3 DEF Network!InCity
<1> QED BY <1>1, <1>2, <1>3 DEF Network!InCity
LEMMA AtHubStays ==
  ASSUME Remembers, NEW m \in Markets, NEW s, NEW h, Network!AtHub(m, s, h), Network!LiesAt(m, h)
  PROVE  Network!AtHub(m, s, h)'
<1>1. CASE h = "none" \/ m \in crossed \/ <<m, h>> \in uprooted BY <1>1 DEF Remembers, Network!AtHub
<1>2. CASE h \in Hubs /\ hub[h].state = s /\ hub'[h].state # s
  <2>1. h \in Network!Moved BY <1>2 DEF Network!Moved
  <2>2. <<m, h>> \in Network!Uproots BY <2>1 DEF Network!Uproots
  <2> QED BY <1>2, <2>2 DEF Remembers, Network!AtHub
<1>3. CASE h \in Hubs /\ hub'[h].state = s BY <1>3 DEF Network!AtHub
<1> QED BY <1>1, <1>2, <1>3 DEF Network!AtHub
LEMMA LivesStays ==
  ASSUME Remembers, AreasStay, NEW a \in Addresses, NEW s, NEW c, NEW n,
         Network!Lives(a, s, c, n), Network!LiesAt(a, c)
  PROVE  Network!Lives(a, s, c, n)'
<1>1. CASE a \in crossed BY <1>1 DEF Remembers, Network!Lives
<1>2. CASE a \notin crossed
  <2>1. c = "none" \/ Network!InCity(a, s, c)' BY <1>2, InCityStays DEF Network!Lives
  <2>2. n = "none" \/ \E k \in area' : k.state = s /\ k.name = n
    <3>1. n = "none" \/ \E k \in area : k.state = s /\ k.name = n BY <1>2 DEF Network!Lives
    <3>2. CASE n = "none" BY <3>2
    <3>3. CASE \E k \in area : k.state = s /\ k.name = n
      <4>1. PICK k \in area : k.state = s /\ k.name = n BY <3>3
      <4> QED BY <4>1 DEF AreasStay
    <3> QED BY <3>1, <3>2, <3>3
  <2> QED BY <2>1, <2>2 DEF Network!Lives
<1> QED BY <1>1, <1>2

\* What moves no city and no hub changes none of that.
LEMMA PlacesRest ==
  ASSUME Remembers, UNCHANGED <<city, hub, area>>
  PROVE  /\ \A x, s, c : Network!InCity(x, s, c) => Network!InCity(x, s, c)'
         /\ \A m, s, h : Network!AtHub(m, s, h) => Network!AtHub(m, s, h)'
         /\ \A a, s, c, n : Network!Lives(a, s, c, n) => Network!Lives(a, s, c, n)'
<1>1. \A x, s, c : Network!InCity(x, s, c) => Network!InCity(x, s, c)' BY DEF Remembers, Network!InCity
<1>2. \A m, s, h : Network!AtHub(m, s, h) => Network!AtHub(m, s, h)' BY DEF Remembers, Network!AtHub
<1>3. ASSUME NEW a, NEW s, NEW c, NEW n, Network!Lives(a, s, c, n) PROVE Network!Lives(a, s, c, n)'
  BY <1>1, <1>3 DEF Remembers, Network!Lives
<1> QED BY <1>1, <1>2, <1>3

\* The step of a request leaves the records of others as they are, or is at
\* work on them.
SameMarket(m) == market'[m].state = market[m].state /\ market'[m].city = market[m].city /\ market'[m].hub = market[m].hub
SameHub(h) == hub'[h].state = hub[h].state /\ hub'[h].city = hub[h].city
SameAddress(a) ==
  address'[a].state = address[a].state /\ address'[a].city = address[a].city /\ address'[a].area = address[a].area
Framed(r) ==
  /\ AreasStay
  /\ \A m \in Markets : /\ SameMarket(m) \/ m \in Network!Subjects(r)
                        /\ market[m].state # "none" => market'[m].state # "none"
  /\ \A h \in Hubs : hub[h].state # "none" => hub'[h].state # "none"
  /\ \A a \in Addresses : /\ SameAddress(a) \/ a \in Network!Subjects(r)
                          /\ address[a].status # "none" => address'[a].status # "none"
  /\ address' = address \/ "book" \in Network!Subjects(r)

LEMMA Meet ==
  ASSUME PlacesInv, Remembers, NEW r \in Placings, NEW q \in Placings, q # r,
         NEW x \in Markets \cup Addresses \cup {"book"}, x \in Network!Subjects(r), x \in Network!Subjects(q)
  PROVE  x \in crossed'
  BY DEF PlacesInv, Network!Overlapping, Remembers

\* A record that keeps its places holds on.
LEMMA MarketStays ==
  ASSUME Remembers, NEW m \in Markets, MarketHolds(m), market'[m] = Network!NoMarket \/ market[m] # Network!NoMarket,
         SameMarket(m)
  PROVE  MarketHolds(m)'
<1> SUFFICES ASSUME market'[m] # Network!NoMarket PROVE MarketHolds(m)'
  BY DEF MarketHolds
<1>1. PICK s, c, h : s = market[m].state /\ c = market[m].city /\ h = market[m].hub OBVIOUS
<1>2. s # "none" /\ Network!InCity(m, s, c) /\ Network!AtHub(m, s, h) BY <1>1 DEF MarketHolds
<1>3. Network!LiesAt(m, c) /\ Network!LiesAt(m, h) BY <1>1 DEF Network!LiesAt
<1>4. Network!InCity(m, s, c)' /\ Network!AtHub(m, s, h)' BY <1>2, <1>3, InCityStays, AtHubStays
<1>5. market'[m].state = s /\ market'[m].city = c /\ market'[m].hub = h BY <1>1 DEF SameMarket
<1> QED BY <1>2, <1>4, <1>5 DEF MarketHolds, Network!InCity, Network!AtHub
LEMMA HubStays ==
  ASSUME Remembers, NEW h \in Hubs, HubHolds(h), hub'[h] = Network!NoHub \/ hub[h] # Network!NoHub, SameHub(h)
  PROVE  HubHolds(h)'
<1> SUFFICES ASSUME hub'[h] # Network!NoHub PROVE HubHolds(h)'
  BY DEF HubHolds
<1>1. PICK s, c : s = hub[h].state /\ c = hub[h].city OBVIOUS
<1>2. s # "none" /\ Network!InCity(h, s, c) BY <1>1 DEF HubHolds
<1>3. Network!LiesAt(h, c) BY <1>1 DEF Network!LiesAt
<1>4. Network!InCity(h, s, c)' BY <1>2, <1>3, InCityStays
<1>5. hub'[h].state = s /\ hub'[h].city = c BY <1>1 DEF SameHub
<1> QED BY <1>2, <1>4, <1>5 DEF HubHolds, Network!InCity
LEMMA AddressStays ==
  ASSUME Remembers, AreasStay, NEW a \in Addresses, AddressHolds(a),
         address'[a].status = "none" \/ address[a].status # "none", SameAddress(a)
  PROVE  AddressHolds(a)'
<1> SUFFICES ASSUME address'[a].status # "none" PROVE AddressHolds(a)'
  BY DEF AddressHolds
<1>1. PICK s, c, n : s = address[a].state /\ c = address[a].city /\ n = address[a].area OBVIOUS
<1>2. Network!Lives(a, s, c, n) BY <1>1 DEF AddressHolds
<1>3. Network!LiesAt(a, c) BY <1>1 DEF Network!LiesAt
<1>4. Network!Lives(a, s, c, n)' BY <1>2, <1>3, LivesStays
<1>5. address'[a].state = s /\ address'[a].city = c /\ address'[a].area = n BY <1>1 DEF SameAddress
<1> QED BY <1>4, <1>5 DEF AddressHolds, Network!Lives, Network!InCity

-----------------------------------------------------------------------------
\* What the others are about to write, after the step of a request.
LEMMA OtherMarkets ==
  ASSUME PlacesInv, NEW r \in Placings, NEW at, NEW set, PlacingGoes(r, at, set), Remembers, Framed(r),
         NEW q \in Placings, q # r
  PROVE  MarketAsked(q)' /\ HubAssigned(q)' /\ MarketsAssigned(q)' /\ HubAsked(q)'
<1>0. placing'[q] = placing[q] BY DEF PlacingGoes
<1>1. MarketAsked(q)'
  <2> SUFFICES ASSUME At(q, "market", {"create", "write"}) PROVE MarketAsked(q)'
    BY <1>0 DEF MarketAsked, At
  <2>1. MarketAsked(q) BY DEF PlacesInv, PlaceAsked
  <2>2. PICK p : p = placing[q] OBVIOUS
  <2>3. PICK m \in Markets : m = p.on BY <2>1, <2>2 DEF MarketAsked
  <2>4. PICK h : h = IF "hub" \in DOMAIN p.set THEN p.set.hub ELSE market[m].hub OBVIOUS
  <2>5. /\ DOMAIN p.set = MarketFields \/ DOMAIN p.set \in {{"state", "city"}, {"state", "city", "hub"}}
        /\ Network!InCity(m, p.set.state, p.set.city) /\ Network!AtHub(m, p.set.state, h)
    BY <2>1, <2>2, <2>3, <2>4 DEF MarketAsked, At
  <2>6. Network!Open(q) BY DEF Network!Open, At
  <2>7. Network!LiesAt(m, p.set.city) /\ Network!LiesAt(m, h)
    <3>1. Network!Given(p.set, "city", "none") = p.set.city BY <2>5 DEF Network!Given, MarketFields
    <3>2. h = market[m].hub \/ Network!Given(p.set, "hub", "none") = h BY <2>4 DEF Network!Given
    <3> QED BY <2>2, <2>3, <2>6, <3>1, <3>2 DEF Network!LiesAt
  <2>8. Network!InCity(m, p.set.state, p.set.city)' BY <2>5, <2>7, InCityStays
  <2>9. Network!AtHub(m, p.set.state, h)' BY <2>5, <2>7, AtHubStays
  <2>10. market'[m].hub = market[m].hub \/ m \in crossed'
    <3>1. CASE SameMarket(m) BY <3>1 DEF SameMarket
    <3>2. CASE m \in Network!Subjects(r)
      <4>1. m \in Network!Subjects(q) BY <2>2, <2>3, <2>6 DEF Network!Subjects, At
      <4> QED BY <3>2, <4>1, Meet
    <3> QED BY <3>1, <3>2 DEF Framed
  <2>11. Network!AtHub(m, p.set.state, IF "hub" \in DOMAIN p.set THEN p.set.hub ELSE market[m].hub)'
    BY <2>4, <2>9, <2>10 DEF Network!AtHub
  <2> QED BY <1>0, <2>1, <2>2, <2>3, <2>8, <2>11 DEF MarketAsked, At, Network!InCity, Network!AtHub
<1>2. HubAssigned(q)'
  <2> SUFFICES ASSUME At(q, "assignMarketHub", {"write"}) PROVE HubAssigned(q)'
    BY <1>0 DEF HubAssigned, At
  <2>1. HubAssigned(q) BY DEF PlacesInv, PlaceAsked
  <2>2. PICK p : p = placing[q] OBVIOUS
  <2>3. PICK m \in Markets : m = p.on BY <2>1, <2>2 DEF HubAssigned
  <2>4. PICK s : s = market[m].state OBVIOUS
  <2>5. DOMAIN p.set = {"hub"} /\ s # "none" /\ Network!AtHub(m, s, p.set.hub)
    BY <2>1, <2>2, <2>3, <2>4 DEF HubAssigned
  <2>6. Network!Open(q) BY DEF Network!Open, At
  <2>7. Network!LiesAt(m, p.set.hub)
    BY <2>2, <2>3, <2>5, <2>6 DEF Network!LiesAt, Network!Given
  <2>8. Network!AtHub(m, s, p.set.hub)' BY <2>5, <2>7, AtHubStays
  <2>9. market'[m].state = s \/ m \in crossed'
    <3>1. CASE SameMarket(m) BY <2>4, <3>1 DEF SameMarket
    <3>2. CASE m \in Network!Subjects(r)
      <4>1. m \in Network!Subjects(q) BY <2>2, <2>3, <2>6 DEF Network!Subjects, At
      <4> QED BY <3>2, <4>1, Meet
    <3> QED BY <3>1, <3>2 DEF Framed
  <2>10. market'[m].state # "none" BY <2>4, <2>5 DEF Framed
  <2>11. Network!AtHub(m, market[m].state, p.set.hub)' BY <2>8, <2>9 DEF Network!AtHub
  <2> QED BY <1>0, <2>2, <2>3, <2>5, <2>10, <2>11 DEF HubAssigned, Network!AtHub
<1>3. MarketsAssigned(q)'
  <2> SUFFICES ASSUME At(q, "assignHubMarkets", {"write", "markets"}) PROVE MarketsAssigned(q)'
    BY <1>0 DEF MarketsAssigned, At
  <2>1. MarketsAssigned(q) BY DEF PlacesInv, PlaceAsked
  <2>2. PICK p : p = placing[q] OBVIOUS
  <2>3. ASSUME NEW m \in Markets, m \in p.to.markets
        PROVE  market'[m].state # "none" /\ Network!AtHub(m, market[m].state, p.on)'
    <3>1. PICK s : s = market[m].state OBVIOUS
    <3>2. s # "none" /\ Network!AtHub(m, s, p.on) BY <2>1, <2>2, <2>3, <3>1 DEF MarketsAssigned
    <3>3. Network!Open(q) BY DEF Network!Open, At
    <3>4. Network!LiesAt(m, p.on) BY <2>2, <2>3, <3>3 DEF Network!LiesAt, At
    <3>5. Network!AtHub(m, s, p.on)' BY <3>2, <3>4, AtHubStays
    <3>6. market'[m].state = s \/ m \in crossed'
      <4>1. CASE SameMarket(m) BY <3>1, <4>1 DEF SameMarket
      <4>2. CASE m \in Network!Subjects(r)
        <5>1. m \in Network!Subjects(q) BY <2>2, <2>3, <3>3 DEF Network!Subjects, At
        <5> QED BY <4>2, <5>1, Meet
      <4> QED BY <4>1, <4>2 DEF Framed
    <3> QED BY <3>1, <3>2, <3>5, <3>6 DEF Network!AtHub, Framed
  <2>4. hub'[p.on].state # "none" BY <2>1, <2>2 DEF MarketsAssigned, Framed
  <2> QED BY <1>0, <2>1, <2>2, <2>3, <2>4 DEF MarketsAssigned, Network!AtHub
<1>4. HubAsked(q)'
  <2> SUFFICES ASSUME At(q, "hub", {"create", "write"}) PROVE HubAsked(q)'
    BY <1>0 DEF HubAsked, At
  <2>1. HubAsked(q) BY DEF PlacesInv, PlaceAsked
  <2>2. PICK p : p = placing[q] OBVIOUS
  <2>3. /\ p.on \in Hubs
        /\ DOMAIN p.set = HubFields \/ DOMAIN p.set = {"state", "city", "markets"}
        /\ Network!InCity(p.on, p.set.state, p.set.city)
    BY <2>1, <2>2 DEF HubAsked, At
  <2>4. Network!LiesAt(p.on, p.set.city)
    BY <2>2, <2>3 DEF Network!LiesAt, Network!Given, Network!Open, At, HubFields
  <2>5. Network!InCity(p.on, p.set.state, p.set.city)' BY <2>3, <2>4, InCityStays
  <2> QED BY <1>0, <2>1, <2>2, <2>5 DEF HubAsked, At, Network!InCity
<1> QED BY <1>1, <1>2, <1>3, <1>4

LEMMA OtherAddresses ==
  ASSUME PlacesInv, NEW r \in Placings, NEW at, NEW set, PlacingGoes(r, at, set), Remembers, Framed(r),
         NEW q \in Placings, q # r
  PROVE  AddressAsked(q)' /\ DefaultAsked(q)' /\ BookAsked(q)'
<1>0. placing'[q] = placing[q] BY DEF PlacingGoes
<1>1. AddressAsked(q)'
  <2> SUFFICES ASSUME At(q, "address", {"clear", "count", "create", "write"}) PROVE AddressAsked(q)'
    BY <1>0 DEF AddressAsked, At
  <2>1. AddressAsked(q) BY DEF PlacesInv, PlaceAsked
  <2>2. PICK p : p = placing[q] OBVIOUS
  <2>3. PICK a \in Addresses : a = p.on BY <2>1, <2>2 DEF AddressAsked
  <2>4. PICK s, c, n : /\ s = IF "state" \in DOMAIN p.set THEN p.set.state ELSE address[a].state
                       /\ c = IF "city" \in DOMAIN p.set THEN p.set.city ELSE address[a].city
                       /\ n = IF "area" \in DOMAIN p.set THEN p.set.area ELSE address[a].area
    OBVIOUS
  <2>5. Network!Lives(a, s, c, n) BY <2>1, <2>2, <2>3, <2>4 DEF AddressAsked
  <2>6. Network!Open(q) BY DEF Network!Open, At
  <2>7. Network!LiesAt(a, c)
    <3>1. c = address[a].city \/ Network!Given(p.set, "city", "none") = c BY <2>4 DEF Network!Given
    <3> QED BY <2>2, <2>3, <2>6, <3>1 DEF Network!LiesAt
  <2>8. Network!Lives(a, s, c, n)' BY <2>5, <2>7, LivesStays DEF Framed
  <2>9. SameAddress(a) \/ a \in crossed'
    <3>1. a \in Network!Subjects(q) BY <2>2, <2>3, <2>6 DEF Network!Subjects, At
    <3> QED BY <3>1, Meet DEF Framed
  <2>10. Network!Lives(a, IF "state" \in DOMAIN p.set THEN p.set.state ELSE address[a].state,
                          IF "city" \in DOMAIN p.set THEN p.set.city ELSE address[a].city,
                          IF "area" \in DOMAIN p.set THEN p.set.area ELSE address[a].area)'
    <3>1. CASE a \in crossed' BY <3>1 DEF Network!Lives
    <3>2. CASE SameAddress(a)
      <4>1. /\ s = IF "state" \in DOMAIN p.set THEN p.set.state ELSE address'[a].state
            /\ c = IF "city" \in DOMAIN p.set THEN p.set.city ELSE address'[a].city
            /\ n = IF "area" \in DOMAIN p.set THEN p.set.area ELSE address'[a].area
        BY <2>4, <3>2 DEF SameAddress
      <4> QED BY <2>8, <4>1 DEF Network!Lives, Network!InCity
    <3> QED BY <2>9, <3>1, <3>2
  <2>11. address[a].status # "none" => address'[a].status # "none" BY DEF Framed
  <2> QED BY <1>0, <2>1, <2>2, <2>3, <2>10, <2>11 DEF AddressAsked, Network!Lives, Network!InCity
<1>2. DefaultAsked(q)' BY <1>0 DEF PlacesInv, PlaceAsked, DefaultAsked, Framed, At
<1>3. BookAsked(q)'
  <2> SUFFICES ASSUME "book" \notin crossed',
                      \/ placing[q].op \in {"address", "setDefault"} /\ placing[q].at = "write"
                      \/ placing[q].op = "address" /\ placing[q].at \in {"count", "create"}
                      \/ placing[q].op = "archive" /\ placing[q].at = "promote"
               PROVE  BookAsked(q)'
    BY <1>0 DEF BookAsked
  <2>1. "book" \in Network!Subjects(q) BY DEF Network!Subjects, Network!Open, Network!AboutAddresses
  <2>2. address' = address BY <2>1, Meet DEF Framed
  <2>3. Network!Defaults' = Network!Defaults BY <2>2 DEF Network!Defaults, Network!Kept
  <2>4. BookAsked(q) /\ "book" \notin crossed BY DEF PlacesInv, PlaceAsked, Remembers
  <2> QED BY <1>0, <2>3, <2>4 DEF BookAsked
<1> QED BY <1>1, <1>2, <1>3

LEMMA PlacesStep ==
  ASSUME PlacesInv, NEW r \in Placings, NEW at, NEW set, PlacingGoes(r, at, set), Remembers, Framed(r),
         PlacesShape', RecordsHold', Network!OneDefault', PlaceAsked(r)'
  PROVE  PlacesInv'
<1>1. (Network!Overlapping \subseteq crossed)' BY DEF Remembers
<1>2. ASSUME NEW q \in Placings, q # r PROVE PlaceAsked(q)'
  BY <1>2, OtherMarkets, OtherAddresses DEF PlaceAsked
<1> QED BY <1>1, <1>2 DEF PlacesInv

\* A step that only looks.
LEMMA LookStep ==
  ASSUME PlacesInv, NEW r \in Placings, NEW at, NEW set, PlacingGoes(r, at, set), Remembers,
         UNCHANGED <<city, hub, market, address, area>>, PlaceAsked(r)'
  PROVE  PlacesInv'
<1>1. Framed(r) BY DEF Framed, AreasStay, SameMarket, SameAddress
<1>2. PlacesShape' BY DEF PlacesInv, PlacesShape, PlacingGoes
<1>3. RecordsHold'
  <2>1. \A m \in Markets : MarketHolds(m)' BY PlacesRest DEF PlacesInv, RecordsHold, MarketHolds
  <2>2. \A h \in Hubs : HubHolds(h)' BY PlacesRest DEF PlacesInv, RecordsHold, HubHolds
  <2>3. \A a \in Addresses : AddressHolds(a)' BY PlacesRest DEF PlacesInv, RecordsHold, AddressHolds
  <2> QED BY <2>1, <2>2, <2>3 DEF RecordsHold
<1>4. Network!OneDefault' BY DEF PlacesInv, Network!OneDefault, Network!Defaults, Network!Kept, Remembers
<1> QED BY <1>1, <1>2, <1>3, <1>4, PlacesStep

\* Nothing is to be set.
LEMMA NothingAsked ==
  ASSUME NEW r \in Placings, NEW at, NEW set, PlacingGoes(r, at, set), at \in {"done", "look", "stale"}
  PROVE  PlaceAsked(r)'
  BY DEF PlacingGoes, PlaceAsked, MarketAsked, HubAssigned, MarketsAssigned, HubAsked, AddressAsked,
         DefaultAsked, BookAsked, At
LEMMA OtherOp ==
  ASSUME NEW r \in Placings, NEW at, NEW set, PlacingGoes(r, at, set),
         placing[r].op \in {"city", "state", "delivery", "status", "refresh"}
  PROVE  PlaceAsked(r)'
  BY DEF PlacingGoes, PlaceAsked, MarketAsked, HubAssigned, MarketsAssigned, HubAsked, AddressAsked,
         DefaultAsked, BookAsked, At

LEMMA AnswerGoes ==
  ASSUME PlacesShape, NEW r \in Placings, NEW ok \in BOOLEAN, NEW d, NEW none, NEW set,
         Network!Answer(r, ok, d, none, set)
  PROVE  \/ PlacingGoes(r, "done", <<>>)
         \/ ok /\ d # none /\ PlacingGoes(r, "write", set)
         \/ ok /\ d = none /\ PlacingGoes(r, "create", Network!With([none EXCEPT !.status = "active"], set))
  BY PlacingGo, PlacingDone DEF Network!Answer

\* A step that changes statuses, cities or areas alone.
LEMMA KeptStep ==
  ASSUME PlacesInv, NEW r \in Placings, NEW at, NEW set, PlacingGoes(r, at, set), Remembers,
         AreasStay, PlacesShape', address' = address,
         \A m \in Markets : SameMarket(m) /\ (market'[m] = Network!NoMarket \/ market[m] # Network!NoMarket),
         \A h \in Hubs : SameHub(h) /\ (hub'[h] = Network!NoHub \/ hub[h] # Network!NoHub),
         PlaceAsked(r)'
  PROVE  PlacesInv'
<1>1. Framed(r) BY DEF Framed, SameMarket, SameHub, SameAddress
<1>2. RecordsHold'
  <2>1. \A m \in Markets : MarketHolds(m)' BY MarketStays DEF PlacesInv, RecordsHold
  <2>2. \A h \in Hubs : HubHolds(h)' BY HubStays DEF PlacesInv, RecordsHold
  <2>3. ASSUME NEW a \in Addresses PROVE AddressHolds(a)'
    <3>1. SameAddress(a) /\ (address'[a].status = "none" \/ address[a].status # "none") BY DEF SameAddress
    <3> QED BY <3>1, AddressStays DEF PlacesInv, RecordsHold
  <2> QED BY <2>1, <2>2, <2>3 DEF RecordsHold
<1>3. Network!OneDefault' BY DEF PlacesInv, Network!OneDefault, Network!Defaults, Network!Kept, Remembers
<1> QED BY <1>1, <1>2, <1>3, PlacesStep

LEMMA CitySteps ==
  ASSUME PlacesInv, NEW r \in Placings, Remembers,
         Network!CheckCity(r) \/ Network!CreateCity(r) \/ Network!UpdateCity(r)
  PROVE  PlacesInv'
<1>0. PlacesShape BY DEF PlacesInv
<1>1. placing[r].op = "city" BY DEF Network!CheckCity, Network!CreateCity, Network!UpdateCity, Network!On
<1>2. CASE Network!CheckCity(r)
  <2> DEFINE c == placing[r].on
             s == Network!Chosen(placing[r].to, "state", city[c])
  <2>1. Network!Answer(r, Network!EnsureState(s), city[c], Network!NoCity, [state |-> s]) /\ UNCHANGED <<city, hub, market, address, area>>
    BY <1>2 DEF Network!CheckCity, Network!records
  <2>2. Network!EnsureState(s) \in BOOLEAN BY DEF Network!EnsureState
  <2>3. \/ PlacingGoes(r, "done", <<>>) \/ PlacingGoes(r, "write", [state |-> s])
        \/ PlacingGoes(r, "create", Network!With([Network!NoCity EXCEPT !.status = "active"], [state |-> s]))
    BY <1>0, <2>1, <2>2, AnswerGoes
  <2> QED BY <1>1, <2>1, <2>3, OtherOp, LookStep
<1>3. CASE Network!CreateCity(r) \/ Network!UpdateCity(r)
  <2>1. PlacingGoes(r, "done", <<>>) /\ UNCHANGED <<hub, market, address, area>>
    BY <1>0, <1>3, PlacingDone DEF Network!CreateCity, Network!UpdateCity
  <2>2. PlaceAsked(r)' BY <2>1, NothingAsked
  <2>3. PlacesShape' BY <1>0, <2>1 DEF PlacesShape, PlacingGoes
  <2>4. AreasStay BY <2>1 DEF AreasStay
  <2>5. \A m \in Markets : SameMarket(m) /\ (market'[m] = Network!NoMarket \/ market[m] # Network!NoMarket)
    BY <2>1 DEF SameMarket
  <2>6. \A h \in Hubs : SameHub(h) /\ (hub'[h] = Network!NoHub \/ hub[h] # Network!NoHub)
    BY <2>1 DEF SameHub
  <2> QED BY <2>1, <2>2, <2>3, <2>4, <2>5, <2>6, KeptStep
<1> QED BY <1>2, <1>3

LEMMA StatusSteps ==
  ASSUME PlacesInv, NEW r \in Placings, Remembers,
         Network!ChangeState(r) \/ Network!ToggleState(r) \/ Network!ChangeStatus(r)
  PROVE  PlacesInv'
<1>0. PlacesShape BY DEF PlacesInv
<1>1. PlacingGoes(r, "done", <<>>) /\ UNCHANGED <<address, area>>
  BY <1>0, PlacingDone DEF Network!ChangeState, Network!ToggleState, Network!ChangeStatus
<1>2. PlaceAsked(r)' BY <1>1, NothingAsked
<1>3. CASE Network!ChangeState(r) \/ Network!ToggleState(r)
  <2>1. UNCHANGED <<city, hub, market, address, area>> BY <1>3 DEF Network!ChangeState, Network!ToggleState
  <2> QED BY <1>1, <1>2, <2>1, LookStep
<1>4. CASE Network!ChangeStatus(r)
  <2> DEFINE x == placing[r].on
  <2>1. hub' = hub \/ (x \in Hubs /\ hub[x] # Network!NoHub /\ hub' = [hub EXCEPT ![x].status = placing[r].to.status])
    BY <1>4 DEF Network!ChangeStatus
  <2>2. market' = market
        \/ (x \in Markets /\ market[x] # Network!NoMarket /\ market' = [market EXCEPT ![x].status = placing[r].to.status])
    BY <1>4 DEF Network!ChangeStatus
  <2>3. /\ DOMAIN hub' = Hubs
        /\ \A h \in Hubs : /\ DOMAIN hub'[h] = HubFields /\ SameHub(h)
                           /\ hub'[h] = Network!NoHub \/ hub[h] # Network!NoHub
    BY <1>0, <2>1 DEF PlacesShape, HubFields, SameHub
  <2>4. /\ DOMAIN market' = Markets
        /\ \A m \in Markets : /\ DOMAIN market'[m] = MarketFields /\ SameMarket(m)
                              /\ market'[m] = Network!NoMarket \/ market[m] # Network!NoMarket
    BY <1>0, <2>2 DEF PlacesShape, MarketFields, SameMarket
  <2>5. PlacesShape' BY <1>0, <1>1, <2>3, <2>4 DEF PlacesShape, PlacingGoes
  <2>6. AreasStay BY <1>1 DEF AreasStay
  <2> QED BY <1>1, <1>2, <2>3, <2>4, <2>5, <2>6, KeptStep
<1> QED BY <1>3, <1>4

LEMMA AreaSteps ==
  ASSUME PlacesInv, NEW r \in Placings, Remembers,
         Network!ReadAreas(r) \/ Network!WriteAreas(r) \/ Network!RetireAreas(r)
  PROVE  PlacesInv'
<1>0. PlacesShape BY DEF PlacesInv
<1>1. placing[r].op = "refresh" BY DEF Network!ReadAreas, Network!WriteAreas, Network!RetireAreas, Network!On
<1>2. CASE Network!ReadAreas(r)
  <2>1. PICK set : Network!Goes(r, "write", set) BY <1>2 DEF Network!ReadAreas
  <2>2. PlacingGoes(r, "write", set) BY <1>0, <2>1, PlacingGo
  <2>3. UNCHANGED <<city, hub, market, address, area>> BY <1>2 DEF Network!ReadAreas, Network!records
  <2> QED BY <1>1, <2>2, <2>3, OtherOp, LookStep
<1>3. CASE Network!WriteAreas(r) \/ Network!RetireAreas(r)
  <2>1. PICK at, set : PlacingGoes(r, at, set)
    BY <1>0, <1>3, PlacingGo, PlacingDone DEF Network!WriteAreas, Network!RetireAreas
  <2>2. UNCHANGED <<city, hub, market, address>> BY <1>3 DEF Network!WriteAreas, Network!RetireAreas
  <2>3. AreasStay /\ \A n \in area' : DOMAIN n = AreaFields
    <3>1. CASE Network!WriteAreas(r)
      <4> DEFINE s == placing[r].on
      <4>1. PICK new : area' = {IF a.state = s /\ a.name \in catalog[s] THEN [a EXCEPT !.status = "active"] ELSE a : a \in area}
                               \cup {[state |-> s, name |-> n, status |-> "active"] : n \in new}
        BY <3>1 DEF Network!WriteAreas
      <4>2. ASSUME NEW n \in area PROVE \E k \in area' : k.state = n.state /\ k.name = n.name
        <5>1. (IF n.state = s /\ n.name \in catalog[s] THEN [n EXCEPT !.status = "active"] ELSE n) \in area' BY <4>1
        <5>2. [n EXCEPT !.status = "active"].state = n.state /\ [n EXCEPT !.status = "active"].name = n.name
          BY <1>0 DEF PlacesShape, AreaFields
        <5> QED BY <5>1, <5>2
      <4>3. \A n \in area' : DOMAIN n = AreaFields BY <1>0, <4>1 DEF PlacesShape, AreaFields
      <4> QED BY <4>2, <4>3 DEF AreasStay
    <3>2. CASE Network!RetireAreas(r)
      <4> DEFINE s == placing[r].on
      <4>1. area' = {IF a.state = s /\ a.name \notin catalog[s] THEN [a EXCEPT !.status = "inactive"] ELSE a : a \in area}
        BY <3>2 DEF Network!RetireAreas
      <4>2. ASSUME NEW n \in area PROVE \E k \in area' : k.state = n.state /\ k.name = n.name
        <5>1. (IF n.state = s /\ n.name \notin catalog[s] THEN [n EXCEPT !.status = "inactive"] ELSE n) \in area' BY <4>1
        <5>2. [n EXCEPT !.status = "inactive"].state = n.state /\ [n EXCEPT !.status = "inactive"].name = n.name
          BY <1>0 DEF PlacesShape, AreaFields
        <5> QED BY <5>1, <5>2
      <4>3. \A n \in area' : DOMAIN n = AreaFields BY <1>0, <4>1 DEF PlacesShape, AreaFields
      <4> QED BY <4>2, <4>3 DEF AreasStay
    <3> QED BY <1>3, <3>1, <3>2
  <2>4. PlaceAsked(r)' BY <1>1, <2>1, OtherOp
  <2>5. PlacesShape' BY <1>0, <2>1, <2>2, <2>3 DEF PlacesShape, PlacingGoes
  <2>6. \A m \in Markets : SameMarket(m) /\ (market'[m] = Network!NoMarket \/ market[m] # Network!NoMarket)
    BY <2>2 DEF SameMarket
  <2>7. \A h \in Hubs : SameHub(h) /\ (hub'[h] = Network!NoHub \/ hub[h] # Network!NoHub)
    BY <2>2 DEF SameHub
  <2> QED BY <2>1, <2>2, <2>3, <2>4, <2>5, <2>6, <2>7, KeptStep
<1> QED BY <1>2, <1>3

LEMMA Dies ==
  ASSUME PlacesInv, NEW r \in Placings, Remembers, Network!Die(r)
  PROVE  PlacesInv'
<1>1. PlacingGoes(r, "done", <<>>) /\ UNCHANGED <<city, hub, market, address, area>>
  BY PlacingDone DEF PlacesInv, Network!Die, Network!records
<1> QED BY <1>1, NothingAsked, LookStep

-----------------------------------------------------------------------------
\* Markets.
LEMMA MarketChecks ==
  ASSUME "none" \notin States, PlacesInv, NEW r \in Placings, Remembers,
         Network!CheckMarket(r) \/ Network!CheckAssignMarketHub(r)
  PROVE  PlacesInv'
<1>0. PlacesShape BY DEF PlacesInv
<1>1. CASE Network!CheckMarket(r)
  <2>1. PICK m \in Markets : m = placing[r].on BY <1>1 DEF Network!CheckMarket
  <2>2. PICK d : d = [f \in {"state", "city", "hub"} |-> Network!Chosen(placing[r].to, f, market[m])] OBVIOUS
  <2> DEFINE ok == /\ Network!ResolveLocation(d.state, d.city) /\ state[d.state].operations
                   /\ d.hub = "none" \/ Network!EnsureHub(d.hub, d.state)
  <2>3. PICK set : set = Network!Only(d, {"state", "city"} \cup IF d.hub = "none" THEN {} ELSE {"hub"}) OBVIOUS
  <2>4. /\ placing[r].op = "market" /\ UNCHANGED <<city, hub, market, address, area>>
        /\ Network!Answer(r, ok, market[m], Network!NoMarket, set)
    BY <1>1, <2>1, <2>2, <2>3 DEF Network!CheckMarket, Network!On, Network!records
  <2>5. PICK full : full = Network!With([Network!NoMarket EXCEPT !.status = "active"], set) OBVIOUS
  <2>6. \/ PlacingGoes(r, "done", <<>>)
        \/ ok /\ PlacingGoes(r, "write", set)
        \/ ok /\ market[m] = Network!NoMarket /\ PlacingGoes(r, "create", full)
    <3>1. ok \in BOOLEAN BY DEF Network!EnsureHub
    <3> HIDE DEF ok
    <3>2. \/ PlacingGoes(r, "done", <<>>)
          \/ ok /\ PlacingGoes(r, "write", set)
          \/ /\ ok /\ market[m] = Network!NoMarket
             /\ PlacingGoes(r, "create", Network!With([Network!NoMarket EXCEPT !.status = "active"], set))
      BY <1>0, <2>4, <3>1, AnswerGoes
    <3> QED BY <2>5, <3>2
  <2>7. ASSUME ok
        PROVE  /\ d.state # "none" /\ Network!InCity(m, d.state, d.city)' /\ Network!AtHub(m, d.state, d.hub)'
               /\ set.state = d.state /\ set.city = d.city
               /\ DOMAIN set \in {{"state", "city"}, {"state", "city", "hub"}}
               /\ d.hub = IF "hub" \in DOMAIN set THEN set.hub ELSE market'[m].hub
    <3>1. d.state # "none" BY <2>7 DEF Network!ResolveLocation, Network!EnsureState
    <3>2. Network!InCity(m, d.state, d.city)'
      BY <2>4, <2>7 DEF Network!ResolveLocation, Network!EnsureCity, Network!InCity
    <3>3. Network!AtHub(m, d.state, d.hub)' BY <2>4, <2>7 DEF Network!EnsureHub, Network!AtHub
    <3>4. CASE d.hub = "none"
      <4>1. market[m].hub = "none" BY <2>2, <3>4 DEF Network!Chosen, Network!Given
      <4>2. DOMAIN set = {"state", "city"} /\ set.state = d.state /\ set.city = d.city
        BY <2>3, <3>4 DEF Network!Only
      <4> QED BY <2>4, <3>1, <3>2, <3>3, <3>4, <4>1, <4>2
    <3>5. CASE d.hub # "none"
      <4>1. /\ DOMAIN set = {"state", "city", "hub"} /\ set.state = d.state /\ set.city = d.city
            /\ set.hub = d.hub
        BY <2>3, <3>5 DEF Network!Only
      <4> QED BY <3>1, <3>2, <3>3, <4>1
    <3> QED BY <3>4, <3>5
  <2>8. CASE PlacingGoes(r, "done", <<>>) BY <2>4, <2>8, NothingAsked, LookStep
  <2>9. CASE ok /\ PlacingGoes(r, "write", set)
    <3>1. placing'[r].op = "market" /\ placing'[r].at = "write" /\ placing'[r].on = m /\ placing'[r].set = set
      BY <2>1, <2>4, <2>9 DEF PlacingGoes
    <3>2. MarketAsked(r)'
      <4> HIDE DEF ok
      <4> QED BY <2>7, <2>9, <3>1 DEF MarketAsked, At, Network!InCity, Network!AtHub
    <3>3. PlaceAsked(r)'
      BY <3>1, <3>2 DEF PlaceAsked, HubAssigned, MarketsAssigned, HubAsked, AddressAsked, DefaultAsked, BookAsked, At
    <3> QED BY <2>4, <2>9, <3>3, LookStep
  <2>10. CASE ok /\ market[m] = Network!NoMarket /\ PlacingGoes(r, "create", full)
    <3>1. placing'[r].op = "market" /\ placing'[r].at = "create" /\ placing'[r].on = m /\ placing'[r].set = full
      BY <2>1, <2>4, <2>10 DEF PlacingGoes
    <3>2. /\ DOMAIN full = MarketFields /\ full.state = set.state /\ full.city = set.city
          /\ full.hub = IF "hub" \in DOMAIN set THEN set.hub ELSE "none"
      <4> HIDE DEF ok
      <4> QED BY <2>5, <2>7, <2>10 DEF Network!With, Network!NoMarket, MarketFields
    <3>3. market'[m].hub = "none" BY <2>4, <2>10 DEF Network!NoMarket
    <3>4. MarketAsked(r)'
      <4> HIDE DEF ok
      <4> QED BY <2>7, <2>10, <3>1, <3>2, <3>3 DEF MarketAsked, At, Network!InCity, Network!AtHub, MarketFields
    <3>5. PlaceAsked(r)'
      BY <3>1, <3>4 DEF PlaceAsked, HubAssigned, MarketsAssigned, HubAsked, AddressAsked, DefaultAsked, BookAsked, At
    <3> QED BY <2>4, <2>10, <3>5, LookStep
  <2> QED BY <2>6, <2>8, <2>9, <2>10
<1>2. CASE Network!CheckAssignMarketHub(r)
  <2>1. PICK m \in Markets : m = placing[r].on BY <1>2 DEF Network!CheckAssignMarketHub
  <2>2. PICK h : h = placing[r].to.hub OBVIOUS
  <2>3. /\ placing[r].op = "assignMarketHub" /\ UNCHANGED <<city, hub, market, address, area>>
        /\ \/ Network!Done(r)
           \/ /\ market[m] # Network!NoMarket /\ Network!EnsureHub(h, market[m].state)
              /\ Network!Goes(r, "write", [hub |-> h])
    BY <1>2, <2>1, <2>2 DEF Network!CheckAssignMarketHub, Network!On, Network!records
  <2>4. CASE Network!Done(r) BY <1>0, <2>3, <2>4, PlacingDone, NothingAsked, LookStep
  <2>5. CASE /\ market[m] # Network!NoMarket /\ Network!EnsureHub(h, market[m].state)
             /\ Network!Goes(r, "write", [hub |-> h])
    <3>1. PlacingGoes(r, "write", [hub |-> h]) BY <1>0, <2>5, PlacingGo
    <3>2. /\ placing'[r].op = "assignMarketHub" /\ placing'[r].at = "write" /\ placing'[r].on = m
          /\ placing'[r].set = [hub |-> h]
      BY <2>1, <2>3, <3>1 DEF PlacingGoes
    <3>3. market[m].state # "none" BY <2>5 DEF PlacesInv, RecordsHold, MarketHolds
    <3>4. HubAssigned(r)' BY <2>3, <2>5, <3>2, <3>3 DEF HubAssigned, At, Network!EnsureHub, Network!AtHub
    <3>5. PlaceAsked(r)'
      BY <3>2, <3>4 DEF PlaceAsked, MarketAsked, MarketsAssigned, HubAsked, AddressAsked, DefaultAsked, BookAsked, At
    <3> QED BY <2>3, <3>1, <3>5, LookStep
  <2> QED BY <2>3, <2>4, <2>5
<1> QED BY <1>1, <1>2

LEMMA MarketWrites ==
  ASSUME PlacesInv, NEW r \in Placings, Remembers, Network!CreateMarket(r) \/ Network!UpdateMarket(r)
  PROVE  PlacesInv'
<1>0. PlacesShape BY DEF PlacesInv
<1>1. PlacingGoes(r, "done", <<>>) /\ UNCHANGED <<city, hub, address, area>>
  BY <1>0, PlacingDone DEF Network!CreateMarket, Network!UpdateMarket
<1>2. PICK p : p = placing[r] OBVIOUS
<1>3. \/ p.op = "market" /\ p.at \in {"create", "write"}
      \/ p.op = "assignMarketHub" /\ p.at = "write"
  BY <1>2 DEF Network!CreateMarket, Network!UpdateMarket, Network!On
<1>4. MarketAsked(r) /\ HubAssigned(r) BY DEF PlacesInv, PlaceAsked
<1>5. PICK m \in Markets : m = p.on BY <1>2, <1>3, <1>4 DEF MarketAsked, HubAssigned, At
<1>6. PICK s, c, h : /\ s = IF "state" \in DOMAIN p.set THEN p.set.state ELSE market[m].state
                     /\ c = IF "city" \in DOMAIN p.set THEN p.set.city ELSE market[m].city
                     /\ h = IF "hub" \in DOMAIN p.set THEN p.set.hub ELSE market[m].hub
  OBVIOUS
<1>7. s # "none" /\ Network!InCity(m, s, c) /\ Network!AtHub(m, s, h)
  <2>1. CASE p.op = "market"
    <3>1. {"state", "city"} \subseteq DOMAIN p.set
      BY <1>2, <1>3, <1>4, <2>1 DEF MarketAsked, At, MarketFields
    <3> QED BY <1>2, <1>3, <1>4, <1>5, <1>6, <2>1, <3>1 DEF MarketAsked, At
  <2>2. CASE p.op = "assignMarketHub"
    <3>1. DOMAIN p.set = {"hub"} /\ market[m].state # "none" /\ Network!AtHub(m, market[m].state, p.set.hub)
      BY <1>2, <1>3, <1>4, <1>5, <2>2 DEF HubAssigned, At
    <3>2. MarketHolds(m) BY DEF PlacesInv, RecordsHold
    <3>3. Network!InCity(m, market[m].state, market[m].city)
      BY <3>1, <3>2 DEF MarketHolds, Network!NoMarket
    <3> QED BY <1>6, <3>1, <3>3
  <2> QED BY <1>3, <2>1, <2>2
<1>8. Network!LiesAt(m, c) /\ Network!LiesAt(m, h)
  <2>1. Network!Open(r) BY <1>2, <1>3 DEF Network!Open
  <2>2. c = market[m].city \/ Network!Given(p.set, "city", "none") = c BY <1>6 DEF Network!Given
  <2>3. h = market[m].hub \/ Network!Given(p.set, "hub", "none") = h BY <1>6 DEF Network!Given
  <2> QED BY <1>2, <1>5, <2>1, <2>2, <2>3 DEF Network!LiesAt
<1>9. Network!InCity(m, s, c)' /\ Network!AtHub(m, s, h)' BY <1>7, <1>8, InCityStays, AtHubStays
<1>10. /\ DOMAIN market' = Markets /\ DOMAIN market'[m] = MarketFields
       /\ market'[m].state = s /\ market'[m].city = c /\ market'[m].hub = h
       /\ \A n \in Markets : n # m => market'[n] = market[n]
  <2>1. CASE Network!CreateMarket(r)
    <3>1. DOMAIN p.set = MarketFields /\ market' = [market EXCEPT ![m] = p.set]
      BY <1>2, <1>4, <1>5, <2>1 DEF Network!CreateMarket, Network!On, MarketAsked, At
    <3> QED BY <1>0, <1>6, <3>1 DEF PlacesShape, MarketFields
  <2>2. CASE Network!UpdateMarket(r)
    <3>1. market' = [market EXCEPT ![m] = Network!With(market[m], p.set)]
      BY <1>2, <1>5, <2>2 DEF Network!UpdateMarket
    <3> QED BY <1>0, <1>6, <3>1 DEF PlacesShape, MarketFields, Network!With
  <2> QED BY <2>1, <2>2
<1>11. PlacesShape' BY <1>0, <1>1, <1>10 DEF PlacesShape, PlacingGoes
<1>12. AreasStay BY <1>1 DEF AreasStay
<1>13. RecordsHold'
  <2>1. MarketHolds(m)' BY <1>7, <1>9, <1>10 DEF MarketHolds, Network!InCity, Network!AtHub
  <2>2. ASSUME NEW n \in Markets, n # m PROVE MarketHolds(n)'
    BY <1>10, <2>2, MarketStays DEF SameMarket, PlacesInv, RecordsHold
  <2>3. \A k \in Hubs : HubHolds(k)' BY <1>1, HubStays DEF SameHub, PlacesInv, RecordsHold
  <2>4. \A a \in Addresses : AddressHolds(a)'
    BY <1>1, <1>12, AddressStays DEF SameAddress, PlacesInv, RecordsHold
  <2> QED BY <2>1, <2>2, <2>3, <2>4 DEF RecordsHold
<1>14. Framed(r)
  <2>1. m \in Network!Subjects(r) BY <1>2, <1>3, <1>5 DEF Network!Subjects, Network!Open
  <2> QED BY <1>1, <1>7, <1>10, <1>12, <2>1 DEF Framed, SameMarket, SameAddress
<1>15. Network!OneDefault'
  BY <1>1 DEF PlacesInv, Network!OneDefault, Network!Defaults, Network!Kept, Remembers
<1> QED BY <1>1, <1>11, <1>13, <1>14, <1>15, NothingAsked, PlacesStep

-----------------------------------------------------------------------------
\* Hubs, and the markets they are given.
LEMMA HubChecks ==
  ASSUME "none" \notin States, PlacesInv, NEW r \in Placings, Remembers, Network!CheckHub(r)
  PROVE  PlacesInv'
<1>0. PlacesShape BY DEF PlacesInv
<1>1. PICK h \in Hubs : h = placing[r].on BY DEF Network!CheckHub
<1>2. PICK d : d = [state |-> Network!Chosen(placing[r].to, "state", hub[h]),
                    city |-> Network!Chosen(placing[r].to, "city", hub[h]),
                    markets |-> IF hub[h] = Network!NoHub THEN {} ELSE Network!Given(placing[r].to, "markets", hub[h].markets)]
  OBVIOUS
<1> DEFINE ok == Network!ResolveLocation(d.state, d.city) /\ \A m \in d.markets : market[m].state = d.state
<1>3. /\ placing[r].op = "hub" /\ UNCHANGED <<city, hub, market, address, area>>
      /\ Network!Answer(r, ok, hub[h], Network!NoHub, d)
  BY <1>1, <1>2 DEF Network!CheckHub, Network!On, Network!records
<1>4. PICK full : full = Network!With([Network!NoHub EXCEPT !.status = "active"], d) OBVIOUS
<1>5. \/ PlacingGoes(r, "done", <<>>)
      \/ ok /\ PlacingGoes(r, "write", d)
      \/ ok /\ PlacingGoes(r, "create", full)
  <2>1. ok \in BOOLEAN BY DEF Network!ResolveLocation, Network!EnsureState
  <2> HIDE DEF ok
  <2>2. \/ PlacingGoes(r, "done", <<>>)
        \/ ok /\ PlacingGoes(r, "write", d)
        \/ ok /\ PlacingGoes(r, "create", Network!With([Network!NoHub EXCEPT !.status = "active"], d))
    BY <1>0, <1>3, <2>1, AnswerGoes
  <2> QED BY <1>4, <2>2
<1>6. ASSUME ok PROVE d.state # "none" /\ Network!InCity(h, d.state, d.city)'
  BY <1>3, <1>6 DEF Network!ResolveLocation, Network!EnsureState, Network!EnsureCity, Network!InCity
<1>7. DOMAIN d = {"state", "city", "markets"} BY <1>2
<1>8. DOMAIN full = HubFields /\ full.state = d.state /\ full.city = d.city
  BY <1>2, <1>4 DEF Network!With, Network!NoHub, HubFields
<1>9. CASE PlacingGoes(r, "done", <<>>) BY <1>3, <1>9, NothingAsked, LookStep
<1>10. ASSUME NEW at \in {"write", "create"}, NEW set \in {d, full}, ok, PlacingGoes(r, at, set),
              at = "write" <=> set = d
       PROVE  PlacesInv'
  <2> HIDE DEF ok
  <2>1. placing'[r].op = "hub" /\ placing'[r].at = at /\ placing'[r].on = h /\ placing'[r].set = set
    BY <1>1, <1>3, <1>10 DEF PlacingGoes
  <2>2. HubAsked(r)' BY <1>6, <1>7, <1>8, <1>10, <2>1 DEF HubAsked, At, Network!InCity
  <2>3. PlaceAsked(r)'
    BY <2>1, <2>2 DEF PlaceAsked, MarketAsked, HubAssigned, MarketsAssigned, AddressAsked, DefaultAsked, BookAsked, At
  <2> QED BY <1>3, <1>10, <2>3, LookStep
<1>11. d # full BY <1>7, <1>8 DEF HubFields
<1>12. CASE ok /\ PlacingGoes(r, "write", d) BY <1>10, <1>12
<1>13. CASE ok /\ PlacingGoes(r, "create", full) BY <1>10, <1>11, <1>13
<1> QED BY <1>5, <1>9, <1>12, <1>13

LEMMA HubWrites ==
  ASSUME PlacesInv, NEW r \in Placings, Remembers, Network!CreateHub(r) \/ Network!UpdateHub(r)
  PROVE  PlacesInv'
<1>0. PlacesShape BY DEF PlacesInv
<1>1. PlacingGoes(r, "done", <<>>) /\ UNCHANGED <<city, market, address, area>>
  BY <1>0, PlacingDone DEF Network!CreateHub, Network!UpdateHub
<1>2. PICK p : p = placing[r] OBVIOUS
<1>3. p.op = "hub" /\ p.at \in {"create", "write"} BY <1>2 DEF Network!CreateHub, Network!UpdateHub, Network!On
<1>4. HubAsked(r) BY DEF PlacesInv, PlaceAsked
<1>5. PICK h \in Hubs : h = p.on BY <1>2, <1>3, <1>4 DEF HubAsked, At
<1>6. PICK s, c : s = p.set.state /\ c = p.set.city OBVIOUS
<1>7. s # "none" /\ Network!InCity(h, s, c) BY <1>2, <1>3, <1>4, <1>5, <1>6 DEF HubAsked, At
<1>8. p.at = "create" => DOMAIN p.set = HubFields BY <1>2, <1>3, <1>4 DEF HubAsked, At
<1>9. p.at = "write" => DOMAIN p.set = {"state", "city", "markets"} BY <1>2, <1>3, <1>4 DEF HubAsked, At
<1>10. Network!LiesAt(h, c)
  BY <1>2, <1>3, <1>5, <1>6, <1>8, <1>9 DEF Network!LiesAt, Network!Open, Network!Given, HubFields
<1>11. Network!InCity(h, s, c)' BY <1>7, <1>10, InCityStays
<1>12. /\ DOMAIN hub' = Hubs /\ DOMAIN hub'[h] = HubFields
       /\ hub'[h].state = s /\ hub'[h].city = c
       /\ \A k \in Hubs : k # h => hub'[k] = hub[k]
  <2>1. CASE Network!CreateHub(r)
    <3>1. DOMAIN p.set = HubFields /\ hub' = [hub EXCEPT ![h] = p.set]
      BY <1>2, <1>5, <1>8, <2>1 DEF Network!CreateHub, Network!On
    <3> QED BY <1>0, <1>6, <3>1 DEF PlacesShape, HubFields
  <2>2. CASE Network!UpdateHub(r)
    <3>1. DOMAIN p.set = {"state", "city", "markets"} /\ hub' = [hub EXCEPT ![h] = Network!With(hub[h], p.set)]
      BY <1>2, <1>5, <1>9, <2>2 DEF Network!UpdateHub, Network!On
    <3> QED BY <1>0, <1>6, <3>1 DEF PlacesShape, HubFields, Network!With
  <2> QED BY <2>1, <2>2
<1>13. PlacesShape' BY <1>0, <1>1, <1>12 DEF PlacesShape, PlacingGoes
<1>14. AreasStay BY <1>1 DEF AreasStay
<1>15. RecordsHold'
  <2>1. HubHolds(h)' BY <1>7, <1>11, <1>12 DEF HubHolds, Network!InCity
  <2>2. ASSUME NEW k \in Hubs, k # h PROVE HubHolds(k)'
    BY <1>12, <2>2, HubStays DEF SameHub, PlacesInv, RecordsHold
  <2>3. \A m \in Markets : MarketHolds(m)' BY <1>1, MarketStays DEF SameMarket, PlacesInv, RecordsHold
  <2>4. \A a \in Addresses : AddressHolds(a)'
    BY <1>1, <1>14, AddressStays DEF SameAddress, PlacesInv, RecordsHold
  <2> QED BY <2>1, <2>2, <2>3, <2>4 DEF RecordsHold
<1>16. Framed(r) BY <1>1, <1>7, <1>12, <1>14 DEF Framed, SameMarket, SameAddress
<1>17. Network!OneDefault'
  BY <1>1 DEF PlacesInv, Network!OneDefault, Network!Defaults, Network!Kept, Remembers
<1> QED BY <1>1, <1>13, <1>15, <1>16, <1>17, NothingAsked, PlacesStep

LEMMA AssignChecks ==
  ASSUME PlacesInv, NEW r \in Placings, Remembers, Network!CheckAssignMarkets(r)
  PROVE  PlacesInv'
<1>0. PlacesShape BY DEF PlacesInv
<1>1. PICK h \in Hubs : h = placing[r].on BY DEF Network!CheckAssignMarkets
<1>2. PICK ms : ms = placing[r].to.markets OBVIOUS
<1>3. /\ placing[r].op = "assignHubMarkets" /\ UNCHANGED <<city, hub, market, address, area>>
      /\ \/ Network!Done(r)
         \/ /\ hub[h] # Network!NoHub
            /\ \A m \in ms : market[m] # Network!NoMarket /\ market[m].state = hub[h].state
            /\ Network!Goes(r, "write", [markets |-> ms])
  BY <1>1, <1>2 DEF Network!CheckAssignMarkets, Network!On, Network!records
<1>4. CASE Network!Done(r) BY <1>0, <1>3, <1>4, PlacingDone, NothingAsked, LookStep
<1>5. CASE /\ hub[h] # Network!NoHub
           /\ \A m \in ms : market[m] # Network!NoMarket /\ market[m].state = hub[h].state
           /\ Network!Goes(r, "write", [markets |-> ms])
  <2>1. PlacingGoes(r, "write", [markets |-> ms]) BY <1>0, <1>5, PlacingGo
  <2>2. /\ placing'[r].op = "assignHubMarkets" /\ placing'[r].at = "write" /\ placing'[r].on = h
        /\ placing'[r].set = [markets |-> ms] /\ placing'[r].to.markets = ms
    BY <1>1, <1>2, <1>3, <2>1 DEF PlacingGoes
  <2>3. ASSUME NEW m \in Markets, m \in ms
        PROVE  market[m].state # "none" /\ Network!AtHub(m, market[m].state, h)'
    <3>1. market[m].state # "none" BY <1>5, <2>3 DEF PlacesInv, RecordsHold, MarketHolds
    <3>2. market[m].state = hub[h].state BY <1>5, <2>3
    <3> QED BY <1>3, <3>1, <3>2 DEF Network!AtHub
  <2>4. hub[h].state # "none" BY <1>5 DEF PlacesInv, RecordsHold, HubHolds
  <2>5. MarketsAssigned(r)' BY <1>3, <2>2, <2>3, <2>4 DEF MarketsAssigned, Network!AtHub
  <2>6. PlaceAsked(r)'
    BY <2>2, <2>5 DEF PlaceAsked, MarketAsked, HubAssigned, HubAsked, AddressAsked, DefaultAsked, BookAsked, At
  <2> QED BY <1>3, <2>1, <2>6, LookStep
<1> QED BY <1>3, <1>4, <1>5

LEMMA AssignWrites ==
  ASSUME PlacesInv, NEW r \in Placings, Remembers, Network!WriteHubMarkets(r) \/ Network!WriteMarketsHub(r)
  PROVE  PlacesInv'
<1>0. PlacesShape BY DEF PlacesInv
<1>1. PICK p : p = placing[r] OBVIOUS
<1>2. p.op = "assignHubMarkets" /\ p.at \in {"write", "markets"}
  BY <1>1 DEF Network!WriteHubMarkets, Network!WriteMarketsHub, Network!On
<1>3. MarketsAssigned(r) BY DEF PlacesInv, PlaceAsked
<1>4. PICK h \in Hubs : h = p.on BY <1>1, <1>2, <1>3 DEF MarketsAssigned, At
<1>5. p.set.markets = p.to.markets /\ hub[h].state # "none"
  BY <1>1, <1>2, <1>3, <1>4 DEF MarketsAssigned, At
<1>6. ASSUME NEW m \in Markets, m \in p.to.markets
      PROVE  market[m].state # "none" /\ \A s : s = market[m].state => Network!AtHub(m, s, h)'
  <2>1. market[m].state # "none" /\ Network!AtHub(m, market[m].state, h)
    BY <1>1, <1>2, <1>3, <1>4, <1>6 DEF MarketsAssigned, At
  <2>2. ASSUME NEW s, s = market[m].state PROVE Network!AtHub(m, s, h)'
    <3>1. Network!AtHub(m, s, h) BY <2>1, <2>2
    <3>2. Network!LiesAt(m, h) BY <1>1, <1>2, <1>4, <1>6 DEF Network!LiesAt, Network!Open
    <3> QED BY <3>1, <3>2, AtHubStays
  <2> QED BY <2>1, <2>2
<1>7. CASE Network!WriteHubMarkets(r)
  <2>1. /\ PlacingGoes(r, "markets", p.set) /\ UNCHANGED <<city, market, address, area>>
        /\ hub' = [hub EXCEPT ![h].markets = p.set.markets]
    BY <1>0, <1>1, <1>4, <1>7, PlacingGo DEF Network!WriteHubMarkets
  <2>2. /\ DOMAIN hub' = Hubs
        /\ \A k \in Hubs : DOMAIN hub'[k] = HubFields /\ SameHub(k)
    BY <1>0, <2>1 DEF PlacesShape, HubFields, SameHub
  <2>3. PlacesShape' BY <1>0, <2>1, <2>2 DEF PlacesShape, PlacingGoes
  <2>4. AreasStay BY <2>1 DEF AreasStay
  <2>5. RecordsHold'
    <3>1. ASSUME NEW k \in Hubs PROVE HubHolds(k)'
      <4>1. hub[k] # Network!NoHub \/ hub'[k] = hub[k] BY <1>0, <1>5, <2>1 DEF PlacesShape, Network!NoHub
      <4> QED BY <2>2, <4>1, HubStays DEF PlacesInv, RecordsHold
    <3>2. \A m \in Markets : MarketHolds(m)' BY <2>1, MarketStays DEF SameMarket, PlacesInv, RecordsHold
    <3>3. \A a \in Addresses : AddressHolds(a)'
      BY <2>1, <2>4, AddressStays DEF SameAddress, PlacesInv, RecordsHold
    <3> QED BY <3>1, <3>2, <3>3 DEF RecordsHold
  <2>6. Framed(r) BY <2>1, <2>2, <2>4 DEF Framed, SameMarket, SameHub, SameAddress
  <2>7. Network!OneDefault'
    BY <2>1 DEF PlacesInv, Network!OneDefault, Network!Defaults, Network!Kept, Remembers
  <2>8. MarketsAssigned(r)'
    <3>1. placing'[r].on = h /\ placing'[r].set = p.set /\ placing'[r].to = p.to BY <1>1, <1>4, <2>1 DEF PlacingGoes
    <3>2. ASSUME NEW m \in Markets, m \in p.to.markets
          PROVE  market'[m].state # "none" /\ Network!AtHub(m, market[m].state, h)'
      BY <1>6, <2>1, <3>2 DEF Network!AtHub
    <3>3. hub'[h].state # "none" BY <1>5, <2>2 DEF SameHub
    <3> QED BY <1>5, <3>1, <3>2, <3>3 DEF MarketsAssigned, Network!AtHub
  <2>9. PlaceAsked(r)'
    <3>1. placing'[r].op = "assignHubMarkets" BY <1>1, <1>2, <2>1 DEF PlacingGoes
    <3> QED BY <2>8, <3>1 DEF PlaceAsked, MarketAsked, HubAssigned, HubAsked, AddressAsked, DefaultAsked, BookAsked, At
  <2> QED BY <2>1, <2>3, <2>5, <2>6, <2>7, <2>9, PlacesStep
<1>8. CASE Network!WriteMarketsHub(r)
  <2>1. /\ PlacingGoes(r, "done", <<>>) /\ UNCHANGED <<city, hub, address, area>>
        /\ market' = [m \in Markets |-> IF m \in p.set.markets THEN [market[m] EXCEPT !.hub = h] ELSE market[m]]
    BY <1>0, <1>1, <1>4, <1>8, PlacingDone DEF Network!WriteMarketsHub
  <2>2. \A m \in Markets : /\ DOMAIN market'[m] = MarketFields
                           /\ market'[m].state = market[m].state /\ market'[m].city = market[m].city
                           /\ market'[m] = market[m] \/ (m \in p.to.markets /\ market'[m].hub = h)
    BY <1>0, <1>5, <2>1 DEF PlacesShape, MarketFields
  <2>3. PlacesShape' BY <1>0, <2>1, <2>2 DEF PlacesShape, PlacingGoes
  <2>4. AreasStay BY <2>1 DEF AreasStay
  <2>5. RecordsHold'
    <3>1. ASSUME NEW m \in Markets PROVE MarketHolds(m)'
      <4>1. CASE market'[m] = market[m] BY <4>1, MarketStays DEF SameMarket, PlacesInv, RecordsHold
      <4>2. CASE m \in p.to.markets /\ market'[m].hub = h
        <5>1. PICK s, c : s = market[m].state /\ c = market[m].city OBVIOUS
        <5>2. s # "none" /\ Network!AtHub(m, s, h)' BY <1>6, <4>2, <5>1
        <5>3. market[m] # Network!NoMarket BY <5>1, <5>2 DEF Network!NoMarket
        <5>4. Network!InCity(m, s, c) BY <5>1, <5>3 DEF PlacesInv, RecordsHold, MarketHolds
        <5>5. Network!LiesAt(m, c) BY <5>1 DEF Network!LiesAt
        <5>6. Network!InCity(m, s, c)' BY <5>4, <5>5, InCityStays
        <5>7. market'[m].state = s /\ market'[m].city = c BY <2>2, <5>1
        <5> QED BY <4>2, <5>2, <5>6, <5>7 DEF MarketHolds, Network!InCity, Network!AtHub
      <4> QED BY <2>2, <4>1, <4>2
    <3>2. \A k \in Hubs : HubHolds(k)' BY <2>1, HubStays DEF SameHub, PlacesInv, RecordsHold
    <3>3. \A a \in Addresses : AddressHolds(a)'
      BY <2>1, <2>4, AddressStays DEF SameAddress, PlacesInv, RecordsHold
    <3> QED BY <3>1, <3>2, <3>3 DEF RecordsHold
  <2>6. Framed(r)
    <3>1. \A m \in Markets : SameMarket(m) \/ m \in Network!Subjects(r)
      BY <1>1, <1>2, <2>2 DEF SameMarket, Network!Subjects, Network!Open
    <3> QED BY <2>1, <2>2, <2>4, <3>1 DEF Framed, SameAddress
  <2>7. Network!OneDefault'
    BY <2>1 DEF PlacesInv, Network!OneDefault, Network!Defaults, Network!Kept, Remembers
  <2> QED BY <2>1, <2>3, <2>5, <2>6, <2>7, NothingAsked, PlacesStep
<1> QED BY <1>7, <1>8

-----------------------------------------------------------------------------
\* The addresses of a customer.
LEMMA CoveredPlaces ==
  ASSUME NEW s, NEW c, NEW n, NEW x \in Network!Covered(s, c, n)
  PROVE  /\ DOMAIN x = {"state", "city", "area"} /\ x.state = s
         /\ x.city = "none" \/ (x.city \in Cities /\ city[x.city].state = s)
         /\ x.area = "none" \/ \E k \in area : k.state = s /\ k.name = x.area
<1>1. PICK k, a : /\ k \in Network!Resolved(c, {i \in Cities : Network!EnsureCity(i, s)})
                  /\ a \in Network!Resolved(n, Network!ActiveAreas(s))
                  /\ x = [state |-> s, city |-> k, area |-> a]
  BY DEF Network!Covered
<1>2. k = "none" \/ (k \in Cities /\ city[k].state = s) BY <1>1 DEF Network!Resolved, Network!EnsureCity
<1>3. a = "none" \/ \E i \in area : i.state = s /\ i.name = a BY <1>1 DEF Network!Resolved, Network!ActiveAreas
<1> QED BY <1>1, <1>2, <1>3

LEMMA AddressChecks ==
  ASSUME PlacesInv, NEW r \in Placings, Remembers, Network!CheckAddress(r)
  PROVE  PlacesInv'
<1>0. PlacesShape BY DEF PlacesInv
<1>1. PICK a \in Addresses : a = placing[r].on BY DEF Network!CheckAddress
<1>2. PICK to, d : to = placing[r].to /\ d = address[a] OBVIOUS
<1>3. PICK default \in BOOLEAN : default = (Network!Given(to, "default", FALSE) = TRUE) OBVIOUS
<1> DEFINE new(x) == Network!With([Network!NoAddress EXCEPT !.status = "active", !.default = default], x)
           changed(x) == Network!With([d EXCEPT !.default = Network!Given(to, "default", @)], x)
           differing(x) == {f \in {"state", "city", "area", "default"} : changed(x)[f] # d[f]}
<1>4. /\ placing[r].op = "address" /\ UNCHANGED <<city, hub, market, address, area>>
      /\ \/ Network!Done(r)
         \/ \E s, c, n : \E x \in Network!Covered(s, c, n) :
              \/ Network!Goes(r, IF default THEN "clear" ELSE "count", new(x))
              \/ /\ d.status = "active"
                 /\ Network!Goes(r, IF default THEN "clear" ELSE "write", Network!Only(changed(x), differing(x)))
  <2>1. placing[r].op = "address" /\ UNCHANGED <<city, hub, market, address, area>>
    BY DEF Network!CheckAddress, Network!On, Network!records
  <2>2. PICK s, c, n : /\ s = Network!Given(to, "state", d.state) /\ c = Network!Given(to, "city", d.city)
                       /\ n = Network!Given(to, "area", d.area)
    OBVIOUS
  <2>3. PICK found : found = {x \in Network!Covered(s, c, n) : d = Network!NoAddress => x.area # "none"} OBVIOUS
  <2>4. \/ Network!Done(r)
        \/ \E x \in found : Network!Goes(r, IF default THEN "clear" ELSE "count", new(x))
        \/ /\ d.status = "active"
           /\ \E x \in found : Network!Goes(r, IF default THEN "clear" ELSE "write", Network!Only(changed(x), differing(x)))
    <3> DEFINE e == address[placing[r].on]
               wish == placing[r].to
               names == Network!Given(wish, "default", FALSE) = TRUE
               places == Network!Covered(Network!Given(wish, "state", e.state), Network!Given(wish, "city", e.city),
                                         Network!Given(wish, "area", e.area))
               known == {x \in places : e = Network!NoAddress => x.area # "none"}
               made(x) == Network!With([Network!NoAddress EXCEPT !.status = "active", !.default = names], x)
               moved(x) == Network!With([e EXCEPT !.default = Network!Given(wish, "default", @)], x)
    <3>1. \/ Network!Done(r)
          \/ \E x \in known : Network!Goes(r, IF names THEN "clear" ELSE "count", made(x))
          \/ /\ e.status = "active"
             /\ \E x \in known :
                  Network!Goes(r, IF names THEN "clear" ELSE "write",
                    Network!Only(moved(x), {f \in {"state", "city", "area", "default"} : moved(x)[f] # e[f]}))
      BY DEF Network!CheckAddress
    <3>2. e = d /\ wish = to BY <1>1, <1>2
    <3>3. names <=> default BY <1>3, <3>2
    <3>4. known = found BY <2>2, <2>3, <3>2
    <3>5. \A x : made(x) = new(x) BY <1>3, <3>2
    <3>6. \A x : moved(x) = changed(x) BY <3>2
    <3> HIDE DEF names, known, made, moved, new, changed
    <3> QED BY <3>1, <3>2, <3>3, <3>4, <3>5, <3>6
  <2>5. found \subseteq Network!Covered(s, c, n) BY <2>3
  <2> HIDE DEF new, changed, differing
  <2> QED BY <2>1, <2>4, <2>5
<1>5. CASE Network!Done(r) BY <1>0, <1>4, <1>5, PlacingDone, NothingAsked, LookStep
<1>6. ASSUME NEW s, NEW c, NEW n, NEW x \in Network!Covered(s, c, n)
      PROVE  /\ DOMAIN x = {"state", "city", "area"} /\ Network!Lives(a, x.state, x.city, x.area)'
  <2>1. /\ DOMAIN x = {"state", "city", "area"} /\ x.state = s
        /\ x.city = "none" \/ (x.city \in Cities /\ city[x.city].state = s)
        /\ x.area = "none" \/ \E k \in area : k.state = s /\ k.name = x.area
    BY CoveredPlaces
  <2> QED BY <1>4, <2>1 DEF Network!Lives, Network!InCity
<1>7. ASSUME NEW s, NEW c, NEW n, NEW x \in Network!Covered(s, c, n),
             Network!Goes(r, IF default THEN "clear" ELSE "count", new(x))
      PROVE  PlacesInv'
  <2>1. DOMAIN x = {"state", "city", "area"} /\ Network!Lives(a, x.state, x.city, x.area)' BY <1>6
  <2>2. PICK set : set = new(x) OBVIOUS
  <2>3. PICK at : at = IF default THEN "clear" ELSE "count" OBVIOUS
  <2>4. /\ DOMAIN set = AddressFields /\ set.state = x.state /\ set.city = x.city /\ set.area = x.area
        /\ set.status = "active" /\ set.default = default
    BY <2>1, <2>2 DEF Network!With, Network!NoAddress, AddressFields
  <2>5. PlacingGoes(r, at, set) BY <1>0, <1>7, <2>2, <2>3, PlacingGo
  <2>6. placing'[r].op = "address" /\ placing'[r].on = a /\ placing'[r].at = at /\ placing'[r].set = set
    BY <1>1, <1>4, <2>5 DEF PlacingGoes
  <2>7. AddressAsked(r)' BY <2>1, <2>3, <2>4, <2>6 DEF AddressAsked, At, Network!Lives, Network!InCity, AddressFields
  <2>8. BookAsked(r)' BY <2>3, <2>4, <2>6 DEF BookAsked
  <2>9. PlaceAsked(r)'
    BY <2>6, <2>7, <2>8 DEF PlaceAsked, MarketAsked, HubAssigned, MarketsAssigned, HubAsked, DefaultAsked, At
  <2> QED BY <1>4, <2>5, <2>9, LookStep
<1>8. ASSUME NEW s, NEW c, NEW n, NEW x \in Network!Covered(s, c, n), d.status = "active",
             Network!Goes(r, IF default THEN "clear" ELSE "write", Network!Only(changed(x), differing(x)))
      PROVE  PlacesInv'
  <2>1. DOMAIN x = {"state", "city", "area"} /\ Network!Lives(a, x.state, x.city, x.area)' BY <1>6
  <2>2. PICK e : e = changed(x) OBVIOUS
  <2>3. PICK fs : fs = differing(x) OBVIOUS
  <2>4. PICK set : set = Network!Only(e, fs) OBVIOUS
  <2>5. PICK at : at = IF default THEN "clear" ELSE "write" OBVIOUS
  <2>6. DOMAIN d = AddressFields BY <1>0, <1>2 DEF PlacesShape
  <2>7. e.state = x.state /\ e.city = x.city /\ e.area = x.area /\ e.default = Network!Given(to, "default", d.default)
    BY <2>1, <2>2, <2>6 DEF Network!With, AddressFields
  <2>8. DOMAIN set = fs /\ \A f \in fs : set[f] = e[f] BY <2>4 DEF Network!Only
  <2>9. fs = {f \in {"state", "city", "area", "default"} : e[f] # d[f]} BY <2>2, <2>3
  <2>10. /\ x.state = IF "state" \in DOMAIN set THEN set.state ELSE d.state
         /\ x.city = IF "city" \in DOMAIN set THEN set.city ELSE d.city
         /\ x.area = IF "area" \in DOMAIN set THEN set.area ELSE d.area
    BY <2>7, <2>8, <2>9
  <2>11. ~default /\ "default" \in DOMAIN set => set.default # TRUE
    BY <1>3, <2>7, <2>8, <2>9 DEF Network!Given
  <2>12. PlacingGoes(r, at, set) BY <1>0, <1>8, <2>2, <2>3, <2>4, <2>5, PlacingGo
  <2>13. placing'[r].op = "address" /\ placing'[r].on = a /\ placing'[r].at = at /\ placing'[r].set = set
    BY <1>1, <1>4, <2>12 DEF PlacingGoes
  <2>14. address'[a] = d BY <1>2, <1>4
  <2>15. AddressAsked(r)'
    BY <1>8, <2>1, <2>5, <2>8, <2>9, <2>10, <2>13, <2>14 DEF AddressAsked, At, Network!Lives, Network!InCity
  <2>16. BookAsked(r)' BY <2>5, <2>11, <2>13 DEF BookAsked
  <2>17. PlaceAsked(r)'
    BY <2>13, <2>15, <2>16 DEF PlaceAsked, MarketAsked, HubAssigned, MarketsAssigned, HubAsked, DefaultAsked, At
  <2> QED BY <1>4, <2>12, <2>17, LookStep
<1> HIDE DEF new, changed, differing
<1> QED BY <1>4, <1>5, <1>7, <1>8

LEMMA DefaultChecks ==
  ASSUME PlacesInv, NEW r \in Placings, Remembers, Network!StartSetDefault(r) \/ Network!StartArchive(r)
  PROVE  PlacesInv'
<1>0. PlacesShape BY DEF PlacesInv
<1>1. PICK a \in Addresses : a = placing[r].on BY DEF Network!StartSetDefault, Network!StartArchive
<1>2. UNCHANGED <<city, hub, market, address, area>>
  BY DEF Network!StartSetDefault, Network!StartArchive, Network!records
<1>3. \/ Network!Done(r)
      \/ \E at, set : /\ a \in Network!Kept /\ Network!Goes(r, at, set)
                      /\ \/ placing[r].op = "setDefault" /\ at = "clear" /\ DOMAIN set \subseteq {"default"}
                         \/ /\ placing[r].op = "archive" /\ at = "write" /\ DOMAIN set \subseteq {"status", "default"}
                            /\ "status" \in DOMAIN set => set.status = "archived"
                            /\ "default" \in DOMAIN set => set.default = FALSE
  <2>1. CASE Network!StartSetDefault(r)
    <3>1. PICK set : set = Network!Only([default |-> TRUE], {"default"} \ IF placing[r].on \in Network!Defaults THEN {"default"} ELSE {})
      OBVIOUS
    <3>2. DOMAIN set \subseteq {"default"} BY <3>1 DEF Network!Only
    <3> QED BY <1>1, <2>1, <3>1, <3>2 DEF Network!StartSetDefault, Network!On
  <2>2. CASE Network!StartArchive(r)
    <3>1. PICK set : set = Network!Only([status |-> "archived", default |-> FALSE],
                                       {"status"} \cup IF placing[r].on \in Network!Defaults THEN {"default"} ELSE {})
      OBVIOUS
    <3>2. /\ DOMAIN set \subseteq {"status", "default"}
          /\ "status" \in DOMAIN set => set.status = "archived"
          /\ "default" \in DOMAIN set => set.default = FALSE
      BY <3>1 DEF Network!Only
    <3> QED BY <1>1, <2>2, <3>1, <3>2 DEF Network!StartArchive, Network!On
  <2> QED BY <2>1, <2>2
<1>4. CASE Network!Done(r) BY <1>0, <1>2, <1>4, PlacingDone, NothingAsked, LookStep
<1>5. ASSUME NEW at, NEW set, a \in Network!Kept, Network!Goes(r, at, set),
             \/ placing[r].op = "setDefault" /\ at = "clear" /\ DOMAIN set \subseteq {"default"}
             \/ /\ placing[r].op = "archive" /\ at = "write" /\ DOMAIN set \subseteq {"status", "default"}
                /\ "status" \in DOMAIN set => set.status = "archived"
                /\ "default" \in DOMAIN set => set.default = FALSE
      PROVE  PlacesInv'
  <2>1. PlacingGoes(r, at, set) BY <1>0, <1>5, PlacingGo
  <2>2. placing'[r].op = placing[r].op /\ placing'[r].on = a /\ placing'[r].at = at /\ placing'[r].set = set
    BY <1>1, <2>1 DEF PlacingGoes
  <2>3. address'[a].status # "none" BY <1>2, <1>5 DEF Network!Kept
  <2>4. DefaultAsked(r)' BY <1>5, <2>2, <2>3 DEF DefaultAsked, At
  <2>5. PlaceAsked(r)'
    BY <1>5, <2>2, <2>4 DEF PlaceAsked, MarketAsked, HubAssigned, MarketsAssigned, HubAsked, AddressAsked, BookAsked, At
  <2> QED BY <1>2, <2>1, <2>5, LookStep
<1> QED BY <1>3, <1>4, <1>5

LEMMA BookLooks ==
  ASSUME PlacesInv, NEW r \in Placings, Remembers, Network!CountAddresses(r) \/ Network!LookForDefault(r)
  PROVE  PlacesInv'
<1>0. PlacesShape BY DEF PlacesInv
<1>1. UNCHANGED <<city, hub, market, address, area>>
  BY DEF Network!CountAddresses, Network!LookForDefault, Network!records
<1>2. Network!Kept' = Network!Kept /\ Network!Defaults' = Network!Defaults
  BY <1>1 DEF Network!Kept, Network!Defaults
<1>3. CASE Network!CountAddresses(r)
  <2>1. PICK p : p = placing[r] OBVIOUS
  <2>2. AddressAsked(r) /\ BookAsked(r) BY DEF PlacesInv, PlaceAsked
  <2>3. p.op = "address" /\ p.at = "count" BY <1>3, <2>1 DEF Network!CountAddresses, Network!On
  <2>4. PICK a \in Addresses : a = p.on BY <2>1, <2>2, <2>3 DEF AddressAsked, At
  <2>5. DOMAIN p.set = AddressFields /\ p.set.status = "active" BY <2>1, <2>2, <2>3 DEF AddressAsked, At
  <2>6. Network!Lives(a, p.set.state, p.set.city, p.set.area)
    BY <2>1, <2>2, <2>3, <2>4, <2>5 DEF AddressAsked, At, AddressFields
  <2>7. PICK set : set = IF Network!Kept = {} THEN [p.set EXCEPT !.default = TRUE] ELSE p.set OBVIOUS
  <2>8. /\ DOMAIN set = AddressFields /\ set.status = "active"
        /\ set.state = p.set.state /\ set.city = p.set.city /\ set.area = p.set.area
    BY <2>5, <2>7 DEF AddressFields
  <2>9. PlacingGoes(r, "create", set)
    BY <1>0, <1>3, <2>1, <2>7, PlacingGo DEF Network!CountAddresses
  <2>10. placing'[r].op = "address" /\ placing'[r].on = a /\ placing'[r].at = "create" /\ placing'[r].set = set
    BY <2>1, <2>3, <2>4, <2>9 DEF PlacingGoes
  <2>11. Network!Lives(a, set.state, set.city, set.area)' BY <1>1, <2>6, <2>8, PlacesRest
  <2>12. AddressAsked(r)'
    BY <2>8, <2>10, <2>11 DEF AddressAsked, At, Network!Lives, Network!InCity, AddressFields
  <2>13. BookAsked(r)'
    <3>1. CASE Network!Kept = {}
      <4>1. Network!Defaults = {} BY <3>1 DEF Network!Defaults
      <4> QED BY <1>2, <2>10, <4>1 DEF BookAsked
    <3>2. CASE Network!Kept # {}
      BY <1>2, <2>1, <2>2, <2>3, <2>7, <2>10, <3>2 DEF BookAsked, Remembers
    <3> QED BY <3>1, <3>2
  <2>14. PlaceAsked(r)'
    BY <2>10, <2>12, <2>13 DEF PlaceAsked, MarketAsked, HubAssigned, MarketsAssigned, HubAsked, DefaultAsked, At
  <2> QED BY <1>1, <2>9, <2>14, LookStep
<1>4. CASE Network!LookForDefault(r)
  <2>1. placing[r].op = "archive" BY <1>4 DEF Network!LookForDefault, Network!On
  <2>2. CASE Network!Done(r) BY <1>0, <1>1, <2>2, PlacingDone, NothingAsked, LookStep
  <2>3. CASE Network!Defaults = {} /\ Network!Goes(r, "promote", <<>>)
    <3>1. PlacingGoes(r, "promote", <<>>) BY <1>0, <2>3, PlacingGo
    <3>2. placing'[r].op = "archive" /\ placing'[r].at = "promote" BY <2>1, <3>1 DEF PlacingGoes
    <3>3. PlaceAsked(r)'
      BY <1>2, <2>3, <3>2 DEF PlaceAsked, MarketAsked, HubAssigned, MarketsAssigned, HubAsked, AddressAsked,
                               DefaultAsked, BookAsked, At
    <3> QED BY <1>1, <3>1, <3>3, LookStep
  <2> QED BY <1>4, <2>2, <2>3 DEF Network!LookForDefault
<1> QED BY <1>3, <1>4

\* A step that writes addresses, of a request about them.
LEMMA BookStep ==
  ASSUME PlacesInv, NEW r \in Placings, NEW at, NEW set, PlacingGoes(r, at, set), Remembers,
         UNCHANGED <<city, hub, market, area>>, placing[r].op \in Network!AboutAddresses, Network!Open(r),
         DOMAIN address' = Addresses,
         \A a \in Addresses :
           /\ DOMAIN address'[a] = AddressFields /\ (address'[a].status = "none" => address'[a] = Network!NoAddress)
           /\ SameAddress(a) \/ a \in Network!Subjects(r)
           /\ address[a].status # "none" => address'[a].status # "none"
           /\ AddressHolds(a)',
         Network!OneDefault', PlaceAsked(r)'
  PROVE  PlacesInv'
<1>1. PlacesShape' BY DEF PlacesInv, PlacesShape, PlacingGoes
<1>2. AreasStay BY DEF AreasStay
<1>3. "book" \in Network!Subjects(r) BY DEF Network!Subjects
<1>4. Framed(r) BY <1>2, <1>3 DEF Framed, SameMarket
<1>5. \A m \in Markets : MarketHolds(m)' BY MarketStays DEF SameMarket, PlacesInv, RecordsHold
<1>6. \A h \in Hubs : HubHolds(h)' BY HubStays DEF SameHub, PlacesInv, RecordsHold
<1>7. RecordsHold' BY <1>5, <1>6 DEF RecordsHold
<1> QED BY <1>1, <1>4, <1>7, PlacesStep

LEMMA AddressCleared ==
  ASSUME PlacesInv, NEW r \in Placings, Remembers, Network!ClearDefaults(r)
  PROVE  PlacesInv'
<1>0. PlacesShape BY DEF PlacesInv
<1>1. PICK p : p = placing[r] OBVIOUS
<1>2. p.op \in {"address", "setDefault"} /\ p.at = "clear" BY <1>1 DEF Network!ClearDefaults, Network!On
<1>3. AddressAsked(r) /\ DefaultAsked(r) BY DEF PlacesInv, PlaceAsked
<1>4. PICK a \in Addresses : a = p.on BY <1>1, <1>2, <1>3 DEF AddressAsked, DefaultAsked, At
<1>5. PICK at : at = IF address[a] = Network!NoAddress THEN "count" ELSE "write" OBVIOUS
<1>6. PICK spared : spared = IF p.op = "address" THEN {a} ELSE {} OBVIOUS
<1>7. /\ PlacingGoes(r, at, p.set) /\ UNCHANGED <<city, hub, market, area>>
      /\ address' = [b \in Addresses |-> IF b \in Network!Kept \ spared THEN [address[b] EXCEPT !.default = FALSE] ELSE address[b]]
  BY <1>0, <1>1, <1>4, <1>5, <1>6, PlacingGo DEF Network!ClearDefaults
<1>8. /\ DOMAIN address' = Addresses
      /\ \A b \in Addresses :
           /\ DOMAIN address'[b] = AddressFields /\ SameAddress(b)
           /\ address'[b].status = address[b].status
           /\ address'[b] = address[b] \/ (b \notin spared /\ address'[b].default = FALSE)
           /\ b \in Network!Kept => b \in spared \/ address'[b].default = FALSE
  BY <1>0, <1>7 DEF PlacesShape, AddressFields, SameAddress
<1>9. \A b \in Addresses : address'[b].status = "none" => address'[b] = Network!NoAddress
  BY <1>0, <1>7, <1>8 DEF PlacesShape, Network!Kept
<1>10. \A b \in Addresses : AddressHolds(b)'
  <2>1. AreasStay BY <1>7 DEF AreasStay
  <2> QED BY <1>8, <2>1, AddressStays DEF PlacesInv, RecordsHold
<1>11. Network!Defaults' \subseteq Network!Defaults \cap spared
  BY <1>8 DEF Network!Defaults, Network!Kept
<1>12. Network!OneDefault' BY <1>11 DEF PlacesInv, Network!OneDefault, Remembers
<1>13. Network!Open(r) /\ p.op \in Network!AboutAddresses
  BY <1>1, <1>2 DEF Network!Open, Network!AboutAddresses
<1>14. placing'[r].op = p.op /\ placing'[r].on = a /\ placing'[r].at = at /\ placing'[r].set = p.set
  BY <1>1, <1>4, <1>7 DEF PlacingGoes
<1>15. AddressAsked(r)'
  <2> SUFFICES ASSUME p.op = "address" PROVE AddressAsked(r)'
    BY <1>14 DEF AddressAsked, At
  <2>1. PICK s, c, n : /\ s = IF "state" \in DOMAIN p.set THEN p.set.state ELSE address[a].state
                       /\ c = IF "city" \in DOMAIN p.set THEN p.set.city ELSE address[a].city
                       /\ n = IF "area" \in DOMAIN p.set THEN p.set.area ELSE address[a].area
    OBVIOUS
  <2>2. Network!Lives(a, s, c, n) BY <1>1, <1>2, <1>3, <1>4, <2>1 DEF AddressAsked, At
  <2>3. Network!Lives(a, s, c, n)' BY <1>7, <2>2, PlacesRest
  <2>4. /\ s = IF "state" \in DOMAIN p.set THEN p.set.state ELSE address'[a].state
        /\ c = IF "city" \in DOMAIN p.set THEN p.set.city ELSE address'[a].city
        /\ n = IF "area" \in DOMAIN p.set THEN p.set.area ELSE address'[a].area
    BY <1>8, <2>1 DEF SameAddress
  <2>5. \/ DOMAIN p.set = AddressFields /\ p.set.status = "active"
        \/ /\ DOMAIN p.set \subseteq {"state", "city", "area", "default"}
           /\ at = "write" /\ address'[a].status # "none"
    <3>1. \/ DOMAIN p.set = AddressFields /\ p.set.status = "active"
          \/ DOMAIN p.set \subseteq {"state", "city", "area", "default"} /\ address[a].status # "none"
      BY <1>1, <1>2, <1>3, <1>4 DEF AddressAsked, At
    <3>2. address[a].status # "none" => at = "write" BY <1>5 DEF Network!NoAddress
    <3> QED BY <1>8, <3>1, <3>2
  <2> QED BY <1>14, <2>3, <2>4, <2>5 DEF AddressAsked, At, Network!Lives, Network!InCity
<1>16. DefaultAsked(r)'
  <2> SUFFICES ASSUME p.op = "setDefault" PROVE DefaultAsked(r)'
    BY <1>2, <1>14 DEF DefaultAsked, At
  <2> QED BY <1>1, <1>2, <1>3, <1>4, <1>8, <1>14 DEF DefaultAsked, At
<1>17. BookAsked(r)'
  <2>1. Network!Defaults' \subseteq {a} BY <1>6, <1>11
  <2>2. at = "count" => Network!Defaults' = {}
    <3> SUFFICES ASSUME address[a] = Network!NoAddress PROVE Network!Defaults' = {}
      BY <1>5
    <3>1. a \notin Network!Defaults BY DEF Network!Defaults, Network!Kept, Network!NoAddress
    <3> QED BY <1>6, <1>11, <3>1
  <2>3. at \in {"count", "write"} BY <1>5
  <2> QED BY <1>2, <1>14, <2>1, <2>2, <2>3 DEF BookAsked
<1>18. PlaceAsked(r)'
  BY <1>2, <1>14, <1>15, <1>16, <1>17 DEF PlaceAsked, MarketAsked, HubAssigned, MarketsAssigned, HubAsked, At
<1> QED BY <1>1, <1>7, <1>8, <1>9, <1>10, <1>12, <1>13, <1>18, BookStep

LEMMA AddressCreated ==
  ASSUME PlacesInv, NEW r \in Placings, Remembers, Network!CreateAddress(r)
  PROVE  PlacesInv'
<1>0. PlacesShape BY DEF PlacesInv
<1>1. PICK p : p = placing[r] OBVIOUS
<1>2. p.op = "address" /\ p.at = "create" BY <1>1 DEF Network!CreateAddress, Network!On
<1>3. AddressAsked(r) /\ BookAsked(r) BY DEF PlacesInv, PlaceAsked
<1>4. PICK a \in Addresses : a = p.on BY <1>1, <1>2, <1>3 DEF AddressAsked, At
<1>5. DOMAIN p.set = AddressFields /\ p.set.status = "active" BY <1>1, <1>2, <1>3 DEF AddressAsked, At
<1>6. Network!Lives(a, p.set.state, p.set.city, p.set.area)
  BY <1>1, <1>2, <1>3, <1>4, <1>5 DEF AddressAsked, At, AddressFields
<1>7. /\ PlacingGoes(r, "done", <<>>) /\ UNCHANGED <<city, hub, market, area>>
      /\ address' = [address EXCEPT ![a] = p.set]
  BY <1>0, <1>1, <1>4, PlacingDone DEF Network!CreateAddress
<1>8. /\ DOMAIN address' = Addresses /\ address'[a] = p.set
      /\ \A b \in Addresses : b # a => address'[b] = address[b]
  BY <1>0, <1>7 DEF PlacesShape
<1>9. Network!Open(r) /\ p.op \in Network!AboutAddresses /\ a \in Network!Subjects(r)
  BY <1>1, <1>2, <1>4 DEF Network!Open, Network!AboutAddresses, Network!Subjects
<1>10. AddressHolds(a)'
  <2>1. Network!Lives(a, p.set.state, p.set.city, p.set.area)' BY <1>6, <1>7, PlacesRest
  <2> QED BY <1>8, <2>1 DEF AddressHolds, Network!Lives, Network!InCity
<1>11. ASSUME NEW b \in Addresses
       PROVE  /\ DOMAIN address'[b] = AddressFields /\ (address'[b].status = "none" => address'[b] = Network!NoAddress)
              /\ SameAddress(b) \/ b \in Network!Subjects(r)
              /\ address[b].status # "none" => address'[b].status # "none"
              /\ AddressHolds(b)'
  <2>1. CASE b = a BY <1>5, <1>8, <1>9, <1>10, <2>1
  <2>2. CASE b # a
    <3>1. AreasStay BY <1>7 DEF AreasStay
    <3>2. AddressHolds(b)' BY <1>8, <2>2, <3>1, AddressStays DEF SameAddress, PlacesInv, RecordsHold
    <3> QED BY <1>0, <1>8, <2>2, <3>2 DEF PlacesShape, SameAddress
  <2> QED BY <2>1, <2>2
<1>12. Network!OneDefault'
  <2> SUFFICES ASSUME "book" \notin crossed' PROVE \A b, c \in Network!Defaults' : b = c
    BY DEF Network!OneDefault
  <2>1. "book" \notin crossed BY DEF Remembers
  <2>2. CASE p.set.default = TRUE
    <3>1. Network!Defaults = {} BY <1>1, <1>2, <1>3, <2>1, <2>2 DEF BookAsked
    <3>2. Network!Defaults' \subseteq {a} BY <1>8, <3>1 DEF Network!Defaults, Network!Kept
    <3> QED BY <3>2
  <2>3. CASE p.set.default # TRUE
    <3>1. Network!Defaults' \subseteq Network!Defaults BY <1>8, <2>3 DEF Network!Defaults, Network!Kept
    <3> QED BY <2>1, <3>1 DEF PlacesInv, Network!OneDefault
  <2> QED BY <2>2, <2>3
<1> QED BY <1>1, <1>7, <1>8, <1>9, <1>11, <1>12, NothingAsked, BookStep

LEMMA AddressUpdated ==
  ASSUME PlacesInv, NEW r \in Placings, Remembers, Network!UpdateAddress(r)
  PROVE  PlacesInv'
<1>0. PlacesShape BY DEF PlacesInv
<1>1. PICK p : p = placing[r] OBVIOUS
<1>2. p.op \in {"address", "setDefault", "archive"} /\ p.at = "write" BY <1>1 DEF Network!UpdateAddress, Network!On
<1>3. AddressAsked(r) /\ DefaultAsked(r) /\ BookAsked(r) BY DEF PlacesInv, PlaceAsked
<1>4. PICK a \in Addresses : a = p.on BY <1>1, <1>2, <1>3 DEF AddressAsked, DefaultAsked, At
<1>5. PICK at : at = IF p.op = "archive" THEN "look" ELSE "done" OBVIOUS
<1>6. /\ PlacingGoes(r, at, <<>>) /\ UNCHANGED <<city, hub, market, area>>
      /\ address' = [address EXCEPT ![a] = Network!With(address[a], p.set)]
  BY <1>0, <1>1, <1>4, <1>5, PlacingGo DEF Network!UpdateAddress, Network!Done
<1>7. PlaceAsked(r)' BY <1>5, <1>6, NothingAsked
<1>8. /\ DOMAIN address' = Addresses /\ DOMAIN address'[a] = AddressFields
      /\ \A f \in AddressFields : address'[a][f] = IF f \in DOMAIN p.set THEN p.set[f] ELSE address[a][f]
      /\ \A b \in Addresses : b # a => address'[b] = address[b]
  BY <1>0, <1>6 DEF PlacesShape, AddressFields, Network!With
<1>9. Network!Open(r) /\ p.op \in Network!AboutAddresses
  BY <1>1, <1>2 DEF Network!Open, Network!AboutAddresses
<1>10. \/ /\ p.op = "address" /\ DOMAIN p.set = AddressFields /\ p.set.status = "active"
       \/ /\ p.op = "address" /\ DOMAIN p.set \subseteq {"state", "city", "area", "default"}
          /\ address[a].status # "none"
       \/ /\ p.op # "address" /\ DOMAIN p.set \subseteq {"default", "status"} /\ address[a].status # "none"
          /\ "status" \in DOMAIN p.set => p.op = "archive" /\ p.set.status = "archived"
          /\ p.op = "archive" /\ "default" \in DOMAIN p.set => p.set.default = FALSE
  <2>1. CASE p.op = "address" BY <1>1, <1>2, <1>3, <1>4, <2>1 DEF AddressAsked, At
  <2>2. CASE p.op # "address" BY <1>1, <1>2, <1>3, <1>4, <2>2 DEF DefaultAsked, At
  <2> QED BY <2>1, <2>2
<1>11. address'[a].status # "none" BY <1>8, <1>10 DEF AddressFields
<1>12. AreasStay BY <1>6 DEF AreasStay
<1>13. AddressHolds(a)' /\ (SameAddress(a) \/ a \in Network!Subjects(r))
  <2>1. CASE p.op = "address"
    <3>1. PICK s, c, n : /\ s = IF "state" \in DOMAIN p.set THEN p.set.state ELSE address[a].state
                         /\ c = IF "city" \in DOMAIN p.set THEN p.set.city ELSE address[a].city
                         /\ n = IF "area" \in DOMAIN p.set THEN p.set.area ELSE address[a].area
      OBVIOUS
    <3>2. Network!Lives(a, s, c, n) BY <1>1, <1>2, <1>3, <1>4, <2>1, <3>1 DEF AddressAsked, At
    <3>3. Network!Lives(a, s, c, n)' BY <1>6, <3>2, PlacesRest
    <3>4. address'[a].state = s /\ address'[a].city = c /\ address'[a].area = n
      BY <1>8, <3>1 DEF AddressFields
    <3>5. a \in Network!Subjects(r) BY <1>1, <1>4, <1>9, <2>1 DEF Network!Subjects
    <3> QED BY <3>3, <3>4, <3>5 DEF AddressHolds, Network!Lives, Network!InCity
  <2>2. CASE p.op # "address"
    <3>1. SameAddress(a) BY <1>8, <1>10, <2>2 DEF SameAddress, AddressFields
    <3>2. address[a].status # "none" BY <1>10, <2>2
    <3> QED BY <1>12, <3>1, <3>2, AddressStays DEF PlacesInv, RecordsHold
  <2> QED BY <2>1, <2>2
<1>14. ASSUME NEW b \in Addresses
       PROVE  /\ DOMAIN address'[b] = AddressFields /\ (address'[b].status = "none" => address'[b] = Network!NoAddress)
              /\ SameAddress(b) \/ b \in Network!Subjects(r)
              /\ address[b].status # "none" => address'[b].status # "none"
              /\ AddressHolds(b)'
  <2>1. CASE b = a BY <1>8, <1>11, <1>13, <2>1
  <2>2. CASE b # a
    <3>1. AddressHolds(b)' BY <1>8, <1>12, <2>2, AddressStays DEF SameAddress, PlacesInv, RecordsHold
    <3> QED BY <1>0, <1>8, <2>2, <3>1 DEF PlacesShape, SameAddress
  <2> QED BY <2>1, <2>2
<1>15. a \in Network!Defaults' =>
         \/ a \in Network!Defaults
         \/ p.op \in {"address", "setDefault"} /\ "default" \in DOMAIN p.set /\ p.set.default = TRUE
  <2> SUFFICES ASSUME address'[a].status = "active", address'[a].default = TRUE
               PROVE  \/ address[a].status = "active" /\ address[a].default = TRUE
                      \/ p.op \in {"address", "setDefault"} /\ "default" \in DOMAIN p.set /\ p.set.default = TRUE
    BY DEF Network!Defaults, Network!Kept
  <2>1. CASE "default" \in DOMAIN p.set
    <3>1. p.set.default = TRUE BY <1>8, <2>1 DEF AddressFields
    <3> QED BY <1>2, <1>10, <2>1, <3>1
  <2>2. CASE "default" \notin DOMAIN p.set
    <3>1. address[a].default = TRUE BY <1>8, <2>2 DEF AddressFields
    <3>2. "status" \in DOMAIN p.set => p.set.status = "archived" BY <1>10, <2>2 DEF AddressFields
    <3>3. address[a].status = "active" BY <1>8, <3>2 DEF AddressFields
    <3> QED BY <3>1, <3>3
  <2> QED BY <2>1, <2>2
<1>16. Network!OneDefault'
  <2> SUFFICES ASSUME "book" \notin crossed' PROVE \A b, c \in Network!Defaults' : b = c
    BY DEF Network!OneDefault
  <2>1. "book" \notin crossed BY DEF Remembers
  <2>2. Network!Defaults' \subseteq Network!Defaults \cup {a} BY <1>8 DEF Network!Defaults, Network!Kept
  <2>3. CASE a \in Network!Defaults' => a \in Network!Defaults
    <3>1. Network!Defaults' \subseteq Network!Defaults BY <2>2, <2>3
    <3> QED BY <2>1, <3>1 DEF PlacesInv, Network!OneDefault
  <2>4. CASE p.op \in {"address", "setDefault"} /\ "default" \in DOMAIN p.set /\ p.set.default = TRUE
    <3>1. Network!Defaults \subseteq {a} BY <1>1, <1>2, <1>3, <1>4, <2>1, <2>4 DEF BookAsked
    <3> QED BY <2>2, <3>1
  <2> QED BY <1>15, <2>3, <2>4
<1> QED BY <1>1, <1>6, <1>7, <1>8, <1>9, <1>14, <1>16, BookStep

LEMMA AddressPromoted ==
  ASSUME PlacesInv, NEW r \in Placings, Remembers, Network!Promote(r)
  PROVE  PlacesInv'
<1>0. PlacesShape BY DEF PlacesInv
<1>1. PICK p : p = placing[r] OBVIOUS
<1>2. p.op = "archive" /\ p.at = "promote" BY <1>1 DEF Network!Promote, Network!On
<1>3. PlacingGoes(r, "done", <<>>) /\ UNCHANGED <<city, hub, market, area>> BY <1>0, PlacingDone DEF Network!Promote
<1>4. CASE address' = address BY <1>3, <1>4, NothingAsked, LookStep
<1>5. CASE \E a \in Network!Kept : address' = [address EXCEPT ![a].default = TRUE]
  <2>1. PICK a \in Network!Kept : address' = [address EXCEPT ![a].default = TRUE] BY <1>5
  <2>2. /\ DOMAIN address' = Addresses
        /\ \A b \in Addresses :
             /\ DOMAIN address'[b] = AddressFields /\ SameAddress(b) /\ address'[b].status = address[b].status
             /\ address'[b] = address[b] \/ b = a
    BY <1>0, <2>1 DEF PlacesShape, AddressFields, SameAddress, Network!Kept
  <2>3. \A b \in Addresses : address'[b].status = "none" => address'[b] = Network!NoAddress
    BY <1>0, <2>1, <2>2 DEF PlacesShape, Network!Kept
  <2>4. \A b \in Addresses : AddressHolds(b)'
    <3>1. AreasStay BY <1>3 DEF AreasStay
    <3> QED BY <2>2, <3>1, AddressStays DEF PlacesInv, RecordsHold
  <2>5. Network!Defaults' \subseteq Network!Defaults \cup {a} BY <2>2 DEF Network!Defaults, Network!Kept
  <2>6. Network!OneDefault'
    <3> SUFFICES ASSUME "book" \notin crossed' PROVE \A b, c \in Network!Defaults' : b = c
      BY DEF Network!OneDefault
    <3>1. BookAsked(r) /\ "book" \notin crossed BY DEF PlacesInv, PlaceAsked, Remembers
    <3>2. Network!Defaults = {} BY <1>1, <1>2, <3>1 DEF BookAsked
    <3> QED BY <2>5, <3>2
  <2>7. Network!Open(r) /\ p.op \in Network!AboutAddresses
    BY <1>1, <1>2 DEF Network!Open, Network!AboutAddresses
  <2> QED BY <1>1, <1>3, <2>2, <2>3, <2>4, <2>6, <2>7, NothingAsked, BookStep
<1> QED BY <1>4, <1>5 DEF Network!Promote

\* All records are there and agree, and one address at most is the default.
PlacesStart == PlacesShape /\ RecordsHold /\ \A a, b \in Network!Defaults : a = b

\* Where Hook operates, for any number of states, cities, hubs, markets and
\* addresses and any requests about them, at once and in any order, with
\* processes that die: a market or a hub is of its city's state unless that
\* city moved under it; a market of its hub's state, and an address in a city
\* and an area of its own, unless two requests were at work on that market or
\* that address; and no two addresses are the default, unless two requests
\* were at work on the addresses.
THEOREM NetworkPlacesHold ==
  ASSUME NEW start, NEW requests, "none" \notin States
  PROVE  Network!Init(start, requests) /\ PlacesStart /\ [][Network!Next]_networkVars => []PlacesHold
<1>1. Network!Init(start, requests) /\ PlacesStart => PlacesInv
  <2> SUFFICES ASSUME Network!Init(start, requests), PlacesStart PROVE PlacesInv
    OBVIOUS
  <2>1. \A r \in Placings : placing[r].at = "start" BY DEF Network!Init
  <2>2. Network!Overlapping = {} BY <2>1 DEF Network!Overlapping, Network!Subjects, Network!Open
  <2>3. \A r \in Placings : PlaceAsked(r)
    BY <2>1 DEF PlaceAsked, MarketAsked, HubAssigned, MarketsAssigned, HubAsked, AddressAsked, DefaultAsked,
                BookAsked, At
  <2> QED BY <2>2, <2>3 DEF PlacesStart, PlacesInv, Network!OneDefault
<1>2. PlacesInv /\ [Network!Next]_networkVars => PlacesInv'
  <2> SUFFICES ASSUME PlacesInv, [Network!Next]_networkVars PROVE PlacesInv'
    OBVIOUS
  <2>1. CASE UNCHANGED networkVars
    <3>1. UNCHANGED <<city, hub, market, address, area, placing, crossed, uprooted>> BY <2>1 DEF networkVars
    <3>2. PlacesShape' BY <3>1 DEF PlacesInv, PlacesShape
    <3>3. (Network!Overlapping \subseteq crossed)'
      BY <3>1 DEF PlacesInv, Network!Overlapping, Network!Subjects, Network!Open
    <3>4. RecordsHold'
      BY <3>1 DEF PlacesInv, RecordsHold, MarketHolds, HubHolds, AddressHolds, Network!InCity, Network!AtHub,
                  Network!Lives
    <3>5. Network!Defaults' = Network!Defaults BY <3>1 DEF Network!Defaults, Network!Kept
    <3>6. Network!OneDefault' BY <3>1, <3>5 DEF PlacesInv, Network!OneDefault
    <3>7. ASSUME NEW r \in Placings PROVE PlaceAsked(r)'
      <4>1. PlaceAsked(r) BY DEF PlacesInv
      <4>2. MarketAsked(r)' /\ HubAssigned(r)' /\ MarketsAssigned(r)' /\ HubAsked(r)'
        BY <3>1, <4>1 DEF PlaceAsked, MarketAsked, HubAssigned, MarketsAssigned, HubAsked, At, Network!InCity,
                          Network!AtHub
      <4>3. AddressAsked(r)' BY <3>1, <4>1 DEF PlaceAsked, AddressAsked, At, Network!Lives, Network!InCity
      <4>4. DefaultAsked(r)' BY <3>1, <4>1 DEF PlaceAsked, DefaultAsked, At
      <4>5. BookAsked(r)' BY <3>1, <3>5, <4>1 DEF PlaceAsked, BookAsked
      <4> QED BY <4>2, <4>3, <4>4, <4>5 DEF PlaceAsked
    <3> QED BY <3>2, <3>3, <3>4, <3>6, <3>7 DEF PlacesInv
  <2>2. CASE Network!Next
    <3>1. Remembers BY <2>2 DEF Network!Next, Remembers
    <3>2. PICK r \in Placings :
            \/ Network!CheckCity(r) \/ Network!CreateCity(r) \/ Network!UpdateCity(r)
            \/ Network!ChangeState(r) \/ Network!ToggleState(r) \/ Network!ChangeStatus(r)
            \/ Network!CheckMarket(r) \/ Network!CreateMarket(r) \/ Network!UpdateMarket(r)
            \/ Network!CheckAssignMarketHub(r) \/ Network!CheckHub(r) \/ Network!CreateHub(r)
            \/ Network!UpdateHub(r) \/ Network!CheckAssignMarkets(r) \/ Network!WriteHubMarkets(r)
            \/ Network!WriteMarketsHub(r) \/ Network!ReadAreas(r) \/ Network!WriteAreas(r)
            \/ Network!RetireAreas(r) \/ Network!CheckAddress(r) \/ Network!ClearDefaults(r)
            \/ Network!CountAddresses(r) \/ Network!CreateAddress(r) \/ Network!UpdateAddress(r)
            \/ Network!StartSetDefault(r) \/ Network!StartArchive(r) \/ Network!LookForDefault(r)
            \/ Network!Promote(r) \/ Network!Die(r)
      BY <2>2 DEF Network!Next
    <3> QED BY <3>1, <3>2, CitySteps, StatusSteps, AreaSteps, Dies, MarketChecks, MarketWrites, HubChecks,
               HubWrites, AssignChecks, AssignWrites, AddressChecks, DefaultChecks, BookLooks, AddressCleared,
               AddressCreated, AddressUpdated, AddressPromoted
  <2> QED BY <2>1, <2>2
<1>3. PlacesInv => PlacesHold
  <2> SUFFICES ASSUME PlacesInv PROVE PlacesHold
    OBVIOUS
  <2>1. ASSUME NEW a \in Addresses, address[a].status = "active"
        PROVE  Network!Lives(a, address[a].state, address[a].city, address[a].area)
    BY <2>1 DEF PlacesInv, RecordsHold, AddressHolds
  <2>2. Network!PlacesAgree
    BY <2>1 DEF PlacesInv, RecordsHold, MarketHolds, HubHolds, Network!PlacesAgree
  <2> QED BY <2>2 DEF PlacesInv, PlacesHold
<1> QED BY <1>1, <1>2, <1>3, PTL

-----------------------------------------------------------------------------
(* Notices: the requests, the rows of the notices and what is pushed of them *)
NoticeFields == {"op", "on", "node", "at", "seen"}
Pushes == {"scan", "announce", "consume", "broadcast"}

\* What the requests are asked for: those that push are about a key, and a
\* broadcast has a key of its own.
NoticesAsked(does) ==
  /\ \A r \in NoticeRequests : \E op, on, node : does[r] = Told!Ask(op, on, node)
  /\ \A r \in NoticeRequests : does[r].op \in Pushes => does[r].on \in Keys
  /\ \A r, q \in NoticeRequests :
       does[r].op = "broadcast" /\ q # r /\ does[q].op \in Pushes => does[q].on # does[r].on

\* A request stays what was asked, and pushes or takes steps only as such.
NoticeShape(does) ==
  /\ DOMAIN noticeReq = NoticeRequests
  /\ \A r \in NoticeRequests :
       /\ DOMAIN noticeReq[r] = NoticeFields
       /\ noticeReq[r].op = does[r].op /\ noticeReq[r].on = does[r].on
       /\ noticeReq[r].at = "push" => noticeReq[r].op \in Pushes
       /\ noticeReq[r].at = "step" => noticeReq[r].op = "work"

RowsShape ==
  /\ DOMAIN notice = Keys /\ removed \in [Keys -> Nat] /\ buzzed \in [Keys -> Nat]
  /\ \A k \in Keys : DOMAIN notice[k] = {"made", "pushed", "read", "id"} /\ notice[k].made \in BOOLEAN

\* The rows a key has had, and who is about to push for one of them: nobody
\* pushes but for a row that was made, and each row is pushed for once.
RowsOf(k) == removed[k] + (IF notice[k].made THEN 1 ELSE 0)
PushersOf(k) == {r \in NoticeRequests : noticeReq[r].op \in Pushes /\ noticeReq[r].at = "push" /\ noticeReq[r].on = k}
EachRowOnce == \A k \in Keys : buzzed[k] + Cardinality(PushersOf(k)) <= RowsOf(k)
BroadcastIsFirst ==
  \A r \in NoticeRequests :
    noticeReq[r].op = "broadcast" /\ noticeReq[r].at = "start" => ~notice[noticeReq[r].on].made
BuzzInv == RowsShape /\ EachRowOnce /\ BroadcastIsFirst

-----------------------------------------------------------------------------
(* The works: whoever must hear and has not is among the steps that are     *)
(* left, or is left out.                                                    *)
Whom == {"customer", "customer, of the credit", "customer, of the status", "partner, of the status",
         "staff", "other staff"}
WorkSteps == {s \in [by : {"notice", "mail", "look"}, whom : Whom, must : BOOLEAN, without : SUBSET Whom] :
                s.by = "look" => ~s.must}
HasHeard(w, s) == <<w, s.whom>> \in IF s.by = "mail" THEN noticeMailed ELSE told
Follows(w, left, out) ==
  /\ left \in Seq(WorkSteps)
  /\ \A i \in DOMAIN Told!Steps(w) : Told!Steps(w)[i].must =>
       \/ HasHeard(w, Told!Steps(w)[i])
       \/ Told!Steps(w)[i].whom \in out
       \/ \E j \in 1..Len(left) : left[j] = Told!Steps(w)[i]
WorksFollow ==
  \A r \in NoticeRequests : noticeReq[r].at = "step" /\ noticeReq[r].on \in Told!Lasting =>
    Follows(noticeReq[r].on, noticeReq[r].seen.left, noticeReq[r].seen.out)
WorkInv == WorksFollow /\ Told!CompletedIsTold

NoticesInv(does) == NoticeShape(does) /\ BuzzInv /\ WorkInv

-----------------------------------------------------------------------------
NoticeGoes(r, at, found) ==
  /\ DOMAIN noticeReq' = NoticeRequests /\ DOMAIN noticeReq'[r] = NoticeFields
  /\ noticeReq'[r].op = noticeReq[r].op /\ noticeReq'[r].on = noticeReq[r].on
  /\ noticeReq'[r].at = at /\ noticeReq'[r].seen = found
  /\ \A q \in NoticeRequests \ {r} : noticeReq'[q] = noticeReq[q]

LEMMA GotoGoes ==
  ASSUME NEW does, NoticeShape(does), NEW r \in NoticeRequests, NEW at, Told!Goto(r, at)
  PROVE  NoticeGoes(r, at, noticeReq[r].seen)
BY DEF NoticeShape, NoticeFields, NoticeGoes, Told!Goto
LEMMA RememberGoes ==
  ASSUME NEW does, NoticeShape(does), NEW r \in NoticeRequests, NEW at, NEW found, Told!Remember(r, at, found)
  PROVE  NoticeGoes(r, at, found)
BY DEF NoticeShape, NoticeFields, NoticeGoes, Told!Remember
LEMMA NoticeDoneGoes ==
  ASSUME NEW does, NoticeShape(does), NEW r \in NoticeRequests, Told!Done(r)
  PROVE  NoticeGoes(r, "done", noticeReq[r].seen)
BY GotoGoes DEF Told!Done

LEMMA NoticeShapeStays ==
  ASSUME NEW does, NoticeShape(does), NEW r \in NoticeRequests, NEW at, NEW found, NoticeGoes(r, at, found),
         at = "push" => noticeReq[r].op \in Pushes, at = "step" => noticeReq[r].op = "work"
  PROVE  NoticeShape(does)'
BY DEF NoticeShape, NoticeGoes

\* A step at which a request goes on, and neither rows nor works change.
Elsewhere(r) ==
  /\ \E at, found : NoticeGoes(r, at, found) /\ at \notin {"start", "push", "step"}
  /\ UNCHANGED <<notice, buzzed, removed, noticeDue, told, leftOut, noticeMailed>>

USE DEF Told!Now
LEMMA ScansElsewhere ==
  ASSUME NEW does, NoticeShape(does), NEW r \in NoticeRequests,
         \/ Told!ClaimRun(r) \/ Told!Scan(r) \/ Told!Announce(r) \/ Told!Check(r) \/ Told!RecordBroadcast(r)
         \/ Told!ReadPreferences(r) \/ Told!SavePreferences(r)
         \/ Told!Boot(r) \/ Told!ReadSchedule(r) \/ Told!SaveSchedule(r) \/ Told!WaitForSchedule(r) \/ Told!Crash(r)
  PROVE  Elsewhere(r)
<1>1. UNCHANGED <<notice, buzzed, removed, noticeDue, told, leftOut, noticeMailed>>
  BY DEF Told!noticeVars, Told!deviceVars, Told!workVars, Told!ClaimRun, Told!Scan, Told!Announce, Told!Check,
     Told!RecordBroadcast, Told!ReadPreferences, Told!SavePreferences, Told!Boot, Told!ReadSchedule,
     Told!SaveSchedule, Told!WaitForSchedule, Told!Crash
<1>2. \/ Told!Done(r)
      \/ \E at \in {"scan", "check", "insert", "done", "upsert", "wait", "off"} : Told!Goto(r, at)
      \/ \E found : Told!Remember(r, "save", found)
  BY DEF Told!ClaimRun, Told!Scan, Told!Announce, Told!Check, Told!RecordBroadcast, Told!ReadPreferences,
     Told!SavePreferences, Told!Boot, Told!ReadSchedule, Told!SaveSchedule, Told!WaitForSchedule, Told!Crash
<1> QED BY <1>1, <1>2, GotoGoes, RememberGoes, NoticeDoneGoes DEF Elsewhere

LEMMA DevicesElsewhere ==
  ASSUME NEW does, NoticeShape(does), NEW r \in NoticeRequests,
         \/ Told!Authenticate(r) \/ Told!RegisterDevice(r) \/ Told!Greet(r) \/ Told!NoteGreeting(r)
         \/ Told!Unregister(r) \/ Told!Subscribe(r) \/ Told!Revoke(r) \/ Told!RevokeDevices(r)
         \/ Told!Handshake(r) \/ Told!Join(r) \/ Told!ReadTickets(r) \/ Told!ApplyReceipts(r)
  PROVE  Elsewhere(r)
<1>1. UNCHANGED <<notice, buzzed, removed, noticeDue, told, leftOut, noticeMailed>>
  BY DEF Told!noticeVars, Told!deviceVars, Told!workVars, Told!Authenticate, Told!RegisterDevice, Told!Greet,
     Told!NoteGreeting, Told!Unregister, Told!Subscribe, Told!Revoke, Told!RevokeDevices, Told!Handshake,
     Told!Join, Told!ReadTickets, Told!ApplyReceipts
<1>2. \/ Told!Done(r)
      \/ \E at \in {"save", "done", "greet", "greeted", "sockets", "join", "closed", "open"} : Told!Goto(r, at)
      \/ \E at \in {"devices", "apply"} : \E found : Told!Remember(r, at, found)
  BY DEF Told!Authenticate, Told!RegisterDevice, Told!Greet, Told!NoteGreeting, Told!Unregister, Told!Subscribe,
     Told!Revoke, Told!RevokeDevices, Told!Handshake, Told!Join, Told!ReadTickets, Told!ApplyReceipts
<1> QED BY <1>1, <1>2, GotoGoes, RememberGoes, NoticeDoneGoes DEF Elsewhere

-----------------------------------------------------------------------------
\* What a request's step does to a key: it pushed for it before, or is about to now.
Pushing(r, k) == noticeReq[r].op \in Pushes /\ noticeReq[r].at = "push" /\ noticeReq[r].on = k
One(b) == IF b THEN 1 ELSE 0

LEMMA PushersAre ==
  ASSUME NEW does, NoticeShape(does), IsFiniteSet(NoticeRequests), NEW r \in NoticeRequests, NEW at, NEW found,
         NoticeGoes(r, at, found), NEW k
  PROVE  /\ Cardinality(PushersOf(k)) \in Nat /\ Cardinality(PushersOf(k)') \in Nat
         /\ Cardinality(PushersOf(k)') + One(Pushing(r, k)) = Cardinality(PushersOf(k)) + One(Pushing(r, k)')
<1>a. PICK before : before = PushersOf(k) OBVIOUS
<1>b. PICK after : after = PushersOf(k)' OBVIOUS
<1>1. IsFiniteSet(before) /\ IsFiniteSet(after) BY <1>a, <1>b, FS_Subset DEF PushersOf
<1>2. Cardinality(before) \in Nat /\ Cardinality(after) \in Nat BY <1>1, FS_CardinalityType
<1>3. r \in before <=> Pushing(r, k) BY <1>a DEF PushersOf, Pushing
<1>4. r \in after <=> Pushing(r, k)' BY <1>b DEF PushersOf, Pushing
<1>5. before \ {r} = after \ {r} BY <1>a, <1>b DEF PushersOf, NoticeGoes
<1>c. PICK others : others = before \ {r} OBVIOUS
<1>d. others = after \ {r} BY <1>c, <1>5
<1>6. Cardinality(others) = IF r \in before THEN Cardinality(before) - 1 ELSE Cardinality(before)
  BY <1>1, <1>c, FS_RemoveElement
<1>7. Cardinality(others) = IF r \in after THEN Cardinality(after) - 1 ELSE Cardinality(after)
  BY <1>1, <1>d, FS_RemoveElement
<1>8. Cardinality(after) + (IF r \in before THEN 1 ELSE 0) = Cardinality(before) + (IF r \in after THEN 1 ELSE 0)
  BY <1>2, <1>6, <1>7
<1>9. /\ (IF r \in before THEN 1 ELSE 0) = One(Pushing(r, k))
      /\ (IF r \in after THEN 1 ELSE 0) = One(Pushing(r, k)')
  BY <1>3, <1>4 DEF One
<1> QED BY <1>a, <1>b, <1>2, <1>8, <1>9

\* Every key keeps its account: what it buzzed more, and who is to push for it more, it had rows more.
LEMMA BuzzStep ==
  ASSUME NEW does, NoticesAsked(does), IsFiniteSet(NoticeRequests), NoticeShape(does), BuzzInv,
         NEW r \in NoticeRequests, NEW at, NEW found, NoticeGoes(r, at, found), at # "start", RowsShape',
         \A k \in Keys :
           /\ buzzed'[k] + One(Pushing(r, k)') + RowsOf(k) <= buzzed[k] + One(Pushing(r, k)) + RowsOf(k)'
           /\ notice'[k].made => notice[k].made \/ (noticeReq[r].op \in Pushes /\ noticeReq[r].on = k)
  PROVE  BuzzInv'
<1>1. ASSUME NEW k \in Keys PROVE buzzed'[k] + Cardinality(PushersOf(k)') <= RowsOf(k)'
  <2>1. buzzed[k] + Cardinality(PushersOf(k)) <= RowsOf(k) BY DEF BuzzInv, EachRowOnce
  <2>2. /\ Cardinality(PushersOf(k)) \in Nat /\ Cardinality(PushersOf(k)') \in Nat
        /\ Cardinality(PushersOf(k)') + One(Pushing(r, k)) = Cardinality(PushersOf(k)) + One(Pushing(r, k)')
    BY PushersAre
  <2>3. buzzed[k] \in Nat /\ buzzed'[k] \in Nat /\ RowsOf(k) \in Nat /\ RowsOf(k)' \in Nat
    BY DEF BuzzInv, RowsShape, RowsOf
  <2>4. One(Pushing(r, k)) \in {0, 1} /\ One(Pushing(r, k)') \in {0, 1} BY DEF One
  <2>5. buzzed'[k] + One(Pushing(r, k)') + RowsOf(k) <= buzzed[k] + One(Pushing(r, k)) + RowsOf(k)' OBVIOUS
  <2> QED BY <2>1, <2>2, <2>3, <2>4, <2>5
<1>2. ASSUME NEW q \in NoticeRequests, noticeReq'[q].op = "broadcast", noticeReq'[q].at = "start"
      PROVE  ~notice'[noticeReq'[q].on].made
  <2>1. q # r /\ noticeReq'[q] = noticeReq[q] BY <1>2 DEF NoticeGoes
  <2>2. noticeReq[q].on \in Keys /\ ~notice[noticeReq[q].on].made
    BY <1>2, <2>1 DEF BuzzInv, BroadcastIsFirst, NoticeShape, NoticesAsked, Pushes
  <2>3. ~(noticeReq[r].op \in Pushes /\ noticeReq[r].on = noticeReq[q].on)
    BY <1>2, <2>1 DEF NoticeShape, NoticesAsked
  <2> QED BY <2>1, <2>2, <2>3
<1> QED BY <1>1, <1>2 DEF BuzzInv, EachRowOnce, BroadcastIsFirst

LEMMA RowsStay ==
  ASSUME NEW does, NoticesAsked(does), IsFiniteSet(NoticeRequests), NoticeShape(does), BuzzInv,
         NEW r \in NoticeRequests, NEW at, NEW found, NoticeGoes(r, at, found), at \notin {"start", "push"},
         UNCHANGED <<notice, buzzed, removed>>
  PROVE  BuzzInv'
<1>1. RowsShape' BY DEF BuzzInv, RowsShape
<1>2. ASSUME NEW k \in Keys
      PROVE  buzzed'[k] + One(Pushing(r, k)') + RowsOf(k) <= buzzed[k] + One(Pushing(r, k)) + RowsOf(k)'
  <2>1. ~Pushing(r, k)' BY DEF Pushing, NoticeGoes
  <2>2. buzzed[k] \in Nat /\ RowsOf(k) \in Nat /\ RowsOf(k)' = RowsOf(k) BY DEF BuzzInv, RowsShape, RowsOf
  <2> QED BY <2>1, <2>2 DEF One
<1> QED BY <1>1, <1>2, BuzzStep

-----------------------------------------------------------------------------
(* The rows that are made, pushed for, marked, read and removed             *)

\* A notice is made by the one who finds none, who is then about to push for it.
LEMMA InsertNoticeBuzz ==
  ASSUME NEW does, NoticesAsked(does), IsFiniteSet(NoticeRequests), NoticeShape(does), BuzzInv,
         NEW r \in NoticeRequests, Told!InsertNotice(r)
  PROVE  NoticeShape(does)' /\ BuzzInv'
<1> DEFINE k == noticeReq[r].on
<1>0. noticeReq[r].op \in Pushes /\ noticeReq[r].at # "push" BY DEF Told!InsertNotice, Pushes
<1>1. k \in Keys BY <1>0 DEF NoticesAsked, NoticeShape
<1>2. UNCHANGED <<buzzed, removed>> BY DEF Told!InsertNotice
<1>3. CASE notice[k].made
  <2>1. notice' = notice /\ Told!Done(r) BY <1>3 DEF Told!InsertNotice, Told!IsNew
  <2>2. NoticeGoes(r, "done", noticeReq[r].seen) BY <2>1, NoticeDoneGoes
  <2> QED BY <1>2, <2>1, <2>2, RowsStay, NoticeShapeStays
<1>4. CASE ~notice[k].made
  <2>1. notice' = [notice EXCEPT ![k] = Told!Row(k)] /\ \E found : Told!Remember(r, "push", found)
    BY <1>4 DEF Told!InsertNotice, Told!IsNew
  <2>2. PICK found : NoticeGoes(r, "push", found) BY <2>1, RememberGoes
  <2>3. RowsShape' BY <1>1, <1>2, <2>1 DEF BuzzInv, RowsShape, Told!Row
  <2>4. ASSUME NEW j \in Keys
        PROVE  /\ buzzed'[j] + One(Pushing(r, j)') + RowsOf(j) <= buzzed[j] + One(Pushing(r, j)) + RowsOf(j)'
               /\ notice'[j].made => notice[j].made \/ (noticeReq[r].op \in Pushes /\ noticeReq[r].on = j)
    <3>1. ~Pushing(r, j) /\ (Pushing(r, j)' <=> j = k) BY <1>0, <2>2 DEF Pushing, NoticeGoes
    <3>2. notice'[j] = IF j = k THEN Told!Row(k) ELSE notice[j] BY <1>1, <2>1 DEF BuzzInv, RowsShape
    <3>3. buzzed[j] \in Nat /\ removed[j] \in Nat BY DEF BuzzInv, RowsShape
    <3>4. RowsOf(j)' = RowsOf(j) + (IF j = k THEN 1 ELSE 0)
      BY <1>2, <1>4, <3>2, <3>3 DEF RowsOf, Told!Row
    <3>5. RowsOf(j) \in Nat BY <3>3 DEF RowsOf
    <3> QED BY <1>0, <1>2, <3>1, <3>2, <3>3, <3>4, <3>5 DEF One
  <2> HIDE DEF k
  <2>5. BuzzInv' BY <2>2, <2>3, <2>4, BuzzStep
  <2> QED BY <1>0, <2>2, <2>5, NoticeShapeStays
<1> QED BY <1>3, <1>4

LEMMA SendBroadcastBuzz ==
  ASSUME NEW does, NoticesAsked(does), IsFiniteSet(NoticeRequests), NoticeShape(does), BuzzInv,
         NEW r \in NoticeRequests, Told!SendBroadcast(r)
  PROVE  NoticeShape(does)' /\ BuzzInv'
<1> DEFINE k == noticeReq[r].on
<1>0. noticeReq[r].op = "broadcast" /\ noticeReq[r].op \in Pushes /\ noticeReq[r].at = "start"
  BY DEF Told!SendBroadcast, Pushes
<1>1. k \in Keys BY <1>0 DEF NoticesAsked, NoticeShape
<1>2. UNCHANGED <<buzzed, removed>> BY DEF Told!SendBroadcast
<1>4. ~notice[k].made BY <1>0 DEF BuzzInv, BroadcastIsFirst
<1>5. notice' = [notice EXCEPT ![k] = Told!Row(k)] /\ Told!Goto(r, "push") BY DEF Told!SendBroadcast
<1>6. NoticeGoes(r, "push", noticeReq[r].seen) BY <1>5, GotoGoes
<1>7. RowsShape' BY <1>1, <1>2, <1>5 DEF BuzzInv, RowsShape, Told!Row
<1>8. ASSUME NEW j \in Keys
      PROVE  /\ buzzed'[j] + One(Pushing(r, j)') + RowsOf(j) <= buzzed[j] + One(Pushing(r, j)) + RowsOf(j)'
             /\ notice'[j].made => notice[j].made \/ (noticeReq[r].op \in Pushes /\ noticeReq[r].on = j)
  <2>1. ~Pushing(r, j) /\ (Pushing(r, j)' <=> j = k) BY <1>0, <1>6 DEF Pushing, NoticeGoes
  <2>2. notice'[j] = IF j = k THEN Told!Row(k) ELSE notice[j] BY <1>1, <1>5 DEF BuzzInv, RowsShape
  <2>3. buzzed[j] \in Nat /\ removed[j] \in Nat BY DEF BuzzInv, RowsShape
  <2>4. RowsOf(j)' = RowsOf(j) + (IF j = k THEN 1 ELSE 0) BY <1>2, <1>4, <2>2, <2>3 DEF RowsOf, Told!Row
  <2>5. RowsOf(j) \in Nat BY <2>3 DEF RowsOf
  <2> QED BY <1>0, <1>2, <2>1, <2>2, <2>3, <2>4, <2>5 DEF One
<1> HIDE DEF k
<1>9. BuzzInv' BY <1>6, <1>7, <1>8, BuzzStep
<1> QED BY <1>0, <1>6, <1>9, NoticeShapeStays

\* Who pushes is no longer about to: the phone buzzes once more at most.
LEMMA PushBuzz ==
  ASSUME NEW does, NoticesAsked(does), IsFiniteSet(NoticeRequests), NoticeShape(does), BuzzInv,
         NEW r \in NoticeRequests, Told!Push(r)
  PROVE  NoticeShape(does)' /\ BuzzInv'
<1> DEFINE k == noticeReq[r].on
<1>0. noticeReq[r].op \in Pushes /\ noticeReq[r].at = "push" BY DEF Told!Push, Pushes
<1>1. k \in Keys BY <1>0 DEF NoticesAsked, NoticeShape
<1>2. UNCHANGED <<notice, removed>> BY DEF Told!Push
<1>3. PICK more \in {0, 1} : buzzed' = [buzzed EXCEPT ![k] = @ + more]
  <2>1. PICK refused : buzzed' = [buzzed EXCEPT ![k] = IF Told!Mine \ refused = {} THEN @ ELSE @ + 1]
    BY DEF Told!Push
  <2>2. buzzed \in [Keys -> Nat] BY DEF BuzzInv, RowsShape
  <2>3. CASE Told!Mine \ refused = {}
    <3>0. buzzed[k] + 0 = buzzed[k] BY <1>1, <2>2
    <3>1. buzzed' = [buzzed EXCEPT ![k] = @ + 0] BY <2>1, <2>3, <3>0
    <3> QED BY <3>1
  <2>4. CASE Told!Mine \ refused # {}
    <3>1. buzzed' = [buzzed EXCEPT ![k] = @ + 1] BY <2>1, <2>4
    <3> QED BY <3>1
  <2> QED BY <2>3, <2>4
<1>4. PICK at \in {"record", "mark"} : NoticeGoes(r, at, noticeReq[r].seen)
  <2>1. \E at \in {"record", "mark"} : Told!Goto(r, at) BY DEF Told!Push
  <2> QED BY <2>1, GotoGoes
<1>5. RowsShape' BY <1>1, <1>2, <1>3 DEF BuzzInv, RowsShape
<1>6. ASSUME NEW j \in Keys
      PROVE  /\ buzzed'[j] + One(Pushing(r, j)') + RowsOf(j) <= buzzed[j] + One(Pushing(r, j)) + RowsOf(j)'
             /\ notice'[j].made => notice[j].made \/ (noticeReq[r].op \in Pushes /\ noticeReq[r].on = j)
  <2>1. ~Pushing(r, j)' /\ (Pushing(r, j) <=> j = k) BY <1>0, <1>4 DEF Pushing, NoticeGoes
  <2>2. buzzed[j] \in Nat /\ RowsOf(j) \in Nat /\ RowsOf(j)' = RowsOf(j) BY <1>2 DEF BuzzInv, RowsShape, RowsOf
  <2>3. buzzed'[j] = IF j = k THEN buzzed[j] + more ELSE buzzed[j] BY <1>1, <1>3 DEF BuzzInv, RowsShape
  <2> QED BY <1>2, <2>1, <2>2, <2>3 DEF One
<1> HIDE DEF k
<1>7. BuzzInv' BY <1>4, <1>5, <1>6, BuzzStep
<1> QED BY <1>0, <1>4, <1>7, NoticeShapeStays

\* What reads and marks leaves every row where it is.
LEMMA MarkBuzz ==
  ASSUME NEW does, NoticesAsked(does), IsFiniteSet(NoticeRequests), NoticeShape(does), BuzzInv,
         NEW r \in NoticeRequests, Told!MarkPushed(r) \/ Told!MarkRead(r) \/ Told!MarkAllRead(r)
  PROVE  NoticeShape(does)' /\ BuzzInv'
<1>1. UNCHANGED <<buzzed, removed>> /\ Told!Done(r) BY DEF Told!MarkPushed, Told!MarkRead, Told!MarkAllRead
<1>2. NoticeGoes(r, "done", noticeReq[r].seen) BY <1>1, NoticeDoneGoes
<1>3. /\ DOMAIN notice' = Keys
      /\ \A j \in Keys : DOMAIN notice'[j] = {"made", "pushed", "read", "id"} /\ notice'[j].made = notice[j].made
  <2>1. CASE Told!MarkPushed(r) BY <2>1 DEF Told!MarkPushed, BuzzInv, RowsShape
  <2>2. CASE \E ks : notice' = Told!Read(ks) BY <2>2 DEF Told!Read, BuzzInv, RowsShape
  <2> QED BY <2>1, <2>2 DEF Told!MarkRead, Told!MarkAllRead
<1>4. RowsShape' BY <1>1, <1>3 DEF BuzzInv, RowsShape
<1>5. ASSUME NEW j \in Keys
      PROVE  /\ buzzed'[j] + One(Pushing(r, j)') + RowsOf(j) <= buzzed[j] + One(Pushing(r, j)) + RowsOf(j)'
             /\ notice'[j].made => notice[j].made \/ (noticeReq[r].op \in Pushes /\ noticeReq[r].on = j)
  <2>1. ~Pushing(r, j)' BY <1>2 DEF Pushing, NoticeGoes
  <2>2. buzzed[j] \in Nat /\ RowsOf(j) \in Nat /\ RowsOf(j)' = RowsOf(j)
    BY <1>1, <1>3 DEF BuzzInv, RowsShape, RowsOf
  <2> QED BY <1>1, <1>3, <2>1, <2>2 DEF One
<1>6. BuzzInv' BY <1>2, <1>4, <1>5, BuzzStep
<1> QED BY <1>2, <1>6, NoticeShapeStays

\* A row that is deleted is counted as one the key has had.
LEMMA RemoveBuzz ==
  ASSUME NEW does, NoticesAsked(does), IsFiniteSet(NoticeRequests), NoticeShape(does), BuzzInv,
         NEW r \in NoticeRequests, Told!Delete(r) \/ Told!ClearAll(r)
  PROVE  NoticeShape(does)' /\ BuzzInv'
<1>1. UNCHANGED buzzed /\ Told!Done(r) /\ \E ks : Told!Remove(ks) BY DEF Told!Delete, Told!ClearAll
<1>2. NoticeGoes(r, "done", noticeReq[r].seen) BY <1>1, NoticeDoneGoes
<1>3. PICK ks : Told!Remove(ks) BY <1>1
<1>4. /\ DOMAIN notice' = Keys
      /\ \A j \in Keys : /\ DOMAIN notice'[j] = {"made", "pushed", "read", "id"}
                         /\ notice'[j].made \in BOOLEAN /\ (notice'[j].made <=> notice[j].made /\ j \notin ks)
  BY <1>3 DEF Told!Remove, BuzzInv, RowsShape
<1>5. removed' = [j \in Keys |-> removed[j] + (IF j \in ks /\ notice[j].made THEN 1 ELSE 0)] BY <1>3 DEF Told!Remove
<1>6. RowsShape' BY <1>1, <1>4, <1>5 DEF BuzzInv, RowsShape
<1>7. ASSUME NEW j \in Keys
      PROVE  /\ buzzed'[j] + One(Pushing(r, j)') + RowsOf(j) <= buzzed[j] + One(Pushing(r, j)) + RowsOf(j)'
             /\ notice'[j].made => notice[j].made \/ (noticeReq[r].op \in Pushes /\ noticeReq[r].on = j)
  <2>1. ~Pushing(r, j)' BY <1>2 DEF Pushing, NoticeGoes
  <2>2. buzzed[j] \in Nat /\ removed[j] \in Nat BY DEF BuzzInv, RowsShape
  <2>a. removed'[j] = removed[j] + (IF j \in ks /\ notice[j].made THEN 1 ELSE 0) BY <1>5
  <2>b. notice'[j].made <=> notice[j].made /\ j \notin ks BY <1>4
  <2>3. RowsOf(j) \in Nat /\ RowsOf(j)' = RowsOf(j) BY <2>a, <2>b, <2>2 DEF RowsOf
  <2> QED BY <1>1, <1>4, <2>1, <2>2, <2>3 DEF One
<1>8. BuzzInv' BY <1>2, <1>6, <1>7, BuzzStep
<1> QED BY <1>2, <1>8, NoticeShapeStays

-----------------------------------------------------------------------------
(* The works and their steps                                                *)

LEMMA StepKinds ==
  ASSUME NEW whom \in Whom
  PROVE  /\ Told!Tells(whom) \in WorkSteps /\ Told!Mails(whom) \in WorkSteps /\ Told!LooksUp(whom) \in WorkSteps
         /\ Told!TriesToTell(whom) \in WorkSteps /\ Told!TriesToMail(whom) \in WorkSteps
BY DEF Told!Tells, Told!Mails, Told!TriesToTell, Told!TriesToMail, Told!LooksUp, Told!WorkStep, WorkSteps

LEMMA LastingSteps ==
  ASSUME NEW w \in Told!Lasting
  PROVE  Told!Steps(w) \in Seq(WorkSteps)
<1>0. /\ "customer" \in Whom /\ "customer, of the credit" \in Whom /\ "customer, of the status" \in Whom
      /\ "partner, of the status" \in Whom /\ "staff" \in Whom /\ "other staff" \in Whom
  BY DEF Whom
<1>1. CASE w = "paid"
  <2>1. PICK a, b, c : a = Told!TriesToTell("customer, of the credit") /\ b = Told!Tells("customer") /\ c = Told!Mails("customer")
    OBVIOUS
  <2>2. Told!Steps(w) = <<a, b, c>> BY <1>1, <2>1 DEF Told!Steps, Told!PaymentConfirmedEffects
  <2>3. a \in WorkSteps /\ b \in WorkSteps /\ c \in WorkSteps BY <1>0, <2>1, StepKinds
  <2> QED BY <2>2, <2>3
<1>2. CASE w = "created"
  <2>1. PICK a, b : a = Told!Tells("customer") /\ b = Told!Mails("customer") OBVIOUS
  <2>2. Told!Steps(w) = <<a, b>> BY <1>2, <2>1 DEF Told!Steps, Told!OrderCreatedEffects
  <2>3. a \in WorkSteps /\ b \in WorkSteps BY <1>0, <2>1, StepKinds
  <2> QED BY <2>2, <2>3
<1>3. CASE w = "started"
  <2>1. PICK a, b, c, d : a = Told!LooksUp("staff") /\ b = Told!LooksUp("other staff")
                          /\ c = Told!Tells("staff") /\ d = Told!Tells("other staff") OBVIOUS
  <2>2. Told!Steps(w) = <<a, b, c, d>> BY <1>3, <2>1 DEF Told!Steps, Told!NegotiationStarted
  <2>3. a \in WorkSteps /\ b \in WorkSteps /\ c \in WorkSteps /\ d \in WorkSteps BY <1>0, <2>1, StepKinds
  <2> QED BY <2>2, <2>3
<1>4. CASE w = "unavailable"
  <2>1. PICK a, b : a = Told!Tells("staff") /\ b = Told!TriesToMail("staff") OBVIOUS
  <2>2. Told!Steps(w) = <<a, b>> BY <1>4, <2>1 DEF Told!Steps, Told!AvailabilityOverdue, Told!NotifyAccount
  <2>3. a \in WorkSteps /\ b \in WorkSteps BY <1>0, <2>1, StepKinds
  <2> QED BY <2>2, <2>3
<1>5. CASE w = "refunded"
  <2>1. PICK first, b, c : first = Told!TriesToTell("customer, of the status") /\ b = Told!TriesToTell("partner, of the status")
                           /\ c = Told!TriesToMail("customer, of the status") OBVIOUS
  <2>2. PICK a : a = [first EXCEPT !.without = {"partner, of the status"}] OBVIOUS
  <2>3. PICK d, e : d = Told!Tells("customer") /\ e = Told!Mails("customer") OBVIOUS
  <2>4. Told!Steps(w) = (<<a, b>> \o <<c>>) \o <<d, e>>
    BY <1>5, <2>1, <2>2, <2>3 DEF Told!Steps, Told!RefundEffects, Told!NotifyStatus, Told!StatusPush, Told!StatusEmail
  <2>5. first \in WorkSteps /\ b \in WorkSteps /\ c \in WorkSteps /\ d \in WorkSteps /\ e \in WorkSteps
    BY <1>0, <2>1, <2>3, StepKinds
  <2>6. a \in WorkSteps BY <1>0, <2>2, <2>5 DEF WorkSteps
  <2>7. <<a, b>> \in Seq(WorkSteps) /\ <<c>> \in Seq(WorkSteps) /\ <<d, e>> \in Seq(WorkSteps) BY <2>5, <2>6
  <2>8. <<a, b>> \o <<c>> \in Seq(WorkSteps) BY <2>7, ConcatProperties
  <2> QED BY <2>4, <2>7, <2>8, ConcatProperties
<1> QED BY <1>1, <1>2, <1>3, <1>4, <1>5 DEF Told!Lasting

HeardAll(w) ==
  \A i \in DOMAIN Told!Steps(w) : Told!Steps(w)[i].must =>
    HasHeard(w, Told!Steps(w)[i]) \/ <<w, Told!Steps(w)[i].whom>> \in leftOut

LEMMA FollowsStays ==
  ASSUME NEW w, NEW left, NEW out, Follows(w, left, out), told \subseteq told', noticeMailed \subseteq noticeMailed'
  PROVE  Follows(w, left, out)'
BY DEF Follows, HasHeard

\* Notices and mails are not taken back; a work that goes on follows its
\* steps; and what was asked for is forgotten when everyone has heard.
LEMMA WorkGoes ==
  ASSUME NEW does, NoticeShape(does), WorkInv,
         NEW r \in NoticeRequests, NEW at, NEW found, NoticeGoes(r, at, found),
         told \subseteq told', noticeMailed \subseteq noticeMailed', leftOut \subseteq leftOut',
         \A w \in Told!Lasting : at = "step" /\ w = noticeReq[r].on => Follows(w, found.left, found.out)',
         \A w \in Told!Lasting : w \in noticeDue => w \in noticeDue' \/ HeardAll(w)'
  PROVE  WorkInv'
<1>1. ASSUME NEW q \in NoticeRequests, noticeReq'[q].at = "step", noticeReq'[q].on \in Told!Lasting
      PROVE  Follows(noticeReq[q].on, noticeReq[q].seen.left, noticeReq[q].seen.out)'
  <2>1. CASE q = r
    <3>1. noticeReq'[q].seen = found /\ noticeReq'[q].on = noticeReq[r].on /\ at = "step" BY <1>1, <2>1 DEF NoticeGoes
    <3>2. PICK w : w = noticeReq[r].on OBVIOUS
    <3>3. Follows(w, found.left, found.out)' BY <1>1, <3>1, <3>2
    <3> QED BY <3>1, <3>2, <3>3 DEF Follows, HasHeard
  <2>2. CASE q # r
    <3>1. noticeReq'[q] = noticeReq[q] BY <2>2 DEF NoticeGoes
    <3>2. PICK w, left, out : w = noticeReq[q].on /\ left = noticeReq[q].seen.left /\ out = noticeReq[q].seen.out OBVIOUS
    <3>3. Follows(w, left, out) BY <1>1, <3>1, <3>2 DEF WorkInv, WorksFollow
    <3>4. Follows(w, left, out)' BY <3>3, FollowsStays
    <3> QED BY <3>1, <3>2, <3>4 DEF Follows, HasHeard
  <2> QED BY <2>1, <2>2
<1>2. ASSUME NEW w \in Told!Lasting, \E q \in NoticeRequests : noticeReq'[q].op = "work" /\ noticeReq'[q].on = w,
             w \notin noticeDue'
      PROVE  HeardAll(w)'
  <2>1. \E q \in NoticeRequests : noticeReq[q].op = "work" /\ noticeReq[q].on = w BY <1>2 DEF NoticeGoes
  <2>2. CASE w \in noticeDue BY <1>2, <2>2
  <2>3. CASE w \notin noticeDue
    <3>1. HeardAll(w) BY <2>1, <2>3 DEF WorkInv, Told!CompletedIsTold, Told!Heard, HeardAll, HasHeard
    <3> QED BY <3>1 DEF HeardAll, HasHeard
  <2> QED BY <2>2, <2>3
<1> QED BY <1>1, <1>2 DEF WorkInv, WorksFollow, Told!CompletedIsTold, Told!Heard, HeardAll, HasHeard

LEMMA StartWorkWorks ==
  ASSUME NEW does, NoticeShape(does), WorkInv, NEW r \in NoticeRequests, Told!StartWork(r)
  PROVE  NoticeShape(does)' /\ WorkInv' /\ UNCHANGED <<notice, buzzed, removed>>
         /\ \E at, found : NoticeGoes(r, at, found) /\ at \notin {"start", "push"}
<1> DEFINE on == noticeReq[r].on
<1>1. noticeReq[r].op = "work" /\ UNCHANGED <<notice, buzzed, removed, told, leftOut, noticeMailed>>
  BY DEF Told!StartWork, Told!noticeVars
<1>2. \A w \in Told!Lasting : w \in noticeDue => w \in noticeDue' BY DEF Told!StartWork
<1>3. CASE Told!Done(r)
  <2>1. NoticeGoes(r, "done", noticeReq[r].seen) BY <1>3, NoticeDoneGoes
  <2> QED BY <1>1, <1>2, <2>1, WorkGoes, NoticeShapeStays
<1>4. CASE Told!Remember(r, "step", [left |-> Told!Steps(on), out |-> {}])
  <2>1. PICK w, found : w = on /\ found = [left |-> Told!Steps(w), out |-> {}] OBVIOUS
  <2>2. NoticeGoes(r, "step", found) BY <1>4, <2>1, RememberGoes
  <2>3. w \in Told!Lasting => Follows(w, found.left, found.out)'
    <3>1. w \in Told!Lasting => Told!Steps(w) \in Seq(WorkSteps) BY LastingSteps
    <3>2. PICK steps : steps = Told!Steps(w) OBVIOUS
    <3>3. found.left = steps /\ found.out = {} BY <2>1, <3>2
    <3> QED BY <3>1, <3>2, <3>3 DEF Follows
  <2> HIDE DEF on
  <2>4. WorkInv' BY <1>1, <1>2, <2>1, <2>2, <2>3, WorkGoes DEF on
  <2>5. NoticeShape(does)' BY <1>1, <2>2, NoticeShapeStays
  <2> QED BY <1>1, <2>2, <2>4, <2>5
<1> QED BY <1>3, <1>4 DEF Told!StartWork

\* The first of the steps that are left, once whoever it is for has heard, is
\* left out or need not hear; and nobody who was left out comes in again.
LEMMA NextFollows ==
  ASSUME NEW w \in Told!Lasting, NEW left, NEW out, NEW more, Follows(w, left, out), left # <<>>, out \subseteq more,
         told \subseteq told', noticeMailed \subseteq noticeMailed',
         Head(left).must => HasHeard(w, Head(left))' \/ Head(left).whom \in more
  PROVE  Follows(w, Tail(left), more)'
<1>1. left \in Seq(WorkSteps) BY DEF Follows
<1>2. PICK tail : tail = Tail(left) OBVIOUS
<1>3. /\ tail \in Seq(WorkSteps) /\ Len(tail) = Len(left) - 1 /\ Len(left) \in Nat /\ Head(left) = left[1]
      /\ \A i \in 1..Len(tail) : tail[i] = left[i + 1]
  BY <1>1, <1>2, HeadTailProperties
<1>4. PICK steps : steps = Told!Steps(w) OBVIOUS
<1>5. ASSUME NEW i \in DOMAIN steps, steps[i].must
      PROVE  HasHeard(w, steps[i])' \/ steps[i].whom \in more \/ \E j \in 1..Len(tail) : tail[j] = steps[i]
  <2>1. HasHeard(w, steps[i]) \/ steps[i].whom \in out \/ \E j \in 1..Len(left) : left[j] = steps[i]
    BY <1>4, <1>5 DEF Follows
  <2>2. CASE HasHeard(w, steps[i]) BY <2>2 DEF HasHeard
  <2>3. CASE steps[i].whom \in out BY <2>3
  <2>4. ASSUME NEW j \in 1..Len(left), left[j] = steps[i]
        PROVE  HasHeard(w, steps[i])' \/ steps[i].whom \in more \/ \E k \in 1..Len(tail) : tail[k] = steps[i]
    <3>1. CASE j = 1
      <4>1. Head(left) = steps[i] BY <1>3, <2>4, <3>1
      <4> QED BY <1>5, <4>1 DEF HasHeard
    <3>2. CASE j # 1
      <4>1. j - 1 \in 1..Len(tail) /\ (j - 1) + 1 = j BY <1>3, <3>2
      <4>2. tail[j - 1] = steps[i] BY <1>3, <2>4, <4>1
      <4> QED BY <4>1, <4>2
    <3> QED BY <3>1, <3>2
  <2> QED BY <2>1, <2>2, <2>3, <2>4
<1> QED BY <1>2, <1>3, <1>4, <1>5 DEF Follows, HasHeard

\* A request that goes on to its next step, with what it leaves out from now on.
LEMMA ProceedWorks ==
  ASSUME NEW does, NoticeShape(does), WorkInv, NEW r \in NoticeRequests, NEW without, Told!AtStep(r), Told!Proceed(r, without),
         UNCHANGED <<noticeDue, notice, buzzed, removed, leftOut>>, told \subseteq told', noticeMailed \subseteq noticeMailed',
         NEW w, NEW left, NEW out, w = noticeReq[r].on, left = noticeReq[r].seen.left, out = noticeReq[r].seen.out,
         Head(left) \in WorkSteps /\ Head(left).must => HasHeard(w, Head(left))' \/ Head(left).whom \in out
  PROVE  NoticeShape(does)' /\ WorkInv' /\ UNCHANGED <<notice, buzzed, removed>>
         /\ \E at, found : NoticeGoes(r, at, found) /\ at \notin {"start", "push"}
<1>1. PICK more : more = out \cup without OBVIOUS
<1>2. PICK found : found = [left |-> Tail(left), out |-> more] OBVIOUS
<1>3. NoticeGoes(r, "step", found) BY <1>1, <1>2, RememberGoes DEF Told!Proceed
<1>4. noticeReq[r].op = "work" /\ noticeReq[r].at = "step" /\ left # <<>> BY DEF Told!AtStep
<1>5. ASSUME w \in Told!Lasting PROVE Follows(w, found.left, found.out)'
  <2>1. Follows(w, left, out) BY <1>4, <1>5 DEF WorkInv, WorksFollow
  <2>2. Head(left) \in WorkSteps BY <1>4, <2>1, HeadTailProperties DEF Follows
  <2>3. Head(left).must => HasHeard(w, Head(left))' \/ Head(left).whom \in more BY <1>1, <2>2
  <2>4. out \subseteq more BY <1>1
  <2>5. Follows(w, Tail(left), more)' BY <1>4, <1>5, <2>1, <2>3, <2>4, NextFollows
  <2>6. found.left = Tail(left) /\ found.out = more BY <1>2
  <2> QED BY <2>5, <2>6 DEF Follows, HasHeard
<1>6. WorkInv'
  <2>1. \A v \in Told!Lasting : "step" = "step" /\ v = noticeReq[r].on => Follows(v, found.left, found.out)'
    <3> SUFFICES ASSUME NEW v \in Told!Lasting, v = w PROVE Follows(v, found.left, found.out)' OBVIOUS
    <3>1. Follows(w, found.left, found.out)' BY <1>5
    <3> QED BY <3>1
  <2> QED BY <1>3, <2>1, WorkGoes
<1>7. NoticeShape(does)' BY <1>3, <1>4, NoticeShapeStays
<1> QED BY <1>3, <1>6, <1>7

LEMMA HeardWorks ==
  ASSUME NEW does, NoticeShape(does), WorkInv, NEW r \in NoticeRequests, Told!Tell(r) \/ Told!Mail(r) \/ Told!PassOn(r)
  PROVE  NoticeShape(does)' /\ WorkInv' /\ UNCHANGED <<notice, buzzed, removed>>
         /\ \E at, found : NoticeGoes(r, at, found) /\ at \notin {"start", "push"}
<1>1. /\ Told!AtStep(r) /\ Told!Proceed(r, {}) /\ UNCHANGED <<noticeDue, notice, buzzed, removed, leftOut>>
      /\ told \subseteq told' /\ noticeMailed \subseteq noticeMailed'
  BY DEF Told!Tell, Told!Mail, Told!PassOn, Told!Takes, Told!noticeVars, Told!workVars
<1>2. PICK w, left, out, s : /\ w = noticeReq[r].on /\ left = noticeReq[r].seen.left /\ out = noticeReq[r].seen.out
                             /\ s = Head(left) OBVIOUS
<1>3. s \in WorkSteps /\ s.must => HasHeard(w, s)' \/ s.whom \in out
  <2>1. CASE Told!Tell(r)
    <3>1. s.by = "notice" /\ <<w, s.whom>> \in told' BY <1>2, <2>1 DEF Told!Tell, Told!Takes
    <3> QED BY <3>1 DEF HasHeard
  <2>2. CASE Told!Mail(r)
    <3>1. s.by = "mail" /\ noticeMailed' = noticeMailed \cup {Told!Sent(r, s.whom)} BY <1>2, <2>2 DEF Told!Mail, Told!Takes
    <3>2. <<w, s.whom>> \in noticeMailed' BY <1>2, <3>1 DEF Told!Sent
    <3> QED BY <3>1, <3>2 DEF HasHeard
  <2>3. CASE Told!PassOn(r)
    <3>1. s.by = "look" \/ s.whom \in out BY <1>2, <2>3 DEF Told!PassOn, Told!Takes
    <3> QED BY <3>1 DEF WorkSteps
  <2> QED BY <2>1, <2>2, <2>3
<1>4. Head(left) \in WorkSteps /\ Head(left).must => HasHeard(w, Head(left))' \/ Head(left).whom \in out
  BY <1>2, <1>3 DEF HasHeard
<1> QED BY <1>1, <1>2, <1>4, ProceedWorks

LEMMA FailWorks ==
  ASSUME NEW does, NoticeShape(does), WorkInv, NEW r \in NoticeRequests, Told!Fail(r)
  PROVE  NoticeShape(does)' /\ WorkInv' /\ UNCHANGED <<notice, buzzed, removed>>
         /\ \E at, found : NoticeGoes(r, at, found) /\ at \notin {"start", "push"}
<1>1. PICK w, left, out, s : /\ w = noticeReq[r].on /\ left = noticeReq[r].seen.left /\ out = noticeReq[r].seen.out
                             /\ s = Head(left) OBVIOUS
<1>2. /\ Told!AtStep(r) /\ UNCHANGED <<noticeDue, notice, buzzed, removed, leftOut, told>>
      /\ IF s.must THEN Told!Goto(r, "off") ELSE Told!Proceed(r, s.without)
  BY <1>1 DEF Told!Fail, Told!Stops, Told!Takes, Told!noticeVars
<1>3. told \subseteq told' /\ noticeMailed \subseteq noticeMailed' BY <1>2 DEF Told!Fail
<1>4. CASE s.must
  <2>1. NoticeGoes(r, "off", noticeReq[r].seen) BY <1>2, <1>4, GotoGoes
  <2> QED BY <1>2, <1>3, <2>1, WorkGoes, NoticeShapeStays
<1>5. CASE ~s.must BY <1>1, <1>2, <1>3, <1>5, ProceedWorks
<1> QED BY <1>4, <1>5

LEMMA FinishWorks ==
  ASSUME NEW does, NoticeShape(does), WorkInv, NEW r \in NoticeRequests, Told!FinishWork(r)
  PROVE  NoticeShape(does)' /\ WorkInv' /\ UNCHANGED <<notice, buzzed, removed>>
         /\ \E at, found : NoticeGoes(r, at, found) /\ at \notin {"start", "push"}
<1>1. PICK w, out : w = noticeReq[r].on /\ out = noticeReq[r].seen.out OBVIOUS
<1>2. /\ noticeReq[r].op = "work" /\ noticeReq[r].at = "step" /\ noticeReq[r].seen.left = <<>>
      /\ noticeDue' = noticeDue \ {w} /\ leftOut' = leftOut \cup {<<w, x>> : x \in out}
      /\ UNCHANGED <<notice, buzzed, removed, told, noticeMailed>> /\ Told!Done(r)
  BY <1>1 DEF Told!FinishWork, Told!noticeVars
<1>3. NoticeGoes(r, "done", noticeReq[r].seen) BY <1>2, NoticeDoneGoes
<1>4. w \in Told!Lasting => HeardAll(w)'
  <2>1. SUFFICES ASSUME w \in Told!Lasting PROVE HeardAll(w)' OBVIOUS
  <2>2. Follows(w, <<>>, out) BY <1>1, <1>2, <2>1 DEF WorkInv, WorksFollow
  <2>3. PICK steps : steps = Told!Steps(w) OBVIOUS
  <2>4. \A i \in DOMAIN steps : steps[i].must => HasHeard(w, steps[i]) \/ steps[i].whom \in out
    BY <2>2, <2>3 DEF Follows
  <2> QED BY <1>2, <2>3, <2>4 DEF HeardAll, HasHeard
<1>5. WorkInv' BY <1>2, <1>3, <1>4, WorkGoes
<1> QED BY <1>2, <1>3, <1>5, NoticeShapeStays

-----------------------------------------------------------------------------
\* The sockets of the sessions revoked: only requests that connect change beside.
LEMMA RevokeSocketsStep ==
  ASSUME NEW does, NoticesInv(does), NEW r \in NoticeRequests, Told!RevokeSockets(r)
  PROVE  NoticesInv(does)'
<1>1. /\ UNCHANGED <<notice, buzzed, removed, noticeDue, told, leftOut, noticeMailed>> /\ noticeReq[r].op = "revoke"
      /\ noticeReq' = [q \in NoticeRequests |->
           IF q = r THEN [noticeReq[q] EXCEPT !.at = "done"]
           ELSE IF Told!Open(q) /\ noticeReq[q].node = noticeReq[r].node /\ noticeReq[q].on \in noticeReq[r].seen
                THEN [noticeReq[q] EXCEPT !.at = "closed"] ELSE noticeReq[q]]
  BY DEF Told!RevokeSockets, Told!noticeVars, Told!deviceVars, Told!workVars
<1>2. ASSUME NEW q \in NoticeRequests
      PROVE  /\ DOMAIN noticeReq'[q] = NoticeFields /\ noticeReq'[q].op = noticeReq[q].op
             /\ noticeReq'[q].on = noticeReq[q].on
             /\ noticeReq'[q] = noticeReq[q] \/ (noticeReq'[q].at \in {"done", "closed"} /\ noticeReq[q].op \in {"revoke", "connect"})
  <2>1. DOMAIN noticeReq[q] = NoticeFields BY DEF NoticesInv, NoticeShape
  <2>2. \/ noticeReq'[q] = noticeReq[q]
        \/ noticeReq[q].op \in {"revoke", "connect"} /\ \E at \in {"done", "closed"} : noticeReq'[q] = [noticeReq[q] EXCEPT !.at = at]
    BY <1>1 DEF Told!Open
  <2> QED BY <2>1, <2>2 DEF NoticeFields
<1>3. DOMAIN noticeReq' = NoticeRequests BY <1>1
<1>4. NoticeShape(does)' BY <1>2, <1>3 DEF NoticesInv, NoticeShape
<1>5. BuzzInv'
  <2>1. ASSUME NEW k \in Keys PROVE PushersOf(k)' = PushersOf(k) BY <1>2 DEF PushersOf, Pushes
  <2>2. EachRowOnce' BY <1>1, <2>1 DEF NoticesInv, BuzzInv, EachRowOnce, RowsOf
  <2>3. BroadcastIsFirst' BY <1>1, <1>2 DEF NoticesInv, BuzzInv, BroadcastIsFirst
  <2> QED BY <1>1, <2>2, <2>3 DEF NoticesInv, BuzzInv, RowsShape
<1>6. WorkInv'
  <2>1. ASSUME NEW q \in NoticeRequests, noticeReq'[q].at = "step", noticeReq'[q].on \in Told!Lasting
        PROVE  Follows(noticeReq[q].on, noticeReq[q].seen.left, noticeReq[q].seen.out)'
    <3>1. noticeReq'[q] = noticeReq[q] BY <1>2, <2>1
    <3>2. PICK w, left, out : w = noticeReq[q].on /\ left = noticeReq[q].seen.left /\ out = noticeReq[q].seen.out OBVIOUS
    <3>3. Follows(w, left, out) BY <2>1, <3>1, <3>2 DEF NoticesInv, WorkInv, WorksFollow
    <3>4. Follows(w, left, out)' BY <1>1, <3>3, FollowsStays
    <3> QED BY <3>1, <3>2, <3>4 DEF Follows, HasHeard
  <2>2. Told!CompletedIsTold' BY <1>1, <1>2 DEF NoticesInv, WorkInv, Told!CompletedIsTold, Told!Heard
  <2> QED BY <2>1, <2>2 DEF WorkInv, WorksFollow
<1> QED BY <1>4, <1>5, <1>6 DEF NoticesInv

\* Nothing of rows, requests and works changes.
LEMMA NoticesStay ==
  ASSUME NEW does, NoticesInv(does), UNCHANGED <<noticeReq, notice, buzzed, removed, noticeDue, told, leftOut, noticeMailed>>
  PROVE  NoticesInv(does)'
<1>1. BuzzInv'
  <2>1. ASSUME NEW k \in Keys PROVE PushersOf(k)' = PushersOf(k) BY DEF PushersOf
  <2> QED BY <2>1 DEF NoticesInv, BuzzInv, RowsShape, EachRowOnce, BroadcastIsFirst, RowsOf
<1>2. NoticeShape(does)' BY DEF NoticesInv, NoticeShape
<1>3. Told!CompletedIsTold' BY DEF NoticesInv, WorkInv, Told!CompletedIsTold, Told!Heard
<1>4. WorksFollow' BY DEF NoticesInv, WorkInv, WorksFollow, Follows, HasHeard
<1> QED BY <1>1, <1>2, <1>3, <1>4 DEF NoticesInv, WorkInv

-----------------------------------------------------------------------------
\* A step that only lets a request go on, of rows and works as they are.
LEMMA ElsewhereNotices ==
  ASSUME NEW does, NoticesAsked(does), IsFiniteSet(NoticeRequests), NoticesInv(does), NEW r \in NoticeRequests, Elsewhere(r)
  PROVE  NoticesInv(does)'
<1>1. PICK at, found : NoticeGoes(r, at, found) /\ at \notin {"start", "push", "step"} BY DEF Elsewhere
<1>2. UNCHANGED <<notice, buzzed, removed, noticeDue, told, leftOut, noticeMailed>> BY DEF Elsewhere
<1>3. NoticeShape(does)' BY <1>1, NoticeShapeStays DEF NoticesInv
<1>4. BuzzInv' BY <1>1, <1>2, RowsStay DEF NoticesInv
<1>5. WorkInv' BY <1>1, <1>2, WorkGoes DEF NoticesInv
<1> QED BY <1>3, <1>4, <1>5 DEF NoticesInv

\* The steps about rows leave the works, and where they are, alone.
LEMMA RowStepsNotices ==
  ASSUME NEW does, NoticesAsked(does), IsFiniteSet(NoticeRequests), NoticesInv(does), NEW r \in NoticeRequests,
         \/ Told!InsertNotice(r) \/ Told!SendBroadcast(r) \/ Told!Push(r) \/ Told!MarkPushed(r)
         \/ Told!MarkRead(r) \/ Told!MarkAllRead(r) \/ Told!Delete(r) \/ Told!ClearAll(r)
  PROVE  NoticesInv(does)'
<1>1. NoticeShape(does)' /\ BuzzInv'
  BY InsertNoticeBuzz, SendBroadcastBuzz, PushBuzz, MarkBuzz, RemoveBuzz DEF NoticesInv
<1>2. UNCHANGED <<noticeDue, told, leftOut, noticeMailed>>
  BY DEF Told!InsertNotice, Told!SendBroadcast, Told!Push, Told!MarkPushed, Told!MarkRead, Told!MarkAllRead,
     Told!Delete, Told!ClearAll, Told!workVars
<1>3. \/ \E at \in {"push", "record", "mark", "done"} : Told!Goto(r, at)
      \/ Told!Done(r) \/ \E found : Told!Remember(r, "push", found)
  BY DEF Told!InsertNotice, Told!SendBroadcast, Told!Push, Told!MarkPushed, Told!MarkRead, Told!MarkAllRead,
     Told!Delete, Told!ClearAll
<1>4. PICK at, found : NoticeGoes(r, at, found) /\ at # "step"
  BY <1>3, GotoGoes, RememberGoes, NoticeDoneGoes DEF NoticesInv
<1>5. WorkInv' BY <1>2, <1>4, WorkGoes DEF NoticesInv
<1> QED BY <1>1, <1>5 DEF NoticesInv

LEMMA WorkStepsNotices ==
  ASSUME NEW does, NoticesAsked(does), IsFiniteSet(NoticeRequests), NoticesInv(does), NEW r \in NoticeRequests,
         Told!StartWork(r) \/ Told!Tell(r) \/ Told!Mail(r) \/ Told!PassOn(r) \/ Told!Fail(r) \/ Told!FinishWork(r)
  PROVE  NoticesInv(does)'
<1>1. /\ NoticeShape(does)' /\ WorkInv' /\ UNCHANGED <<notice, buzzed, removed>>
      /\ \E at, found : NoticeGoes(r, at, found) /\ at \notin {"start", "push"}
  BY StartWorkWorks, HeardWorks, FailWorks, FinishWorks DEF NoticesInv
<1>2. BuzzInv' BY <1>1, RowsStay DEF NoticesInv
<1> QED BY <1>1, <1>2 DEF NoticesInv

LEMMA NoticesNext ==
  ASSUME NEW does, NoticesAsked(does), IsFiniteSet(NoticeRequests), NoticesInv(does), [Told!Next]_noticesVars
  PROVE  NoticesInv(does)'
<1>1. CASE UNCHANGED noticesVars BY <1>1, NoticesStay DEF noticesVars
<1>2. CASE (\E k \in locks : Told!LockLapses(k)) \/ (\E t \in Tokens : Told!Reinstall(t))
  BY <1>2, NoticesStay DEF Told!LockLapses, Told!Reinstall, Told!noticeVars, Told!deviceVars, Told!workVars
<1>3. ASSUME NEW r \in NoticeRequests, Told!Step(r) PROVE NoticesInv(does)'
  <2>1. NoticeShape(does) BY DEF NoticesInv
  <2>2. CASE Elsewhere(r) BY <2>2, ElsewhereNotices
  <2>3. CASE \/ Told!ClaimRun(r) \/ Told!Scan(r) \/ Told!Announce(r) \/ Told!Check(r) \/ Told!RecordBroadcast(r)
             \/ Told!ReadPreferences(r) \/ Told!SavePreferences(r)
             \/ Told!Boot(r) \/ Told!ReadSchedule(r) \/ Told!SaveSchedule(r) \/ Told!WaitForSchedule(r) \/ Told!Crash(r)
    BY <2>1, <2>2, <2>3, ScansElsewhere
  <2>4. CASE \/ Told!Authenticate(r) \/ Told!RegisterDevice(r) \/ Told!Greet(r) \/ Told!NoteGreeting(r)
             \/ Told!Unregister(r) \/ Told!Subscribe(r) \/ Told!Revoke(r) \/ Told!RevokeDevices(r)
             \/ Told!Handshake(r) \/ Told!Join(r) \/ Told!ReadTickets(r) \/ Told!ApplyReceipts(r)
    BY <2>1, <2>2, <2>4, DevicesElsewhere
  <2>5. CASE \/ Told!InsertNotice(r) \/ Told!SendBroadcast(r) \/ Told!Push(r) \/ Told!MarkPushed(r)
             \/ Told!MarkRead(r) \/ Told!MarkAllRead(r) \/ Told!Delete(r) \/ Told!ClearAll(r)
    BY <2>5, RowStepsNotices
  <2>6. CASE Told!StartWork(r) \/ Told!Tell(r) \/ Told!Mail(r) \/ Told!PassOn(r) \/ Told!Fail(r) \/ Told!FinishWork(r)
    BY <2>6, WorkStepsNotices
  <2>7. CASE Told!RevokeSockets(r) BY <2>7, RevokeSocketsStep
  <2> QED BY <1>3, <2>3, <2>4, <2>5, <2>6, <2>7 DEF Told!Step
<1> QED BY <1>1, <1>2, <1>3 DEF Told!Next

NoticesStart(does, signed) == NoticesAsked(does) /\ IsFiniteSet(NoticeRequests) /\ Told!Init(does, signed)
LEMMA NoticesInit ==
  ASSUME NEW does, NEW signed, NoticesStart(does, signed)
  PROVE  NoticesInv(does)
<1>1. /\ notice = [k \in Keys |-> [made |-> FALSE, pushed |-> FALSE, read |-> FALSE, id |-> 0]]
      /\ buzzed = [k \in Keys |-> 0] /\ removed = [k \in Keys |-> 0]
      /\ noticeDue = {does[r].on : r \in {q \in NoticeRequests : does[q].op = "work"}}
      /\ noticeReq = [r \in NoticeRequests |-> does[r]]
  BY DEF NoticesStart, Told!Init
<1>2. ASSUME NEW r \in NoticeRequests
      PROVE  noticeReq[r] = does[r] /\ DOMAIN does[r] = NoticeFields /\ does[r].at = "start"
  <2>1. PICK op, on, node : does[r] = Told!Ask(op, on, node) BY DEF NoticesStart, NoticesAsked
  <2> QED BY <1>1, <2>1 DEF Told!Ask, NoticeFields
<1>3. NoticeShape(does) BY <1>1, <1>2 DEF NoticeShape
<1>4. RowsShape BY <1>1 DEF RowsShape
<1>5. BuzzInv
  <2>1. ASSUME NEW k \in Keys PROVE buzzed[k] + Cardinality(PushersOf(k)) <= RowsOf(k)
    <3>1. PushersOf(k) = {} BY <1>2 DEF PushersOf
    <3>2. Cardinality(PushersOf(k)) = 0 BY <3>1, FS_EmptySet
    <3> QED BY <1>1, <3>2 DEF RowsOf
  <2>2. BroadcastIsFirst BY <1>1, <1>2 DEF BroadcastIsFirst, NoticesStart, NoticesAsked, Pushes
  <2> QED BY <1>4, <2>1, <2>2 DEF BuzzInv, EachRowOnce
<1>6. WorkInv
  <2>1. WorksFollow BY <1>2 DEF WorksFollow
  <2>2. Told!CompletedIsTold BY <1>1, <1>2 DEF Told!CompletedIsTold
  <2> QED BY <2>1, <2>2 DEF WorkInv
<1> QED BY <1>3, <1>5, <1>6 DEF NoticesInv

LEMMA NoticesHolds ==
  ASSUME NEW does, NoticesInv(does), IsFiniteSet(NoticeRequests)
  PROVE  ToldOnce
<1>1. ASSUME NEW k \in Keys PROVE buzzed[k] <= 1 + removed[k]
  <2>1. buzzed[k] + Cardinality(PushersOf(k)) <= RowsOf(k) BY DEF NoticesInv, BuzzInv, EachRowOnce
  <2>2. Cardinality(PushersOf(k)) \in Nat BY FS_Subset, FS_CardinalityType DEF PushersOf
  <2>3. buzzed[k] \in Nat /\ removed[k] \in Nat /\ RowsOf(k) \in Nat /\ RowsOf(k) <= 1 + removed[k]
    BY DEF NoticesInv, BuzzInv, RowsShape, RowsOf
  <2> QED BY <2>1, <2>2, <2>3
<1> QED BY <1>1 DEF ToldOnce, Told!BuzzedOnce, NoticesInv, WorkInv

(* However the consumers, the scans, the devices and the crashes interleave,*)
(* a phone buzzes once for each row of a notice, and an event of the outbox *)
(* or a scan's flag is gone only when everyone who must hear of the change  *)
(* has, or was left out by the work that forgot it (commerce-notification.service.ts, the outbox's handlers): for any   *)
(* requests of which each broadcast has a key of its own.                   *)
THEOREM NoticesToldOnce ==
  ASSUME NEW does, NEW signed, NoticesAsked(does), IsFiniteSet(NoticeRequests)
  PROVE  Told!Init(does, signed) /\ [][Told!Next]_noticesVars => []ToldOnce
<1>1. Told!Init(does, signed) => NoticesInv(does) BY NoticesInit DEF NoticesStart
<1>2. NoticesInv(does) /\ [Told!Next]_noticesVars => NoticesInv(does)' BY NoticesNext
<1>3. NoticesInv(does) => ToldOnce BY NoticesHolds
<1> QED BY <1>1, <1>2, <1>3, PTL

-----------------------------------------------------------------------------
(* FieldForce: the requests, and the assignments they make and move          *)
StaffFields == {"op", "who", "to", "primary", "password", "at", "left", "seen", "failed"}
AssignFields == {"who", "market", "status", "primary"}
OneMarket == {"m1", "m2", "m3", "m4"}

\* What the requests are asked for: markets to assign, one at least; and
\* nobody cancels or deletes whom another request invites.
StaffAsked(does) ==
  /\ 0 \notin Staffing
  /\ \A r \in Staffing :
       /\ does[r].who \in People /\ does[r].password \in BOOLEAN
       /\ does[r].op \in {"create", "assign"} => does[r].to \in Seq(OneMarket)
       /\ does[r].op = "assign" => does[r].to # <<>>
       /\ does[r].op = "create" =>
            \A q \in Staffing : does[q].op \in {"cancel", "delete"} => does[q].who # does[r].who

\* Whom there is at the start has his first assignment as a primary one, of the first state.
FieldFits(start) ==
  /\ DOMAIN start.profile = People /\ DOMAIN start.account = People
  /\ \A p \in People : DOMAIN start.account[p] = {"status", "password"} /\ start.account[p].password \in BOOLEAN
  /\ \A a \in DOMAIN start.assign :
       /\ DOMAIN start.assign[a] = AssignFields /\ \A r \in Staffing, n \in Nat : a # <<r, n>> /\ a[1] # r
  /\ \A a, b \in DOMAIN start.assign :
       /\ start.assign[a].status = "active" /\ start.assign[a].primary
       /\ start.assign[b].status = "active" /\ start.assign[b].primary
       /\ start.assign[a].who = start.assign[b].who
       /\ Field!StateOf(start.assign[a].market) = Field!StateOf(start.assign[b].market) => a = b
  /\ \A p \in People : <<0, p>> \in DOMAIN start.assign =>
       /\ start.assign[<<0, p>>].who = p /\ start.assign[<<0, p>>].status = "active" /\ start.assign[<<0, p>>].primary
       /\ Field!StateOf(start.assign[<<0, p>>].market) = "s1"

Held(a) == assign[a].status = "active" /\ assign[a].primary
HomeOf(a) == Field!StateOf(assign[a].market)

StaffShape(does) ==
  /\ DOMAIN work = Staffing
  /\ \A r \in Staffing : /\ DOMAIN work[r] = StaffFields /\ work[r].op = does[r].op /\ work[r].who = does[r].who
                         /\ work[r].password = does[r].password
  /\ \A a \in DOMAIN assign : DOMAIN assign[a] = AssignFields

(* One primary assignment of a person in a state.                           *)
OneHeld ==
  \A a, b \in DOMAIN assign :
    Held(a) /\ Held(b) /\ assign[a].who = assign[b].who /\ HomeOf(a) = HomeOf(b) => a = b

(* Who is to be replaced is: one who had a primary assignment has one, or a  *)
(* request has retired it and inserts another.  The key of an assignment is  *)
(* new: a request has those of the markets it is past.                       *)
Replacing(p) == \E r \in Staffing :
  /\ work[r].op = "assign" /\ work[r].at = "insert" /\ work[r].who = p /\ work[r].primary
  /\ Field!StateOf(Field!Market(r)) = "s1"
HasFirst(p) == \E a \in DOMAIN assign : assign[a].who = p /\ Held(a) /\ HomeOf(a) = "s1"
KeysAreNew ==
  \A r \in Staffing : work[r].op = "assign" /\ work[r].at \notin {"done", "undo"} =>
    /\ work[r].to \in Seq(OneMarket) /\ work[r].to # <<>> /\ (work[r].at = "retire" => work[r].primary)
    /\ \A n \in Nat : n < Len(work[r].to) => <<r, n>> \notin DOMAIN assign
OnlyAssigning == \A r \in Staffing : work[r].op \in {"assign", "order", "reassign"}
Replaced ==
  OnlyAssigning => KeysAreNew /\ \A p \in People : <<0, p>> \in DOMAIN assign => HasFirst(p) \/ Replacing(p)

(* A creation that nobody else's is beside has its account until it is done, *)
(* and none of what it made once it has failed.                              *)
Making == {"profile", "market", "retire", "insert", "undo"}
IsAlone(r) ==
  /\ work[r].op = "create" /\ ~work[r].password
  /\ \A q \in Staffing \ {r} : ~(work[q].op = "create" /\ work[q].who = work[r].who)
AccountsShape ==
  /\ DOMAIN profile = People /\ DOMAIN crew = People
  /\ \A p \in People : DOMAIN crew[p] = {"status", "password"} /\ crew[p].password \in BOOLEAN
MadeOrGone(r) ==
  /\ work[r].at \in Making /\ ~work[r].failed => crew[work[r].who].status # "none" /\ ~crew[work[r].who].password
  /\ work[r].failed => work[r].at = "done" /\ Field!Gone(work[r].who, r)
NothingHalfMade == AccountsShape /\ \A r \in Staffing : (IsAlone(r) => MadeOrGone(r)) /\ (work[r].failed => work[r].op = "create")

FieldInv(does) == StaffShape(does) /\ OneHeld /\ Replaced /\ NothingHalfMade

-----------------------------------------------------------------------------
StaffGoes(r, at, to, primary, failed) ==
  /\ DOMAIN work' = Staffing /\ DOMAIN work'[r] = StaffFields
  /\ work'[r].op = work[r].op /\ work'[r].who = work[r].who /\ work'[r].password = work[r].password
  /\ work'[r].at = at /\ work'[r].to = to /\ work'[r].primary = primary /\ work'[r].failed = failed
  /\ \A q \in Staffing \ {r} : work'[q] = work[q]
StaffMoves(r, at) == StaffGoes(r, at, work[r].to, work[r].primary, work[r].failed)

LEMMA StaffGotoMoves ==
  ASSUME NEW does, StaffShape(does), NEW r \in Staffing, NEW at, Field!Goto(r, at)
  PROVE  StaffMoves(r, at)
BY DEF StaffShape, StaffFields, StaffMoves, StaffGoes, Field!Goto
LEMMA StaffDoneMoves ==
  ASSUME NEW does, StaffShape(does), NEW r \in Staffing, Field!Done(r)
  PROVE  StaffMoves(r, "done")
BY DEF StaffShape, StaffFields, StaffMoves, StaffGoes, Field!Done

(* The assignments: fewer are held, or one is put that clashes with none.   *)
FewerHeld ==
  /\ DOMAIN assign' \subseteq DOMAIN assign
  /\ \A a \in DOMAIN assign' :
       /\ DOMAIN assign'[a] = AssignFields /\ assign'[a].who = assign[a].who
       /\ assign'[a].status = "active" /\ assign'[a].primary => Held(a) /\ assign'[a].market = assign[a].market
PutOne(a) ==
  /\ DOMAIN assign' = DOMAIN assign \cup {a}
  /\ \A b \in DOMAIN assign' : DOMAIN assign'[b] = AssignFields
  /\ \A b \in DOMAIN assign \ {a} : assign'[b] = assign[b]
  /\ assign'[a].status = "active" /\ assign'[a].primary =>
       \A b \in DOMAIN assign \ {a} : ~(/\ assign[b].who = assign'[a].who /\ Held(b)
                                        /\ HomeOf(b) = Field!StateOf(assign'[a].market))

LEMMA FewerHolds ==
  ASSUME OneHeld, FewerHeld
  PROVE  OneHeld'
BY DEF OneHeld, FewerHeld, Held, HomeOf
LEMMA PutHolds ==
  ASSUME OneHeld, NEW a, PutOne(a)
  PROVE  OneHeld'
BY DEF OneHeld, PutOne, Held, HomeOf

(* The persons: what a request does not invite, cancel or delete is neither *)
(* made nor removed, and is given a password only when nobody invites.       *)
OnlyOwn(r) == \A a \in DOMAIN assign' : a[1] # r => a \in DOMAIN assign /\ assign'[a].who = assign[a].who
PersonKept(p) ==
  /\ profile[p] = "none" => profile'[p] = "none"
  /\ crew[p].status = "none" => crew'[p] = crew[p]
  /\ crew[p].status # "none" => crew'[p].status # "none"
  /\ crew'[p].password = crew[p].password
PersonsKept(r) ==
  /\ AccountsShape'
  /\ \A p \in People :
       \/ PersonKept(p)
       \/ work[r].op \in {"create", "cancel", "delete"} /\ work[r].who = p
       \/ \A q \in Staffing : work[q].op = "create" /\ work[q].who = p => work[q].at = "done" /\ ~work[q].failed

LEMMA PersonsStay ==
  ASSUME AccountsShape, UNCHANGED <<profile, crew>>, NEW r
  PROVE  PersonsKept(r)
BY DEF PersonsKept, PersonKept, AccountsShape
LEMMA AssignStays ==
  ASSUME NEW does, StaffShape(does), assign' = assign, NEW r
  PROVE  FewerHeld /\ OnlyOwn(r)
BY DEF FewerHeld, OnlyOwn, StaffShape, Held

LEMMA OthersMade ==
  ASSUME NEW does, StaffAsked(does), StaffShape(does), NothingHalfMade, NEW r \in Staffing, OnlyOwn(r), PersonsKept(r),
         NEW q \in Staffing \ {r}, IsAlone(q), work'[q] = work[q]
  PROVE  MadeOrGone(q)'
<1>1. PICK p : p = work[q].who OBVIOUS
<1>2. p \in People BY <1>1 DEF StaffAsked, StaffShape
<1>3. MadeOrGone(q) BY DEF NothingHalfMade
<1>4. ~(work[r].op \in {"create", "cancel", "delete"} /\ work[r].who = p)
  BY <1>1 DEF IsAlone, StaffAsked, StaffShape
<1>5. CASE PersonKept(p)
  <2>1. work[q].at \in Making /\ ~work[q].failed => crew'[p].status # "none" /\ ~crew'[p].password
    BY <1>1, <1>3, <1>5 DEF MadeOrGone, PersonKept
  <2>2. work[q].failed => work[q].at = "done" /\ Field!Gone(p, q)'
    <3>1. SUFFICES ASSUME work[q].failed PROVE work[q].at = "done" /\ Field!Gone(p, q)' OBVIOUS
    <3>2. work[q].at = "done" /\ profile[p] = "none" /\ crew[p] = Field!NoAccount /\ \A a \in Field!Of(p) : a[1] # q
      BY <1>1, <1>3, <3>1 DEF MadeOrGone, Field!Gone
    <3>3. profile'[p] = "none" /\ crew'[p] = Field!NoAccount BY <1>5, <3>2 DEF PersonKept, Field!NoAccount
    <3>4. ASSUME NEW a \in Field!Of(p)' PROVE a[1] # q
      <4>1. a \in DOMAIN assign' /\ assign'[a].who = p BY <3>4 DEF Field!Of
      <4>2. CASE a[1] = r BY <4>2
      <4>3. CASE a[1] # r
        <5>1. a \in Field!Of(p) BY <4>1, <4>3 DEF OnlyOwn, Field!Of
        <5> QED BY <3>2, <5>1
      <4> QED BY <4>2, <4>3
    <3> QED BY <3>2, <3>3, <3>4 DEF Field!Gone
  <2> QED BY <1>1, <2>1, <2>2 DEF MadeOrGone
<1>6. CASE \A s \in Staffing : work[s].op = "create" /\ work[s].who = p => work[s].at = "done" /\ ~work[s].failed
  <2>1. work[q].at = "done" /\ ~work[q].failed BY <1>1, <1>6 DEF IsAlone
  <2> QED BY <2>1 DEF MadeOrGone, Making
<1> QED BY <1>2, <1>4, <1>5, <1>6 DEF PersonsKept

LEMMA FieldStep ==
  ASSUME NEW does, StaffAsked(does), FieldInv(does), NEW r \in Staffing, NEW at, NEW to, NEW primary,
         work[r].at # "done", StaffGoes(r, at, to, primary, work[r].failed),
         FewerHeld \/ \E a : PutOne(a), OnlyOwn(r), PersonsKept(r),
         IsAlone(r) /\ at \in Making => crew'[work[r].who].status # "none" /\ ~crew'[work[r].who].password,
         Replaced'
  PROVE  FieldInv(does)'
<1>1. StaffShape(does)' BY DEF FieldInv, StaffShape, StaffGoes, FewerHeld, PutOne
<1>2. OneHeld' BY FewerHolds, PutHolds DEF FieldInv
<1>3. ASSUME NEW q \in Staffing, IsAlone(q)' PROVE MadeOrGone(q)'
  <2>0. IsAlone(q)
    <3>1. \A s \in Staffing : work'[s].op = work[s].op /\ work'[s].who = work[s].who /\ work'[s].password = work[s].password
      BY DEF StaffGoes
    <3> QED BY <1>3, <3>1 DEF IsAlone
  <2>1. CASE q = r
    <3>1. ~work[r].failed BY <2>0, <2>1 DEF FieldInv, NothingHalfMade, MadeOrGone
    <3> QED BY <2>0, <2>1, <3>1 DEF MadeOrGone, StaffGoes
  <2>2. CASE q # r
    <3>1. work'[q] = work[q] BY <2>2 DEF StaffGoes
    <3> QED BY <2>0, <2>2, <3>1, OthersMade DEF FieldInv
  <2> QED BY <2>1, <2>2
<1>4. \A q \in Staffing : work'[q].failed => work'[q].op = "create" BY DEF StaffGoes, FieldInv, NothingHalfMade
<1>5. NothingHalfMade' BY <1>3, <1>4 DEF NothingHalfMade, PersonsKept
<1> QED BY <1>1, <1>2, <1>5 DEF FieldInv

LEMMA NotAssigning ==
  ASSUME NEW r \in Staffing, work'[r].op \notin {"assign", "order", "reassign"}
  PROVE  Replaced'
BY DEF Replaced, OnlyAssigning

\* Nothing is assigned, and a request that does not insert goes on.
LEMMA ReplacedStays ==
  ASSUME NEW does, StaffShape(does), Replaced, NEW r \in Staffing, NEW at, StaffMoves(r, at), assign' = assign,
         work[r].at \notin {"done", "undo"}, work[r].at = "insert" => work[r].op # "assign",
         at = "retire" => work[r].primary
  PROVE  Replaced'
<1>1. SUFFICES ASSUME OnlyAssigning' PROVE KeysAreNew' /\ \A p \in People : <<0, p>> \in DOMAIN assign => HasFirst(p)' \/ Replacing(p)'
  BY DEF Replaced
<1>2. OnlyAssigning BY <1>1 DEF OnlyAssigning, StaffMoves, StaffGoes
<1>3. KeysAreNew' BY <1>2 DEF Replaced, KeysAreNew, StaffMoves, StaffGoes
<1>4. ASSUME NEW p \in People, <<0, p>> \in DOMAIN assign PROVE HasFirst(p)' \/ Replacing(p)'
  <2>1. CASE HasFirst(p) BY <2>1 DEF HasFirst, Held, HomeOf
  <2>2. CASE Replacing(p)
    <3>1. PICK q \in Staffing : /\ work[q].op = "assign" /\ work[q].at = "insert" /\ work[q].who = p /\ work[q].primary
                                /\ Field!StateOf(Field!Market(q)) = "s1"
      BY <2>2 DEF Replacing
    <3>2. work'[q] = work[q] BY <3>1 DEF StaffMoves, StaffGoes
    <3>3. Field!Market(q)' = Field!Market(q) BY <3>2 DEF Field!Market
    <3> QED BY <3>1, <3>2, <3>3 DEF Replacing
  <2> QED BY <1>2, <1>4, <2>1, <2>2 DEF Replaced
<1> QED BY <1>3, <1>4

\* A step that changes neither assignments nor persons.
LEMMA QuietField ==
  ASSUME NEW does, StaffAsked(does), FieldInv(does), NEW r \in Staffing, NEW at, StaffMoves(r, at),
         UNCHANGED <<profile, crew, assign>>, work[r].at \notin {"done", "undo", "insert"},
         at \in Making => work[r].op # "create" \/ work[r].at \in Making,
         at = "retire" => work[r].primary
  PROVE  FieldInv(does)'
<1>1. FewerHeld /\ OnlyOwn(r) BY AssignStays DEF FieldInv
<1>2. PersonsKept(r) BY PersonsStay DEF FieldInv, NothingHalfMade
<1>3. Replaced' BY ReplacedStays DEF FieldInv
<1>4. IsAlone(r) /\ at \in Making => crew'[work[r].who].status # "none" /\ ~crew'[work[r].who].password
  BY DEF FieldInv, NothingHalfMade, MadeOrGone, IsAlone, Making
<1> QED BY <1>1, <1>2, <1>3, <1>4, FieldStep DEF StaffMoves

-----------------------------------------------------------------------------
USE DEF Field!On

LEMMA StaffRequestsGo ==
  ASSUME NEW does, StaffAsked(does), FieldInv(does), NEW r \in Staffing,
         \/ Field!StartCreate(r) \/ Field!StartCreatePartner(r)
         \/ Field!StartAssign(r) \/ Field!CheckDuplicate(r) \/ Field!UpdateAssociate(r)
         \/ Field!StartLifecycle(r) \/ Field!StartCancel(r)
  PROVE  FieldInv(does)'
<1>0. StaffShape(does) BY DEF FieldInv
<1>1. UNCHANGED <<profile, crew, assign>>
  BY DEF Field!StartCreate, Field!StartCreatePartner, Field!StartAssign, Field!CheckDuplicate,
     Field!UpdateAssociate, Field!StartLifecycle, Field!StartCancel
<1>2. work[r].at \notin {"done", "undo", "insert"}
  BY DEF Field!StartCreate, Field!StartCreatePartner, Field!StartAssign, Field!CheckDuplicate,
     Field!Assigning, Field!UpdateAssociate, Field!StartLifecycle, Field!StartCancel
<1>3. PICK at : /\ StaffMoves(r, at) /\ (at \in Making => work[r].op # "create" \/ work[r].at \in Making)
                /\ (at = "retire" => work[r].primary)
  <2>1. CASE Field!StartLifecycle(r)
    <3>1. PICK at, left : work' = [work EXCEPT ![r] = [[@ EXCEPT !.at = at] EXCEPT !.left = left]] /\ at \in {"done", "write"}
      <4>1. CASE ~Field!Allowed(work[r].op, work[r].who)
        <5>1. work' = [work EXCEPT ![r] = [@ EXCEPT !.at = "done"]] BY <2>1, <4>1 DEF Field!StartLifecycle
        <5>2. [[work[r] EXCEPT !.at = "done"] EXCEPT !.left = work[r].left] = [work[r] EXCEPT !.at = "done"]
          BY <1>0 DEF StaffShape, StaffFields
        <5> QED BY <5>1, <5>2
      <4>2. CASE Field!Allowed(work[r].op, work[r].who)
        <5>1. PICK left : left = Field!WritesOf(work[r].op, work[r].who) OBVIOUS
        <5>2. work' = [work EXCEPT ![r] = [[@ EXCEPT !.at = "write"] EXCEPT !.left = left]]
          BY <2>1, <4>2, <5>1 DEF Field!StartLifecycle
        <5> QED BY <5>2
      <4> QED BY <4>1, <4>2
    <3>2. StaffMoves(r, at) BY <1>0, <3>1 DEF StaffShape, StaffFields, StaffMoves, StaffGoes
    <3> QED BY <3>1, <3>2 DEF Making
  <2>2. CASE Field!Done(r) BY <1>0, <2>2, StaffDoneMoves DEF Making
  <2>3. CASE \E at \in {"account", "stale", "purge"} : Field!Goto(r, at) BY <1>0, <2>3, StaffGotoMoves DEF Making
  <2>4. CASE work[r].op # "create" /\ Field!Goto(r, "market") BY <1>0, <2>4, StaffGotoMoves
  <2>5. CASE work[r].at \in Making /\ \E at \in {"market", "undo", "done", "insert"} : Field!Goto(r, at)
    BY <1>0, <2>5, StaffGotoMoves
  <2>6. CASE work[r].at \in Making /\ work[r].primary /\ Field!Goto(r, "retire") BY <1>0, <2>6, StaffGotoMoves
  <2> QED BY <2>1, <2>2, <2>3, <2>4, <2>5, <2>6
    DEF Making, Field!StartCreate, Field!StartCreatePartner, Field!StartAssign, Field!CheckDuplicate,
        Field!Assigning, Field!Unassigned, Field!UpdateAssociate, Field!StartCancel
<1> QED BY <1>1, <1>2, <1>3, QuietField

\* The tasks that arrive, go to somebody else and are answered.
LEMMA StaffTasksGo ==
  ASSUME NEW does, StaffAsked(does), FieldInv(does), NEW r \in Staffing,
         \E t \in Tasks : Field!Approve(r, t) \/ Field!Allot(r, t) \/ Field!StartReassign(r, t) \/ Field!Reassign(r, t)
  PROVE  FieldInv(does)'
<1>0. StaffShape(does) BY DEF FieldInv
<1>1. UNCHANGED <<profile, crew, assign>> BY DEF Field!Approve, Field!Allot, Field!StartReassign, Field!Reassign
<1>2. work[r].at \notin {"done", "undo", "insert"} BY DEF Field!Approve, Field!Allot, Field!StartReassign, Field!Reassign
<1>3. PICK at : StaffMoves(r, at) /\ at \in {"done", "allot", "save"}
  <2>1. CASE Field!Done(r) BY <1>0, <2>1, StaffDoneMoves
  <2>2. CASE \E at \in {"allot", "save"} : \E found : work' = [work EXCEPT ![r] = [@ EXCEPT !.at = at, !.seen = found]]
    BY <1>0, <2>2 DEF StaffShape, StaffFields, StaffMoves, StaffGoes
  <2>3. CASE work' = [work EXCEPT ![r] = [@ EXCEPT !.at = "done"]]
    BY <1>0, <2>3 DEF StaffShape, StaffFields, StaffMoves, StaffGoes
  <2>4. CASE \E t \in Tasks : Field!Approve(r, t)
    <3>1. \E found : work' = [work EXCEPT ![r] = [@ EXCEPT !.at = "allot", !.seen = found]] BY <2>4 DEF Field!Approve
    <3> QED BY <2>2, <3>1
  <2>5. CASE \E t \in Tasks : Field!StartReassign(r, t)
    <3>1. \/ \E found : work' = [work EXCEPT ![r] = [@ EXCEPT !.at = "save", !.seen = found]]
          \/ work' = [work EXCEPT ![r] = [@ EXCEPT !.at = "done"]]
      BY <2>5 DEF Field!StartReassign
    <3> QED BY <2>2, <2>3, <3>1
  <2> QED BY <2>1, <2>4, <2>5 DEF Field!Allot, Field!Reassign
<1> QED BY <1>1, <1>2, <1>3, QuietField DEF Making

LEMMA FieldStay ==
  ASSUME NEW does, FieldInv(does), UNCHANGED <<profile, crew, assign, work>>
  PROVE  FieldInv(does)'
<1>1. StaffShape(does)' BY DEF FieldInv, StaffShape
<1>2. OneHeld' BY DEF FieldInv, OneHeld, Held, HomeOf
<1>3. Replaced' BY DEF FieldInv, Replaced, OnlyAssigning, KeysAreNew, HasFirst, Replacing, Held, HomeOf, Field!Market
<1>4. NothingHalfMade'
  BY DEF FieldInv, NothingHalfMade, AccountsShape, IsAlone, MadeOrGone, Field!Gone, Field!Of
<1> QED BY <1>1, <1>2, <1>3, <1>4 DEF FieldInv

-----------------------------------------------------------------------------
(* The assignments that are made                                            *)

LEMMA RetirePrimaryGoes ==
  ASSUME NEW does, StaffAsked(does), FieldInv(does), NEW r \in Staffing, Field!RetirePrimary(r)
  PROVE  FieldInv(does)'
<1> DEFINE p == work[r].who  m == Field!Market(r)
<1>0. /\ StaffShape(does) /\ UNCHANGED <<profile, crew>> /\ work[r].at = "retire"
      /\ assign' = Field!Demoted(p, m) /\ Field!Goto(r, "insert")
  BY DEF FieldInv, Field!RetirePrimary, Field!Assigning
<1>1. StaffMoves(r, "insert") BY <1>0, StaffGotoMoves
<1>2. /\ DOMAIN assign' = DOMAIN assign
      /\ \A a \in DOMAIN assign :
           /\ DOMAIN assign'[a] = AssignFields /\ assign'[a].who = assign[a].who /\ assign'[a].market = assign[a].market
           /\ assign'[a].status = assign[a].status
           /\ assign'[a].primary = assign[a].primary \/ ~assign'[a].primary
           /\ assign[a].who # p \/ HomeOf(a) # Field!StateOf(m) => assign'[a] = assign[a]
  BY <1>0 DEF StaffShape, AssignFields, Field!Demoted, Field!Of, HomeOf
<1>3. FewerHeld /\ OnlyOwn(r) BY <1>2 DEF FewerHeld, OnlyOwn, Held
<1>4. PersonsKept(r) BY <1>0, PersonsStay DEF FieldInv, NothingHalfMade
<1>5. Replaced'
  <2>1. SUFFICES ASSUME OnlyAssigning'
                 PROVE  KeysAreNew' /\ \A q \in People : <<0, q>> \in DOMAIN assign => HasFirst(q)' \/ Replacing(q)'
    BY <1>2 DEF Replaced
  <2>2. OnlyAssigning BY <1>1, <2>1 DEF OnlyAssigning, StaffMoves, StaffGoes
  <2>3. work[r].op = "assign" BY <2>2 DEF OnlyAssigning, Field!RetirePrimary, Field!Assigning
  <2>4. work[r].primary BY <1>0, <2>2, <2>3 DEF FieldInv, Replaced, KeysAreNew
  <2>5. KeysAreNew' BY <1>0, <1>1, <1>2, <2>2 DEF FieldInv, Replaced, KeysAreNew, StaffMoves, StaffGoes
  <2>6. ASSUME NEW q \in People, <<0, q>> \in DOMAIN assign PROVE HasFirst(q)' \/ Replacing(q)'
    <3>1. CASE q = p /\ Field!StateOf(m) = "s1"
      <4>1. Field!Market(r)' = m BY <1>1 DEF Field!Market, StaffMoves, StaffGoes
      <4>2. work'[r].op = "assign" /\ work'[r].at = "insert" /\ work'[r].who = p /\ work'[r].primary
        BY <1>1, <2>3, <2>4 DEF StaffMoves, StaffGoes
      <4> QED BY <3>1, <4>1, <4>2 DEF Replacing
    <3>2. CASE ~(q = p /\ Field!StateOf(m) = "s1") /\ HasFirst(q)
      <4>1. PICK a \in DOMAIN assign : assign[a].who = q /\ Held(a) /\ HomeOf(a) = "s1" BY <3>2 DEF HasFirst
      <4>2. a \in DOMAIN assign' /\ assign'[a] = assign[a] BY <1>2, <3>2, <4>1
      <4> QED BY <4>1, <4>2 DEF HasFirst, Held, HomeOf
    <3>3. CASE Replacing(q)
      <4>1. PICK s \in Staffing : /\ work[s].op = "assign" /\ work[s].at = "insert" /\ work[s].who = q /\ work[s].primary
                                  /\ Field!StateOf(Field!Market(s)) = "s1"
        BY <3>3 DEF Replacing
      <4>2. work'[s] = work[s] BY <1>0, <1>1, <4>1 DEF StaffMoves, StaffGoes
      <4>3. Field!Market(s)' = Field!Market(s) BY <4>2 DEF Field!Market
      <4> QED BY <4>1, <4>2, <4>3 DEF Replacing
    <3> QED BY <2>2, <2>6, <3>1, <3>2, <3>3 DEF FieldInv, Replaced
  <2> QED BY <2>5, <2>6
<1>6. IsAlone(r) /\ "insert" \in Making => crew'[p].status # "none" /\ ~crew'[p].password
  BY <1>0 DEF FieldInv, NothingHalfMade, MadeOrGone, Making
<1> QED BY <1>0, <1>1, <1>3, <1>4, <1>5, <1>6, FieldStep DEF StaffMoves

\* Refused by the index: the one it clashes with is there.
LEMMA InsertRefusedGoes ==
  ASSUME NEW does, StaffAsked(does), FieldInv(does), NEW r \in Staffing, Field!Insert(r),
         work[r].primary, Field!Clashes(<<r, Len(Tail(work[r].to))>>, work[r].who, Field!Market(r))
  PROVE  FieldInv(does)'
<1> DEFINE p == work[r].who  m == Field!Market(r)
<1>0. /\ StaffShape(does) /\ UNCHANGED <<profile, crew, assign>> /\ work[r].at = "insert" /\ Field!Unassigned(r)
      /\ work[r].op \in {"create", "assign"}
  BY DEF FieldInv, Field!Insert, Field!Assigning
<1>1. PICK at : StaffMoves(r, at) /\ at = IF work[r].op = "create" THEN "undo" ELSE "done"
  BY <1>0, StaffGotoMoves DEF Field!Unassigned
<1>3. FewerHeld /\ OnlyOwn(r) BY <1>0, AssignStays
<1>4. PersonsKept(r) BY <1>0, PersonsStay DEF FieldInv, NothingHalfMade
<1>5. Replaced'
  <2>1. SUFFICES ASSUME OnlyAssigning'
                 PROVE  KeysAreNew' /\ \A q \in People : <<0, q>> \in DOMAIN assign => HasFirst(q)' \/ Replacing(q)'
    BY <1>0 DEF Replaced
  <2>2. OnlyAssigning BY <1>1, <2>1 DEF OnlyAssigning, StaffMoves, StaffGoes
  <2>5. KeysAreNew' BY <1>0, <1>1, <2>2 DEF FieldInv, Replaced, KeysAreNew, StaffMoves, StaffGoes, OnlyAssigning
  <2>6. ASSUME NEW q \in People, <<0, q>> \in DOMAIN assign PROVE HasFirst(q)' \/ Replacing(q)'
    <3>1. CASE q = p /\ Field!StateOf(m) = "s1"
      <4>1. PICK b \in Field!Of(p) : assign[b].status = "active" /\ assign[b].primary /\ Field!StateOf(assign[b].market) = "s1"
        BY <3>1 DEF Field!Clashes
      <4> QED BY <1>0, <3>1, <4>1 DEF HasFirst, Held, HomeOf, Field!Of
    <3>2. CASE HasFirst(q) BY <1>0, <3>2 DEF HasFirst, Held, HomeOf
    <3>3. CASE ~(q = p /\ Field!StateOf(m) = "s1") /\ Replacing(q)
      <4>1. PICK s \in Staffing : /\ work[s].op = "assign" /\ work[s].at = "insert" /\ work[s].who = q /\ work[s].primary
                                  /\ Field!StateOf(Field!Market(s)) = "s1"
        BY <3>3 DEF Replacing
      <4>2. work'[s] = work[s] BY <1>1, <3>3, <4>1 DEF StaffMoves, StaffGoes
      <4>3. Field!Market(s)' = Field!Market(s) BY <4>2 DEF Field!Market
      <4> QED BY <4>1, <4>2, <4>3 DEF Replacing
    <3> QED BY <2>2, <2>6, <3>1, <3>2, <3>3 DEF FieldInv, Replaced
  <2> QED BY <2>5, <2>6
<1>6. IsAlone(r) /\ at \in Making => crew'[p].status # "none" /\ ~crew'[p].password
  BY <1>0 DEF FieldInv, NothingHalfMade, MadeOrGone, Making
<1> QED BY <1>0, <1>1, <1>3, <1>4, <1>5, <1>6, FieldStep DEF StaffMoves

LEMMA InsertedGoes ==
  ASSUME NEW does, StaffAsked(does), FieldInv(does), NEW r \in Staffing, Field!Insert(r),
         ~(work[r].primary /\ Field!Clashes(<<r, Len(Tail(work[r].to))>>, work[r].who, Field!Market(r)))
  PROVE  FieldInv(does)'
<1>a. PICK p, m, rest, new : p = work[r].who /\ m = Field!Market(r) /\ rest = Tail(work[r].to) /\ new = <<r, Len(rest)>>
  OBVIOUS
<1>b. PICK rec : rec = [who |-> p, market |-> m, status |-> "active", primary |-> work[r].primary] OBVIOUS
<1>0. /\ StaffShape(does) /\ UNCHANGED <<profile, crew>> /\ work[r].at = "insert" /\ work[r].op \in {"create", "assign"}
      /\ assign' = Field!With(assign, new, rec)
      /\ IF rest = <<>> THEN Field!Done(r)
         ELSE work' = [work EXCEPT ![r] = [@ EXCEPT !.at = "market", !.to = rest, !.primary = FALSE]]
  BY <1>a, <1>b DEF FieldInv, Field!Insert, Field!Assigning
<1>1. PICK at, to, primary : /\ StaffGoes(r, at, to, primary, work[r].failed)
                             /\ (at = "done" \/ (at = "market" /\ to = rest /\ rest # <<>>))
  <2>1. CASE rest = <<>> BY <1>0, <2>1, StaffDoneMoves DEF StaffMoves
  <2>2. CASE rest # <<>>
    <3>1. StaffGoes(r, "market", rest, FALSE, work[r].failed) BY <1>0, <2>2 DEF StaffShape, StaffFields, StaffGoes
    <3> QED BY <2>2, <3>1
  <2> QED BY <2>1, <2>2
<1>2. /\ DOMAIN assign' = DOMAIN assign \cup {new} /\ assign'[new] = rec
      /\ \A b \in DOMAIN assign \ {new} : assign'[b] = assign[b]
  BY <1>0 DEF Field!With
<1>3. PutOne(new)
  <2>1. DOMAIN rec = AssignFields /\ rec.who = p /\ rec.market = m /\ rec.primary = work[r].primary
    BY <1>b DEF AssignFields
  <2>2. \A b \in DOMAIN assign' : DOMAIN assign'[b] = AssignFields BY <1>0, <1>2, <2>1 DEF StaffShape
  <2>3. work[r].primary => \A b \in Field!Of(p) \ {new} : ~(assign[b].status = "active" /\ assign[b].primary
                                                             /\ Field!StateOf(assign[b].market) = Field!StateOf(m))
    BY <1>a DEF Field!Clashes
  <2>4. work[r].primary => \A b \in DOMAIN assign \ {new} : ~(assign[b].who = p /\ Held(b) /\ HomeOf(b) = Field!StateOf(m))
    BY <2>3 DEF Held, HomeOf, Field!Of
  <2> QED BY <1>2, <2>1, <2>2, <2>4 DEF PutOne
<1>4. OnlyOwn(r) BY <1>a, <1>2 DEF OnlyOwn
<1>5. PersonsKept(r) BY <1>0, PersonsStay DEF FieldInv, NothingHalfMade
<1>6. Replaced'
  <2>1. SUFFICES ASSUME OnlyAssigning'
                 PROVE  KeysAreNew' /\ \A q \in People : <<0, q>> \in DOMAIN assign' => HasFirst(q)' \/ Replacing(q)'
    BY DEF Replaced
  <2>2. OnlyAssigning BY <1>1, <2>1 DEF OnlyAssigning, StaffGoes
  <2>3. work[r].op = "assign" BY <1>0, <2>2 DEF OnlyAssigning
  <2>4. /\ work[r].to \in Seq(OneMarket) /\ work[r].to # <<>>
        /\ \A n \in Nat : n < Len(work[r].to) => <<r, n>> \notin DOMAIN assign
    BY <1>0, <2>2, <2>3 DEF FieldInv, Replaced, KeysAreNew
  <2>5. rest \in Seq(OneMarket) /\ Len(rest) = Len(work[r].to) - 1 /\ Len(rest) \in Nat
    BY <1>a, <2>4, HeadTailProperties
  <2>6. new \notin DOMAIN assign BY <1>a, <2>4, <2>5
  <2>7. KeysAreNew'
    <3>1. ASSUME NEW q \in Staffing, work'[q].op = "assign", work'[q].at \notin {"done", "undo"}
          PROVE  /\ work'[q].to \in Seq(OneMarket) /\ work'[q].to # <<>> /\ (work'[q].at = "retire" => work'[q].primary)
                 /\ \A n \in Nat : n < Len(work'[q].to) => <<q, n>> \notin DOMAIN assign'
      <4>1. CASE q = r
        <5>1. work'[r].to = rest /\ rest # <<>> /\ work'[r].at = "market" BY <1>1, <3>1, <4>1 DEF StaffGoes
        <5>2. ASSUME NEW n \in Nat, n < Len(rest) PROVE <<r, n>> \notin DOMAIN assign'
          BY <1>a, <1>2, <2>4, <2>5, <5>2
        <5> QED BY <2>5, <4>1, <5>1, <5>2
      <4>2. CASE q # r
        <5>1. work'[q] = work[q] BY <1>1, <4>2 DEF StaffGoes
        <5>2. /\ work[q].to \in Seq(OneMarket) /\ work[q].to # <<>> /\ (work[q].at = "retire" => work[q].primary)
              /\ \A n \in Nat : n < Len(work[q].to) => <<q, n>> \notin DOMAIN assign
          BY <2>2, <3>1, <5>1 DEF FieldInv, Replaced, KeysAreNew
        <5> QED BY <1>a, <1>2, <4>2, <5>1, <5>2
      <4> QED BY <4>1, <4>2
    <3> QED BY <3>1 DEF KeysAreNew
  <2>8. ASSUME NEW q \in People, <<0, q>> \in DOMAIN assign' PROVE HasFirst(q)' \/ Replacing(q)'
    <3>0. <<0, q>> \in DOMAIN assign BY <1>a, <1>2, <2>8 DEF StaffAsked
    <3>1. CASE HasFirst(q)
      <4>1. PICK a \in DOMAIN assign : assign[a].who = q /\ Held(a) /\ HomeOf(a) = "s1" BY <3>1 DEF HasFirst
      <4>2. a \in DOMAIN assign' /\ assign'[a] = assign[a] BY <1>2, <2>6, <4>1
      <4> QED BY <4>1, <4>2 DEF HasFirst, Held, HomeOf
    <3>2. CASE Replacing(q)
      <4>1. PICK s \in Staffing : /\ work[s].op = "assign" /\ work[s].at = "insert" /\ work[s].who = q /\ work[s].primary
                                  /\ Field!StateOf(Field!Market(s)) = "s1"
        BY <3>2 DEF Replacing
      <4>2. CASE s = r
        <5>1. new \in DOMAIN assign' /\ assign'[new].who = q /\ assign'[new].status = "active" /\ assign'[new].primary
              /\ Field!StateOf(assign'[new].market) = "s1"
          BY <1>a, <1>b, <1>2, <4>1, <4>2
        <5> QED BY <5>1 DEF HasFirst, Held, HomeOf
      <4>3. CASE s # r
        <5>1. work'[s] = work[s] BY <1>1, <4>3 DEF StaffGoes
        <5>2. Field!Market(s)' = Field!Market(s) BY <5>1 DEF Field!Market
        <5> QED BY <4>1, <5>1, <5>2 DEF Replacing
      <4> QED BY <4>2, <4>3
    <3> QED BY <2>2, <3>0, <3>1, <3>2 DEF FieldInv, Replaced
  <2> QED BY <2>7, <2>8
<1>7. IsAlone(r) /\ at \in Making => crew'[work[r].who].status # "none" /\ ~crew'[work[r].who].password
  BY <1>0 DEF FieldInv, NothingHalfMade, MadeOrGone, Making
<1> QED BY <1>0, <1>1, <1>3, <1>4, <1>5, <1>6, <1>7, FieldStep

-----------------------------------------------------------------------------
(* The assignments that are changed, and the persons                        *)

LEMMA ChangeGoes ==
  ASSUME NEW does, StaffAsked(does), FieldInv(does), NEW r \in Staffing, Field!Change(r)
  PROVE  FieldInv(does)'
<1>a. PICK a, is : a = work[r].to /\ is = assign[a] OBVIOUS
<1>0. /\ StaffShape(does) /\ UNCHANGED <<profile, crew>> /\ work[r].at = "start" /\ Field!Done(r) /\ a \in DOMAIN assign
      /\ work[r].op \in {"repoint", "activate", "pause", "end"}
  BY <1>a DEF FieldInv, Field!Change
<1>1. StaffMoves(r, "done") BY <1>0, StaffDoneMoves
<1>2. PICK to : /\ DOMAIN to = AssignFields /\ to.who = is.who
                /\ assign' = IF to.status = "active" /\ to.primary /\ Field!Clashes(a, is.who, to.market)
                             THEN assign ELSE [assign EXCEPT ![a] = to]
  <2>0. DOMAIN is = AssignFields BY <1>0, <1>a DEF StaffShape
  <2>1. PICK to \in CASE work[r].op = "repoint"  -> {is} \cup [who : {is.who}, market : {m \in {"m1", "m2"} : Field!InScope(is.who, m)},
                                                          status : {is.status}, primary : BOOLEAN]
                 [] work[r].op = "activate" -> {[is EXCEPT !.status = "active"]}
                 [] work[r].op = "pause"    -> {[is EXCEPT !.status = "paused"]}
                 [] work[r].op = "end"      -> {[is EXCEPT !.status = "ended"]} :
       assign' = IF to.status = "active" /\ to.primary /\ Field!Clashes(a, is.who, to.market)
                 THEN assign ELSE [assign EXCEPT ![a] = to]
    BY <1>a DEF Field!Change
  <2>2. CASE work[r].op = "repoint"
    <3>1. DOMAIN to = AssignFields /\ to.who = is.who BY <2>0, <2>1, <2>2 DEF AssignFields
    <3> QED BY <2>1, <3>1
  <2>3. CASE work[r].op # "repoint"
    <3>1. \E status : to = [is EXCEPT !.status = status] BY <1>0, <2>1, <2>3
    <3>2. DOMAIN to = AssignFields /\ to.who = is.who BY <2>0, <3>1 DEF AssignFields
    <3> QED BY <2>1, <3>2
  <2> QED BY <2>2, <2>3
<1>3. CASE assign' = assign
  <2>1. FewerHeld /\ OnlyOwn(r) BY <1>0, <1>3, AssignStays
  <2>2. PersonsKept(r) BY <1>0, PersonsStay DEF FieldInv, NothingHalfMade
  <2>3. Replaced' BY <1>0, <1>1, NotAssigning DEF StaffMoves, StaffGoes
  <2> QED BY <1>0, <1>1, <2>1, <2>2, <2>3, FieldStep DEF StaffMoves, Making
<1>4. CASE ~(to.status = "active" /\ to.primary /\ Field!Clashes(a, is.who, to.market)) /\ assign' = [assign EXCEPT ![a] = to]
  <2>1. /\ DOMAIN assign' = DOMAIN assign /\ assign'[a] = to
        /\ \A b \in DOMAIN assign \ {a} : assign'[b] = assign[b]
    BY <1>0, <1>4
  <2>2. to.status = "active" /\ to.primary => \A b \in Field!Of(is.who) \ {a} :
          ~(assign[b].status = "active" /\ assign[b].primary /\ Field!StateOf(assign[b].market) = Field!StateOf(to.market))
    BY <1>4 DEF Field!Clashes
  <2>3. PutOne(a)
    <3>1. \A b \in DOMAIN assign' : DOMAIN assign'[b] = AssignFields BY <1>0, <1>2, <2>1 DEF StaffShape
    <3>2. to.status = "active" /\ to.primary => \A b \in DOMAIN assign \ {a} :
            ~(assign[b].who = is.who /\ Held(b) /\ HomeOf(b) = Field!StateOf(to.market))
      BY <2>2 DEF Held, HomeOf, Field!Of
    <3>3. DOMAIN assign' = DOMAIN assign \cup {a} BY <1>0, <2>1
    <3> QED BY <1>2, <2>1, <3>1, <3>2, <3>3 DEF PutOne
  <2>4. OnlyOwn(r) BY <1>a, <1>2, <2>1 DEF OnlyOwn
  <2>5. PersonsKept(r) BY <1>0, PersonsStay DEF FieldInv, NothingHalfMade
  <2>6. Replaced' BY <1>0, <1>1, NotAssigning DEF StaffMoves, StaffGoes
  <2> QED BY <1>0, <1>1, <2>3, <2>4, <2>5, <2>6, FieldStep DEF StaffMoves, Making
<1> QED BY <1>2, <1>3, <1>4

\* What is purged is gone: profile, account and assignments.
LEMMA PurgedEffect ==
  ASSUME NEW does, StaffShape(does), AccountsShape, NEW p \in People, Field!Purged(p), NEW r
  PROVE  /\ FewerHeld /\ OnlyOwn(r) /\ AccountsShape' /\ \A q \in People \ {p} : PersonKept(q)
         /\ \A q : Field!Gone(p, q)'
<1>1. /\ profile' = [profile EXCEPT ![p] = "none"] /\ crew' = [crew EXCEPT ![p] = Field!NoAccount]
      /\ assign' = [a \in DOMAIN assign \ Field!Of(p) |-> assign[a]]
  BY DEF Field!Purged
<1>2. FewerHeld /\ OnlyOwn(r) BY <1>1 DEF FewerHeld, OnlyOwn, StaffShape, Held
<1>3. AccountsShape' /\ \A q \in People \ {p} : PersonKept(q)
  BY <1>1 DEF AccountsShape, PersonKept, Field!NoAccount
<1>4. Field!Of(p)' = {} BY <1>1 DEF Field!Of
<1>5. profile'[p] = "none" /\ crew'[p] = Field!NoAccount BY <1>1 DEF AccountsShape
<1> QED BY <1>2, <1>3, <1>4, <1>5 DEF Field!Gone

LEMMA PurgingGoes ==
  ASSUME NEW does, StaffAsked(does), FieldInv(does), NEW r \in Staffing, Field!ClearStale(r) \/ Field!Cancel(r)
  PROVE  FieldInv(does)'
<1>1. /\ StaffShape(does) /\ AccountsShape /\ work[r].at \in {"stale", "purge"} /\ Field!Purged(work[r].who)
      /\ work[r].op \in {"create", "cancel"} /\ work[r].who \in People
  BY DEF FieldInv, NothingHalfMade, Field!ClearStale, Field!Cancel, StaffAsked, StaffShape
<1>2. PICK at \in {"account", "done"} : StaffMoves(r, at)
  BY <1>1, StaffGotoMoves, StaffDoneMoves DEF Field!ClearStale, Field!Cancel
<1>3. FewerHeld /\ OnlyOwn(r) /\ AccountsShape' /\ \A q \in People \ {work[r].who} : PersonKept(q)
  BY <1>1, PurgedEffect
<1>4. PersonsKept(r) BY <1>1, <1>3 DEF PersonsKept
<1>5. Replaced' BY <1>1, <1>2, NotAssigning DEF StaffMoves, StaffGoes
<1> QED BY <1>1, <1>2, <1>3, <1>4, <1>5, FieldStep DEF StaffMoves, Making

LEMMA CreateAccountGoes ==
  ASSUME NEW does, StaffAsked(does), FieldInv(does), NEW r \in Staffing, Field!CreateAccount(r)
  PROVE  FieldInv(does)'
<1>a. PICK p : p = work[r].who OBVIOUS
<1>0. /\ StaffShape(does) /\ AccountsShape /\ work[r].at = "account" /\ work[r].op = "create" /\ p \in People
      /\ UNCHANGED <<profile, assign>>
  BY <1>a DEF FieldInv, NothingHalfMade, Field!CreateAccount, StaffAsked, StaffShape
<1>1. FewerHeld /\ OnlyOwn(r) BY <1>0, AssignStays
<1>2. CASE crew[p].status # "none"
  <2>1. Field!Done(r) /\ UNCHANGED crew BY <1>a, <1>2 DEF Field!CreateAccount
  <2>2. StaffMoves(r, "done") BY <1>0, <2>1, StaffDoneMoves
  <2>3. PersonsKept(r) BY <1>0, <2>1, PersonsStay
  <2>4. Replaced' BY <1>0, <2>2, NotAssigning DEF StaffMoves, StaffGoes
  <2> QED BY <1>0, <1>1, <2>2, <2>3, <2>4, FieldStep DEF StaffMoves, Making
<1>3. CASE crew[p].status = "none"
  <2>1. crew' = [crew EXCEPT ![p] = [status |-> "invited", password |-> work[r].password]] /\ Field!Goto(r, "profile")
    BY <1>a, <1>3 DEF Field!CreateAccount
  <2>2. StaffMoves(r, "profile") BY <1>0, <2>1, StaffGotoMoves
  <2>3. work[r].password \in BOOLEAN BY <1>0 DEF StaffAsked, StaffShape
  <2>4. PersonsKept(r)
    <3>1. AccountsShape' BY <1>0, <2>1, <2>3 DEF AccountsShape
    <3>2. \A q \in People \ {p} : PersonKept(q) BY <1>0, <2>1 DEF AccountsShape, PersonKept
    <3> QED BY <1>0, <1>a, <3>1, <3>2 DEF PersonsKept
  <2>5. IsAlone(r) => crew'[p].status # "none" /\ ~crew'[p].password BY <1>0, <1>a, <2>1 DEF AccountsShape, IsAlone
  <2>6. Replaced' BY <1>0, <2>2, NotAssigning DEF StaffMoves, StaffGoes
  <2> QED BY <1>0, <1>a, <1>1, <2>2, <2>4, <2>5, <2>6, FieldStep DEF StaffMoves
<1> QED BY <1>2, <1>3

LEMMA CreateProfileGoes ==
  ASSUME NEW does, StaffAsked(does), FieldInv(does), NEW r \in Staffing, Field!CreateProfile(r)
  PROVE  FieldInv(does)'
<1>a. PICK p : p = work[r].who OBVIOUS
<1>0. /\ StaffShape(does) /\ AccountsShape /\ work[r].at = "profile" /\ work[r].op = "create" /\ p \in People
      /\ UNCHANGED <<crew, assign>> /\ profile' = [profile EXCEPT ![p] = "invited"]
  BY <1>a DEF FieldInv, NothingHalfMade, Field!CreateProfile, StaffAsked, StaffShape
<1>1. FewerHeld /\ OnlyOwn(r) BY <1>0, AssignStays
<1>2. PICK at : StaffMoves(r, at)
  BY <1>0, StaffGotoMoves, StaffDoneMoves DEF Field!CreateProfile
<1>3. PersonsKept(r)
  <2>1. AccountsShape' BY <1>0 DEF AccountsShape
  <2>2. \A q \in People \ {p} : PersonKept(q) BY <1>0 DEF AccountsShape, PersonKept
  <2> QED BY <1>0, <1>a, <2>1, <2>2 DEF PersonsKept
<1>4. IsAlone(r) => crew'[p].status # "none" /\ ~crew'[p].password
  BY <1>0, <1>a DEF FieldInv, NothingHalfMade, MadeOrGone, Making
<1>5. Replaced' BY <1>0, <1>2, NotAssigning DEF StaffMoves, StaffGoes
<1> QED BY <1>0, <1>a, <1>1, <1>2, <1>3, <1>4, <1>5, FieldStep DEF StaffMoves

\* "The whole invitation is undone": of an account that was never used.
LEMMA UndoGoes ==
  ASSUME NEW does, StaffAsked(does), FieldInv(does), NEW r \in Staffing, Field!Undo(r)
  PROVE  FieldInv(does)'
<1>a. PICK p : p = work[r].who OBVIOUS
<1>0. /\ StaffShape(does) /\ AccountsShape /\ work[r].at = "undo" /\ work[r].op = "create" /\ p \in People
      /\ work' = [work EXCEPT ![r] = [@ EXCEPT !.at = "done", !.left = {}, !.failed = TRUE]]
      /\ IF ~crew[p].password /\ crew[p].status # "none" THEN Field!Purged(p) ELSE UNCHANGED <<profile, crew, assign>>
  BY <1>a DEF FieldInv, NothingHalfMade, Field!Undo, Field!UndoIf, Field!NeverUsed, StaffAsked, StaffShape
<1>1. StaffGoes(r, "done", work[r].to, work[r].primary, TRUE) BY <1>0 DEF StaffShape, StaffFields, StaffGoes
<1>2. /\ FewerHeld /\ OnlyOwn(r) /\ AccountsShape' /\ \A q \in People \ {p} : PersonKept(q)
  <2>1. CASE Field!Purged(p) BY <1>0, <2>1, PurgedEffect
  <2>2. CASE UNCHANGED <<profile, crew, assign>> BY <1>0, <2>2, AssignStays DEF AccountsShape, PersonKept
  <2> QED BY <1>0, <2>1, <2>2
<1>3. PersonsKept(r) BY <1>0, <1>a, <1>2 DEF PersonsKept
<1>4. StaffShape(does)' BY <1>0, <1>1, <1>2 DEF StaffShape, StaffGoes, FewerHeld
<1>5. OneHeld' BY <1>2, FewerHolds DEF FieldInv
<1>6. Replaced' BY <1>0, <1>1, NotAssigning DEF StaffGoes
<1>7. ASSUME NEW q \in Staffing, IsAlone(q)' PROVE MadeOrGone(q)'
  <2>0. IsAlone(q)
    <3>1. \A s \in Staffing : work'[s].op = work[s].op /\ work'[s].who = work[s].who /\ work'[s].password = work[s].password
      BY <1>1 DEF StaffGoes
    <3> QED BY <1>7, <3>1 DEF IsAlone
  <2>1. CASE q = r
    <3>1. MadeOrGone(r) BY <2>0, <2>1 DEF FieldInv, NothingHalfMade
    <3>2. ~crew[p].password /\ crew[p].status # "none" BY <1>0, <1>a, <3>1 DEF MadeOrGone, Making
    <3>3. Field!Gone(p, r)' BY <1>0, <3>2, PurgedEffect
    <3>4. work'[r].failed /\ work'[r].at = "done" /\ work'[r].who = p BY <1>1, <1>a DEF StaffGoes
    <3> QED BY <2>1, <3>3, <3>4 DEF MadeOrGone, Making
  <2>2. CASE q # r
    <3>1. work'[q] = work[q] BY <1>1, <2>2 DEF StaffGoes
    <3> QED BY <1>0, <1>2, <1>3, <2>0, <2>2, <3>1, OthersMade DEF FieldInv
  <2> QED BY <2>1, <2>2
<1>8. NothingHalfMade' BY <1>0, <1>1, <1>2, <1>7 DEF NothingHalfMade, StaffGoes, FieldInv
<1> QED BY <1>4, <1>5, <1>6, <1>8 DEF FieldInv

\* The statuses of persons are set side by side, of profile and account that are there.
LEMMA WriteGoes ==
  ASSUME NEW does, StaffAsked(does), FieldInv(does), NEW r \in Staffing, NEW what, Field!Write(r, what)
  PROVE  FieldInv(does)'
<1>a. PICK p, to : p = work[r].who /\ to = Field!Becomes(work[r].op) OBVIOUS
<1>0. /\ StaffShape(does) /\ AccountsShape /\ work[r].at = "write" /\ work[r].op \in Field!Lifecycle /\ p \in People
      /\ profile' = IF what = "profile" /\ profile[p] # "none" THEN [profile EXCEPT ![p] = to] ELSE profile
      /\ crew' = IF what = "account" /\ crew[p].status # "none"
                 THEN [crew EXCEPT ![p] = IF to = "none" THEN Field!NoAccount ELSE [crew[p] EXCEPT !.status = to]] ELSE crew
      /\ assign' = IF what # "assignments" THEN assign
               ELSE IF to = "none" THEN [a \in DOMAIN assign \ Field!Of(p) |-> assign[a]]
               ELSE [a \in DOMAIN assign |-> IF a \in Field!Of(p) /\ assign[a].status \in Field!Open
                       THEN [assign[a] EXCEPT !.status = "ended", !.primary = FALSE] ELSE assign[a]]
  BY <1>a DEF FieldInv, NothingHalfMade, Field!Write, StaffAsked, StaffShape
<1>1. PICK at : StaffMoves(r, at) /\ at \in {"done", "write"}
  <2>1. CASE Field!Done(r) BY <1>0, <2>1, StaffDoneMoves
  <2>2. CASE work' = [work EXCEPT ![r].left = @ \ {what}]
    BY <1>0, <2>2 DEF StaffShape, StaffFields, StaffMoves, StaffGoes
  <2> QED BY <2>1, <2>2 DEF Field!Write
<1>2. FewerHeld /\ OnlyOwn(r)
  <2>1. CASE assign' = assign BY <1>0, <2>1, AssignStays
  <2>2. CASE assign' = [a \in DOMAIN assign \ Field!Of(p) |-> assign[a]]
    BY <1>0, <2>2 DEF StaffShape, FewerHeld, OnlyOwn, Held
  <2>3. CASE assign' = [a \in DOMAIN assign |-> IF a \in Field!Of(p) /\ assign[a].status \in Field!Open
                       THEN [assign[a] EXCEPT !.status = "ended", !.primary = FALSE] ELSE assign[a]]
    <3>1. ASSUME NEW a \in DOMAIN assign
          PROVE  /\ DOMAIN assign'[a] = AssignFields /\ assign'[a].who = assign[a].who
                 /\ (assign'[a].status = "ended" \/ assign'[a] = assign[a])
      <4>1. DOMAIN assign[a] = AssignFields BY <1>0 DEF StaffShape
      <4>2. assign'[a] = [assign[a] EXCEPT !.status = "ended", !.primary = FALSE] \/ assign'[a] = assign[a] BY <2>3
      <4> QED BY <4>1, <4>2 DEF AssignFields
    <3>2. DOMAIN assign' = DOMAIN assign BY <2>3
    <3> QED BY <3>1, <3>2 DEF FewerHeld, OnlyOwn, Held
  <2> QED BY <1>0, <2>1, <2>2, <2>3
<1>3. AccountsShape' BY <1>0 DEF AccountsShape, Field!NoAccount
<1>4. ASSUME NEW q \in People PROVE PersonKept(q) \/ (work[r].op \in {"create", "cancel", "delete"} /\ work[r].who = q)
  <2>1. CASE q # p BY <1>0, <2>1 DEF AccountsShape, PersonKept
  <2>2. CASE q = p /\ work[r].op # "delete"
    <3>0. DOMAIN Field!Statuses = {"suspend", "reinstate"} /\ Field!Statuses["suspend"] = "suspended"
          /\ Field!Statuses["reinstate"] = "active"
      BY DEF Field!Statuses
    <3>1. to # "none" BY <1>a, <1>0, <2>2, <3>0 DEF Field!Becomes, Field!Lifecycle
    <3> QED BY <1>0, <2>2, <3>1 DEF AccountsShape, PersonKept
  <2> QED BY <1>a, <2>1, <2>2
<1>5. PersonsKept(r) BY <1>3, <1>4 DEF PersonsKept
<1>6. Replaced' BY <1>0, <1>1, NotAssigning DEF StaffMoves, StaffGoes, Field!Lifecycle
<1> QED BY <1>0, <1>1, <1>2, <1>5, <1>6, FieldStep DEF StaffMoves, Making

LEMMA AnswersGo ==
  ASSUME NEW does, StaffAsked(does), FieldInv(does), NEW r \in Staffing,
         Field!CancelPartner(r) \/ Field!Accept(r) \/ Field!AcceptProfile(r)
  PROVE  FieldInv(does)'
<1>a. PICK p : p = work[r].who OBVIOUS
<1>0. /\ StaffShape(does) /\ AccountsShape /\ work[r].at \in {"purge", "start", "profile"} /\ work[r].op \in {"cancel", "accept"}
      /\ p \in People /\ assign' = assign
  BY <1>a DEF FieldInv, NothingHalfMade, Field!CancelPartner, Field!Accept, Field!AcceptProfile, StaffAsked, StaffShape
<1>1. PICK at : StaffMoves(r, at)
  BY <1>0, StaffGotoMoves, StaffDoneMoves DEF Field!CancelPartner, Field!Accept, Field!AcceptProfile
<1>2. FewerHeld /\ OnlyOwn(r) BY <1>0, AssignStays
<1>3. PersonsKept(r)
  <2>1. CASE Field!CancelPartner(r)
    <3>1. /\ profile' = [profile EXCEPT ![p] = "disabled"] /\ crew' = [crew EXCEPT ![p].status = "disabled"]
          /\ work[r].op = "cancel"
      BY <1>a, <2>1 DEF Field!CancelPartner
    <3> QED BY <1>0, <1>a, <3>1 DEF PersonsKept, PersonKept, AccountsShape
  <2>2. CASE Field!Accept(r)
    <3>1. /\ crew' = [crew EXCEPT ![p] = [status |-> "active", password |-> TRUE]] /\ profile' = profile
          /\ \A s \in Staffing : work[s].op = "create" /\ work[s].who = p => work[s].at = "done" /\ ~work[s].failed
      BY <1>a, <2>2 DEF Field!Accept
    <3>2. AccountsShape' BY <1>0, <3>1 DEF AccountsShape
    <3>3. \A q \in People \ {p} : PersonKept(q) BY <1>0, <3>1 DEF AccountsShape, PersonKept
    <3> QED BY <3>1, <3>2, <3>3 DEF PersonsKept
  <2>3. CASE Field!AcceptProfile(r)
    <3>1. /\ profile' = [profile EXCEPT ![p] = IF @ = "none" THEN @ ELSE "active"] /\ crew' = crew
      BY <1>a, <2>3 DEF Field!AcceptProfile
    <3> QED BY <1>0, <3>1 DEF PersonsKept, PersonKept, AccountsShape
  <2> QED BY <2>1, <2>2, <2>3
<1>4. Replaced' BY <1>0, <1>1, NotAssigning DEF StaffMoves, StaffGoes
<1> QED BY <1>0, <1>1, <1>2, <1>3, <1>4, FieldStep DEF StaffMoves, IsAlone

-----------------------------------------------------------------------------
LEMMA FieldNext ==
  ASSUME NEW does, StaffAsked(does), FieldInv(does), [Field!Next]_fieldVars
  PROVE  FieldInv(does)'
<1>1. CASE UNCHANGED fieldVars BY <1>1, FieldStay DEF fieldVars
<1>2. CASE \/ \E t \in Tasks : Field!Complete(t)
           \/ \E p \in Partners : Field!OpenCustody(p) \/ Field!Receive(p) \/ Field!Release(p)
  BY <1>2, FieldStay DEF Field!Complete, Field!OpenCustody, Field!Receive, Field!Release, Field!Handled
<1>3. ASSUME NEW r \in Staffing,
             \/ Field!StartCreate(r) \/ Field!StartCreatePartner(r) \/ Field!ClearStale(r) \/ Field!CreateAccount(r)
             \/ Field!CreateProfile(r) \/ Field!StartAssign(r) \/ Field!CheckDuplicate(r) \/ Field!RetirePrimary(r)
             \/ Field!Insert(r) \/ Field!Undo(r) \/ Field!Change(r) \/ Field!UpdateAssociate(r) \/ Field!StartLifecycle(r)
             \/ Field!StartCancel(r) \/ Field!Cancel(r) \/ Field!CancelPartner(r) \/ Field!Accept(r) \/ Field!AcceptProfile(r)
             \/ \E what \in {"profile", "account", "assignments"} : Field!Write(r, what)
             \/ \E t \in Tasks : Field!Approve(r, t) \/ Field!Allot(r, t) \/ Field!StartReassign(r, t) \/ Field!Reassign(r, t)
      PROVE  FieldInv(does)'
  <2>1. CASE \/ Field!StartCreate(r) \/ Field!StartCreatePartner(r) \/ Field!StartAssign(r) \/ Field!CheckDuplicate(r)
             \/ Field!UpdateAssociate(r) \/ Field!StartLifecycle(r) \/ Field!StartCancel(r)
    BY <2>1, StaffRequestsGo
  <2>2. CASE \/ Field!ClearStale(r) \/ Field!CreateAccount(r) \/ Field!CreateProfile(r) \/ Field!Undo(r) \/ Field!Cancel(r)
             \/ Field!CancelPartner(r) \/ Field!Accept(r) \/ Field!AcceptProfile(r)
    BY <2>2, PurgingGoes, CreateAccountGoes, CreateProfileGoes, UndoGoes, AnswersGo
  <2>3. CASE Field!RetirePrimary(r) \/ Field!Insert(r) \/ Field!Change(r)
    BY <2>3, RetirePrimaryGoes, InsertRefusedGoes, InsertedGoes, ChangeGoes
  <2>4. CASE \E what \in {"profile", "account", "assignments"} : Field!Write(r, what) BY <2>4, WriteGoes
  <2>5. CASE \E t \in Tasks : Field!Approve(r, t) \/ Field!Allot(r, t) \/ Field!StartReassign(r, t) \/ Field!Reassign(r, t)
    BY <2>5, StaffTasksGo
  <2> QED BY <1>3, <2>1, <2>2, <2>3, <2>4, <2>5
<1> QED BY <1>1, <1>2, <1>3 DEF Field!Next

LEMMA FieldInit ==
  ASSUME NEW does, StaffAsked(does), NEW start, FieldFits(start), Field!Init(does, start)
  PROVE  FieldInv(does)
<1>1. /\ profile = start.profile /\ crew = start.account /\ assign = start.assign
      /\ work = [r \in Staffing |-> Field!Asked(does[r])]
  BY DEF Field!Init
<1>2. DOMAIN work = Staffing BY <1>1
<1>3. ASSUME NEW r \in Staffing
      PROVE  /\ DOMAIN work[r] = StaffFields /\ work[r].op = does[r].op /\ work[r].who = does[r].who
             /\ work[r].password = does[r].password /\ work[r].to = does[r].to /\ work[r].at = "start" /\ ~work[r].failed
  <2>1. work[r] = Field!Asked(does[r]) BY <1>1
  <2> QED BY <2>1 DEF Field!Asked, StaffFields
<1>4. StaffShape(does) BY <1>1, <1>2, <1>3 DEF StaffShape, FieldFits
<1>5. OneHeld BY <1>1 DEF FieldFits, OneHeld, Held, HomeOf
<1>6. Replaced
  <2>1. KeysAreNew BY <1>1, <1>3 DEF KeysAreNew, StaffAsked, FieldFits
  <2>2. \A p \in People : <<0, p>> \in DOMAIN assign => HasFirst(p) BY <1>1 DEF FieldFits, HasFirst, Held, HomeOf
  <2> QED BY <2>1, <2>2 DEF Replaced
<1>7. NothingHalfMade BY <1>1, <1>3 DEF NothingHalfMade, AccountsShape, FieldFits, MadeOrGone, Making
<1> QED BY <1>4, <1>5, <1>6, <1>7 DEF FieldInv

LEMMA FieldHolds ==
  ASSUME NEW does, FieldInv(does)
  PROVE  StaffingHolds
<1>1. ASSUME NEW p \in People
      PROVE  /\ \A s \in {"s1", "s2"} : \A a, b \in Field!InState(s, Field!Primary(p)) : a = b
             /\ (Field!Settled /\ <<0, p>> \in DOMAIN assign /\ Field!OnlyOf({"assign", "order", "reassign"})) =>
                  Field!InState("s1", Field!Primary(p)) # {}
  <2>1. \A s : \A a \in Field!InState(s, Field!Primary(p)) : a \in DOMAIN assign /\ assign[a].who = p /\ Held(a) /\ HomeOf(a) = s
    BY DEF Field!InState, Field!Primary, Field!Of, Held, HomeOf
  <2>2. ASSUME NEW s, NEW a \in Field!InState(s, Field!Primary(p)), NEW b \in Field!InState(s, Field!Primary(p)) PROVE a = b
    BY <2>1 DEF FieldInv, OneHeld
  <2>3. ASSUME Field!Settled, <<0, p>> \in DOMAIN assign, Field!OnlyOf({"assign", "order", "reassign"})
        PROVE  Field!InState("s1", Field!Primary(p)) # {}
    <3>1. ~Replacing(p) BY <2>3 DEF Field!Settled, Replacing
    <3>2. HasFirst(p) BY <2>3, <3>1 DEF Field!OnlyOf, FieldInv, Replaced, OnlyAssigning
    <3> QED BY <3>2 DEF HasFirst, Held, HomeOf, Field!InState, Field!Primary, Field!Of
  <2> QED BY <2>2, <2>3
<1>2. Field!FailedCreateLeavesNothing
  <2>1. ASSUME NEW r \in Staffing, work[r].failed, ~work[r].password,
               \A s \in Staffing \ {r} : ~(work[s].op = "create" /\ work[s].who = work[r].who)
        PROVE  Field!Gone(work[r].who, r)
    <3>1. IsAlone(r) BY <2>1 DEF FieldInv, NothingHalfMade, IsAlone
    <3> QED BY <2>1, <3>1 DEF FieldInv, NothingHalfMade, MadeOrGone
  <2> QED BY <2>1 DEF Field!FailedCreateLeavesNothing
<1> QED BY <1>1, <1>2 DEF StaffingHolds, Field!PrimaryIsReplaced

(* However requests about the people in the field interleave, nobody has two *)
(* primary markets of a state, who had one has one when assignments are over,*)
(* and of an invitation that failed nothing is left (makeAssignment and      *)
(* createMarketAssociate of platform.controller.ts): for any people and      *)
(* requests, none of which cancels or deletes whom another one invites.      *)
THEOREM FieldStaffingHolds ==
  ASSUME NEW does, NEW start, StaffAsked(does), FieldFits(start)
  PROVE  Field!Init(does, start) /\ [][Field!Next]_fieldVars => []StaffingHolds
<1>1. Field!Init(does, start) => FieldInv(does) BY FieldInit
<1>2. FieldInv(does) /\ [Field!Next]_fieldVars => FieldInv(does)' BY FieldNext
<1>3. FieldInv(does) => StaffingHolds BY FieldHolds
<1> QED BY <1>1, <1>2, <1>3, PTL
============================================================================
