------------------------------- MODULE Refunds -------------------------------
(***************************************************************************)
(* Refunding one captured payment.  Three parts of the code share it:      *)
(*   - PaymentService.refund and its helpers: the amount is reserved on    *)
(*     the payment, the provider is called, the payment is settled;        *)
(*   - FulfilmentService.processRefund / reconcileUnknownRefunds: refund   *)
(*     records with a claim, a parked state for lost answers and a job     *)
(*     that asks the provider again;                                       *)
(*   - AdminCommerceController.approveRefund: customers' refund requests,  *)
(*     approved straight into PaymentService.refund.                       *)
(* Every await is a step of its own: a caller is a request (or a tick of   *)
(* the job) that remembers what it read.  The 15 minutes of quiet are a    *)
(* fact the clock makes true and any update of the record makes false.     *)
(***************************************************************************)
EXTENDS Naturals, FiniteSets

CONSTANTS Records,      \* FulfilmentRefunds; the record is its idempotency key
          Requests,     \* RefundRequests, likewise
          Amount,       \* Amount[r]: amountMinor
          Captured,     \* payment.amountMinor
          Admins,       \* requests by staff
          Desks,        \* bound: which refunds each of them may be about
          Jobs,         \* ticks of reconcile-refunds
          Replies,      \* what the provider may do with a call
          MaxTries,     \* bound: calls to the provider per refund record
          MaxCrashes,   \* bound: callers that die
          MaxDbErrors,  \* bound: database writes that throw
          None

Refundable == Records \cup Requests
Callers == Admins \cup Jobs

ASSUME AmountAssumption ==
  /\ Captured \in Nat \ {0}
  /\ Amount \in [Refundable -> 1..Captured]
ASSUME DisjointAssumption == Records \cap Requests = {} /\ Admins \cap Jobs = {}
                             /\ None \notin Refundable
ASSUME DesksAssumption == Desks \subseteq [Admins -> SUBSET Refundable]
ASSUME RepliesAssumption ==
  Replies \subseteq {"ok", "rejected", "lost_done", "lost_late", "lost_never", "garbled"}
ASSUME BudgetAssumption == MaxTries \in Nat /\ MaxCrashes \in Nat /\ MaxDbErrors \in Nat

VARIABLES
  (* the records *)
  status, quiet,
  (* the payment: refundedAmount, commerceStatus; and the order's status *)
  reserved, payStatus, orderRefunded,
  (* the provider: refunds it made for a key, calls it has yet to act on *)
  sent, late,
  (* each caller: step, refund in hand, how it got to the provider, whether  *)
  (* its copy of the record was quiet, what settleRefund read                *)
  pc, cur, via, old, full,
  (* budgets spent *)
  tries, crashes, dbErrors,
  (* the desks of this behaviour *)
  desk,
  (* history: two requests of the staff decided on one refund side by side *)
  sideBySide

recordVars == <<status, quiet>>
payVars == <<reserved, payStatus, orderRefunded>>
providerVars == <<sent, late>>
callerVars == <<pc, cur, via, old, full>>
budgetVars == <<tries, crashes, dbErrors>>
codeVars == <<recordVars, payVars, providerVars, callerVars, budgetVars>>
vars == <<codeVars, desk, sideBySide>>

Statuses == {"NONE", "REQUESTED", "PROVIDER_PENDING", "PROVIDER_UNKNOWN", "REFUNDED", "FAILED"}
Steps == {"idle", "lookup", "releaseQuiet", "failQuiet", "claim", "approve", "reserve",
          "call", "release", "markFailed", "markUnknown", "settleRead", "settleWrite",
          "finalize", "markRefunded"}

CodeTypeOK ==
  /\ status \in [Refundable -> Statuses]
  /\ quiet \in [Refundable -> BOOLEAN]
  /\ reserved \in 0..Captured
  /\ payStatus \in {"CONFIRMED", "REFUND_PENDING", "REFUNDED"}
  /\ orderRefunded \in BOOLEAN
  /\ sent \in [Refundable -> Nat] /\ late \in [Refundable -> Nat]
  /\ pc \in [Callers -> Steps]
  /\ cur \in [Callers -> Refundable \cup {None}]
  /\ via \in [Callers -> {"none", "process", "lookup", "approve"}]
  /\ old \in [Callers -> BOOLEAN] /\ full \in [Callers -> BOOLEAN]
  /\ tries \in [Refundable -> Nat] /\ crashes \in Nat /\ dbErrors \in Nat

TypeOK == CodeTypeOK /\ desk \in Desks /\ sideBySide \in BOOLEAN

Init ==
  /\ status = [r \in Refundable |-> IF r \in Requests THEN "REQUESTED" ELSE "NONE"]
  /\ quiet = [r \in Refundable |-> FALSE]
  /\ reserved = 0 /\ payStatus = "CONFIRMED" /\ orderRefunded = FALSE
  /\ sent = [r \in Refundable |-> 0] /\ late = [r \in Refundable |-> 0]
  /\ pc = [c \in Callers |-> "idle"]
  /\ cur = [c \in Callers |-> None]
  /\ via = [c \in Callers |-> "none"]
  /\ old = [c \in Callers |-> FALSE] /\ full = [c \in Callers |-> FALSE]
  /\ tries = [r \in Refundable |-> 0] /\ crashes = 0 /\ dbErrors = 0
  /\ desk \in Desks /\ sideBySide = FALSE

-----------------------------------------------------------------------------
(* Steps of a caller.                                                      *)

Goto(c, step) == pc' = [pc EXCEPT ![c] = step]

\* The request ends: what it remembered is gone.
Leave(c) == /\ pc' = [pc EXCEPT ![c] = "idle"]
            /\ cur' = [cur EXCEPT ![c] = None]
            /\ via' = [via EXCEPT ![c] = "none"]
            /\ old' = [old EXCEPT ![c] = FALSE]
            /\ full' = [full EXCEPT ![c] = FALSE]

Stay == UNCHANGED <<cur, via, old, full>>

\* Any update of a record moves its updatedAt.
SetStatus(r, s) == /\ status' = [status EXCEPT ![r] = s]
                   /\ quiet' = [quiet EXCEPT ![r] = FALSE]

\* updateOne({_id: r, status: {$in: from}}, {status: to})
MoveStatus(r, from, to) ==
  IF status[r] \in from THEN SetStatus(r, to) ELSE UNCHANGED recordVars

Release(r) == reserved' = IF reserved >= Amount[r] THEN reserved - Amount[r] ELSE reserved

-----------------------------------------------------------------------------
(* createRefund and processRefund.                                         *)

CreateRefund(r) ==
  /\ status[r] = "NONE"
  /\ payStatus = "CONFIRMED"
  /\ Amount[r] <= Captured - reserved
  /\ SetStatus(r, "REQUESTED")
  /\ UNCHANGED <<payVars, providerVars, callerVars, budgetVars>>

Enter(c, r, step, how) ==
  /\ pc[c] = "idle"
  /\ pc' = [pc EXCEPT ![c] = step]
  /\ cur' = [cur EXCEPT ![c] = r]
  /\ via' = [via EXCEPT ![c] = how]
  /\ old' = [old EXCEPT ![c] = quiet[r]]
  /\ UNCHANGED <<full, recordVars, payVars, providerVars, budgetVars>>

\* processRefund reads the record; other statuses end the request at once.
ProcessRefund(c, r) ==
  \/ status[r] = "PROVIDER_UNKNOWN" /\ Enter(c, r, "lookup", "lookup")
  \/ /\ status[r] \in {"REQUESTED", "FAILED"}
     /\ tries[r] < MaxTries
     /\ Enter(c, r, "claim", "process")

\* reconcileUnknownRefunds reads the parked records.
ReconcileRefund(j, r) ==
  status[r] = "PROVIDER_UNKNOWN" /\ Enter(j, r, "lookup", "lookup")

\* lookupRefund, and what each caller does with the answer.
LookupThen(c, patient) ==
  LET r == cur[c] IN
  /\ pc[c] = "lookup"
  /\ CASE sent[r] > 0 -> Goto(c, "settleRead") /\ Stay
       [] sent[r] = 0 /\ c \in Admins /\ patient -> Goto(c, "releaseQuiet") /\ Stay
       [] OTHER -> Leave(c)
  /\ UNCHANGED <<recordVars, payVars, providerVars, budgetVars>>

Lookup(c) == LookupThen(c, old[c] \/ quiet[cur[c]])

LookupFails(c) ==
  /\ pc[c] = "lookup"
  /\ Leave(c)
  /\ UNCHANGED <<recordVars, payVars, providerVars, budgetVars>>

ReleaseQuiet(c) ==
  /\ pc[c] = "releaseQuiet"
  /\ Release(cur[c])
  /\ Goto(c, "failQuiet") /\ Stay
  /\ UNCHANGED <<recordVars, payStatus, orderRefunded, providerVars, budgetVars>>

FailQuiet(c) ==
  /\ pc[c] = "failQuiet"
  /\ MoveStatus(cur[c], {"PROVIDER_UNKNOWN"}, "FAILED")
  /\ Leave(c)
  /\ UNCHANGED <<payVars, providerVars, budgetVars>>

Claim(c) ==
  LET r == cur[c] IN
  /\ pc[c] = "claim"
  /\ IF status[r] \in {"REQUESTED", "FAILED"}
       THEN /\ SetStatus(r, "PROVIDER_PENDING") /\ Goto(c, "reserve") /\ Stay
            /\ tries' = [tries EXCEPT ![r] = @ + 1]
       ELSE Leave(c) /\ UNCHANGED <<recordVars, tries>>
  /\ UNCHANGED <<payVars, providerVars, crashes, dbErrors>>

-----------------------------------------------------------------------------
(* approveRefund: the status is read and saved without a claim.            *)

ApproveRequest(c, r) ==
  /\ status[r] = "REQUESTED"
  /\ tries[r] < MaxTries
  /\ Enter(c, r, "approve", "approve")

SaveApproval(c) ==
  LET r == cur[c] IN
  /\ pc[c] = "approve"
  /\ SetStatus(r, "PROVIDER_PENDING")
  /\ tries' = [tries EXCEPT ![r] = @ + 1]
  /\ Goto(c, "reserve") /\ Stay
  /\ UNCHANGED <<payVars, providerVars, crashes, dbErrors>>

-----------------------------------------------------------------------------
(* PaymentService.refund.                                                  *)

\* Where a failed PaymentService.refund leaves its caller.
Failed(c) == IF via[c] = "process" THEN Goto(c, "markFailed") /\ Stay ELSE Leave(c)

Reserve(c) ==
  LET r == cur[c] IN
  /\ pc[c] = "reserve"
  /\ IF reserved + Amount[r] <= Captured
       THEN reserved' = reserved + Amount[r] /\ Goto(c, "call") /\ Stay
       ELSE UNCHANGED reserved /\ Failed(c)
  /\ UNCHANGED <<recordVars, payStatus, orderRefunded, providerVars, budgetVars>>

\* The provider acts on the call or not, and its answer arrives or not.  An
\* unreadable answer to a 2xx is not in isAmbiguousProviderError.
CallThen(c, reply, onLost) ==
  LET r == cur[c] IN
  /\ pc[c] = "call"
  /\ sent' = [sent EXCEPT ![r] = IF reply \in {"ok", "lost_done", "garbled"} THEN @ + 1 ELSE @]
  /\ late' = [late EXCEPT ![r] = IF reply = "lost_late" THEN @ + 1 ELSE @]
  /\ CASE reply = "ok" -> Goto(c, "settleRead") /\ Stay
       [] reply \in {"rejected", "garbled"} -> Goto(c, "release") /\ Stay
       [] OTHER -> IF via[c] = "process" THEN Goto(c, onLost) /\ Stay ELSE Leave(c)
  /\ UNCHANGED <<recordVars, payVars, budgetVars>>

\* Mutants: a lost answer is taken for success; it frees the reservation.
CallTrusting(c, reply) == CallThen(c, reply, "settleRead")
CallReleasing(c, reply) == CallThen(c, reply, "release")

CallProvider(c, reply) == CallThen(c, reply, "markUnknown")

ReleaseRejected(c) ==
  /\ pc[c] = "release"
  /\ Release(cur[c])
  /\ Failed(c)
  /\ UNCHANGED <<recordVars, payStatus, orderRefunded, providerVars, budgetVars>>

MarkFailed(c) ==
  /\ pc[c] = "markFailed"
  /\ MoveStatus(cur[c], {"PROVIDER_PENDING"}, "FAILED")
  /\ Leave(c)
  /\ UNCHANGED <<payVars, providerVars, budgetVars>>

\* Mutant: a lost answer is recorded as a failure.
MarkUnknownAsFailed(c) ==
  /\ pc[c] = "markUnknown"
  /\ MoveStatus(cur[c], {"PROVIDER_PENDING"}, "FAILED")
  /\ Leave(c)
  /\ UNCHANGED <<payVars, providerVars, budgetVars>>

MarkUnknown(c) ==
  /\ pc[c] = "markUnknown"
  /\ MoveStatus(cur[c], {"PROVIDER_PENDING"}, "PROVIDER_UNKNOWN")
  /\ Leave(c)
  /\ UNCHANGED <<payVars, providerVars, budgetVars>>

\* settleRefund: reads refundedAmount, everybody's reservations included...
SettleRead(c) ==
  /\ pc[c] = "settleRead"
  /\ full' = [full EXCEPT ![c] = reserved >= Captured]
  /\ Goto(c, "settleWrite")
  /\ UNCHANGED <<cur, via, old, recordVars, payVars, providerVars, budgetVars>>

\* ... and writes the payment's status in a second operation.
SettleWrite(c) ==
  /\ pc[c] = "settleWrite"
  /\ payStatus' = IF full[c] THEN "REFUNDED" ELSE "REFUND_PENDING"
  /\ Goto(c, IF via[c] = "approve" THEN "markRefunded" ELSE "finalize") /\ Stay
  /\ UNCHANGED <<recordVars, reserved, orderRefunded, providerVars, budgetVars>>

\* approveRefund's last save.
MarkRefunded(c) ==
  /\ pc[c] = "markRefunded"
  /\ SetStatus(cur[c], "REFUNDED")
  /\ Leave(c)
  /\ UNCHANGED <<payVars, providerVars, budgetVars>>

\* finalizeRefund's transaction.
FinalizeFrom(c, open) ==
  LET r == cur[c] IN
  /\ pc[c] = "finalize"
  /\ MoveStatus(r, open, "REFUNDED")
  /\ orderRefunded' = (orderRefunded \/ (status[r] \in open /\ payStatus = "REFUNDED"))
  /\ Leave(c)
  /\ UNCHANGED <<reserved, payStatus, providerVars, budgetVars>>

\* Mutant: a parked refund is not accepted.
FinalizeUnparked(c) == FinalizeFrom(c, {"PROVIDER_PENDING"})

Finalize(c) == FinalizeFrom(c, {"PROVIDER_PENDING", "PROVIDER_UNKNOWN"})

-----------------------------------------------------------------------------
(* Failures and the clock.                                                 *)

\* A database operation throws: inside PaymentService.refund the caller sees
\* an error that is not "outcome unknown"; inside finalizeRefund it parks.
DbError(c) ==
  /\ pc[c] \in {"release", "settleRead", "settleWrite", "finalize"}
  /\ dbErrors < MaxDbErrors
  /\ dbErrors' = dbErrors + 1
  /\ IF via[c] = "process"
       THEN Goto(c, IF pc[c] = "finalize" THEN "markUnknown" ELSE "markFailed") /\ Stay
       ELSE Leave(c)
  /\ UNCHANGED <<recordVars, payVars, providerVars, tries, crashes>>

Crash(c) ==
  /\ pc[c] # "idle"
  /\ crashes < MaxCrashes
  /\ crashes' = crashes + 1
  /\ Leave(c)
  /\ UNCHANGED <<recordVars, payVars, providerVars, tries, dbErrors>>

\* A call whose answer was lost takes effect at the provider after all.
ProviderActsLate(r) ==
  /\ late[r] > 0
  /\ late' = [late EXCEPT ![r] = @ - 1]
  /\ sent' = [sent EXCEPT ![r] = @ + 1]
  /\ UNCHANGED <<recordVars, payVars, callerVars, budgetVars>>

\* 15 minutes pass without an update: longer than the provider sits on a call.
QuietPasses(r) ==
  /\ status[r] = "PROVIDER_UNKNOWN" /\ ~quiet[r]
  /\ late[r] = 0
  /\ quiet' = [quiet EXCEPT ![r] = TRUE]
  /\ UNCHANGED <<status, payVars, providerVars, callerVars, budgetVars>>

-----------------------------------------------------------------------------
CallerStep(c) ==
  \/ Lookup(c) \/ LookupFails(c) \/ ReleaseQuiet(c) \/ FailQuiet(c)
  \/ Claim(c) \/ SaveApproval(c) \/ Reserve(c)
  \/ \E reply \in Replies : CallProvider(c, reply)
  \/ ReleaseRejected(c) \/ MarkFailed(c) \/ MarkUnknown(c)
  \/ SettleRead(c) \/ SettleWrite(c) \/ MarkRefunded(c) \/ Finalize(c)

\* c saves an approval that another request saved since c read the request, or
\* gives up a parked refund that another request has in hand to give it up: no
\* filter on what was read tells either of them (commerce.controller.ts:99-106,
\* fulfilment.service.ts:2093-2107).
GivingUp == {"lookup", "releaseQuiet", "failQuiet"}

SideBySide(c) ==
  \/ pc[c] = "approve" /\ status[cur[c]] # "REQUESTED"
  \/ /\ pc[c] \in {"releaseQuiet", "failQuiet"}
     /\ \E d \in Admins \ {c} : cur[d] = cur[c] /\ pc[d] \in GivingUp

\* What happens beside the steps of a caller at work.
Elsewhere ==
  \/ \E r \in Records : \/ CreateRefund(r)
                        \/ \E c \in Admins : r \in desk[c] /\ ProcessRefund(c, r)
                        \/ \E j \in Jobs : ReconcileRefund(j, r)
  \/ \E r \in Requests, c \in Admins : r \in desk[c] /\ ApproveRequest(c, r)
  \/ \E r \in Refundable : ProviderActsLate(r) \/ QuietPasses(r)
  \/ \E c \in Callers : DbError(c) \/ Crash(c)

Next ==
  /\ UNCHANGED desk
  /\ \/ Elsewhere /\ UNCHANGED sideBySide
     \/ \E c \in Callers : CallerStep(c) /\ sideBySide' = (sideBySide \/ SideBySide(c))

\* A running caller goes on; the job comes round every 2 minutes to the oldest
\* parked records, and the provider answers a lookup sooner or later.
Fairness ==
  /\ \A c \in Callers : WF_codeVars(CallerStep(c))
  /\ \A r \in Records : \A j \in Jobs : SF_codeVars(ReconcileRefund(j, r))
  /\ \A j \in Jobs : \A r \in Records : SF_codeVars(Lookup(j) /\ cur[j] = r)
  /\ \A r \in Refundable : WF_codeVars(ProviderActsLate(r))

Spec == Init /\ [][Next]_vars
FairSpec == Spec /\ Fairness

-----------------------------------------------------------------------------
(* Properties.                                                             *)

\* The units of money of all refunds, when so much of each is paid: a sum is their number.
Units(paid) == UNION {{r} \X (1..paid[r]) : r \in Refundable}

SentTotal == Cardinality(Units([r \in Refundable |-> sent[r] * Amount[r]]))

\* c has claimed refund r and not yet recorded what the provider answered.
Dispatching(c, r) == cur[c] = r /\ via[c] = "process" /\ pc[c] # "claim"

\* Two concurrent process calls never both hold a refund between claiming it
\* and recording the provider's answer, whatever the job or another request
\* does to the record meanwhile (fulfilment.service.ts:2110).
OneDispatcher == \A r \in Records : \A c, d \in Callers :
  Dispatching(c, r) /\ Dispatching(d, r) => c = d

\* A refund is recorded as done only if the provider made it: no rejection,
\* lost answer, failed lookup or crash becomes a success.
RefundedIsReal == \A r \in Refundable : status[r] = "REFUNDED" => sent[r] > 0

\* A refund recorded as done is never reopened, so it is never retried.
RefundedIsFinal == [][\A r \in Records :
    status[r] = "REFUNDED" => status'[r] = "REFUNDED"]_vars

\* One key, one refund: no retry after a lost answer pays twice.
OneRefundPerKey == \A r \in Refundable : sent[r] <= 1

\* Each refund reaches the provider once however many requests of the staff
\* and ticks of the job have it in hand, two process calls at once included
\* (fulfilment.service.ts:2109), unless the database throws between a refund the
\* provider made and its record, which is then taken for a refusal and tried
\* again, or two requests approve one refund request or give one parked refund
\* up side by side.
OneRefundUnlessError == dbErrors = 0 /\ ~sideBySide => OneRefundPerKey

\* Money that left is reserved on the payment, so that the balance other
\* refunds are checked against is never too high, whatever any number of
\* requests and jobs do at once, unless somebody dies between giving a parked
\* refund's reservation back and recording that (ReleaseQuiet, FailQuiet) or
\* two give it back side by side.
ReservationCovers == crashes = 0 /\ ~sideBySide => SentTotal <= reserved

\* Without the second exception it is false.
ReservationAlwaysCovers == crashes = 0 => SentTotal <= reserved

\* Refunds together never pay out more than was captured.
BalanceNotDoubleSpent == SentTotal <= Captured

\* A refund is marked FAILED, and so may be tried again, only when the provider
\* has not made it and is not about to.
FailedIsUnsent == \A r \in Records : status[r] = "FAILED" => sent[r] = 0 /\ late[r] = 0

\* The order reads REFUNDED only when the whole captured amount went back.
OrderRefundedInFull == orderRefunded => SentTotal >= Captured

\* A refund the provider made whose answer was lost is recorded in the end,
\* unless one of two requests that gave it up side by side came to record that
\* only after the retry of the other was parked (fulfilment.service.ts:2106).
ParkedIsRecorded == \A r \in Records :
  status[r] = "PROVIDER_UNKNOWN" /\ sent[r] > 0 ~> status[r] = "REFUNDED" \/ sideBySide

\* Without that exception it is false.
ParkedIsAlwaysRecorded == \A r \in Records :
  status[r] = "PROVIDER_UNKNOWN" /\ sent[r] > 0 ~> status[r] = "REFUNDED"

\* A refund handed to the provider does not stay "being processed" for ever.
PendingIsResolved == \A r \in Records :
  status[r] = "PROVIDER_PENDING" ~> status[r] # "PROVIDER_PENDING"

(* The constants of the runs: every refund is half of the captured amount,  *)
(* or all of it, and the staff are all about the records, or all about the  *)
(* requests, or one of them is about everything.                            *)
Halves == [r \in Refundable |-> 1]
DesksOfRuns ==
  LET one == CHOOSE a \in Admins : TRUE IN
  {[a \in Admins |-> Records], [a \in Admins |-> Requests],
   [a \in Admins |-> IF a = one THEN Refundable ELSE {}]}
=============================================================================
