---------------------------- MODULE RefundsProofs ----------------------------
(***************************************************************************)
(* Proofs about Refunds for every set of records, requests and callers,    *)
(* every amount, every behaviour of the provider and every number of       *)
(* tries, crashes and failing writes.                                      *)
(***************************************************************************)
EXTENDS Refunds, FiniteSetTheorems, TLAPS

Settling == {"settleRead", "settleWrite", "finalize", "markRefunded"}

\* The steps open to a caller that came to a refund in a given way.
CameBy(step, how) ==
  /\ step \in {"lookup", "releaseQuiet", "failQuiet"} => how = "lookup"
  /\ step \in {"claim", "markFailed", "markUnknown"} => how = "process"
  /\ step \in {"approve", "markRefunded"} => how = "approve"
  /\ step \in {"reserve", "call", "release"} => how # "lookup"
  /\ step = "finalize" => how # "approve"

\* Which step a caller is at tells how it came there and what it holds.
CallerInv == \A c \in Callers :
  /\ pc[c] = "idle" => via[c] = "none"
  /\ pc[c] # "idle" => /\ CameBy(pc[c], via[c])
                       /\ \/ via[c] \in {"process", "lookup"} /\ cur[c] \in Records
                          \/ via[c] = "approve" /\ cur[c] \in Requests

\* A caller settles a refund only after the provider made it.
SentInv == \A c \in Callers : pc[c] \in Settling => sent[cur[c]] > 0

\* While a claimed refund is at the provider nobody else can move its record,
\* except to complete it.
PendingInv == \A c \in Callers, r \in Records :
  Dispatching(c, r) => status[r] \in {"PROVIDER_PENDING", "REFUNDED"}

\* The inductive invariant.  OneDispatcher needs PendingInv, or a second claim
\* could succeed; RefundedIsReal needs SentInv, or a settlement could be false.
IInv == CodeTypeOK /\ CallerInv /\ SentInv /\ PendingInv /\ OneDispatcher /\ RefundedIsReal

LEMMA InitIInv == Init => IInv
<1> SUFFICES ASSUME Init PROVE IInv
  OBVIOUS
<1>1. CodeTypeOK
  <2>1. status \in [Refundable -> Statuses] BY DEF Init, Statuses
  <2>2. reserved \in 0..Captured BY AmountAssumption DEF Init
  <2>3. pc \in [Callers -> Steps] BY DEF Init, Steps
  <2> QED BY <2>1, <2>2, <2>3 DEF Init, CodeTypeOK
<1>2. CallerInv /\ SentInv /\ PendingInv /\ OneDispatcher
  BY DEF Init, CallerInv, SentInv, Settling, PendingInv, OneDispatcher, Dispatching
<1>3. RefundedIsReal
  BY DEF Init, RefundedIsReal
<1> QED BY <1>1, <1>2, <1>3 DEF IInv

\* A caller that is not idle holds a refund, whose amount is a number.
LEMMA HeldRefund ==
  ASSUME CodeTypeOK, CallerInv, NEW c \in Callers, pc[c] # "idle"
  PROVE  cur[c] \in Refundable /\ Amount[cur[c]] \in 1..Captured
<1>1. cur[c] \in Refundable BY DEF CallerInv, Refundable
<1> QED BY <1>1, AmountAssumption

\* The part of CodeTypeOK about callers, and the two ways a step moves a caller.
CallersTyped ==
  /\ pc \in [Callers -> Steps]
  /\ cur \in [Callers -> Refundable \cup {None}]
  /\ via \in [Callers -> {"none", "process", "lookup", "approve"}]
  /\ old \in [Callers -> BOOLEAN] /\ full \in [Callers -> BOOLEAN]

LEMMA LeaveTyped ==
  ASSUME CallersTyped, NEW c \in Callers, Leave(c) PROVE CallersTyped'
  BY DEF CallersTyped, Leave, Steps

LEMMA GotoTyped ==
  ASSUME CallersTyped, NEW c \in Callers, NEW s \in Steps, Goto(c, s), Stay
  PROVE  CallersTyped'
  BY DEF CallersTyped, Goto, Stay

\* Giving a reservation back never leaves less than nothing.
LEMMA ReleaseTyped ==
  ASSUME reserved \in 0..Captured, NEW r \in Refundable, Release(r)
  PROVE  reserved' \in 0..Captured
<1>1. Captured \in Nat /\ Amount[r] \in 1..Captured BY AmountAssumption
<1> QED BY <1>1 DEF Release

LEMMA NextType == CodeTypeOK /\ CallerInv /\ [Next]_vars => CodeTypeOK'
<1> SUFFICES ASSUME CodeTypeOK, CallerInv, [Next]_vars PROVE CodeTypeOK'
  OBVIOUS
<1> USE DEF CodeTypeOK, Statuses, Steps, recordVars, payVars, providerVars, callerVars, budgetVars,
            Goto, Leave, Stay, SetStatus, MoveStatus
<1>1. ASSUME NEW r \in Refundable, CreateRefund(r) \/ ProviderActsLate(r) \/ QuietPasses(r)
      PROVE CodeTypeOK'
  <2>1. CASE CreateRefund(r) BY <2>1 DEF CreateRefund
  <2>2. CASE ProviderActsLate(r)
    <3>1. sent' \in [Refundable -> Nat] /\ late' \in [Refundable -> Nat]
      BY <2>2 DEF ProviderActsLate
    <3> QED BY <2>2, <3>1 DEF ProviderActsLate
  <2>3. CASE QuietPasses(r) BY <2>3 DEF QuietPasses
  <2> QED BY <1>1, <2>1, <2>2, <2>3
<1>2. ASSUME NEW c \in Callers, NEW r \in Refundable,
             ProcessRefund(c, r) \/ ReconcileRefund(c, r) \/ ApproveRequest(c, r)
      PROVE CodeTypeOK'
  BY <1>2 DEF ProcessRefund, ReconcileRefund, ApproveRequest, Enter
<1>3. ASSUME NEW c \in Callers, Crash(c) \/ DbError(c) PROVE CodeTypeOK'
  <2>1. CASE Crash(c) BY <2>1 DEF Crash
  <2>2. CASE DbError(c) /\ via[c] = "process" BY <2>2 DEF DbError
  <2>3. CASE DbError(c) /\ via[c] # "process"
    <3>1. CallersTyped'
      <4>1. Leave(c) BY <2>3 DEF DbError
      <4> QED BY <4>1, LeaveTyped DEF CallersTyped
    <3> QED BY <2>3, <3>1 DEF DbError, CallersTyped
  <2> QED BY <1>3, <2>1, <2>2, <2>3
<1>4. ASSUME NEW c \in Callers, CallerStep(c) PROVE CodeTypeOK'
  <2>0. pc[c] # "idle"
    BY <1>4 DEF CallerStep, Lookup, LookupThen, LookupFails, ReleaseQuiet, FailQuiet, Claim,
         SaveApproval, Reserve, CallProvider, CallThen, ReleaseRejected, MarkFailed, MarkUnknown,
         SettleRead, SettleWrite, MarkRefunded, Finalize, FinalizeFrom
  <2>r. cur[c] \in Refundable /\ Amount[cur[c]] \in 1..Captured
    BY <2>0, HeldRefund
  <2>1. CASE Lookup(c) \/ LookupFails(c)
    BY <2>1 DEF Lookup, LookupThen, LookupFails
  <2>2. CASE ReleaseQuiet(c) \/ ReleaseRejected(c)
    <3>1. Release(cur[c])
      BY <2>2 DEF ReleaseQuiet, ReleaseRejected
    <3>2. reserved' \in 0..Captured
      BY <3>1, <2>r, ReleaseTyped
    <3>3. CallersTyped'
      <4>1. Leave(c) \/ \E s \in {"failQuiet", "markFailed"} : Goto(c, s) /\ Stay
        BY <2>2 DEF ReleaseQuiet, ReleaseRejected, Failed
      <4> QED BY <4>1, LeaveTyped, GotoTyped DEF CallersTyped
    <3> QED BY <2>2, <3>2, <3>3 DEF ReleaseQuiet, ReleaseRejected, CallersTyped
  <2>3. CASE FailQuiet(c) \/ MarkFailed(c) \/ MarkUnknown(c)
    <3>1. Leave(c) BY <2>3 DEF FailQuiet, MarkFailed, MarkUnknown
    <3>2. CallersTyped' BY <3>1, LeaveTyped DEF CallersTyped
    <3>3. status' \in [Refundable -> Statuses] /\ quiet' \in [Refundable -> BOOLEAN]
      BY <2>3, <2>r DEF FailQuiet, MarkFailed, MarkUnknown
    <3> QED BY <2>3, <3>2, <3>3 DEF FailQuiet, MarkFailed, MarkUnknown, CallersTyped
  <2>4. CASE Claim(c) \/ SaveApproval(c)
    <3>1. CASE Claim(c) /\ status[cur[c]] \in {"REQUESTED", "FAILED"}
      <4>1. CallersTyped'
        <5>1. Goto(c, "reserve") /\ Stay BY <3>1 DEF Claim
        <5> QED BY <5>1, GotoTyped DEF CallersTyped
      <4>2. status' \in [Refundable -> Statuses] /\ quiet' \in [Refundable -> BOOLEAN]
        BY <3>1, <2>r DEF Claim
      <4>3. tries' \in [Refundable -> Nat]
        BY <3>1, <2>r DEF Claim
      <4> QED BY <3>1, <4>1, <4>2, <4>3 DEF Claim, CallersTyped
    <3>2. CASE Claim(c) /\ status[cur[c]] \notin {"REQUESTED", "FAILED"}
      BY <3>2, <2>r DEF Claim
    <3>3. CASE SaveApproval(c)
      BY <3>3, <2>r DEF SaveApproval
    <3> QED BY <2>4, <3>1, <3>2, <3>3
  <2>5. CASE Reserve(c)
    <3>1. reserved' \in 0..Captured
      BY <2>5, <2>r DEF Reserve
    <3> QED BY <2>5, <3>1 DEF Reserve, Failed
  <2>6. ASSUME NEW reply \in Replies, CallProvider(c, reply) PROVE CodeTypeOK'
    <3>1. sent' \in [Refundable -> Nat] /\ late' \in [Refundable -> Nat]
      BY <2>6, <2>r DEF CallProvider, CallThen
    <3> QED BY <2>6, <3>1 DEF CallProvider, CallThen
  <2>7. CASE SettleRead(c) \/ SettleWrite(c)
    <3>1. CASE SettleRead(c)
      <4>1. full' \in [Callers -> BOOLEAN] BY <3>1 DEF SettleRead
      <4> QED BY <3>1, <4>1 DEF SettleRead
    <3>2. CASE SettleWrite(c)
      BY <3>2 DEF SettleWrite
    <3> QED BY <2>7, <3>1, <3>2
  <2>8. CASE MarkRefunded(c) \/ Finalize(c)
    BY <2>8, <2>r DEF MarkRefunded, Finalize, FinalizeFrom
  <2> QED BY <1>4, <2>1, <2>2, <2>3, <2>4, <2>5, <2>6, <2>7, <2>8 DEF CallerStep
<1>5. CASE UNCHANGED vars
  BY <1>5 DEF vars, codeVars
<1>6. QED
  BY <1>1, <1>2, <1>3, <1>4, <1>5 DEF Next, Elsewhere, Refundable, Callers

-----------------------------------------------------------------------------
(* What a caller's move leaves true of the callers.                        *)

SentGrows == \A r \in Refundable : sent'[r] >= sent[r]

LEMMA LeaveKeeps ==
  ASSUME CodeTypeOK, CallerInv, SentInv, OneDispatcher, SentGrows, CodeTypeOK',
         NEW c \in Callers, Leave(c)
  PROVE  /\ CallerInv' /\ SentInv' /\ OneDispatcher'
         /\ \A d \in Callers, r \in Records : Dispatching(d, r)' => Dispatching(d, r) /\ d # c
<1> USE DEF Leave, CodeTypeOK
<1>1. CallerInv' BY DEF CallerInv, CameBy
<1>2. SentInv'
  <2> SUFFICES ASSUME NEW d \in Callers, pc'[d] \in Settling PROVE sent'[cur'[d]] > 0
    BY DEF SentInv
  <2>1. pc[d] = pc'[d] /\ cur[d] = cur'[d] /\ pc[d] # "idle"
    BY DEF Settling
  <2>2. cur[d] \in Refundable BY <2>1, HeldRefund
  <2> QED BY <2>1, <2>2 DEF SentInv, SentGrows
<1>3. \A d \in Callers, r \in Records : Dispatching(d, r)' => Dispatching(d, r) /\ d # c
  BY DEF Dispatching
<1> QED BY <1>1, <1>2, <1>3 DEF OneDispatcher

LEMMA GotoKeeps ==
  ASSUME CodeTypeOK, CallerInv, SentInv, OneDispatcher, SentGrows, CodeTypeOK',
         NEW c \in Callers, NEW s \in Steps \ {"idle", "claim"}, pc[c] \notin {"idle", "claim"},
         Goto(c, s), UNCHANGED <<cur, via>>, CameBy(s, via[c]),
         s \in Settling => sent'[cur[c]] > 0
  PROVE  /\ CallerInv' /\ SentInv' /\ OneDispatcher'
         /\ \A d \in Callers, r \in Records : Dispatching(d, r)' => Dispatching(d, r)
<1> USE DEF Goto, CodeTypeOK
<1>1. CallerInv'
  <2> SUFFICES ASSUME NEW d \in Callers
               PROVE  /\ pc'[d] = "idle" => via'[d] = "none"
                      /\ pc'[d] # "idle" =>
                           /\ CameBy(pc'[d], via'[d])
                           /\ \/ via'[d] \in {"process", "lookup"} /\ cur'[d] \in Records
                              \/ via'[d] = "approve" /\ cur'[d] \in Requests
    BY DEF CallerInv, CameBy
  <2>1. CASE d = c BY <2>1 DEF CallerInv
  <2>2. CASE d # c BY <2>2 DEF CallerInv
  <2> QED BY <2>1, <2>2
<1>2. SentInv'
  <2> SUFFICES ASSUME NEW d \in Callers, pc'[d] \in Settling PROVE sent'[cur[d]] > 0
    BY DEF SentInv
  <2>1. CASE d = c BY <2>1
  <2>2. CASE d # c
    <3>1. pc[d] = pc'[d] /\ pc[d] # "idle" BY <2>2 DEF Settling
    <3>2. cur[d] \in Refundable BY <3>1, HeldRefund
    <3> QED BY <3>1, <3>2 DEF SentInv, SentGrows
  <2> QED BY <2>1, <2>2
<1>3. \A d \in Callers, r \in Records : Dispatching(d, r)' => Dispatching(d, r)
  BY DEF Dispatching
<1> QED BY <1>1, <1>2, <1>3 DEF OneDispatcher

-----------------------------------------------------------------------------
(* The rest of the invariant.                                              *)

\* A step that leaves the records alone, or moves one that nobody dispatches
\* after it, keeps what is known of records at the provider.
LEMMA RecordsKeep ==
  ASSUME CodeTypeOK, CodeTypeOK', PendingInv, RefundedIsReal, SentGrows,
         \A d \in Callers, r \in Records : Dispatching(d, r)' => Dispatching(d, r),
         \A r \in Refundable : status'[r] = "REFUNDED" => status[r] = "REFUNDED" \/ sent'[r] > 0,
         \A r \in Records : \/ status'[r] = status[r]
                            \/ status'[r] \in {"PROVIDER_PENDING", "REFUNDED"}
                            \/ \A d \in Callers : ~Dispatching(d, r)'
  PROVE  PendingInv' /\ RefundedIsReal'
<1>1. PendingInv' BY DEF PendingInv
<1>2. RefundedIsReal'
  <2> SUFFICES ASSUME NEW r \in Refundable, status'[r] = "REFUNDED" PROVE sent'[r] > 0
    BY DEF RefundedIsReal
  <2> QED BY DEF RefundedIsReal, SentGrows, CodeTypeOK
<1> QED BY <1>1, <1>2

\* A caller that comes in.
LEMMA EnterKeeps ==
  ASSUME IInv, CodeTypeOK', NEW c \in Callers, NEW r \in Refundable, NEW s \in Steps, NEW how,
         Enter(c, r, s, how), s \notin Settling \cup {"idle"}, CameBy(s, how),
         how = "process" => s = "claim",
         \/ how \in {"process", "lookup"} /\ r \in Records
         \/ how = "approve" /\ r \in Requests
  PROVE  IInv'
<1> USE DEF IInv, CodeTypeOK, Enter, recordVars, payVars, providerVars, budgetVars
<1>1. CallerInv'
  <2> SUFFICES ASSUME NEW d \in Callers
               PROVE  /\ pc'[d] = "idle" => via'[d] = "none"
                      /\ pc'[d] # "idle" =>
                           /\ CameBy(pc'[d], via'[d])
                           /\ \/ via'[d] \in {"process", "lookup"} /\ cur'[d] \in Records
                              \/ via'[d] = "approve" /\ cur'[d] \in Requests
    BY DEF CallerInv, CameBy
  <2>1. CASE d = c BY <2>1
  <2>2. CASE d # c BY <2>2 DEF CallerInv
  <2> QED BY <2>1, <2>2
<1>2. SentInv' BY DEF SentInv
<1>3. \A d \in Callers, q \in Records : Dispatching(d, q)' => Dispatching(d, q)
  BY DEF Dispatching
<1>4. OneDispatcher' /\ PendingInv' BY <1>3 DEF OneDispatcher, PendingInv
<1>5. RefundedIsReal' BY DEF RefundedIsReal
<1> QED BY <1>1, <1>2, <1>4, <1>5

\* A caller that leaves, or goes on to another step with the same refund, and
\* takes a record out of the provider's hands only if it put it there.
LEMMA StepKeeps ==
  ASSUME IInv, CodeTypeOK', SentGrows, NEW c \in Callers,
         \/ Leave(c)
         \/ \E s \in Steps \ {"idle", "claim"} :
              /\ pc[c] \notin {"idle", "claim"} /\ Goto(c, s) /\ UNCHANGED <<cur, via>>
              /\ CameBy(s, via[c]) /\ (s \in Settling => sent'[cur[c]] > 0),
         \A r \in Refundable : status'[r] = "REFUNDED" => status[r] = "REFUNDED" \/ sent'[r] > 0,
         \A r \in Records : \/ status'[r] = status[r]
                            \/ status'[r] \in {"PROVIDER_PENDING", "REFUNDED"}
                            \/ status[r] \notin {"PROVIDER_PENDING", "REFUNDED"}
                            \/ Leave(c) /\ Dispatching(c, r)
  PROVE  IInv'
<1>1. /\ CallerInv' /\ SentInv' /\ OneDispatcher'
      /\ \A d \in Callers, r \in Records : Dispatching(d, r)' => Dispatching(d, r)
  BY LeaveKeeps, GotoKeeps DEF IInv
<1>2. \A r \in Records : \/ status'[r] = status[r]
                         \/ status'[r] \in {"PROVIDER_PENDING", "REFUNDED"}
                         \/ \A d \in Callers : ~Dispatching(d, r)'
  <2> SUFFICES ASSUME NEW r \in Records, NEW d \in Callers, Dispatching(d, r)'
               PROVE  \/ status'[r] = status[r]
                      \/ status'[r] \in {"PROVIDER_PENDING", "REFUNDED"}
    OBVIOUS
  <2>1. status[r] \in {"PROVIDER_PENDING", "REFUNDED"}
    BY <1>1 DEF IInv, PendingInv
  <2>2. ~(Leave(c) /\ Dispatching(c, r))
    <3>1. Leave(c) => Dispatching(d, r) /\ d # c
      BY LeaveKeeps DEF IInv
    <3> QED BY <3>1 DEF IInv, OneDispatcher
  <2> QED BY <2>1, <2>2
<1>3. PendingInv' /\ RefundedIsReal'
  BY <1>1, <1>2, RecordsKeep DEF IInv
<1> QED BY <1>1, <1>3 DEF IInv

LEMMA NextIInv == IInv /\ [Next]_vars => IInv'
<1> SUFFICES ASSUME IInv, [Next]_vars PROVE IInv'
  OBVIOUS
<1>t. CodeTypeOK /\ CodeTypeOK' /\ CallerInv
  BY NextType DEF IInv
<1> USE <1>t
<1>1. ASSUME NEW r \in Refundable, CreateRefund(r) \/ ProviderActsLate(r) \/ QuietPasses(r)
      PROVE IInv'
  <2> USE DEF recordVars, payVars, providerVars, callerVars, budgetVars, IInv
  <2>1. SentGrows
    BY <1>1 DEF CreateRefund, ProviderActsLate, QuietPasses, SentGrows, SetStatus, CodeTypeOK
  <2>2. UNCHANGED <<pc, cur, via>>
    BY <1>1 DEF CreateRefund, ProviderActsLate, QuietPasses, SetStatus
  <2>3. CallerInv' /\ OneDispatcher'
    BY <2>2 DEF CallerInv, CameBy, OneDispatcher, Dispatching
  <2>4. SentInv'
    <3> SUFFICES ASSUME NEW d \in Callers, pc[d] \in Settling PROVE sent'[cur[d]] > 0
      BY <2>2 DEF SentInv
    <3>1. cur[d] \in Refundable BY HeldRefund DEF Settling
    <3> QED BY <2>1, <3>1 DEF SentInv, SentGrows, CodeTypeOK
  <2>5. \A q \in Refundable : status'[q] = "REFUNDED" => status[q] = "REFUNDED"
    BY <1>1 DEF CreateRefund, ProviderActsLate, QuietPasses, SetStatus, CodeTypeOK
  <2>6. \A q \in Refundable : status'[q] = status[q] \/ status[q] = "NONE"
    BY <1>1 DEF CreateRefund, ProviderActsLate, QuietPasses, SetStatus, CodeTypeOK
  <2>7. PendingInv'
    BY <2>2, <2>6 DEF PendingInv, Dispatching, Refundable
  <2>8. RefundedIsReal'
    BY <2>1, <2>5 DEF RefundedIsReal, SentGrows, CodeTypeOK
  <2> QED BY <2>3, <2>4, <2>7, <2>8
<1>2. ASSUME NEW c \in Callers, NEW r \in Records, ProcessRefund(c, r) \/ ReconcileRefund(c, r)
      PROVE IInv'
  <2>1. r \in Refundable BY DEF Refundable
  <2>2. Enter(c, r, "lookup", "lookup") \/ Enter(c, r, "claim", "process")
    BY <1>2 DEF ProcessRefund, ReconcileRefund
  <2>3. CASE Enter(c, r, "lookup", "lookup")
    BY <2>1, <2>3, EnterKeeps DEF Steps, Settling, CameBy
  <2>4. CASE Enter(c, r, "claim", "process")
    BY <2>1, <2>4, EnterKeeps DEF Steps, Settling, CameBy
  <2> QED BY <2>2, <2>3, <2>4
<1>3. ASSUME NEW c \in Callers, NEW r \in Requests, ApproveRequest(c, r) PROVE IInv'
  <2>1. r \in Refundable BY DEF Refundable
  <2> QED BY <1>3, <2>1, EnterKeeps DEF ApproveRequest, Steps, Settling, CameBy
<1>4. CASE UNCHANGED vars
  BY <1>4 DEF vars, codeVars, recordVars, payVars, providerVars, callerVars, budgetVars, IInv, CodeTypeOK,
     CallerInv, CameBy, SentInv, PendingInv, OneDispatcher, Dispatching, RefundedIsReal
<1>5. ASSUME NEW c \in Callers, CallerStep(c) \/ Crash(c) \/ DbError(c) PROVE IInv'
  <2>0. pc[c] # "idle"
    BY <1>5 DEF CallerStep, Lookup, LookupThen, LookupFails, ReleaseQuiet, FailQuiet, Claim,
         SaveApproval, Reserve, CallProvider, CallThen, ReleaseRejected, MarkFailed, MarkUnknown,
         SettleRead, SettleWrite, MarkRefunded, Finalize, FinalizeFrom, Crash, DbError
  <2>r. cur[c] \in Refundable /\ CameBy(pc[c], via[c]) /\ via[c] \in {"process", "lookup", "approve"}
    BY <2>0, HeldRefund DEF CallerInv
  <2> DEFINE Onward == \/ Leave(c)
                       \/ \E s \in Steps \ {"idle", "claim"} :
                            /\ pc[c] \notin {"idle", "claim"} /\ Goto(c, s) /\ UNCHANGED <<cur, via>>
                            /\ CameBy(s, via[c]) /\ (s \in Settling => sent'[cur[c]] > 0)
  <2> USE DEF recordVars, payVars, providerVars, budgetVars, Stay
  \* Steps that touch neither the records nor the provider.
  <2>1. ASSUME UNCHANGED <<status, sent>>, Onward PROVE IInv'
    <3>1. SentGrows BY <2>1 DEF SentGrows, CodeTypeOK
    <3> QED BY <2>1, <3>1, StepKeeps
  <2>2. CASE Lookup(c) \/ LookupFails(c)
    <3>1. UNCHANGED <<status, sent>>
      BY <2>2 DEF Lookup, LookupThen, LookupFails
    <3>2. Onward
      BY <2>2, <2>r DEF Lookup, LookupThen, LookupFails, CameBy, Steps, Settling
    <3> QED BY <2>1, <3>1, <3>2
  <2>3. CASE ReleaseQuiet(c) \/ ReleaseRejected(c) \/ Reserve(c)
    <3>1. UNCHANGED <<status, sent>>
      BY <2>3 DEF ReleaseQuiet, ReleaseRejected, Reserve
    <3>2. Onward
      BY <2>3, <2>r DEF ReleaseQuiet, ReleaseRejected, Reserve, Failed, CameBy, Steps, Settling
    <3> QED BY <2>1, <3>1, <3>2
  <2>4. CASE SettleRead(c) \/ SettleWrite(c)
    <3>1. UNCHANGED <<status, sent>>
      BY <2>4 DEF SettleRead, SettleWrite
    <3>2. sent[cur[c]] > 0
      BY <2>4 DEF SettleRead, SettleWrite, IInv, SentInv, Settling
    <3>3. Onward
      BY <2>4, <2>r, <3>1, <3>2 DEF SettleRead, SettleWrite, CameBy, Steps
    <3> QED BY <2>1, <3>1, <3>3
  <2>5. CASE Crash(c) \/ DbError(c)
    <3>1. UNCHANGED <<status, sent>>
      BY <2>5 DEF Crash, DbError
    <3>2. Onward
      BY <2>5, <2>r DEF Crash, DbError, CameBy, Steps, Settling
    <3> QED BY <2>1, <3>1, <3>2
  <2>6. ASSUME NEW reply \in Replies, CallProvider(c, reply) PROVE IInv'
    <3>1. SentGrows /\ UNCHANGED status
      BY <2>6, <2>r DEF CallProvider, CallThen, SentGrows, CodeTypeOK
    <3>2. reply = "ok" => sent'[cur[c]] > 0
      BY <2>6, <2>r DEF CallProvider, CallThen, CodeTypeOK
    <3>3. Onward
      BY <2>6, <2>r, <3>2 DEF CallProvider, CallThen, CameBy, Steps, Settling
    <3> QED BY <3>1, <3>3, StepKeeps
  <2>7. CASE FailQuiet(c) \/ MarkFailed(c) \/ MarkUnknown(c)
    <3>1. SentGrows /\ Leave(c)
      BY <2>7 DEF FailQuiet, MarkFailed, MarkUnknown, SentGrows, CodeTypeOK
    <3>2. \A r \in Refundable :
            \/ status'[r] = status[r]
            \/ status[r] = "PROVIDER_UNKNOWN" /\ status'[r] = "FAILED"
            \/ r = cur[c] /\ via[c] = "process" /\ pc[c] # "claim" /\ status'[r] # "REFUNDED"
      BY <2>7, <2>r DEF FailQuiet, MarkFailed, MarkUnknown, MoveStatus, SetStatus, CameBy, CodeTypeOK
    <3>3. \A r \in Records : \/ status'[r] = status[r]
                             \/ status[r] \notin {"PROVIDER_PENDING", "REFUNDED"}
                             \/ Leave(c) /\ Dispatching(c, r)
      BY <3>1, <3>2 DEF Dispatching, Refundable
    <3>4. \A r \in Refundable : status'[r] = "REFUNDED" => status[r] = "REFUNDED"
      BY <3>2
    <3> QED BY <3>1, <3>3, <3>4, StepKeeps
  <2>8. CASE MarkRefunded(c) \/ Finalize(c)
    <3>1. SentGrows /\ Leave(c)
      BY <2>8 DEF MarkRefunded, Finalize, FinalizeFrom, SentGrows, CodeTypeOK
    <3>2. sent'[cur[c]] > 0
      BY <2>8 DEF MarkRefunded, Finalize, FinalizeFrom, IInv, SentInv, Settling
    <3>3. \A r \in Refundable : status'[r] = status[r] \/ (r = cur[c] /\ status'[r] = "REFUNDED")
      <4>1. CASE MarkRefunded(c)
        BY <4>1, <2>r DEF MarkRefunded, SetStatus, CodeTypeOK
      <4>2. CASE Finalize(c)
        BY <4>2, <2>r DEF Finalize, FinalizeFrom, MoveStatus, SetStatus, CodeTypeOK
      <4> QED BY <2>8, <4>1, <4>2
    <3> QED BY <3>1, <3>2, <3>3, StepKeeps DEF Refundable
  <2>9. CASE SaveApproval(c)
    <3>1. SentGrows BY <2>9 DEF SaveApproval, SentGrows, CodeTypeOK
    <3>2. Onward
      BY <2>9, <2>r DEF SaveApproval, CameBy, Steps, Settling
    <3>3. \A r \in Refundable : status'[r] \in {status[r], "PROVIDER_PENDING"}
      BY <2>9, <2>r DEF SaveApproval, SetStatus, CodeTypeOK
    <3> QED BY <3>1, <3>2, <3>3, StepKeeps DEF Refundable
  <2>10. CASE Claim(c) /\ status[cur[c]] \notin {"REQUESTED", "FAILED"}
    <3>1. UNCHANGED <<status, sent>> /\ Leave(c) BY <2>10 DEF Claim
    <3> QED BY <2>1, <3>1
  <2>11. CASE Claim(c) /\ status[cur[c]] \in {"REQUESTED", "FAILED"}
    <3>1. /\ UNCHANGED <<cur, via, sent>> /\ pc' = [pc EXCEPT ![c] = "reserve"]
          /\ status' = [status EXCEPT ![cur[c]] = "PROVIDER_PENDING"]
          /\ pc[c] = "claim" /\ via[c] = "process" /\ cur[c] \in Records
      BY <2>11, <2>r DEF Claim, SetStatus, Goto, CallerInv, CameBy
    <3>2. \A d \in Callers : ~Dispatching(d, cur[c])
      BY <2>11, <3>1 DEF IInv, PendingInv
    <3>3. CallerInv'
      <4> SUFFICES ASSUME NEW d \in Callers
                   PROVE  /\ pc'[d] = "idle" => via'[d] = "none"
                          /\ pc'[d] # "idle" =>
                               /\ CameBy(pc'[d], via'[d])
                               /\ \/ via'[d] \in {"process", "lookup"} /\ cur'[d] \in Records
                                  \/ via'[d] = "approve" /\ cur'[d] \in Requests
        BY DEF CallerInv, CameBy
      <4>1. CASE d = c BY <3>1, <4>1 DEF CodeTypeOK, CameBy
      <4>2. CASE d # c BY <3>1, <4>2 DEF CodeTypeOK, CallerInv
      <4> QED BY <4>1, <4>2
    <3>4. SentInv'
      BY <3>1 DEF IInv, SentInv, Settling, CodeTypeOK
    <3>5. \A d \in Callers, r \in Records :
            Dispatching(d, r)' => Dispatching(d, r) \/ (d = c /\ r = cur[c])
      BY <3>1 DEF Dispatching, CodeTypeOK
    <3>6. OneDispatcher'
      BY <3>2, <3>5 DEF IInv, OneDispatcher
    <3>7. PendingInv'
      BY <3>1, <3>2, <3>5 DEF IInv, PendingInv, CodeTypeOK, Refundable
    <3>8. RefundedIsReal'
      BY <3>1 DEF IInv, RefundedIsReal, CodeTypeOK
    <3> QED BY <3>3, <3>4, <3>6, <3>7, <3>8 DEF IInv
  <2> QED BY <1>5, <2>2, <2>3, <2>4, <2>5, <2>6, <2>7, <2>8, <2>9, <2>10, <2>11 DEF CallerStep
<1> QED BY <1>1, <1>2, <1>3, <1>4, <1>5 DEF Next, Elsewhere, Callers, Refundable

-----------------------------------------------------------------------------
(* The theorems.                                                           *)

\* IInv holds in every reachable state.
THEOREM RefundsInvariant == Spec => []IInv
<1>1. Init => IInv BY InitIInv
<1>2. IInv /\ [Next]_vars => IInv' BY NextIInv
<1> QED BY <1>1, <1>2, PTL DEF Spec

\* Every record, payment and caller stays in its domain; in particular the
\* reserved amount stays between nothing and the captured amount however
\* refunds, releases and retries interleave.
THEOREM RefundsTypeCorrect == Spec => []TypeOK
<1> DEFINE HistoryTyped == desk \in Desks /\ sideBySide \in BOOLEAN
<1>1. Init => HistoryTyped BY DEF Init
<1>2. HistoryTyped /\ [Next]_vars => HistoryTyped'
  BY DEF Next, vars
<1>3. IInv /\ HistoryTyped => TypeOK BY DEF IInv, TypeOK
<1> HIDE DEF HistoryTyped
<1> QED BY <1>1, <1>2, <1>3, RefundsInvariant, PTL DEF Spec

\* No two calls of processRefund ever hold the same refund between claiming it
\* and recording what the provider answered.
THEOREM RefundsOneDispatcher == Spec => []OneDispatcher
<1>1. IInv => OneDispatcher BY DEF IInv
<1> QED BY <1>1, RefundsInvariant, PTL

\* A refund recorded as done was made by the provider.
THEOREM RefundsRefundedIsReal == Spec => []RefundedIsReal
<1>1. IInv => RefundedIsReal BY DEF IInv
<1> QED BY <1>1, RefundsInvariant, PTL

\* One step of the code never reopens a refund that is done.
LEMMA StepKeepsRefunded ==
  ASSUME IInv, [Next]_vars, NEW r \in Records, status[r] = "REFUNDED"
  PROVE  status'[r] = "REFUNDED"
<1>t. CodeTypeOK /\ r \in Refundable BY DEF IInv, Refundable
<1> USE <1>t DEF CodeTypeOK, SetStatus, MoveStatus, recordVars
<1>1. ASSUME NEW q \in Refundable, CreateRefund(q) \/ ProviderActsLate(q) \/ QuietPasses(q)
      PROVE status'[r] = "REFUNDED"
  BY <1>1 DEF CreateRefund, ProviderActsLate, QuietPasses
<1>2. ASSUME NEW c \in Callers, NEW q \in Refundable,
             ProcessRefund(c, q) \/ ReconcileRefund(c, q) \/ ApproveRequest(c, q)
      PROVE status'[r] = "REFUNDED"
  BY <1>2 DEF ProcessRefund, ReconcileRefund, ApproveRequest, Enter
<1>3. ASSUME NEW c \in Callers, CallerStep(c) \/ Crash(c) \/ DbError(c)
      PROVE status'[r] = "REFUNDED"
  <2>1. CASE Crash(c) \/ DbError(c) BY <2>1 DEF Crash, DbError
  <2>2. CASE SaveApproval(c)
    <3>1. cur[c] \in Requests
      BY <2>2 DEF SaveApproval, IInv, CallerInv, CameBy
    <3>2. r # cur[c] BY <3>1, DisjointAssumption
    <3> QED BY <2>2, <3>2 DEF SaveApproval
  <2>3. CASE Claim(c) \/ FailQuiet(c) \/ MarkFailed(c) \/ MarkUnknown(c) \/ MarkRefunded(c) \/ Finalize(c)
    BY <2>3 DEF Claim, FailQuiet, MarkFailed, MarkUnknown, MarkRefunded, Finalize, FinalizeFrom
  <2>4. CASE \/ Lookup(c) \/ LookupFails(c) \/ ReleaseQuiet(c) \/ Reserve(c)
             \/ \E reply \in Replies : CallProvider(c, reply)
             \/ ReleaseRejected(c) \/ SettleRead(c) \/ SettleWrite(c)
    BY <2>4 DEF Lookup, LookupThen, LookupFails, ReleaseQuiet, Reserve, CallProvider, CallThen,
       ReleaseRejected, SettleRead, SettleWrite
  <2> QED BY <1>3, <2>1, <2>2, <2>3, <2>4 DEF CallerStep
<1>4. CASE UNCHANGED vars
  BY <1>4 DEF vars, codeVars
<1> QED BY <1>1, <1>2, <1>3, <1>4 DEF Next, Elsewhere, Callers, Refundable

\* A refund recorded as done is never reopened by a retry, a late answer, the
\* reconciling job or an error handler, so it is never paid again.
THEOREM RefundsRefundedIsFinal == Spec => RefundedIsFinal
<1>1. IInv /\ [Next]_vars => [\A r \in Records : status[r] = "REFUNDED" => status'[r] = "REFUNDED"]_vars
  BY StepKeepsRefunded
<1> QED BY <1>1, RefundsInvariant, PTL DEF Spec, RefundedIsFinal

-----------------------------------------------------------------------------
(* What requests of the staff know of the refund in their hands, however   *)
(* many there are, until two decide on one refund side by side.            *)

\* The provider's adapter throws on an answer it cannot read.
AnswersParse == "garbled" \notin Replies

\* The provider neither made a refund for the key nor is about to.
Untouched(r) == sent[r] = 0 /\ late[r] = 0

\* c has approved a refund request and not ended yet.
Approving(c) == via[c] = "approve" /\ pc[c] # "approve"

\* A record is quiet only while it is parked and no call is outstanding, and
\* only the records are parked.
QuietRecord(r) ==
  /\ quiet[r] => late[r] = 0 /\ status[r] = "PROVIDER_UNKNOWN"
  /\ r \in Requests => status[r] # "PROVIDER_UNKNOWN"

\* The job looks refunds up and settles them, and only the staff give up.
JobOnly(c) == c \notin Admins /\ pc[c] # "idle" =>
  via[c] = "lookup" /\ pc[c] \notin {"releaseQuiet", "failQuiet"}

\* A refund that the staff look up stays parked, or is settled, meanwhile.
LookingUp(c) == c \in Admins /\ pc[c] = "lookup" =>
  /\ old[c] => late[cur[c]] = 0
  /\ status[cur[c]] \in {"PROVIDER_UNKNOWN", "REFUNDED"}
  /\ \A d \in Callers : ~Dispatching(d, cur[c])

\* A reservation is given back only for a refund that is parked and was never
\* made, whatever the jobs do to the record meanwhile.
GivingBack(c) == pc[c] \in {"releaseQuiet", "failQuiet"} =>
  Untouched(cur[c]) /\ status[cur[c]] = "PROVIDER_UNKNOWN"

\* A refund request is approved by one.
ApprovedAlone(c) == Approving(c) =>
  /\ status[cur[c]] # "REQUESTED"
  /\ \A d \in Callers : cur[d] = cur[c] /\ Approving(d) => d = c

QuietCaller(c) == JobOnly(c) /\ LookingUp(c) /\ GivingBack(c) /\ ApprovedAlone(c)

QuietInv == (\A r \in Refundable : QuietRecord(r)) /\ (\A c \in Callers : QuietCaller(c))

LEMMA InitQuiet == Init => QuietInv
  BY DEF Init, QuietInv, QuietRecord, QuietCaller, JobOnly, LookingUp, GivingBack, ApprovedAlone, Approving

\* Nobody else approves refund r or has it in hand to give it up.
Alone(c, r) == \A d \in Callers \ {c} : cur[d] = r =>
  ~(d \in Admins /\ pc[d] \in GivingUp) /\ ~Approving(d)

\* A step of one caller with its refund: what the others know stays true, if
\* nobody else decides on the refund, or the step leaves the provider alone and
\* the record too, or settles it.
LEMMA OthersQuiet ==
  ASSUME IInv, QuietInv, NEW c \in Callers, NEW r \in Refundable, None \notin Refundable,
         \A d \in Callers \ {c} : /\ pc'[d] = pc[d] /\ cur'[d] = cur[d]
                                 /\ via'[d] = via[d] /\ old'[d] = old[d],
         \A q \in Refundable \ {r} : UNCHANGED <<status[q], sent[q], late[q], quiet[q]>>,
         cur'[c] \in {r, None},
         \/ Alone(c, r)
         \/ /\ UNCHANGED <<sent[r], late[r]>>
            /\ UNCHANGED status[r] \/ (sent[r] > 0 /\ status'[r] = "REFUNDED")
            /\ Dispatching(c, r)' => Dispatching(c, r)
            /\ Approving(c)' /\ cur'[c] = r => Approving(c) /\ cur[c] = r,
         QuietRecord(r)', QuietCaller(c)'
  PROVE  QuietInv'
<1>t. CodeTypeOK /\ CallerInv BY DEF IInv
<1>1. \A q \in Refundable : QuietRecord(q)'
  BY DEF QuietInv, QuietRecord
<1>2. ASSUME NEW d \in Callers \ {c}, pc[d] # "idle" PROVE QuietCaller(d)'
  <2>1. QuietCaller(d) /\ cur[d] \in Refundable /\ CameBy(pc[d], via[d])
    BY <1>2, <1>t, HeldRefund DEF QuietInv, CallerInv
  <2>2. CASE cur[d] # r
    <3>1. \A e \in Callers : Dispatching(e, cur[d])' => Dispatching(e, cur[d])
      BY <2>1, <2>2 DEF Dispatching
    <3>2. \A e \in Callers : cur'[e] = cur[d] /\ Approving(e)' => e # c /\ cur[e] = cur[d] /\ Approving(e)
      BY <2>1, <2>2 DEF Approving
    <3> QED BY <1>2, <2>1, <2>2, <3>1, <3>2
        DEF QuietCaller, JobOnly, LookingUp, GivingBack, ApprovedAlone, Approving, Untouched
  <2>3. CASE cur[d] = r /\ Alone(c, r)
    <3>1. ~(d \in Admins /\ pc[d] \in GivingUp) /\ ~Approving(d)
      BY <2>3 DEF Alone
    <3>2. d \in Admins \/ pc[d] \notin GivingUp \ {"lookup"}
      BY <1>2, <2>1 DEF QuietCaller, JobOnly, GivingUp
    <3> QED BY <1>2, <2>1, <3>1, <3>2
        DEF QuietCaller, JobOnly, LookingUp, GivingBack, ApprovedAlone, Approving, GivingUp
  <2>4. CASE /\ cur[d] = r /\ UNCHANGED <<sent[r], late[r]>>
             /\ UNCHANGED status[r] \/ (sent[r] > 0 /\ status'[r] = "REFUNDED")
             /\ Dispatching(c, r)' => Dispatching(c, r)
             /\ Approving(c)' /\ cur'[c] = r => Approving(c) /\ cur[c] = r
    <3>1. \A e \in Callers : Dispatching(e, r)' => Dispatching(e, r)
      BY <2>4 DEF Dispatching
    <3>2. \A e \in Callers : cur'[e] = r /\ Approving(e)' => cur[e] = r /\ Approving(e)
      BY <2>4 DEF Approving
    <3>3. JobOnly(d)' /\ LookingUp(d)'
      BY <1>2, <2>1, <2>4, <3>1 DEF QuietCaller, JobOnly, LookingUp
    <3>4. GivingBack(d)'
      BY <1>2, <1>t, <2>1, <2>4 DEF QuietCaller, GivingBack, Untouched, CodeTypeOK
    <3>5. ApprovedAlone(d)'
      BY <1>2, <2>1, <2>4, <3>2 DEF QuietCaller, ApprovedAlone, Approving
    <3> QED BY <3>3, <3>4, <3>5 DEF QuietCaller
  <2> QED BY <2>2, <2>3, <2>4
<1>3. ASSUME NEW d \in Callers \ {c}, pc[d] = "idle" PROVE QuietCaller(d)'
  BY <1>3, <1>t DEF QuietCaller, JobOnly, LookingUp, GivingBack, ApprovedAlone, Approving, CallerInv
<1> QED BY <1>1, <1>2, <1>3 DEF QuietInv

\* Who has claimed a refund, or approved one, is alone with it.
LEMMA HolderAlone ==
  ASSUME IInv, QuietInv, NEW c \in Callers, NEW r \in Refundable, cur[c] = r,
         Dispatching(c, r) \/ (Approving(c) /\ pc[c] # "idle")
  PROVE  Alone(c, r)
<1> SUFFICES ASSUME NEW d \in Callers \ {c}, cur[d] = r
             PROVE  ~(d \in Admins /\ pc[d] \in GivingUp) /\ ~Approving(d)
  BY DEF Alone
<1>1. QuietCaller(c) /\ QuietCaller(d) /\ CallerInv
  BY DEF QuietInv, IInv
<1>2. CASE Dispatching(c, r)
  <2>1. r \in Records /\ status[r] \in {"PROVIDER_PENDING", "REFUNDED"}
    BY <1>1, <1>2 DEF IInv, PendingInv, Dispatching, CallerInv
  <2>2. ~Approving(d)
    BY <1>1, <2>1, DisjointAssumption DEF Approving, CallerInv
  <2> QED BY <1>1, <1>2, <2>1, <2>2 DEF QuietCaller, LookingUp, GivingBack, GivingUp
<1>3. CASE Approving(c) /\ pc[c] # "idle"
  <2>1. r \in Requests /\ r \notin Records
    BY <1>1, <1>3, DisjointAssumption DEF Approving, CallerInv
  <2>2. ~(d \in Admins /\ pc[d] \in GivingUp)
    BY <1>1, <2>1 DEF CallerInv, CameBy, GivingUp
  <2> QED BY <1>1, <1>3, <2>2 DEF QuietCaller, ApprovedAlone
<1> QED BY <1>2, <1>3

\* A caller that comes in.
LEMMA EnterQuiet ==
  ASSUME IInv, QuietInv, NEW c \in Callers, NEW r \in Refundable,
         NEW s \in {"lookup", "claim", "approve"}, NEW how, Enter(c, r, s, how),
         how \in {"lookup", "process", "approve"}, how = "approve" <=> s = "approve",
         how = "lookup" <=> s = "lookup",
         c \notin Admins => s = "lookup", s = "lookup" => status[r] = "PROVIDER_UNKNOWN" /\ r \in Records
  PROVE  QuietInv'
<1> USE DEF IInv, CodeTypeOK, Enter, recordVars, providerVars
<1>1. QuietRecord(r)' BY DEF QuietInv, QuietRecord
<1>2. \A d \in Callers : ~Dispatching(d, r)'  \/ s # "lookup"
  <2> SUFFICES ASSUME NEW d \in Callers, s = "lookup", Dispatching(d, r)' PROVE FALSE
    OBVIOUS
  <2>1. Dispatching(d, r) BY DEF Dispatching
  <2> QED BY <2>1 DEF PendingInv
<1>3. QuietCaller(c)'
  BY <1>2 DEF QuietInv, QuietRecord, QuietCaller, JobOnly, LookingUp, GivingBack, ApprovedAlone, Approving
<1>4. ~Dispatching(c, r)' /\ ~Approving(c)'
  BY DEF Dispatching, Approving
<1>5. None \notin Refundable BY DisjointAssumption
<1>6. /\ \A d \in Callers \ {c} : /\ pc'[d] = pc[d] /\ cur'[d] = cur[d]
                                 /\ via'[d] = via[d] /\ old'[d] = old[d]
      /\ UNCHANGED <<status, sent, late, quiet>> /\ cur'[c] = r
  OBVIOUS
<1> QED BY <1>1, <1>3, <1>4, <1>5, <1>6, OthersQuiet

\* A member of the staff at the provider holds a record that is not parked.
LEMMA NotParked ==
  ASSUME IInv, QuietInv, NEW c \in Callers, pc[c] \in {"reserve", "call", "release"}
  PROVE  /\ c \in Admins /\ cur[c] \in Refundable
         /\ Dispatching(c, cur[c]) \/ (Approving(c) /\ pc[c] # "idle")
         /\ status[cur[c]] # "PROVIDER_UNKNOWN"
<1>1. /\ CameBy(pc[c], via[c]) /\ cur[c] \in Refundable
      /\ \/ via[c] \in {"process", "lookup"} /\ cur[c] \in Records
         \/ via[c] = "approve" /\ cur[c] \in Requests
  BY HeldRefund DEF IInv, CallerInv
<1>2. c \in Admins /\ via[c] \in {"process", "approve"}
  BY <1>1 DEF CameBy, QuietInv, QuietCaller, JobOnly
<1>3. CASE via[c] = "process"
  <2>1. Dispatching(c, cur[c]) BY <1>3 DEF Dispatching
  <2> QED BY <1>1, <1>2, <1>3, <2>1 DEF IInv, PendingInv
<1>4. CASE via[c] = "approve"
  BY <1>1, <1>2, <1>4 DEF QuietInv, QuietRecord, Approving
<1> QED BY <1>1, <1>2, <1>3, <1>4

\* A step of a caller that decides on nothing another is deciding.
LEMMA CallerStepQuiet ==
  ASSUME IInv, CodeTypeOK', QuietInv, NEW c \in Callers,
         \/ CallerStep(c) /\ ~SideBySide(c)
         \/ DbError(c) \/ Crash(c)
  PROVE  QuietInv'
<1> USE DEF recordVars, payVars, providerVars, budgetVars, Stay, Goto, Leave
<1>0. pc[c] # "idle"
  BY DEF CallerStep, Lookup, LookupThen, LookupFails, ReleaseQuiet, FailQuiet, Claim,
       SaveApproval, Reserve, CallProvider, CallThen, ReleaseRejected, MarkFailed, MarkUnknown,
       SettleRead, SettleWrite, MarkRefunded, Finalize, FinalizeFrom, DbError, Crash
<1>r. /\ cur[c] \in Refundable /\ CameBy(pc[c], via[c])
      /\ QuietCaller(c) /\ QuietRecord(cur[c])
      /\ via[c] \in {"process", "lookup"} => cur[c] \in Records
      /\ via[c] = "approve" => cur[c] \in Requests
      /\ CodeTypeOK /\ CallerInv
  BY <1>0, HeldRefund, DisjointAssumption DEF IInv, CallerInv, QuietInv
<1>n. None \notin Refundable BY DisjointAssumption
<1>q. PICK r \in Refundable : r = cur[c]
  BY <1>r
<1> USE <1>0, <1>r, <1>q, <1>n DEF CodeTypeOK
\* What others approve, nobody but them does.
<1>a. \A d \in Callers \ {c} : Approving(c) /\ cur[d] = cur[c] => ~Approving(d)
  BY DEF QuietCaller, ApprovedAlone
\* Steps that only move the caller, and claim or approve nothing.
<1>1. ASSUME UNCHANGED <<status, quiet, sent, late>>, JobOnly(c)', LookingUp(c)', GivingBack(c)',
             \A d \in Callers \ {c} : /\ pc'[d] = pc[d] /\ cur'[d] = cur[d]
                                     /\ via'[d] = via[d] /\ old'[d] = old[d],
             \/ cur'[c] = cur[c] /\ via'[c] = via[c]
             \/ cur'[c] = None /\ via'[c] = "none",
             pc[c] \notin {"claim", "approve"} \/ via'[c] = "none"
      PROVE QuietInv'
  <2>1. QuietRecord(r)' BY <1>1 DEF QuietRecord
  <2>2. /\ Dispatching(c, r)' => Dispatching(c, r)
        /\ Approving(c)' => Approving(c)
    BY <1>1 DEF Dispatching, Approving
  <2>3. ApprovedAlone(c)'
    <3> SUFFICES ASSUME Approving(c)'
                 PROVE  /\ status'[cur'[c]] # "REQUESTED"
                        /\ \A d \in Callers : cur'[d] = cur'[c] /\ Approving(d)' => d = c
      BY DEF ApprovedAlone
    <3>1. Approving(c) BY <2>2
    <3>2. CASE cur'[c] = cur[c]
      BY <1>1, <1>a, <3>1, <3>2 DEF QuietCaller, ApprovedAlone, Approving
    <3>3. CASE cur'[c] = None
      BY <1>1, <3>3, <3>1 DEF Approving
    <3> QED BY <1>1, <3>2, <3>3
  <2> QED BY <1>1, <2>1, <2>2, <2>3, OthersQuiet DEF QuietCaller
<1>2. CASE Lookup(c) \/ LookupFails(c)
  <2>1. JobOnly(c)' /\ LookingUp(c)' /\ GivingBack(c)'
    BY <1>2 DEF Lookup, LookupThen, LookupFails, QuietCaller, JobOnly, LookingUp, GivingBack,
       QuietRecord, Untouched, CameBy, IInv, RefundedIsReal
  <2> QED BY <1>1, <1>2, <2>1 DEF Lookup, LookupThen, LookupFails
<1>3. CASE ReleaseQuiet(c) \/ ReleaseRejected(c) \/ Reserve(c)
  <2>1. JobOnly(c)' /\ LookingUp(c)' /\ GivingBack(c)'
    BY <1>3 DEF ReleaseQuiet, ReleaseRejected, Reserve, Failed, QuietCaller, JobOnly, LookingUp,
       GivingBack, Untouched, CameBy
  <2> QED BY <1>1, <1>3, <2>1 DEF ReleaseQuiet, ReleaseRejected, Reserve, Failed
<1>4. CASE SettleRead(c) \/ SettleWrite(c) \/ DbError(c) \/ Crash(c)
  <2>1. JobOnly(c)' /\ LookingUp(c)' /\ GivingBack(c)'
    BY <1>4 DEF SettleRead, SettleWrite, DbError, Crash, QuietCaller, JobOnly, LookingUp,
       GivingBack, CameBy
  <2> QED BY <1>1, <1>4, <2>1 DEF SettleRead, SettleWrite, DbError, Crash
\* Steps that leave the caller idle.
<1>5. ASSUME UNCHANGED <<sent, late>>, Leave(c), QuietRecord(r)',
             \A q \in Refundable \ {r} : UNCHANGED <<status[q], quiet[q]>>,
             Alone(c, r) \/ UNCHANGED status[r] \/ (sent[r] > 0 /\ status'[r] = "REFUNDED")
      PROVE QuietInv'
  <2>1. QuietCaller(c)'
    BY <1>5 DEF QuietCaller, JobOnly, LookingUp, GivingBack, ApprovedAlone, Approving
  <2>2. ~Dispatching(c, r)' /\ ~Approving(c)'
    BY <1>5 DEF Dispatching, Approving
  <2>3. /\ \A d \in Callers \ {c} : /\ pc'[d] = pc[d] /\ cur'[d] = cur[d]
                                   /\ via'[d] = via[d] /\ old'[d] = old[d]
        /\ cur'[c] \in {r, None}
    BY <1>5
  <2> QED BY <1>5, <2>1, <2>2, <2>3, OthersQuiet
<1>6. CASE FailQuiet(c) /\ ~SideBySide(c)
  <2>1. Alone(c, r)
    <3> SUFFICES ASSUME NEW d \in Callers \ {c}, cur[d] = r
                 PROVE  ~(d \in Admins /\ pc[d] \in GivingUp) /\ ~Approving(d)
      BY DEF Alone
    <3>1. ~(d \in Admins /\ pc[d] \in GivingUp)
      BY <1>6 DEF FailQuiet, SideBySide
    <3>2. r \in Records /\ r \notin Requests
      BY <1>6, DisjointAssumption DEF FailQuiet, CameBy
    <3>3. ~Approving(d) BY <3>2 DEF Approving, CallerInv
    <3> QED BY <3>1, <3>3
  <2>2. QuietRecord(r)'
    BY <1>6 DEF FailQuiet, MoveStatus, SetStatus, QuietRecord
  <2> QED BY <1>5, <1>6, <2>1, <2>2 DEF FailQuiet, MoveStatus, SetStatus
<1>7. CASE MarkFailed(c) \/ MarkUnknown(c)
  <2>1. Dispatching(c, r) /\ r \in Records /\ r \notin Requests
    BY <1>7, DisjointAssumption DEF MarkFailed, MarkUnknown, CameBy, Dispatching
  <2>2. Alone(c, r) BY <2>1, HolderAlone
  <2>3. QuietRecord(r)'
    BY <1>7, <2>1 DEF MarkFailed, MarkUnknown, MoveStatus, SetStatus, QuietRecord
  <2> QED BY <1>5, <1>7, <2>2, <2>3 DEF MarkFailed, MarkUnknown, MoveStatus, SetStatus
<1>8. CASE MarkRefunded(c) \/ Finalize(c)
  <2>1. sent[r] > 0
    BY <1>8 DEF MarkRefunded, Finalize, FinalizeFrom, IInv, SentInv, Settling
  <2>2. QuietRecord(r)'
    BY <1>8 DEF MarkRefunded, Finalize, FinalizeFrom, MoveStatus, SetStatus, QuietRecord
  <2> QED BY <1>5, <1>8, <2>1, <2>2 DEF MarkRefunded, Finalize, FinalizeFrom, MoveStatus, SetStatus
<1>9. CASE Claim(c) /\ status[r] \notin {"REQUESTED", "FAILED"}
  <2>1. QuietRecord(r)' BY <1>9 DEF Claim, QuietRecord
  <2> QED BY <1>5, <1>9, <2>1 DEF Claim
\* Steps that take the refund in hand.
<1>10. ASSUME /\ pc'[c] = "reserve" /\ cur'[c] = r /\ via'[c] = via[c]
              /\ \A d \in Callers \ {c} : /\ pc'[d] = pc[d] /\ cur'[d] = cur[d]
                                         /\ via'[d] = via[d] /\ old'[d] = old[d],
              UNCHANGED <<sent, late>>, SetStatus(r, "PROVIDER_PENDING"),
              status[r] \in {"REQUESTED", "FAILED"}, via[c] # "lookup",
              \A d \in Callers \ {c} : cur[d] = r => ~Approving(d)
       PROVE QuietInv'
  <2>1. Alone(c, r)
    <3> SUFFICES ASSUME NEW d \in Callers \ {c}, cur[d] = r, d \in Admins, pc[d] \in GivingUp
                 PROVE  FALSE
      BY <1>10 DEF Alone
    <3>1. QuietCaller(d) BY DEF QuietInv
    <3> QED BY <1>10, <3>1 DEF QuietCaller, LookingUp, GivingBack, GivingUp
  <2>2. QuietRecord(r)' BY <1>10 DEF SetStatus, QuietRecord
  <2>3. \A d \in Callers : cur'[d] = r /\ Approving(d)' => d = c
    BY <1>10 DEF Approving
  <2>4. QuietCaller(c)'
    BY <1>10, <2>3 DEF SetStatus, QuietCaller, JobOnly, LookingUp, GivingBack, ApprovedAlone
  <2>5. \A q \in Refundable \ {r} : UNCHANGED <<status[q], sent[q], late[q], quiet[q]>>
    BY <1>10 DEF SetStatus
  <2> QED BY <1>10, <2>1, <2>2, <2>4, <2>5, OthersQuiet
<1>11. CASE Claim(c) /\ status[r] \in {"REQUESTED", "FAILED"}
  <2>1. r \in Records /\ r \notin Requests /\ via[c] # "lookup"
    BY <1>11, DisjointAssumption DEF Claim, CameBy
  <2>2. \A d \in Callers \ {c} : cur[d] = r => ~Approving(d)
    BY <2>1 DEF Approving, CallerInv
  <2> QED BY <1>10, <1>11, <2>1, <2>2 DEF Claim
<1>12. CASE SaveApproval(c) /\ ~SideBySide(c)
  <2>1. status[r] = "REQUESTED" /\ via[c] # "lookup"
    BY <1>12 DEF SaveApproval, SideBySide, CameBy
  <2>2. \A d \in Callers \ {c} : cur[d] = r => ~Approving(d)
    BY <2>1 DEF QuietInv, QuietCaller, ApprovedAlone
  <2> QED BY <1>10, <1>12, <2>1, <2>2 DEF SaveApproval
<1>13. ASSUME NEW reply \in Replies, CallProvider(c, reply) PROVE QuietInv'
  <2>0. pc[c] = "call" BY <1>13 DEF CallProvider, CallThen
  <2>1. /\ c \in Admins /\ status[r] # "PROVIDER_UNKNOWN"
        /\ Dispatching(c, r) \/ (Approving(c) /\ pc[c] # "idle")
    BY <2>0, NotParked
  <2>2. Alone(c, r) BY <2>1, HolderAlone
  <2>3. /\ UNCHANGED <<status, quiet>>
        /\ \A d \in Callers \ {c} : /\ pc'[d] = pc[d] /\ cur'[d] = cur[d]
                                   /\ via'[d] = via[d] /\ old'[d] = old[d]
        /\ \A q \in Refundable \ {r} : UNCHANGED <<sent[q], late[q]>>
        /\ cur'[c] \in {r, None} /\ via'[c] \in {via[c], "none"}
        /\ pc'[c] \in {"settleRead", "release", "markUnknown", "idle"}
        /\ cur'[c] = None => via'[c] = "none"
    BY <1>13 DEF CallProvider, CallThen
  <2>4. QuietRecord(r)' BY <2>1, <2>3 DEF QuietRecord
  <2>5. ApprovedAlone(c)'
    <3> SUFFICES ASSUME Approving(c)'
                 PROVE  /\ status'[cur'[c]] # "REQUESTED"
                        /\ \A d \in Callers : cur'[d] = cur'[c] /\ Approving(d)' => d = c
      BY DEF ApprovedAlone
    <3>1. Approving(c) /\ cur'[c] = r BY <2>0, <2>3 DEF Approving
    <3> QED BY <1>a, <2>3, <3>1 DEF QuietCaller, ApprovedAlone, Approving
  <2>6. QuietCaller(c)'
    BY <2>1, <2>3, <2>5 DEF QuietCaller, JobOnly, LookingUp, GivingBack
  <2> QED BY <2>2, <2>3, <2>4, <2>6, OthersQuiet
<1> QED BY <1>2, <1>3, <1>4, <1>6, <1>7, <1>8, <1>9, <1>11, <1>12, <1>13 DEF CallerStep

\* Whether two of the staff decided on a refund side by side is remembered.
LEMMA Unraced ==
  ASSUME [Next]_vars, ~sideBySide', TypeOK
  PROVE  /\ ~sideBySide
         /\ \/ Elsewhere
            \/ \E c \in Callers : CallerStep(c) /\ ~SideBySide(c)
            \/ UNCHANGED vars
  BY DEF Next, vars, TypeOK

\* Every step, until two requests of the staff decide on one refund.
LEMMA NextQuiet ==
  ASSUME IInv, CodeTypeOK', QuietInv,
         \/ Elsewhere
         \/ \E c \in Callers : CallerStep(c) /\ ~SideBySide(c)
         \/ UNCHANGED vars
  PROVE  QuietInv'
<1>t. CodeTypeOK /\ CallerInv
  BY DEF IInv
<1>1. ASSUME NEW r \in Refundable,
             (r \in Records /\ CreateRefund(r)) \/ ProviderActsLate(r) \/ QuietPasses(r)
      PROVE QuietInv'
  <2> USE <1>t DEF CodeTypeOK, recordVars, payVars, providerVars, callerVars, budgetVars
  <2>0. UNCHANGED <<pc, cur, via, old>>
    BY <1>1 DEF CreateRefund, ProviderActsLate, QuietPasses
  <2>1. \A q \in Refundable : QuietRecord(q)'
    BY <1>1, <2>0 DEF CreateRefund, ProviderActsLate, QuietPasses, SetStatus, QuietInv, QuietRecord
  <2>2. ASSUME NEW d \in Callers, pc[d] # "idle" PROVE QuietCaller(d)'
    <3>1. QuietCaller(d) /\ cur[d] \in Refundable
      BY <2>2, HeldRefund DEF QuietInv
    <3>2. CASE r \in Records /\ CreateRefund(r)
      <4>1. Approving(d) => cur[d] # r
        BY <1>t, <3>2, DisjointAssumption DEF Approving, CallerInv
      <4>2. \A e \in Callers : Approving(e)' <=> Approving(e)
        BY <2>0 DEF Approving
      <4>3. \A e \in Callers, q \in Refundable : Dispatching(e, q)' <=> Dispatching(e, q)
        BY <2>0 DEF Dispatching
      <4>4. status'[cur[d]] = status[cur[d]] \/ (cur[d] = r /\ status[r] = "NONE")
        BY <3>1, <3>2 DEF CreateRefund, SetStatus
      <4>5. LookingUp(d)' /\ GivingBack(d)' /\ JobOnly(d)'
        BY <2>0, <3>1, <3>2, <4>3, <4>4
           DEF CreateRefund, QuietCaller, JobOnly, LookingUp, GivingBack, Untouched
      <4>6. ApprovedAlone(d)'
        BY <2>0, <3>1, <4>1, <4>2, <4>4 DEF QuietCaller, ApprovedAlone
      <4> QED BY <4>5, <4>6 DEF QuietCaller
    <3>3. CASE ProviderActsLate(r)
      BY <2>0, <3>1, <3>3 DEF ProviderActsLate, QuietCaller, JobOnly, LookingUp, GivingBack,
         ApprovedAlone, Approving, Dispatching, Untouched
    <3>4. CASE QuietPasses(r)
      BY <2>0, <3>1, <3>4 DEF QuietPasses, QuietCaller, JobOnly, LookingUp, GivingBack,
         ApprovedAlone, Approving, Dispatching, Untouched
    <3> QED BY <1>1, <3>2, <3>3, <3>4
  <2>3. \A d \in Callers : pc[d] = "idle" => QuietCaller(d)'
    BY <2>0 DEF QuietCaller, JobOnly, LookingUp, GivingBack, ApprovedAlone, Approving, CallerInv
  <2> QED BY <2>1, <2>2, <2>3 DEF QuietInv
<1>2. ASSUME NEW c \in Callers, NEW r \in Records,
             (c \in Admins /\ ProcessRefund(c, r)) \/ ReconcileRefund(c, r)
      PROVE QuietInv'
  <2>1. r \in Refundable BY DEF Refundable
  <2>2. \/ Enter(c, r, "lookup", "lookup") /\ status[r] = "PROVIDER_UNKNOWN"
        \/ Enter(c, r, "claim", "process") /\ c \in Admins
    BY <1>2 DEF ProcessRefund, ReconcileRefund
  <2>3. CASE Enter(c, r, "lookup", "lookup") /\ status[r] = "PROVIDER_UNKNOWN"
    BY <2>1, <2>3, EnterQuiet
  <2>4. CASE Enter(c, r, "claim", "process") /\ c \in Admins
    BY <2>1, <2>4, EnterQuiet
  <2> QED BY <2>2, <2>3, <2>4
<1>4. ASSUME NEW c \in Admins, NEW r \in Requests, ApproveRequest(c, r) PROVE QuietInv'
  <2>1. c \in Callers /\ r \in Refundable
    BY DEF Callers, Refundable
  <2> QED BY <1>4, <2>1, EnterQuiet DEF ApproveRequest
<1>5. ASSUME NEW c \in Callers, (CallerStep(c) /\ ~SideBySide(c)) \/ DbError(c) \/ Crash(c)
      PROVE QuietInv'
  BY <1>5, CallerStepQuiet
<1>6. CASE UNCHANGED vars
  BY <1>6 DEF vars, codeVars, recordVars, payVars, providerVars, callerVars, budgetVars, QuietInv,
     QuietRecord, QuietCaller, JobOnly, LookingUp, GivingBack, ApprovedAlone, Approving, Dispatching, Untouched
<1> QED BY <1>1, <1>2, <1>4, <1>5, <1>6 DEF Elsewhere, Refundable, Callers

\* Who has claimed a refund, or approved one, is the only one at work on it.
Working == {"reserve", "call", "release", "markFailed", "markUnknown"}

LEMMA WorksAlone ==
  ASSUME IInv, QuietInv, NEW c \in Callers, NEW r \in Refundable, cur[c] = r,
         Dispatching(c, r) \/ (Approving(c) /\ pc[c] # "idle"),
         NEW d \in Callers \ {c}, cur[d] = r
  PROVE  pc[d] \notin Working \cup {"releaseQuiet", "failQuiet"}
<1>1. CallerInv /\ QuietCaller(d)
  BY DEF IInv, QuietInv
<1>2. ~(d \in Admins /\ pc[d] \in GivingUp) /\ ~Approving(d)
  BY HolderAlone DEF Alone
<1>3. pc[d] \notin {"releaseQuiet", "failQuiet"}
  BY <1>1, <1>2 DEF QuietCaller, JobOnly, GivingUp
<1>4. ASSUME pc[d] \in Working PROVE FALSE
  <2>1. Dispatching(d, r) /\ r \in Records
    BY <1>1, <1>2, <1>4 DEF Working, CallerInv, CameBy, Approving, Dispatching
  <2>2. ~Dispatching(c, r)
    BY <2>1 DEF IInv, OneDispatcher
  <2>3. r \in Requests
    BY <1>1, <2>2 DEF Approving, CallerInv
  <2> QED BY <2>1, <2>3, DisjointAssumption
<1> QED BY <1>3, <1>4

-----------------------------------------------------------------------------
(* One refund per key.                                                     *)

\* At most one call for a refund took or takes effect, and none did where a
\* further call may come.
RefundOnce(r) ==
  /\ sent[r] + late[r] <= 1
  /\ status[r] \in {"NONE", "REQUESTED", "FAILED"} => Untouched(r)

\* Nothing left for a refund whose call may yet go out, or was refused.
CallerOnce(c) == pc[c] \in {"reserve", "call", "release", "markFailed"} =>
  status[cur[c]] = "PROVIDER_PENDING" /\ Untouched(cur[c])

OnceInv == (\A r \in Refundable : RefundOnce(r)) /\ (\A c \in Callers : CallerOnce(c))

LEMMA InitOnce == Init => OnceInv
  BY DEF Init, OnceInv, RefundOnce, CallerOnce, Untouched, Refundable

\* A step of one caller with its refund: what the others know stays true, if
\* nobody else is at work on it, or the step moves only what was made.
LEMMA OthersKnow ==
  ASSUME CodeTypeOK, CallerInv, OnceInv, NEW c \in Callers, NEW r \in Refundable,
         \A d \in Callers \ {c} : pc'[d] = pc[d] /\ cur'[d] = cur[d],
         \A q \in Refundable \ {r} : UNCHANGED <<status[q], sent[q], late[q]>>,
         \/ \A d \in Callers \ {c} : cur[d] = r => pc[d] \notin Working
         \/ UNCHANGED <<sent[r], late[r]>> /\ (UNCHANGED status[r] \/ sent[r] > 0),
         RefundOnce(r)', CallerOnce(c)'
  PROVE  OnceInv'
<1>1. \A q \in Refundable : RefundOnce(q)'
  BY DEF OnceInv, RefundOnce, Untouched
<1>2. ASSUME NEW d \in Callers \ {c}, pc[d] \in {"reserve", "call", "release", "markFailed"}
      PROVE CallerOnce(d)'
  <2>1. CallerOnce(d) /\ cur[d] \in Refundable
    BY <1>2, HeldRefund DEF OnceInv
  <2>2. CASE cur[d] # r BY <1>2, <2>1, <2>2 DEF CallerOnce, Untouched
  <2>3. CASE cur[d] = r
    BY <1>2, <2>1, <2>3 DEF CallerOnce, Untouched, CodeTypeOK, Working
  <2> QED BY <2>2, <2>3
<1>3. ASSUME NEW d \in Callers \ {c}, pc[d] \notin {"reserve", "call", "release", "markFailed"}
      PROVE CallerOnce(d)'
  BY <1>3 DEF CallerOnce
<1> QED BY <1>1, <1>2, <1>3 DEF OnceInv

\* A step of a caller that decides on nothing another is deciding, while no
\* write throws.
LEMMA CallerStepOnce ==
  ASSUME IInv, CodeTypeOK', QuietInv, OnceInv, AnswersParse, NEW c \in Callers,
         (CallerStep(c) /\ ~SideBySide(c)) \/ Crash(c)
  PROVE  OnceInv'
<1> USE DEF recordVars, payVars, providerVars, budgetVars, Stay, Goto, Leave
<1>0. pc[c] # "idle"
  BY DEF CallerStep, Lookup, LookupThen, LookupFails, ReleaseQuiet, FailQuiet, Claim,
       SaveApproval, Reserve, CallProvider, CallThen, ReleaseRejected, MarkFailed, MarkUnknown,
       SettleRead, SettleWrite, MarkRefunded, Finalize, FinalizeFrom, Crash
<1>r. /\ cur[c] \in Refundable /\ CameBy(pc[c], via[c])
      /\ QuietCaller(c) /\ CallerOnce(c) /\ RefundOnce(cur[c])
      /\ via[c] \in {"process", "lookup"} => cur[c] \in Records
      /\ CodeTypeOK /\ CallerInv
  BY <1>0, HeldRefund DEF IInv, CallerInv, OnceInv, QuietInv
<1>q. PICK r \in Refundable : r = cur[c]
  BY <1>r
<1> USE <1>0, <1>r, <1>q DEF CodeTypeOK
\* Nobody is at work on a refund that is not being processed.
<1>w. status[r] # "PROVIDER_PENDING" \/ (Dispatching(c, r) \/ Approving(c))
      => \A d \in Callers \ {c} : cur[d] = r => pc[d] \notin Working \ {"markUnknown"}
  <2> SUFFICES ASSUME status[r] # "PROVIDER_PENDING" \/ (Dispatching(c, r) \/ Approving(c)),
                      NEW d \in Callers \ {c}, cur[d] = r, pc[d] \in Working \ {"markUnknown"}
               PROVE  FALSE
    OBVIOUS
  <2>1. CallerOnce(d) BY DEF OnceInv
  <2>2. CASE status[r] # "PROVIDER_PENDING"
    BY <2>1, <2>2 DEF CallerOnce, Working
  <2>3. CASE Dispatching(c, r) \/ Approving(c)
    BY <2>3, WorksAlone
  <2> QED BY <2>2, <2>3
\* Steps that only move the caller.
<1>1. ASSUME UNCHANGED <<status, sent, late>>, CallerOnce(c)',
             \A d \in Callers \ {c} : pc'[d] = pc[d] /\ cur'[d] = cur[d]
      PROVE OnceInv'
  <2>1. RefundOnce(r)' BY <1>1 DEF RefundOnce, Untouched
  <2> QED BY <1>1, <2>1, OthersKnow
<1>2. CASE Lookup(c) \/ LookupFails(c)
  <2>1. CallerOnce(c)'
    BY <1>2 DEF Lookup, LookupThen, LookupFails, CallerOnce
  <2> QED BY <1>1, <1>2, <2>1 DEF Lookup, LookupThen, LookupFails
<1>3. CASE ReleaseQuiet(c) \/ ReleaseRejected(c) \/ Reserve(c)
  <2>1. CallerOnce(c)'
    BY <1>3 DEF ReleaseQuiet, ReleaseRejected, Reserve, Failed, CallerOnce, Untouched
  <2> QED BY <1>1, <1>3, <2>1 DEF ReleaseQuiet, ReleaseRejected, Reserve, Failed
<1>4. CASE SettleRead(c) \/ SettleWrite(c) \/ Crash(c)
  <2>1. CallerOnce(c)'
    BY <1>4 DEF SettleRead, SettleWrite, Crash, CallerOnce
  <2> QED BY <1>1, <1>4, <2>1 DEF SettleRead, SettleWrite, Crash
\* Steps that leave the caller idle.
<1>5. ASSUME UNCHANGED <<sent, late>>, Leave(c), RefundOnce(r)',
             \A q \in Refundable \ {r} : UNCHANGED status[q],
             \/ \A d \in Callers \ {c} : cur[d] = r => pc[d] \notin Working
             \/ UNCHANGED status[r] \/ sent[r] > 0
      PROVE OnceInv'
  <2>1. CallerOnce(c)' BY <1>5 DEF CallerOnce
  <2> QED BY <1>5, <2>1, OthersKnow
<1>6. CASE FailQuiet(c)
  <2>1. /\ Untouched(r) /\ status[r] = "PROVIDER_UNKNOWN"
    BY <1>6 DEF FailQuiet, QuietCaller, GivingBack
  <2>2. RefundOnce(r)'
    BY <1>6, <2>1 DEF FailQuiet, MoveStatus, SetStatus, RefundOnce, Untouched
  <2>3. r \in Records
    BY <1>6 DEF FailQuiet, CameBy
  <2>4. \A d \in Callers \ {c} : cur[d] = r => pc[d] \notin Working
    <3> SUFFICES ASSUME NEW d \in Callers \ {c}, cur[d] = r, pc[d] \in Working PROVE FALSE
      OBVIOUS
    <3>1. pc[d] = "markUnknown" BY <1>w, <2>1
    <3>2. Dispatching(d, r) BY <3>1 DEF Dispatching, CallerInv, CameBy
    <3> QED BY <2>1, <2>3, <3>2 DEF IInv, PendingInv
  <2> QED BY <1>5, <1>6, <2>2, <2>4 DEF FailQuiet, MoveStatus, SetStatus
<1>7. CASE MarkFailed(c) \/ MarkUnknown(c)
  <2>1. Dispatching(c, r)
    BY <1>7 DEF MarkFailed, MarkUnknown, CameBy, Dispatching
  <2>2. \A d \in Callers \ {c} : cur[d] = r => pc[d] \notin Working
    BY <2>1, WorksAlone
  <2>3. RefundOnce(r)'
    BY <1>7 DEF MarkFailed, MarkUnknown, MoveStatus, SetStatus, CallerOnce, RefundOnce, Untouched
  <2> QED BY <1>5, <1>7, <2>2, <2>3 DEF MarkFailed, MarkUnknown, MoveStatus, SetStatus
<1>8. CASE MarkRefunded(c) \/ Finalize(c)
  <2>1. sent[r] > 0
    BY <1>8 DEF MarkRefunded, Finalize, FinalizeFrom, IInv, SentInv, Settling
  <2>2. RefundOnce(r)'
    BY <1>8, <2>1 DEF MarkRefunded, Finalize, FinalizeFrom, MoveStatus, SetStatus, RefundOnce, Untouched
  <2> QED BY <1>5, <1>8, <2>1, <2>2 DEF MarkRefunded, Finalize, FinalizeFrom, MoveStatus, SetStatus
<1>9. CASE Claim(c) /\ status[r] \notin {"REQUESTED", "FAILED"}
  <2>1. RefundOnce(r)' BY <1>9 DEF Claim, RefundOnce, Untouched
  <2> QED BY <1>5, <1>9, <2>1 DEF Claim
<1>10. CASE \/ Claim(c) /\ status[r] \in {"REQUESTED", "FAILED"}
            \/ SaveApproval(c) /\ ~SideBySide(c)
  <2>1. status[r] \in {"REQUESTED", "FAILED"} /\ Untouched(r)
    BY <1>10 DEF SaveApproval, SideBySide, RefundOnce
  <2>2. RefundOnce(r)' /\ CallerOnce(c)'
    BY <1>10, <2>1 DEF Claim, SaveApproval, SetStatus, CallerOnce, RefundOnce, Untouched
  <2>3. /\ \A d \in Callers \ {c} : pc'[d] = pc[d] /\ cur'[d] = cur[d]
        /\ \A q \in Refundable \ {r} : UNCHANGED status[q]
        /\ UNCHANGED <<sent, late>>
    BY <1>10, <2>1 DEF Claim, SaveApproval, SetStatus
  <2>4. \A d \in Callers \ {c} : cur[d] = r => pc[d] \notin Working
    <3> SUFFICES ASSUME NEW d \in Callers \ {c}, cur[d] = r, pc[d] \in Working PROVE FALSE
      OBVIOUS
    <3>1. pc[d] = "markUnknown" BY <1>w, <2>1
    <3>2. Dispatching(d, r) /\ r \in Records BY <3>1 DEF Dispatching, CallerInv, CameBy
    <3> QED BY <2>1, <3>2 DEF IInv, PendingInv
  <2> QED BY <2>2, <2>3, <2>4, OthersKnow
<1>11. ASSUME NEW reply \in Replies, CallProvider(c, reply) PROVE OnceInv'
  <2>0. pc[c] = "call" BY <1>11 DEF CallProvider, CallThen
  <2>1. /\ Untouched(r) /\ status[r] = "PROVIDER_PENDING"
        /\ Dispatching(c, r) \/ (Approving(c) /\ pc[c] # "idle")
    BY <2>0, NotParked DEF CallerOnce
  <2>2. \A d \in Callers \ {c} : cur[d] = r => pc[d] \notin Working
    BY <2>1, WorksAlone
  <2>3. RefundOnce(r)'
    BY <1>11, <2>1 DEF CallProvider, CallThen, RefundOnce, Untouched
  <2>4. CallerOnce(c)'
    BY <1>11, <2>1 DEF CallProvider, CallThen, CallerOnce, Untouched, AnswersParse
  <2> QED BY <1>11, <2>2, <2>3, <2>4, OthersKnow DEF CallProvider, CallThen
<1> QED BY <1>2, <1>3, <1>4, <1>6, <1>7, <1>8, <1>9, <1>10, <1>11 DEF CallerStep

LEMMA NextOnce ==
  ASSUME AnswersParse, IInv, QuietInv, dbErrors = 0 => OnceInv, dbErrors' = 0,
         \/ Elsewhere
         \/ \E c \in Callers : CallerStep(c) /\ ~SideBySide(c)
         \/ UNCHANGED vars,
         [Next]_vars
  PROVE  OnceInv'
<1>t. CodeTypeOK /\ CodeTypeOK' /\ CallerInv
  BY NextType DEF IInv
<1>1. ASSUME NEW r \in Refundable,
             (r \in Records /\ CreateRefund(r)) \/ ProviderActsLate(r) \/ QuietPasses(r)
      PROVE OnceInv'
  <2> USE <1>t DEF CodeTypeOK, recordVars, payVars, providerVars, callerVars, budgetVars
  <2>0. OnceInv /\ UNCHANGED <<pc, cur>>
    BY <1>1 DEF CreateRefund, ProviderActsLate, QuietPasses
  <2>1. \A q \in Refundable : RefundOnce(q)'
    BY <1>1, <2>0 DEF CreateRefund, ProviderActsLate, QuietPasses, SetStatus, OnceInv, RefundOnce, Untouched
  <2>2. ASSUME NEW d \in Callers, pc[d] # "idle" PROVE CallerOnce(d)'
    <3>1. CallerOnce(d) /\ cur[d] \in Refundable
      BY <2>0, <2>2, HeldRefund DEF OnceInv
    <3> QED BY <1>1, <2>0, <3>1
            DEF CreateRefund, ProviderActsLate, QuietPasses, SetStatus, CallerOnce, Untouched
  <2>3. \A d \in Callers : CallerOnce(d)'
    BY <2>0, <2>2 DEF CallerOnce
  <2> QED BY <2>1, <2>3 DEF OnceInv
\* A caller that comes in.
<1>2. ASSUME NEW c \in Callers, NEW r \in Refundable,
             ProcessRefund(c, r) \/ ReconcileRefund(c, r) \/ ApproveRequest(c, r)
      PROVE OnceInv'
  <2>1. /\ OnceInv /\ UNCHANGED <<status, sent, late>>
        /\ \A d \in Callers \ {c} : pc'[d] = pc[d] /\ cur'[d] = cur[d]
        /\ pc'[c] \in {"lookup", "claim", "approve"}
    BY <1>2, <1>t DEF ProcessRefund, ReconcileRefund, ApproveRequest, Enter, CodeTypeOK,
       recordVars, payVars, providerVars, budgetVars
  <2>2. CallerOnce(c)' BY <2>1 DEF CallerOnce
  <2>3. RefundOnce(r)' BY <2>1 DEF OnceInv, RefundOnce, Untouched
  <2> QED BY <1>t, <2>1, <2>2, <2>3, OthersKnow
<1>5. ASSUME NEW c \in Callers, (CallerStep(c) /\ ~SideBySide(c)) \/ Crash(c) PROVE OnceInv'
  <2>1. OnceInv
    BY <1>5 DEF CallerStep, Lookup, LookupThen, LookupFails, ReleaseQuiet, FailQuiet, Claim,
         SaveApproval, Reserve, CallProvider, CallThen, ReleaseRejected, MarkFailed, MarkUnknown,
         SettleRead, SettleWrite, MarkRefunded, Finalize, FinalizeFrom, Crash, budgetVars
  <2> QED BY <1>t, <1>5, <2>1, CallerStepOnce
<1>6. ASSUME NEW c \in Callers, DbError(c) PROVE FALSE
  BY <1>t, <1>6 DEF DbError, CodeTypeOK
<1>7. CASE UNCHANGED vars
  BY <1>7 DEF vars, codeVars, recordVars, payVars, providerVars, callerVars, budgetVars, OnceInv, RefundOnce,
     CallerOnce, Untouched
<1> QED BY <1>1, <1>2, <1>5, <1>6, <1>7 DEF Elsewhere, Refundable, Callers

\* Until two requests of the staff decide on one refund side by side.
UnracedInv == ~sideBySide => QuietInv /\ (dbErrors = 0 => OnceInv)

LEMMA NextUnraced ==
  ASSUME AnswersParse, IInv, TypeOK, UnracedInv, [Next]_vars
  PROVE  UnracedInv'
<1> SUFFICES ASSUME ~sideBySide' PROVE QuietInv' /\ (dbErrors' = 0 => OnceInv')
  BY DEF UnracedInv
<1>1. /\ ~sideBySide
      /\ \/ Elsewhere
         \/ \E c \in Callers : CallerStep(c) /\ ~SideBySide(c)
         \/ UNCHANGED vars
  BY Unraced
<1>2. QuietInv /\ (dbErrors = 0 => OnceInv) BY <1>1 DEF UnracedInv
<1>3. CodeTypeOK' BY NextType DEF IInv
<1>4. QuietInv' BY <1>1, <1>2, <1>3, NextQuiet
<1>5. dbErrors' = 0 => OnceInv' BY <1>1, <1>2, NextOnce
<1> QED BY <1>4, <1>5

THEOREM RefundsUnraced == ASSUME AnswersParse PROVE Spec => []UnracedInv
<1>1. Init => UnracedInv BY InitQuiet, InitOnce DEF UnracedInv
<1>2. IInv /\ TypeOK /\ UnracedInv /\ [Next]_vars => UnracedInv' BY NextUnraced
<1> QED BY <1>1, <1>2, RefundsInvariant, RefundsTypeCorrect, PTL DEF Spec

\* No key is refunded twice, whatever is lost, retried, looked up or parked,
\* however many requests of the staff and ticks of the job have refunds in
\* hand, the same one included, unless a write throws or two of the staff
\* approve one request, or give one parked refund up, side by side.
THEOREM RefundsOneRefundUnlessError ==
  ASSUME AnswersParse PROVE Spec => []OneRefundUnlessError
<1>1. IInv /\ UnracedInv => OneRefundUnlessError
  BY DEF IInv, UnracedInv, OnceInv, RefundOnce, CodeTypeOK, OneRefundUnlessError, OneRefundPerKey
<1> QED BY <1>1, RefundsInvariant, RefundsUnraced, PTL

-----------------------------------------------------------------------------
(* Sums of money.                                                          *)

\* b units of one refund, beyond the first a.
UnitsBeyond(r, a, b) == {r} \X ((a + 1)..(a + b))

LEMMA UnitsOfOne ==
  ASSUME NEW r, NEW a \in Nat, NEW b \in Nat
  PROVE  IsFiniteSet(UnitsBeyond(r, a, b)) /\ Cardinality(UnitsBeyond(r, a, b)) = b
<1>1. IsFiniteSet((a + 1)..(a + b)) /\ Cardinality((a + 1)..(a + b)) = b
  BY FS_Interval
<1>2. IsFiniteSet({r}) /\ Cardinality({r}) = 1
  BY FS_Singleton
<1>3. /\ IsFiniteSet({r} \X ((a + 1)..(a + b)))
      /\ Cardinality({r} \X ((a + 1)..(a + b))) = 1 * b
  BY <1>1, <1>2, FS_Product
<1> QED BY <1>3 DEF UnitsBeyond

\* Paying b more of one refund adds b to the total.
LEMMA UnitsAdded ==
  ASSUME NEW u \in [Refundable -> Nat], NEW v \in [Refundable -> Nat], NEW r \in Refundable,
         NEW b \in Nat, v[r] = u[r] + b, \A q \in Refundable \ {r} : v[q] = u[q],
         IsFiniteSet(Units(u))
  PROVE  IsFiniteSet(Units(v)) /\ Cardinality(Units(v)) = Cardinality(Units(u)) + b
<1> DEFINE more == UnitsBeyond(r, u[r], b)
<1>1. IsFiniteSet(more) /\ Cardinality(more) = b
  <2>1. u[r] \in Nat OBVIOUS
  <2> QED BY <2>1, UnitsOfOne
<1>2. \A q \in Refundable : \A n : n \in 1..v[q] <=> n \in 1..u[q] \/ (q = r /\ n \in (u[r] + 1)..(u[r] + b))
  <2>1. u[r] \in Nat OBVIOUS
  <2>2. ASSUME NEW q \in Refundable, NEW n, q # r
        PROVE  n \in 1..v[q] <=> n \in 1..u[q] \/ (q = r /\ n \in (u[r] + 1)..(u[r] + b))
    BY <2>2
  <2>3. ASSUME NEW n PROVE n \in 1..v[r] <=> n \in 1..u[r] \/ n \in (u[r] + 1)..(u[r] + b)
    BY <2>1
  <2> QED BY <2>2, <2>3
<1>3. Units(v) = Units(u) \cup more
  <2>1. \A x : x \in Units(v) <=> \E q \in Refundable : \E n \in 1..v[q] : x = <<q, n>>
    BY DEF Units
  <2>2. \A x : x \in Units(u) <=> \E q \in Refundable : \E n \in 1..u[q] : x = <<q, n>>
    BY DEF Units
  <2>3. \A x : x \in more <=> \E n \in (u[r] + 1)..(u[r] + b) : x = <<r, n>>
    BY DEF UnitsBeyond
  <2>4. \A x : x \in Units(v) <=> x \in Units(u) \/ x \in more
    <3> HIDE DEF more
    <3> QED BY <1>2, <2>1, <2>2, <2>3
  <2> QED BY <2>4
<1>4. Units(u) \cap more = {}
  <2> SUFFICES ASSUME NEW n \in (u[r] + 1)..(u[r] + b), <<r, n>> \in Units(u) PROVE FALSE
    BY DEF UnitsBeyond
  <2>1. n \in 1..u[r] BY DEF Units
  <2> QED BY <2>1
<1>5. /\ IsFiniteSet(Units(u) \cup more)
      /\ Cardinality(Units(u) \cup more) = Cardinality(Units(u)) + Cardinality(more) - 0
  <2> HIDE DEF more
  <2> QED BY <1>1, <1>4, FS_Union, FS_EmptySet
<1>6. Cardinality(Units(u)) \in Nat BY FS_CardinalityType
<1> QED BY <1>1, <1>3, <1>5, <1>6

\* Paying no more of any refund pays no more in all.
LEMMA UnitsMonotone ==
  ASSUME NEW u \in [Refundable -> Nat], NEW v \in [Refundable -> Nat],
         \A r \in Refundable : u[r] <= v[r], IsFiniteSet(Units(v))
  PROVE  IsFiniteSet(Units(u)) /\ Cardinality(Units(u)) <= Cardinality(Units(v))
<1>1. Units(u) \subseteq Units(v)
  <2>1. \A r \in Refundable : 1..u[r] \subseteq 1..v[r]
    OBVIOUS
  <2> QED BY <2>1 DEF Units
<1> QED BY <1>1, FS_Subset

\* No refund is paid more than all of them.
LEMMA UnitsAtLeast ==
  ASSUME NEW u \in [Refundable -> Nat], IsFiniteSet(Units(u)), NEW r \in Refundable
  PROVE  u[r] <= Cardinality(Units(u))
<1>0. u[r] \in Nat /\ 0 \in Nat OBVIOUS
<1>1. UnitsBeyond(r, 0, u[r]) \subseteq Units(u)
  BY <1>0 DEF Units, UnitsBeyond
<1>2. Cardinality(UnitsBeyond(r, 0, u[r])) = u[r]
  BY <1>0, UnitsOfOne
<1>3. Cardinality(UnitsBeyond(r, 0, u[r])) <= Cardinality(Units(u))
  BY <1>1, FS_Subset
<1> QED BY <1>2, <1>3

-----------------------------------------------------------------------------
(* What is reserved for refunds that have not left.  A reservation is held *)
(* for a refund while its call is out, and for a parked one nobody gave    *)
(* back yet; of both at most one at a time.                                *)

AtProvider(r) == \E c \in Callers : cur[c] = r /\ pc[c] \in {"call", "release"}

Parked(r) ==
  /\ Untouched(r)
  /\ \/ \E c \in Callers : cur[c] = r /\ pc[c] = "markUnknown"
     \/ /\ status[r] = "PROVIDER_UNKNOWN"
        /\ \A c \in Callers : ~(cur[c] = r /\ pc[c] = "failQuiet")

Held(r) == IF AtProvider(r) \/ Parked(r) THEN 1 ELSE 0

\* The calls for a refund whose money is gone, is about to go or may go yet.
Due(r) == sent[r] + late[r] + Held(r)
DueMoney == [r \in Refundable |-> Due(r) * Amount[r]]

\* All of it is reserved.  The reservation of a write that threw only stays.
Covered == IsFiniteSet(Units(DueMoney)) /\ Cardinality(Units(DueMoney)) <= reserved

CoverInv == crashes = 0 /\ ~sideBySide => Covered

LEMMA InitCover == Init => CoverInv
<1> SUFFICES ASSUME Init PROVE Covered
  BY DEF CoverInv
<1>2. \A r \in Refundable : Due(r) = 0
  BY DEF Init, Due, Held, AtProvider, Parked, Untouched
<1>3. \A r \in Refundable : Amount[r] \in Nat BY AmountAssumption
<1>4. Units(DueMoney) = {}
  <2>1. \A r \in Refundable : DueMoney[r] = 0 BY <1>2, <1>3 DEF DueMoney
  <2>2. \A r \in Refundable : 1..DueMoney[r] = {} BY <2>1
  <2> QED BY <2>2 DEF Units
<1> QED BY <1>4, FS_EmptySet DEF Covered, Init

\* What is due is a number, before a step and after it.
LEMMA DueTyped ==
  ASSUME CodeTypeOK, CodeTypeOK', NEW r \in Refundable
  PROVE  /\ Due(r) \in Nat /\ Due(r)' \in Nat /\ Amount[r] \in Nat
         /\ DueMoney[r] = Due(r) * Amount[r] /\ DueMoney[r] \in Nat
         /\ DueMoney'[r] = Due(r)' * Amount[r] /\ DueMoney'[r] \in Nat
<1>1. Held(r) \in Nat /\ Held(r)' \in Nat BY DEF Held
<1>2. Due(r) \in Nat /\ Due(r)' \in Nat BY <1>1 DEF Due, CodeTypeOK
<1>3. Amount[r] \in Nat BY AmountAssumption
<1>4. DueMoney[r] = Due(r) * Amount[r] /\ DueMoney'[r] = Due(r)' * Amount[r]
  BY DEF DueMoney
<1>5. \A n, a \in Nat : n * a \in Nat OBVIOUS
<1> QED BY <1>2, <1>3, <1>4, <1>5

LEMMA DueMoneyTyped ==
  ASSUME CodeTypeOK, CodeTypeOK'
  PROVE  DueMoney \in [Refundable -> Nat] /\ DueMoney' \in [Refundable -> Nat]
<1>1. /\ DueMoney = [r \in Refundable |-> DueMoney[r]]
      /\ DueMoney' = [r \in Refundable |-> DueMoney'[r]]
  BY DEF DueMoney
<1> QED BY <1>1, DueTyped

\* A step after which no more is due and no less reserved.
LEMMA CoverKept ==
  ASSUME CodeTypeOK, CodeTypeOK', Covered, reserved' >= reserved,
         \A r \in Refundable : Due(r)' <= Due(r)
  PROVE  Covered'
<1>1. ASSUME NEW r \in Refundable PROVE DueMoney'[r] <= DueMoney[r]
  <2>1. \A m, n, a \in Nat : m <= n => m * a <= n * a OBVIOUS
  <2>2. Due(r) \in Nat /\ Amount[r] \in Nat /\ DueMoney[r] = Due(r) * Amount[r]
    BY DueTyped
  <2>3. Due(r)' \in Nat /\ DueMoney'[r] = Due(r)' * Amount[r]
    BY DueTyped
  <2> QED BY <2>1, <2>2, <2>3
<1>2. DueMoney \in [Refundable -> Nat] /\ DueMoney' \in [Refundable -> Nat]
  BY DueMoneyTyped
<1>3. /\ IsFiniteSet(Units(DueMoney'))
      /\ Cardinality(Units(DueMoney')) <= Cardinality(Units(DueMoney))
  BY <1>1, <1>2, UnitsMonotone DEF Covered
<1>4. Cardinality(Units(DueMoney)) \in Nat /\ Cardinality(Units(DueMoney')) \in Nat
  BY <1>3, FS_CardinalityType DEF Covered
<1>5. reserved \in Nat /\ reserved' \in Nat
  BY AmountAssumption DEF CodeTypeOK
<1> HIDE DEF DueMoney
<1> QED BY <1>3, <1>4, <1>5 DEF Covered, Units

\* A step that reserves for one more call, or gives back for one less.
LEMMA CoverMoved ==
  ASSUME CodeTypeOK, CodeTypeOK', Covered, NEW r \in Refundable,
         \A q \in Refundable \ {r} : Due(q)' = Due(q),
         \/ Due(r)' = Due(r) + 1 /\ reserved' = reserved + Amount[r]
         \/ Due(r) = Due(r)' + 1 /\ Release(r)
  PROVE  Covered'
<1>0. \A n, a \in Nat : (n + 1) * a = n * a + a OBVIOUS
<1>1. /\ Due(r) \in Nat /\ Amount[r] \in Nat
      /\ DueMoney[r] = Due(r) * Amount[r] /\ DueMoney[r] \in Nat
  BY DueTyped
<1>2. Due(r)' \in Nat /\ DueMoney'[r] = Due(r)' * Amount[r] /\ DueMoney'[r] \in Nat
  BY DueTyped
<1>3. DueMoney \in [Refundable -> Nat] /\ DueMoney' \in [Refundable -> Nat]
  BY DueMoneyTyped
<1>4. \A q \in Refundable \ {r} : DueMoney'[q] = DueMoney[q]
  BY DEF DueMoney
<1>5. reserved \in Nat /\ reserved' \in Nat
  BY AmountAssumption DEF CodeTypeOK
<1>6. IsFiniteSet(Units(DueMoney)) /\ Cardinality(Units(DueMoney)) \in Nat
      /\ Cardinality(Units(DueMoney)) <= reserved
  BY FS_CardinalityType DEF Covered
<1> HIDE DEF DueMoney
<1>7. CASE Due(r)' = Due(r) + 1 /\ reserved' = reserved + Amount[r]
  <2>1. DueMoney'[r] = DueMoney[r] + Amount[r]
    BY <1>0, <1>1, <1>2, <1>7
  <2>2. /\ IsFiniteSet(Units(DueMoney'))
        /\ Cardinality(Units(DueMoney')) = Cardinality(Units(DueMoney)) + Amount[r]
    BY <1>1, <1>3, <1>4, <1>6, <2>1, UnitsAdded
  <2> QED BY <1>1, <1>5, <1>6, <1>7, <2>2 DEF Covered, Units
<1>8. CASE Due(r) = Due(r)' + 1 /\ Release(r)
  <2>1. DueMoney[r] = DueMoney'[r] + Amount[r]
    BY <1>0, <1>1, <1>2, <1>8
  <2>2. IsFiniteSet(Units(DueMoney'))
    <3>1. \A q \in Refundable : DueMoney'[q] <= DueMoney[q]
      <4>1. ASSUME NEW q \in Refundable PROVE DueMoney'[q] <= DueMoney[q]
        <5>1. DueMoney[q] \in Nat BY <1>3
        <5>2. CASE q = r BY <1>1, <1>2, <2>1, <5>2
        <5>3. CASE q # r BY <1>4, <5>1, <5>3
        <5> QED BY <5>2, <5>3
      <4> QED BY <4>1
    <3> QED BY <1>3, <1>6, <3>1, UnitsMonotone
  <2>3. \A q \in Refundable \ {r} : DueMoney[q] = DueMoney'[q]
    BY <1>4
  <2>4. Cardinality(Units(DueMoney)) = Cardinality(Units(DueMoney')) + Amount[r]
    BY <1>1, <1>3, <2>1, <2>2, <2>3, UnitsAdded
  <2>5. Cardinality(Units(DueMoney')) \in Nat
    BY <2>2, FS_CardinalityType
  <2>6. reserved' = reserved - Amount[r]
    BY <1>1, <1>5, <1>6, <1>8, <2>4, <2>5 DEF Release
  <2> QED BY <1>1, <1>5, <1>6, <2>2, <2>4, <2>5, <2>6 DEF Covered, Units
<1> QED BY <1>7, <1>8

\* The steps of a caller that tell whether a reservation is held.
Holding == {"call", "release", "markUnknown", "failQuiet"}

\* A step that moves no caller to or from them parks nothing and is not due.
LEMMA DueNoMore ==
  ASSUME CodeTypeOK, CodeTypeOK', UNCHANGED <<sent, late>>,
         \A d \in Callers : \/ pc'[d] = pc[d] /\ cur'[d] = cur[d]
                            \/ {pc[d], pc'[d]} \cap Holding = {},
         \A q \in Refundable : status'[q] = "PROVIDER_UNKNOWN" => status[q] = "PROVIDER_UNKNOWN"
  PROVE  \A q \in Refundable : Due(q)' <= Due(q)
<1> SUFFICES ASSUME NEW q \in Refundable PROVE Due(q)' <= Due(q)
  OBVIOUS
<1>1. AtProvider(q)' => AtProvider(q) BY DEF AtProvider, Holding
<1>2. Parked(q)' => Parked(q) BY DEF Parked, Untouched, Holding
<1>3. Held(q)' <= Held(q) BY <1>1, <1>2 DEF Held
<1>4. Held(q) \in Nat /\ Held(q)' \in Nat BY DEF Held
<1> QED BY <1>3, <1>4 DEF Due, CodeTypeOK

\* A step of one caller with its refund changes nothing of other refunds.
LEMMA DueElsewhere ==
  ASSUME NEW c \in Callers, NEW r, cur[c] = r, cur'[c] \in {r, None}, None \notin Refundable,
         \A d \in Callers \ {c} : pc'[d] = pc[d] /\ cur'[d] = cur[d],
         \A q \in Refundable \ {r} : UNCHANGED <<status[q], sent[q], late[q]>>
  PROVE  \A q \in Refundable \ {r} : Due(q)' = Due(q)
<1> SUFFICES ASSUME NEW q \in Refundable \ {r} PROVE Due(q)' = Due(q)
  OBVIOUS
<1>1. AtProvider(q)' <=> AtProvider(q) BY DEF AtProvider
<1>2. Parked(q)' <=> Parked(q) BY DEF Parked, Untouched
<1> QED BY <1>1, <1>2 DEF Due, Held

\* What a caller holds of its refund when nobody else holds anything of it.
LEMMA HeldByOne ==
  ASSUME NEW c \in Callers, NEW r, cur[c] = r,
         \A d \in Callers \ {c} : cur[d] = r => pc[d] \notin Holding
  PROVE  /\ AtProvider(r) <=> pc[c] \in {"call", "release"}
         /\ Parked(r) <=> /\ Untouched(r)
                          /\ \/ pc[c] = "markUnknown"
                             \/ status[r] = "PROVIDER_UNKNOWN" /\ pc[c] # "failQuiet"
<1>1. AtProvider(r) <=> pc[c] \in {"call", "release"}
  BY DEF AtProvider, Holding
<1>2. Parked(r) <=> /\ Untouched(r)
                    /\ \/ pc[c] = "markUnknown"
                       \/ status[r] = "PROVIDER_UNKNOWN" /\ pc[c] # "failQuiet"
  BY DEF Parked, Holding
<1> QED BY <1>1, <1>2

\* The same after its step: the others stay where they are, and nobody comes
\* to its refund in the same step.
LEMMA HeldByOneNext ==
  ASSUME NEW c \in Callers, NEW r \in Refundable,
         \A d \in Callers \ {c} : cur[d] = r => pc[d] \notin Holding,
         cur'[c] = r \/ (cur'[c] = None /\ pc'[c] = "idle"), None \notin Refundable,
         \A d \in Callers \ {c} : pc'[d] = pc[d] /\ cur'[d] = cur[d]
  PROVE  /\ AtProvider(r)' <=> pc'[c] \in {"call", "release"}
         /\ Parked(r)' <=> /\ Untouched(r)'
                           /\ \/ pc'[c] = "markUnknown"
                              \/ status'[r] = "PROVIDER_UNKNOWN" /\ pc'[c] # "failQuiet"
<1>2. \A d \in Callers : cur'[d] = r /\ pc'[d] \in Holding => d = c
  OBVIOUS
<1>3. AtProvider(r)' <=> pc'[c] \in {"call", "release"}
  BY <1>2 DEF AtProvider, Holding
<1>4. Parked(r)' <=> /\ Untouched(r)'
                     /\ \/ pc'[c] = "markUnknown"
                        \/ status'[r] = "PROVIDER_UNKNOWN" /\ pc'[c] # "failQuiet"
  BY <1>2 DEF Parked, Holding
<1> QED BY <1>3, <1>4

\* Who reserves, calls the provider or gives back is the only one to hold
\* anything of the refund, until two decide on it side by side.
LEMMA HoldsAlone ==
  ASSUME IInv, QuietInv, NEW c \in Callers, NEW r \in Refundable, cur[c] = r,
         \/ pc[c] \in {"reserve", "call", "release", "markUnknown"}
         \/ pc[c] \in {"releaseQuiet", "failQuiet"} /\ ~SideBySide(c)
  PROVE  \A d \in Callers \ {c} : cur[d] = r => pc[d] \notin Holding
<1> SUFFICES ASSUME NEW d \in Callers \ {c}, cur[d] = r, pc[d] \in Holding PROVE FALSE
  OBVIOUS
<1>1. CallerInv /\ QuietCaller(c) /\ QuietCaller(d)
  BY DEF IInv, QuietInv
<1>2. CASE pc[c] \in {"reserve", "call", "release", "markUnknown"}
  <2>1. Dispatching(c, r) \/ (Approving(c) /\ pc[c] # "idle")
    BY <1>1, <1>2 DEF CallerInv, CameBy, Dispatching, Approving
  <2> QED BY <2>1, WorksAlone DEF Holding, Working
<1>3. CASE pc[c] \in {"releaseQuiet", "failQuiet"} /\ ~SideBySide(c)
  <2>1. status[r] = "PROVIDER_UNKNOWN" /\ r \in Records
    BY <1>1, <1>3 DEF QuietCaller, GivingBack, CallerInv, CameBy
  <2>2. CASE pc[d] = "failQuiet"
    BY <1>1, <1>3, <2>2 DEF QuietCaller, JobOnly, SideBySide, GivingUp
  <2>3. CASE pc[d] \in {"call", "release"}
    BY <2>1, <2>3, NotParked
  <2>4. CASE pc[d] = "markUnknown"
    <3>1. Dispatching(d, r) BY <1>1, <2>4 DEF CallerInv, CameBy, Dispatching
    <3> QED BY <2>1, <3>1 DEF IInv, PendingInv
  <2> QED BY <2>2, <2>3, <2>4 DEF Holding
<1> QED BY <1>2, <1>3

\* A step of a caller leaves enough reserved.
LEMMA CallerStepCovered ==
  ASSUME IInv, CodeTypeOK', QuietInv, Covered, AnswersParse, NEW c \in Callers,
         (CallerStep(c) /\ ~SideBySide(c)) \/ DbError(c)
  PROVE  Covered'
<1> USE DEF recordVars, payVars, providerVars, budgetVars, Stay, Goto, Leave
<1>0. pc[c] # "idle"
  BY DEF CallerStep, Lookup, LookupThen, LookupFails, ReleaseQuiet, FailQuiet, Claim,
       SaveApproval, Reserve, CallProvider, CallThen, ReleaseRejected, MarkFailed, MarkUnknown,
       SettleRead, SettleWrite, MarkRefunded, Finalize, FinalizeFrom, DbError
<1>r. /\ cur[c] \in Refundable /\ CameBy(pc[c], via[c]) /\ Amount[cur[c]] \in 1..Captured
      /\ QuietCaller(c) /\ QuietRecord(cur[c])
      /\ CodeTypeOK /\ CallerInv
  BY <1>0, HeldRefund DEF IInv, QuietInv, CallerInv
<1>n. None \notin Refundable BY DisjointAssumption
<1>q. PICK r \in Refundable : r = cur[c]
  BY <1>r
<1> USE <1>r, <1>q DEF CodeTypeOK
<1>v. reserved \in Nat BY AmountAssumption
\* Steps that reserve and give back nothing, at which nothing is held.
<1>1. CASE \/ Lookup(c) \/ LookupFails(c) \/ Claim(c) \/ SaveApproval(c) \/ MarkFailed(c)
           \/ SettleRead(c) \/ SettleWrite(c) \/ MarkRefunded(c) \/ Finalize(c)
           \/ DbError(c) /\ pc[c] \notin {"release", "finalize"}
  <2>1. /\ UNCHANGED <<sent, late, reserved>>
        /\ \A q \in Refundable : status'[q] = "PROVIDER_UNKNOWN" => status[q] = "PROVIDER_UNKNOWN"
    BY <1>1 DEF Lookup, LookupThen, LookupFails, Claim, SaveApproval, MarkFailed, SettleRead,
       SettleWrite, MarkRefunded, Finalize, FinalizeFrom, DbError, MoveStatus, SetStatus
  <2>2. {pc[c], pc'[c]} \cap Holding = {}
    BY <1>1 DEF Lookup, LookupThen, LookupFails, Claim, SaveApproval, MarkFailed, SettleRead,
       SettleWrite, MarkRefunded, Finalize, FinalizeFrom, DbError, Holding
  <2>3. \A d \in Callers \ {c} : pc'[d] = pc[d] /\ cur'[d] = cur[d]
    BY <1>1 DEF Lookup, LookupThen, LookupFails, Claim, SaveApproval, MarkFailed, SettleRead,
       SettleWrite, MarkRefunded, Finalize, FinalizeFrom, DbError
  <2>4. \A q \in Refundable : Due(q)' <= Due(q)
    BY <2>1, <2>2, <2>3, DueNoMore
  <2> QED BY <1>v, <2>1, <2>4, CoverKept
\* Steps with what is held of the refund.
<1>2. ASSUME \A d \in Callers \ {c} : cur[d] = r => pc[d] \notin Holding,
             cur'[c] = r \/ (cur'[c] = None /\ pc'[c] = "idle"),
             \A d \in Callers \ {c} : pc'[d] = pc[d] /\ cur'[d] = cur[d],
             \A q \in Refundable \ {r} : UNCHANGED <<status[q], sent[q], late[q]>>
      PROVE  /\ \A q \in Refundable \ {r} : Due(q)' = Due(q)
             /\ Held(r) = IF \/ pc[c] \in {"call", "release"}
                             \/ /\ Untouched(r)
                                /\ \/ pc[c] = "markUnknown"
                                   \/ status[r] = "PROVIDER_UNKNOWN" /\ pc[c] # "failQuiet"
                          THEN 1 ELSE 0
             /\ Held(r)' = IF \/ pc'[c] \in {"call", "release"}
                              \/ /\ Untouched(r)'
                                 /\ \/ pc'[c] = "markUnknown"
                                    \/ status'[r] = "PROVIDER_UNKNOWN" /\ pc'[c] # "failQuiet"
                           THEN 1 ELSE 0
  <2>1. \A q \in Refundable \ {r} : Due(q)' = Due(q)
    BY <1>n, <1>2, DueElsewhere
  <2>2. /\ AtProvider(r) <=> pc[c] \in {"call", "release"}
        /\ Parked(r) <=> /\ Untouched(r)
                         /\ \/ pc[c] = "markUnknown"
                            \/ status[r] = "PROVIDER_UNKNOWN" /\ pc[c] # "failQuiet"
    BY <1>2, HeldByOne
  <2>3. /\ AtProvider(r)' <=> pc'[c] \in {"call", "release"}
        /\ Parked(r)' <=> /\ Untouched(r)'
                          /\ \/ pc'[c] = "markUnknown"
                             \/ status'[r] = "PROVIDER_UNKNOWN" /\ pc'[c] # "failQuiet"
    BY <1>n, <1>2, HeldByOneNext
  <2> QED BY <2>1, <2>2, <2>3 DEF Held
<1>3. CASE (ReleaseQuiet(c) /\ ~SideBySide(c)) \/ ReleaseRejected(c)
  <2>0. \A d \in Callers \ {c} : cur[d] = r => pc[d] \notin Holding
    BY <1>3, HoldsAlone DEF ReleaseQuiet, ReleaseRejected
  <2>1. /\ Release(r)
        /\ pc[c] = "releaseQuiet" => Untouched(r) /\ status[r] = "PROVIDER_UNKNOWN"
        /\ pc[c] = "release" => status[r] # "PROVIDER_UNKNOWN"
    BY <1>3, NotParked DEF ReleaseQuiet, ReleaseRejected, QuietCaller, GivingBack
  <2>2. /\ cur'[c] = r \/ (cur'[c] = None /\ pc'[c] = "idle")
        /\ \A d \in Callers \ {c} : pc'[d] = pc[d] /\ cur'[d] = cur[d]
        /\ UNCHANGED <<status, sent, late>>
        /\ \/ pc[c] = "releaseQuiet" /\ pc'[c] = "failQuiet"
           \/ pc[c] = "release" /\ pc'[c] \in {"markFailed", "idle"}
    BY <1>3 DEF ReleaseQuiet, ReleaseRejected, Failed
  <2>3. (\A q \in Refundable \ {r} : Due(q)' = Due(q)) /\ Held(r) = 1 /\ Held(r)' = 0
    BY <1>2, <2>0, <2>1, <2>2 DEF Untouched
  <2>4. Due(r) = Due(r)' + 1
    BY <2>2, <2>3 DEF Due
  <2> QED BY <2>1, <2>3, <2>4, CoverMoved
<1>4. CASE Reserve(c)
  <2>1. CASE reserved + Amount[r] <= Captured
    <3>1. /\ status[r] # "PROVIDER_UNKNOWN"
          /\ \A d \in Callers \ {c} : cur[d] = r => pc[d] \notin Holding
      BY <1>4, NotParked, HoldsAlone DEF Reserve
    <3>2. /\ cur'[c] = r /\ pc[c] = "reserve" /\ pc'[c] = "call"
          /\ \A d \in Callers \ {c} : pc'[d] = pc[d] /\ cur'[d] = cur[d]
          /\ UNCHANGED <<status, sent, late>> /\ reserved' = reserved + Amount[r]
      BY <1>4, <2>1 DEF Reserve
    <3>3. (\A q \in Refundable \ {r} : Due(q)' = Due(q)) /\ Held(r) = 0 /\ Held(r)' = 1
      BY <1>2, <3>1, <3>2
    <3>4. Due(r)' = Due(r) + 1
      BY <3>2, <3>3 DEF Due
    <3> QED BY <3>2, <3>3, <3>4, CoverMoved
  <2>2. CASE ~(reserved + Amount[r] <= Captured)
    <3>1. /\ UNCHANGED <<status, sent, late, reserved>> /\ {pc[c], pc'[c]} \cap Holding = {}
          /\ \A d \in Callers \ {c} : pc'[d] = pc[d] /\ cur'[d] = cur[d]
      BY <1>4, <2>2 DEF Reserve, Failed, Holding
    <3>2. \A q \in Refundable : Due(q)' <= Due(q)
      BY <3>1, DueNoMore
    <3> QED BY <1>v, <3>1, <3>2, CoverKept
  <2> QED BY <2>1, <2>2
\* Steps after which no more is due for the refund.
<1>5. ASSUME \A d \in Callers \ {c} : cur[d] = r => pc[d] \notin Holding,
             cur'[c] = r \/ (cur'[c] = None /\ pc'[c] = "idle"),
             \A d \in Callers \ {c} : pc'[d] = pc[d] /\ cur'[d] = cur[d],
             \A q \in Refundable \ {r} : UNCHANGED <<status[q], sent[q], late[q]>>,
             UNCHANGED reserved, Due(r)' <= Due(r)
      PROVE  Covered'
  <2>1. \A q \in Refundable \ {r} : Due(q)' = Due(q)
    BY <1>2, <1>5
  <2>2. \A q \in Refundable : Due(q) \in Nat
    BY DueTyped
  <2>3. \A q \in Refundable : Due(q)' <= Due(q)
    BY <1>5, <2>1, <2>2
  <2> QED BY <1>v, <1>5, <2>3, CoverKept
<1>6. CASE \/ FailQuiet(c) /\ ~SideBySide(c)
           \/ MarkUnknown(c)
           \/ DbError(c) /\ pc[c] = "release"
  <2>1. /\ \A d \in Callers \ {c} : cur[d] = r => pc[d] \notin Holding
        /\ pc[c] = "release" => status[r] # "PROVIDER_UNKNOWN"
    BY <1>6, NotParked, HoldsAlone DEF FailQuiet, MarkUnknown, DbError
  <2>2. /\ cur'[c] = r \/ (cur'[c] = None /\ pc'[c] = "idle")
        /\ \A d \in Callers \ {c} : pc'[d] = pc[d] /\ cur'[d] = cur[d]
        /\ \A q \in Refundable \ {r} : UNCHANGED <<status[q], sent[q], late[q]>>
        /\ UNCHANGED <<sent, late, reserved>> /\ pc'[c] \in {"idle", "markFailed"}
    BY <1>6 DEF FailQuiet, MarkUnknown, DbError, MoveStatus, SetStatus
  <2>3. /\ pc[c] = "failQuiet" => status'[r] # "PROVIDER_UNKNOWN"
        /\ pc[c] = "release" => status'[r] # "PROVIDER_UNKNOWN"
        /\ pc[c] \in {"failQuiet", "release", "markUnknown"}
    BY <1>6, <2>1 DEF FailQuiet, MarkUnknown, DbError, MoveStatus, SetStatus
  <2>4. Held(r)' <= Held(r)
    BY <1>2, <2>1, <2>2, <2>3 DEF Untouched
  <2>5. Held(r) \in Nat /\ Held(r)' \in Nat BY DEF Held
  <2>6. Due(r)' <= Due(r)
    BY <2>2, <2>4, <2>5 DEF Due
  <2> QED BY <1>5, <2>1, <2>2, <2>6
<1>7. ASSUME NEW reply \in Replies, CallProvider(c, reply) PROVE Covered'
  <2>0. pc[c] = "call" BY <1>7 DEF CallProvider, CallThen
  <2>1. /\ reply # "garbled" /\ status[r] # "PROVIDER_UNKNOWN" /\ pc[c] = "call"
        /\ \A d \in Callers \ {c} : cur[d] = r => pc[d] \notin Holding
    BY <1>7, <2>0, NotParked, HoldsAlone DEF AnswersParse
  <2>2. /\ cur'[c] = r \/ (cur'[c] = None /\ pc'[c] = "idle")
        /\ \A d \in Callers \ {c} : pc'[d] = pc[d] /\ cur'[d] = cur[d]
        /\ \A q \in Refundable \ {r} : UNCHANGED <<status[q], sent[q], late[q]>>
        /\ UNCHANGED <<status, reserved>>
        /\ pc'[c] \in {"settleRead", "release", "markUnknown", "idle"}
        /\ pc'[c] = "settleRead" <=> reply = "ok"
        /\ pc'[c] = "release" <=> reply = "rejected"
    BY <1>7, <2>1 DEF CallProvider, CallThen
  <2>3. /\ \/ reply \in {"ok", "lost_done"} /\ sent'[r] = sent[r] + 1 /\ late'[r] = late[r]
           \/ reply = "lost_late" /\ sent'[r] = sent[r] /\ late'[r] = late[r] + 1
           \/ reply \in {"rejected", "lost_never"} /\ sent'[r] = sent[r] /\ late'[r] = late[r]
    BY <1>7, <2>1, RepliesAssumption DEF CallProvider, CallThen
  <2>4. Held(r) = 1 /\ Held(r)' \in {0, 1}
    BY <1>2, <2>1, <2>2
  <2>5. sent'[r] + late'[r] > sent[r] + late[r] => Held(r)' = 0
    <3>1. CASE reply \in {"ok", "lost_done", "lost_late"}
      <4>1. ~Untouched(r)' BY <2>3, <3>1 DEF Untouched
      <4> QED BY <1>2, <2>1, <2>2, <3>1, <4>1
    <3>2. CASE reply \in {"rejected", "lost_never"}
      BY <2>3, <3>2
    <3> QED BY <2>3, <3>1, <3>2
  <2>6. Due(r)' <= Due(r)
    BY <2>3, <2>4, <2>5 DEF Due
  <2> QED BY <1>5, <2>1, <2>2, <2>6
\* A settled refund whose last write throws is parked, but it was made.
<1>8. CASE DbError(c) /\ pc[c] = "finalize"
  <2>1. sent[r] > 0
    BY <1>8 DEF IInv, SentInv, Settling
  <2>2. /\ UNCHANGED <<status, sent, late, reserved>>
        /\ \A d \in Callers \ {c} : pc'[d] = pc[d] /\ cur'[d] = cur[d]
        /\ pc'[c] \in {"markUnknown", "idle"} /\ cur'[c] \in {r, None}
    BY <1>8 DEF DbError
  <2>3. \A q \in Refundable \ {r} : Due(q)' = Due(q)
    BY <1>n, <2>2, DueElsewhere
  <2>4. ~Parked(r)' /\ (AtProvider(r)' => AtProvider(r))
    BY <2>1, <2>2 DEF Parked, Untouched, AtProvider
  <2>5. Held(r)' <= Held(r) /\ Held(r) \in Nat /\ Held(r)' \in Nat
    BY <2>4 DEF Held
  <2>6. \A q \in Refundable : Due(q) \in Nat
    BY DueTyped
  <2>7. Due(r)' <= Due(r)
    BY <2>2, <2>5 DEF Due
  <2>8. \A q \in Refundable : Due(q)' <= Due(q)
    BY <2>3, <2>6, <2>7
  <2> QED BY <1>v, <2>2, <2>8, CoverKept
<1> QED BY <1>1, <1>3, <1>4, <1>6, <1>7, <1>8 DEF CallerStep

LEMMA NextCover ==
  ASSUME AnswersParse, IInv, TypeOK, UnracedInv, CoverInv, [Next]_vars
  PROVE  CoverInv'
<1> SUFFICES ASSUME crashes' = 0, ~sideBySide' PROVE Covered'
  BY DEF CoverInv
<1>t. CodeTypeOK /\ CodeTypeOK' /\ CallerInv
  BY NextType DEF IInv
<1>s. /\ ~sideBySide
      /\ \/ Elsewhere
         \/ \E c \in Callers : CallerStep(c) /\ ~SideBySide(c)
         \/ UNCHANGED vars
  BY Unraced
<1>0. ASSUME NEW c \in Callers PROVE ~Crash(c)
  BY <1>t DEF Crash, CodeTypeOK
<1>1. crashes = 0
  <2>1. ASSUME NEW c \in Callers, CallerStep(c) \/ DbError(c) PROVE UNCHANGED crashes
    BY <2>1 DEF CallerStep, Lookup, LookupThen, LookupFails, ReleaseQuiet, FailQuiet, Claim,
       SaveApproval, Reserve, CallProvider, CallThen, ReleaseRejected, MarkFailed, MarkUnknown,
       SettleRead, SettleWrite, MarkRefunded, Finalize, FinalizeFrom, DbError, budgetVars
  <2>2. ASSUME NEW r \in Refundable,
               \/ CreateRefund(r) \/ ProviderActsLate(r) \/ QuietPasses(r)
               \/ \E c \in Callers : ProcessRefund(c, r) \/ ReconcileRefund(c, r) \/ ApproveRequest(c, r)
        PROVE UNCHANGED crashes
    BY <2>2 DEF CreateRefund, ProviderActsLate, QuietPasses, ProcessRefund, ReconcileRefund,
       ApproveRequest, Enter, budgetVars
  <2>3. CASE UNCHANGED vars BY <2>3 DEF vars, codeVars, budgetVars
  <2> QED BY <1>s, <1>0, <2>1, <2>2, <2>3 DEF Elsewhere, Callers, Refundable
<1>2. QuietInv /\ Covered
  BY <1>1, <1>s DEF CoverInv, UnracedInv
<1>v. reserved \in Nat BY <1>t, AmountAssumption DEF CodeTypeOK
<1>3. ASSUME NEW c \in Callers, (CallerStep(c) /\ ~SideBySide(c)) \/ DbError(c) PROVE Covered'
  BY <1>2, <1>3, <1>t, CallerStepCovered
\* Other steps park nothing and reserve nothing.
<1>4. ASSUME UNCHANGED <<sent, late, reserved>>,
             \A d \in Callers : \/ pc'[d] = pc[d] /\ cur'[d] = cur[d]
                                \/ {pc[d], pc'[d]} \cap Holding = {},
             \A q \in Refundable : status'[q] = "PROVIDER_UNKNOWN" => status[q] = "PROVIDER_UNKNOWN"
      PROVE Covered'
  <2>1. \A q \in Refundable : Due(q)' <= Due(q)
    BY <1>4, <1>t, DueNoMore
  <2> QED BY <1>2, <1>4, <1>t, <1>v, <2>1, CoverKept
<1>5. ASSUME NEW c \in Callers, NEW r \in Refundable,
             ProcessRefund(c, r) \/ ReconcileRefund(c, r) \/ ApproveRequest(c, r)
      PROVE Covered'
  <2>1. /\ UNCHANGED <<status, sent, late, reserved>>
        /\ pc[c] = "idle" /\ pc'[c] \in {"lookup", "claim", "approve"}
        /\ \A d \in Callers \ {c} : pc'[d] = pc[d] /\ cur'[d] = cur[d]
    BY <1>5, <1>t DEF ProcessRefund, ReconcileRefund, ApproveRequest, Enter, CodeTypeOK,
       recordVars, payVars, providerVars
  <2>2. {pc[c], pc'[c]} \cap Holding = {} BY <2>1 DEF Holding
  <2> QED BY <1>4, <2>1, <2>2
<1>6. ASSUME NEW r \in Refundable, CreateRefund(r) \/ QuietPasses(r) PROVE Covered'
  BY <1>4, <1>6, <1>t DEF CreateRefund, QuietPasses, SetStatus, payVars, providerVars, callerVars, CodeTypeOK
<1>7. ASSUME NEW r \in Refundable, ProviderActsLate(r) PROVE Covered'
  <2>1. /\ UNCHANGED <<status, reserved, pc, cur>>
        /\ sent'[r] + late'[r] = sent[r] + late[r] /\ sent'[r] > 0
        /\ \A q \in Refundable \ {r} : sent'[q] = sent[q] /\ late'[q] = late[q]
    BY <1>7, <1>t DEF ProviderActsLate, recordVars, payVars, callerVars, CodeTypeOK
  <2>2. ASSUME NEW q \in Refundable PROVE Due(q)' <= Due(q)
    <3>1. AtProvider(q)' => AtProvider(q) BY <2>1 DEF AtProvider
    <3>2. Parked(q)' => Parked(q) BY <2>1 DEF Parked, Untouched
    <3>3. Held(q)' <= Held(q) /\ Held(q) \in Nat /\ Held(q)' \in Nat
      BY <3>1, <3>2 DEF Held
    <3>4. sent'[q] + late'[q] = sent[q] + late[q] BY <2>1
    <3>5. sent[q] + late[q] \in Nat /\ sent'[q] + late'[q] \in Nat BY <1>t DEF CodeTypeOK
    <3> QED BY <3>3, <3>4, <3>5 DEF Due
  <2> QED BY <1>2, <1>t, <1>v, <2>1, <2>2, CoverKept
<1>8. CASE UNCHANGED vars
  <2>1. /\ UNCHANGED <<sent, late, reserved>>
        /\ \A d \in Callers : pc'[d] = pc[d] /\ cur'[d] = cur[d]
        /\ \A q \in Refundable : status'[q] = "PROVIDER_UNKNOWN" => status[q] = "PROVIDER_UNKNOWN"
    BY <1>8 DEF vars, codeVars, recordVars, payVars, providerVars, callerVars
  <2> QED BY <1>2, <1>4, <2>1
<1> QED BY <1>s, <1>0, <1>2, <1>3, <1>5, <1>6, <1>7, <1>8 DEF Elsewhere, Callers, Refundable

\* What left is part of what is due.
LEMMA CoveredIsReserved ==
  ASSUME CodeTypeOK, Covered PROVE SentTotal <= reserved
<1> DEFINE paid == [r \in Refundable |-> sent[r] * Amount[r]]
<1>1. \A m, n, a \in Nat : m * a \in Nat /\ (m <= n => m * a <= n * a) OBVIOUS
<1>2. ASSUME NEW r \in Refundable
      PROVE  /\ paid[r] \in Nat /\ DueMoney[r] \in Nat /\ paid[r] <= DueMoney[r]
  <2>1. Held(r) \in Nat BY DEF Held
  <2>2. sent[r] \in Nat /\ Due(r) \in Nat /\ sent[r] <= Due(r)
    BY <2>1 DEF Due, CodeTypeOK
  <2>3. Amount[r] \in Nat BY AmountAssumption
  <2>4. paid[r] = sent[r] * Amount[r] /\ DueMoney[r] = Due(r) * Amount[r]
    BY DEF DueMoney
  <2> QED BY <1>1, <2>2, <2>3, <2>4
<1>3. paid \in [Refundable -> Nat] /\ DueMoney \in [Refundable -> Nat]
  BY <1>2 DEF DueMoney
<1>4. /\ IsFiniteSet(Units(paid))
      /\ Cardinality(Units(paid)) <= Cardinality(Units(DueMoney))
  <2> HIDE DEF paid
  <2> QED BY <1>2, <1>3, UnitsMonotone DEF Covered
<1>5. Cardinality(Units(paid)) \in Nat /\ Cardinality(Units(DueMoney)) \in Nat
  BY <1>4, FS_CardinalityType DEF Covered
<1>6. reserved \in Nat BY AmountAssumption DEF CodeTypeOK
<1>7. SentTotal = Cardinality(Units(paid)) BY DEF SentTotal
<1> HIDE DEF paid
<1> QED BY <1>4, <1>5, <1>6, <1>7 DEF Covered

\* The money that left is reserved on the payment, whatever is lost, late,
\* parked, looked up, retried or not written, and however many requests of the
\* staff and ticks of the job are at it, for every amount and number of
\* refunds: what other refunds are checked against is never too high, unless
\* somebody dies at work, or two of the staff approve one request, or give one
\* parked refund up, side by side.
THEOREM RefundsReservationCovers ==
  ASSUME AnswersParse PROVE Spec => []ReservationCovers
<1>1. Init => CoverInv BY InitCover
<1>2. IInv /\ TypeOK /\ UnracedInv /\ CoverInv /\ [Next]_vars => CoverInv' BY NextCover
<1>3. IInv /\ CoverInv => ReservationCovers
  BY CoveredIsReserved DEF IInv, CoverInv, ReservationCovers
<1> QED BY <1>1, <1>2, <1>3, RefundsInvariant, RefundsTypeCorrect, RefundsUnraced, PTL DEF Spec
=============================================================================
