------------------------------ MODULE MCOrders ------------------------------
(***************************************************************************)
(* The ways to pay in one run: an order whose delivery fee is paid first    *)
(* (the constant Method), one that is paid in full (InFull), or a payment   *)
(* that is paid by links which are opened, replaced and revoked (ByLink).   *)
(***************************************************************************)
EXTENDS OrderPayment

CONSTANTS PrepaidPayers, PrepaidWebhooks, PayRequests, MaxLapses

VARIABLES
  method, \* commercePaymentMethod, or "LINK"; does not change
  payment, links, attempts, overdue, charge, event, req

InFull == INSTANCE OrderPayment WITH Method <- "PREPAID", Payers <- PrepaidPayers, Webhooks <- PrepaidWebhooks, Operators <- {}
ByLink == INSTANCE Links
linkVars == <<payment, links, attempts, overdue, charge, event, req>>

(* What three requests do on a payment and its links.                       *)
LinkPlans ==
  { <<"create", "open", "open">>, <<"create", "again", "again">>, <<"topup", "topup", "open">>,
    <<"create", "open", "revoke">>, <<"create", "direct", "open">>, <<"create", "create", "open">> }
NoLinks == ByLink!Init(<<"nothing", "nothing", "nothing">>)

mcVars == <<method, vars, linkVars>>
MCInit ==
  \/ method = Method /\ Init /\ NoLinks
  \/ method = "PREPAID" /\ InFull!Init /\ NoLinks
  \/ method = "LINK" /\ Init /\ \E p \in LinkPlans : ByLink!Init(p)
MCNext ==
  \/ method = Method /\ Next /\ UNCHANGED <<method, linkVars>>
  \/ method = "PREPAID" /\ InFull!Next /\ UNCHANGED <<method, linkVars>>
  \/ method = "LINK" /\ ByLink!Next /\ UNCHANGED <<method, vars>>

(* The fairness of OrderPayment and of Links that the confirmation needs.   *)
Checks(c) ==
  /\ UNCHANGED <<method, linkVars>>
  /\ \/ method = Method /\ Verify(c)
     \/ method = "PREPAID" /\ InFull!Verify(c)
Confirms(c) ==
  /\ UNCHANGED <<method, linkVars>>
  /\ \/ method = Method /\ ConfirmStep(c)
     \/ method = "PREPAID" /\ InFull!ConfirmStep(c)
Hears(x) == method = "LINK" /\ ByLink!Handles(x) /\ UNCHANGED <<method, vars>>
Asks == method = "LINK" /\ ByLink!VerifyByReference /\ UNCHANGED <<method, vars>>
MCSpec ==
  /\ MCInit /\ [][MCNext]_mcVars
  /\ \A c \in Polls : WF_mcVars(Checks(c))
  /\ \A c \in Confirmers : WF_mcVars(Confirms(c))
  /\ \A x \in ByLink!Refs : WF_mcVars(Hears(x))
  /\ WF_mcVars(Asks)

(* A payment that was confirmed while a provider was still being asked for  *)
(* a checkout is not taken back to PROCESSING by the answer                 *)
(* (payment-link.service.ts's landing, payment.service.ts's guard).         *)
ConfirmedNeverReverts == ByLink!ConfirmedNeverReverts

(* What was paid under an attempt's reference confirms the payment, also    *)
(* when a later attempt has replaced the payment's own reference (the       *)
(* webhook finds the attempt).                                              *)
AttemptPaidIsConfirmed == ByLink!AttemptPaidIsConfirmed
=============================================================================
