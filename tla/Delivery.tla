------------------------------ MODULE Delivery ------------------------------
(***************************************************************************)
(* An order from the sealed parcel to the customer's door or the partner's  *)
(* counter, and back: Shipment and Custody, which share the order's status. *)
(***************************************************************************)
EXTENDS Custody

vars == <<shipmentVars, custodyVars>>

Init == ShipmentInit /\ CustodyInit
Next == \/ ShipmentNext /\ UNCHANGED custodyVars
        \/ CustodyNext
Spec == Init /\ [][Next]_vars

(* A process that does not stop goes on, a lease ends, and the courier      *)
(* delivers an event again and again until it is settled.                   *)
Fairness ==
  /\ \A d \in Hooks : WF_vars(HookStep(d) /\ UNCHANGED <<fixed, custodyVars>>)
  /\ \A e \in Events :
       /\ WF_vars(LeaseExpires(e) /\ UNCHANGED <<fixed, custodyVars>>)
       /\ SF_vars((\E d \in Hooks : Receive(d, e)) /\ UNCHANGED <<fixed, custodyVars>>)
FairSpec == Spec /\ Fairness

(* What is paid at the door goes with the courier, what is collected at a   *)
(* partner's counter is brought there by hand: the orders the run follows.  *)
DispatchInit == Init /\ fez = IF handover THEN Groups ELSE {}
DispatchSpec == DispatchInit /\ [][Next]_vars /\ Fairness

-----------------------------------------------------------------------------
(* Everything has its type. *)
TypeOK ==
  /\ handover \in BOOLEAN /\ {fez, sealed} \subseteq SUBSET Groups /\ sealed \subseteq Groups
  /\ ship \in [Groups -> [status : Statuses \cup {"NONE"}, version : Nat,
       release : {"NONE", "NOT_REQUIRED", "AWAITING_HANDOVER_PAYMENT", "RELEASE_APPROVED"}]]
  /\ ordStatus \in {"IN_FULFILMENT", "READY_FOR_DISPATCH", "IN_TRANSIT", "PARTIALLY_IN_TRANSIT",
       "PARTIALLY_DELIVERED", "DELIVERED", "COLLECTED", "RETURN_IN_PROGRESS", "REFUNDED"}
  /\ paid \subseteq linked /\ linked \subseteq Groups /\ early \subseteq paid
  /\ refusals \in Nat /\ eligible \in BOOLEAN
  /\ bookings \in [Groups -> Nat] /\ truth \in [Groups -> Statuses] /\ reported \subseteq Events
  /\ row \in [Events -> {"NONE", "RECEIVED", "PROCESSED", "IGNORED"}]
  /\ leased \subseteq Events /\ dismissed \subseteq Events
  /\ pc \in [Procs -> {"ready", "courier", "create", "update", "look", "same", "apply", "ignore", "unlock"}]
  /\ repeats \in Nat /\ crashes \in Nat
  /\ custody \in {"none", "AWAITING_RECEIPT", "IN_CUSTODY", "RELEASED", "OVERDUE"}
  /\ pastDue \in BOOLEAN /\ refunded \in {"none", "payment", "order"}
  /\ returns \in [Customers -> {"none", "REQUESTED", "APPROVED", "REJECTED"}]
  /\ at \in [Requests -> {"ready", "overdue", "receive", "order", "payments", "release",
                          "collected", "create", "return"}]
  /\ releases \in Nat

(* A shipment goes from one status to another along a road only, whoever    *)
(* moves it and however old the reading on which the move was decided: the  *)
(* version in the filters of updateShipment and logisticsWebhook.           *)
FollowsTheRoad ==
  [][\A g \in Groups : ship'[g].status # ship[g].status =>
       ~Booked(g) \/ <<ship[g].status, ship'[g].status>> \in CourierRoad]_vars

(* A failed delivery costs the customer one refusal, however often the      *)
(* courier reports it and whatever dies on the way: more only when staff    *)
(* report it again (logisticsWebhook's lease and event row, recordPodRefusal).*)
Failed == {g \in Groups : ship[g].status \in {"DELIVERY_FAILED", "RETURN_IN_TRANSIT", "RETURNED_TO_HOOK"}}
RefusalPerFailure == refusals <= Cardinality(Failed) + repeats

(* A parcel whose payment was asked for at the door is on its way back to   *)
(* the road once that payment is in: no old reading asks for it again       *)
(* (confirmPayment's release against updateShipment's stale releaseStatus). *)
PaidIsReleased == \A g \in paid \ early : ~Asked(g) /\ ship[g].release = "RELEASE_APPROVED"

(* A delivered order has no parcel on the way.                               *)
DeliveredIsWhole ==
  ordStatus = "DELIVERED" => \A g \in Groups : Booked(g) => ship[g].status = "DELIVERED"

(* In the end every event the courier has reported is settled, whatever     *)
(* dies, as long as the courier delivers it again after its lease.          *)
Settled(e) == row[e] \in {"PROCESSED", "IGNORED"}
EventsSettle == <>[](\A e \in reported : Settled(e))

(* An event the courier was told is being handled is being handled: its     *)
(* lease is live or it is settled.                                          *)
AnsweredIsHandled == \A e \in dismissed : Settled(e) \/ e \in leased

(* Until it is paid for or released by staff, a parcel to be paid at the    *)
(* door is not delivered.                                                   *)
NotDeliveredUnreleased ==
  \A g \in Groups : ship[g].status = "DELIVERED" => ship[g].release # "AWAITING_HANDOVER_PAYMENT"

(* A parcel in custody is handed over once, and the order says COLLECTED    *)
(* only after that (two requests at the counter, an overdue record).        *)
HandedOverOnce == releases <= 1 /\ (ordStatus = "COLLECTED" => releases = 1)

(* Both ways to the customer: a paid parcel is let go, and let go once.     *)
LetGoOnce == PaidIsReleased /\ HandedOverOnce
=============================================================================
