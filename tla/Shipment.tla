------------------------------ MODULE Shipment ------------------------------
(***************************************************************************)
(* The shipments of one order, one per fulfilment group: FulfilmentService  *)
(* createManualShipment, updateShipment, logisticsWebhook and               *)
(* recordPodRefusal, and the transaction of PaymentService.confirmPayment   *)
(* that releases a parcel paid at the door.  Staff requests, the courier's  *)
(* events and payments meet on a shipment; its version is what keeps a      *)
(* decision made on an old reading from being written.                      *)
(***************************************************************************)
EXTENDS Naturals, FiniteSets

CONSTANTS Groups,      \* fulfilment groups, each of a source State of its own
          Reports,     \* the statuses the courier reports, each once
          Insists,     \* the courier delivers again what is answered as a duplicate
          Desk,        \* requests of the staff to book, to update and to cancel
          Hooks,       \* deliveries of a courier's event that are under way
          PodLimit,    \* podRefusalSuspendCount
          MaxRepeats,  \* bound: updates to the status a shipment has already
          MaxCrashes   \* bound: requests that die, and answers that are lost

ASSUME ShipmentAssumption ==
  /\ Insists \in BOOLEAN
  /\ PodLimit \in Nat \ {0} /\ MaxRepeats \in Nat /\ MaxCrashes \in Nat
  /\ Desk \cap Hooks = {}

VARIABLES
  (* the order's commercePaymentMethod is PAY_AT_HANDOVER; the groups that  *)
  (* are booked with the courier, the others by hand: neither changes       *)
  handover, fez,
  (* the database: consolidations, shipments, Order.commerceStatus, the     *)
  (* groups' handover payments, User.podRefusals and podEligible            *)
  sealed, ship, ordStatus, paid, refusals, eligible,
  (* the courier: bookings it took, where it says the parcel is, its events *)
  bookings, truth, reported,
  (* LogisticsWebhookEvent of an event: its status, a live lease            *)
  (* (it matters while the event is open); deliveries answered as duplicates *)
  row, leased, dismissed,
  (* payment links given out; requests: their step and what they read       *)
  linked, pc, seen,
  (* history: groups paid before their shipment asked; bounds               *)
  early, repeats, crashes

fixed == <<handover, fez>>
orderVars == <<sealed, ordStatus>>
payVars == <<paid, linked, early>>
userVars == <<refusals, eligible>>
courierVars == <<bookings, truth, reported>>
eventVars == <<row, leased, dismissed>>
shipmentVars == <<fixed, orderVars, ship, payVars, userVars, courierVars, eventVars,
                  pc, seen, repeats, crashes>>

Moving == {"PICKED_UP", "IN_TRANSIT", "OUT_FOR_DELIVERY"}

(* allowed of updateShipment *)
StaffRoad ==
  ({"BOOKED_WITH_PROVIDER"} \X {"AWAITING_PICKUP", "CANCELLED"})
  \cup ({"AWAITING_PICKUP"} \X {"PICKED_UP", "CANCELLED"})
  \cup ({"PICKED_UP"} \X {"IN_TRANSIT", "DELIVERY_FAILED"})
  \cup ({"IN_TRANSIT"} \X {"OUT_FOR_DELIVERY", "DELIVERY_FAILED", "RETURN_IN_TRANSIT"})
  \cup ({"OUT_FOR_DELIVERY"} \X {"DELIVERED", "DELIVERY_FAILED", "AWAITING_HANDOVER_PAYMENT"})
  \cup {<<"AWAITING_HANDOVER_PAYMENT", "RELEASE_APPROVED">>, <<"RELEASE_APPROVED", "DELIVERED">>,
        <<"DELIVERY_FAILED", "RETURN_IN_TRANSIT">>, <<"RETURN_IN_TRANSIT", "RETURNED_TO_HOOK">>}
(* allowed of logisticsWebhook: a courier may report less finely *)
CourierRoad ==
  StaffRoad \cup {<<"PICKED_UP", "RETURNED_TO_HOOK">>, <<"IN_TRANSIT", "DELIVERED">>,
                  <<"IN_TRANSIT", "RETURNED_TO_HOOK">>}
Statuses == {edge[1] : edge \in CourierRoad} \cup {edge[2] : edge \in CourierRoad}
ASSUME ReportsAssumption == Reports \subseteq Statuses

NoShip == [status |-> "NONE", version |-> 0, release |-> "NONE"]
Booked(g) == ship[g] # NoShip
Events == Groups \X Reports
Procs == Desk \cup Hooks
Nothing == [group |-> "none", next |-> "none", version |-> 0, release |-> "none"]
Seen(g, next, version, release) ==
  [group |-> g, next |-> next, version |-> version, release |-> release]

Goto(p, step) == pc' = [pc EXCEPT ![p] = step]
Keep(p, what) == seen' = [seen EXCEPT ![p] = what]
(* the request answers, or throws *)
Answer(p) == Goto(p, "ready") /\ Keep(p, Nothing)

ShipmentInit ==
  /\ handover \in BOOLEAN /\ fez \in SUBSET Groups
  /\ sealed = {} /\ ordStatus = "IN_FULFILMENT"
  /\ ship = [g \in Groups |-> NoShip]
  /\ paid = {} /\ linked = {} /\ early = {}
  /\ refusals = 0 /\ eligible = TRUE
  /\ bookings = [g \in Groups |-> 0]
  /\ truth = [g \in Groups |-> "BOOKED_WITH_PROVIDER"] /\ reported = {}
  /\ row = [e \in Events |-> "NONE"] /\ leased = {} /\ dismissed = {}
  /\ pc = [p \in Procs |-> "ready"] /\ seen = [p \in Procs |-> Nothing]
  /\ repeats = 0 /\ crashes = 0

-----------------------------------------------------------------------------
(* Booking *)

(* sealConsolidation: the order's status is set whatever it was *)
SealParcel(g) ==
  /\ g \notin sealed
  /\ sealed' = sealed \cup {g}
  /\ ordStatus' = "READY_FOR_DISPATCH"
  /\ UNCHANGED <<ship, payVars, userVars, courierVars, eventVars, pc, seen, repeats, crashes>>

(* createManualShipment up to its look for a shipment of this State *)
BookRead(p, g) ==
  /\ pc[p] = "ready" /\ g \in sealed /\ ~Booked(g)
  /\ Goto(p, IF g \in fez THEN "courier" ELSE "create")
  /\ Keep(p, Seen(g, "none", 0, "none"))
  /\ UNCHANGED <<orderVars, ship, payVars, userVars, courierVars, eventVars, repeats, crashes>>

(* fez.book, before anything is written *)
BookCourier(p) ==
  /\ pc[p] = "courier"
  /\ bookings' = [bookings EXCEPT ![seen[p].group] = @ + 1]
  /\ Goto(p, "create")
  /\ UNCHANGED <<orderVars, ship, payVars, userVars, truth, reported, eventVars, seen, repeats, crashes>>

(* it throws, and whether the courier took the booking is not known *)
BookCourierFails(p) ==
  /\ pc[p] = "courier" /\ crashes < MaxCrashes
  /\ crashes' = crashes + 1
  /\ \/ UNCHANGED bookings
     \/ bookings' = [bookings EXCEPT ![seen[p].group] = @ + 1]
  /\ Answer(p)
  /\ UNCHANGED <<orderVars, ship, payVars, userVars, truth, reported, eventVars, repeats>>

(* the transaction; a duplicate key answers with the concurrent shipment *)
CreateShipment(p) ==
  LET g == seen[p].group IN
  /\ pc[p] = "create"
  /\ IF Booked(g)
       THEN UNCHANGED <<ship, ordStatus>>
       ELSE /\ ship' = [ship EXCEPT ![g] =
                 [status |-> "BOOKED_WITH_PROVIDER", version |-> 1,
                  release |-> IF handover THEN "AWAITING_HANDOVER_PAYMENT" ELSE "NOT_REQUIRED"]]
            /\ ordStatus' = "READY_FOR_DISPATCH"
  /\ Answer(p)
  /\ UNCHANGED <<sealed, payVars, userVars, courierVars, eventVars, repeats, crashes>>

-----------------------------------------------------------------------------
(* What both writers of a shipment do *)

(* recordPodRefusal: at the limit the customer loses Pay on Delivery *)
RecordRefusal(next) ==
  IF next = "DELIVERY_FAILED" /\ handover
    THEN /\ refusals' = refusals + 1
         /\ eligible' = (eligible /\ refusals' < PodLimit)
    ELSE UNCHANGED userVars

Moved(sh, g, next, release) ==
  [sh EXCEPT ![g] = [status |-> next, version |-> @.version + 1, release |-> release]]

-----------------------------------------------------------------------------
(* updateShipment *)

MayUpdate(g, next) ==
  /\ ship[g].status = next \/ <<ship[g].status, next>> \in StaffRoad
  /\ next \in {"AWAITING_HANDOVER_PAYMENT", "RELEASE_APPROVED"} => handover
  /\ ~(next = "DELIVERED" /\ ship[g].release = "AWAITING_HANDOVER_PAYMENT")

UpdateRead(p, g, next) ==
  /\ pc[p] = "ready" /\ Booked(g) /\ MayUpdate(g, next)
  /\ ship[g].status = next => repeats < MaxRepeats
  /\ repeats' = IF ship[g].status = next THEN repeats + 1 ELSE repeats
  /\ Goto(p, "update") /\ Keep(p, Seen(g, next, ship[g].version, ship[g].release))
  /\ UNCHANGED <<orderVars, ship, payVars, userVars, courierVars, eventVars, crashes>>

(* the order's status, from all its shipments, read in the transaction *)
OrderAfter(sh, next) ==
  LET booked == {g \in Groups : sh[g] # NoShip}
      delivered == {g \in booked : sh[g].status = "DELIVERED"}
      moving == {g \in booked : sh[g].status \in Moving} IN
  IF next = "RETURN_IN_TRANSIT" THEN "RETURN_IN_PROGRESS"
  ELSE IF delivered = booked THEN "DELIVERED"
  ELSE IF delivered # {} THEN "PARTIALLY_DELIVERED"
  ELSE IF moving # {} /\ Cardinality(booked) > 1 THEN "PARTIALLY_IN_TRANSIT"
  ELSE IF moving # {} THEN "IN_TRANSIT" ELSE "unchanged"

(* mutant: the version is not in the filter *)
UnmovedAny(g, version) == Booked(g)
(* the filter of both writers: the version is the one that was read *)
Unmoved(g, version) == ship[g].version = version

UpdateWrite(p) ==
  LET g == seen[p].group
      next == seen[p].next
      release == IF next = "RELEASE_APPROVED" THEN "RELEASE_APPROVED" ELSE seen[p].release
      after == OrderAfter(Moved(ship, g, next, release), next) IN
  /\ pc[p] = "update"
  /\ IF Unmoved(g, seen[p].version)
       THEN /\ ship' = Moved(ship, g, next, release)
            /\ RecordRefusal(next)
            /\ ordStatus' = IF after = "unchanged" THEN ordStatus ELSE after
       ELSE UNCHANGED <<ship, userVars, ordStatus>>
  /\ Answer(p)
  /\ UNCHANGED <<sealed, payVars, courierVars, eventVars, repeats, crashes>>

-----------------------------------------------------------------------------
(* The courier and logisticsWebhook *)

(* how far along a status is; a courier skips some *)
Distance ==
  [status \in Statuses |->
     CASE status = "BOOKED_WITH_PROVIDER" -> 0 [] status = "AWAITING_PICKUP" -> 1
       [] status = "PICKED_UP" -> 2 [] status = "IN_TRANSIT" -> 3
       [] status = "OUT_FOR_DELIVERY" -> 4 [] status \in {"DELIVERED", "DELIVERY_FAILED"} -> 5
       [] status = "RETURN_IN_TRANSIT" -> 6 [] OTHER -> 7]

(* a parcel it has booked moves, and the courier says so *)
CourierReports(g, status) ==
  /\ g \in fez /\ bookings[g] > 0
  /\ truth[g] # "DELIVERED" /\ Distance[status] > Distance[truth[g]]
  /\ truth' = [truth EXCEPT ![g] = status]
  /\ reported' = reported \cup {<<g, status>>}
  /\ UNCHANGED <<orderVars, ship, payVars, userVars, bookings, eventVars, pc, seen, repeats, crashes>>

(* a delivery, the first or a repeated one, of an event not yet settled (a  *)
(* settled one is answered as a duplicate).  The row is created with its    *)
(* lease, or an unfinished one is taken over once nobody holds a live lease *)
(* mutant: an event that has a row is a duplicate *)
MayOwnNew(e) == row[e] = "NONE"
MayOwn(e) == row[e] = "NONE" \/ (row[e] = "RECEIVED" /\ e \notin leased)

Receive(d, e) ==
  /\ pc[d] = "ready" /\ e \in reported \ dismissed /\ MayOwn(e)
  /\ row' = [row EXCEPT ![e] = "RECEIVED"] /\ leased' = leased \cup {e}
  /\ Goto(d, "look") /\ Keep(d, Seen(e[1], e[2], 0, "none"))
  /\ UNCHANGED <<orderVars, ship, payVars, userVars, courierVars, dismissed, repeats, crashes>>

(* or it is answered as a duplicate: one that does not insist takes that    *)
(* for the event being handled                                              *)
AnswerDuplicate(e) ==
  /\ e \in reported \ dismissed /\ row[e] = "RECEIVED" /\ e \in leased
  /\ dismissed' = IF Insists THEN dismissed ELSE dismissed \cup {e}
  /\ UNCHANGED <<orderVars, ship, payVars, userVars, courierVars, row, leased, pc, seen, repeats, crashes>>

EventOf(d) == <<seen[d].group, seen[d].next>>

(* what the shipment it reads lets the event do *)
(* mutant: the status it has already is applied again *)
VerdictAgain(g, next) ==
  IF ship[g].status = next \/ <<ship[g].status, next>> \in CourierRoad THEN "apply" ELSE "ignore"
Verdict(g, next) ==
  IF ship[g].status = next THEN "same"
  ELSE IF <<ship[g].status, next>> \in CourierRoad THEN "apply" ELSE "ignore"

Look(d) ==
  LET g == seen[d].group IN
  /\ pc[d] = "look"
  /\ Goto(d, Verdict(g, seen[d].next))
  /\ Keep(d, [seen[d] EXCEPT !.version = ship[g].version])
  /\ UNCHANGED <<orderVars, ship, payVars, userVars, courierVars, eventVars, repeats, crashes>>

(* the event is marked, and nothing else *)
Settle(d) ==
  /\ pc[d] \in {"same", "ignore"}
  /\ row' = [row EXCEPT ![EventOf(d)] = IF pc[d] = "same" THEN "PROCESSED" ELSE "IGNORED"]
  /\ leased' = leased \ {EventOf(d)}
  /\ Answer(d)
  /\ UNCHANGED <<orderVars, ship, payVars, userVars, courierVars, dismissed, repeats, crashes>>

(* this one shipment decides the order's status *)
OrderAfterEvent(next) ==
  CASE next = "DELIVERED" -> "DELIVERED"
    [] next = "RETURN_IN_TRANSIT" -> "RETURN_IN_PROGRESS"
    [] next \in Moving -> "IN_TRANSIT"
    [] OTHER -> "unchanged"

(* the transaction: shipment, refusal, order and event *)
Apply(d) ==
  LET g == seen[d].group
      next == seen[d].next
      after == OrderAfterEvent(next) IN
  /\ pc[d] = "apply"
  /\ IF Unmoved(g, seen[d].version)
       THEN /\ ship' = Moved(ship, g, next, ship[g].release)
            /\ RecordRefusal(next)
            /\ ordStatus' = IF after = "unchanged" THEN ordStatus ELSE after
            /\ row' = [row EXCEPT ![EventOf(d)] = "PROCESSED"]
            /\ leased' = leased \ {EventOf(d)}
            /\ Answer(d)
       ELSE Goto(d, "unlock") /\ UNCHANGED <<ship, userVars, ordStatus, row, leased, seen>>
  /\ UNCHANGED <<sealed, payVars, courierVars, dismissed, repeats, crashes>>

(* the shipment had changed: the lease is given up, the answer is an error *)
Unlock(d) ==
  LET e == EventOf(d) IN
  /\ pc[d] = "unlock"
  /\ leased' = leased \ {e}
  /\ Answer(d)
  /\ UNCHANGED <<orderVars, ship, payVars, userVars, courierVars, row, dismissed, repeats, crashes>>

(* thirty seconds pass *)
LeaseExpires(e) ==
  /\ e \in leased /\ row[e] = "RECEIVED" /\ leased' = leased \ {e}
  /\ UNCHANGED <<orderVars, ship, payVars, userVars, courierVars, row, dismissed, pc, seen, repeats, crashes>>

-----------------------------------------------------------------------------
(* Paying at the door *)

Asked(g) == ship[g].status = "AWAITING_HANDOVER_PAYMENT" /\ ship[g].release = "AWAITING_HANDOVER_PAYMENT"

(* initialize, of the payment of a group: some shipment of the order asks *)
InitializeHandover(g) ==
  /\ handover /\ g \notin linked \cup paid
  /\ \E asking \in Groups : Asked(asking)
  /\ ordStatus # "CANCELLED"
  /\ linked' = linked \cup {g}
  /\ UNCHANGED <<orderVars, ship, paid, early, userVars, courierVars, eventVars, pc, seen, repeats, crashes>>

(* mutant: the version is not counted up *)
ReleasedQuietly(g) ==
  [ship EXCEPT ![g].status = "RELEASE_APPROVED", ![g].release = "RELEASE_APPROVED"]
Released(g) == Moved(ship, g, "RELEASE_APPROVED", "RELEASE_APPROVED")

(* the handover part of confirmPayment's transaction *)
ConfirmHandover(g) ==
  /\ g \in linked \ paid
  /\ paid' = paid \cup {g}
  /\ early' = IF Asked(g) THEN early ELSE early \cup {g}
  /\ ship' = IF Asked(g) THEN Released(g) ELSE ship
  /\ UNCHANGED <<orderVars, linked, userVars, courierVars, eventVars, pc, seen, repeats, crashes>>

-----------------------------------------------------------------------------
(* A process stops where that leaves something behind: a booking, a lease *)
Crash(p) ==
  /\ pc[p] \notin {"ready", "courier", "update"} /\ crashes < MaxCrashes
  /\ crashes' = crashes + 1
  /\ Answer(p)
  /\ UNCHANGED <<orderVars, ship, payVars, userVars, courierVars, eventVars, repeats>>

StaffStep(p) ==
  \/ \E g \in Groups : BookRead(p, g)
  \/ BookCourier(p) \/ BookCourierFails(p) \/ CreateShipment(p)
  \/ \E g \in Groups, next \in Statuses : UpdateRead(p, g, next)
  \/ UpdateWrite(p)
HookStep(d) == Look(d) \/ Settle(d) \/ Apply(d) \/ Unlock(d)

ShipmentNext ==
  /\ UNCHANGED fixed
  /\ \/ \E g \in Groups : SealParcel(g)
     \/ \E p \in Desk : StaffStep(p)
     \/ \E g \in Groups, status \in Reports : CourierReports(g, status)
     \/ \E d \in Hooks, e \in Events : Receive(d, e)
     \/ \E d \in Hooks : HookStep(d)
     \/ \E e \in Events : LeaseExpires(e) \/ AnswerDuplicate(e)
     \/ \E g \in Groups : InitializeHandover(g) \/ ConfirmHandover(g)
     \/ \E p \in Procs : Crash(p)
=============================================================================
