----------------------------- MODULE OrderDesk -----------------------------
(***************************************************************************)
(* What operations do to an order at the desk: the confirmation call, the   *)
(* override and the decision on Pay on Delivery (PodService), correcting    *)
(* the delivery and splitting the order (admin orders.controller,           *)
(* splitOrderIntoGroups), switching the courier of a booked shipment and    *)
(* drawing a new handover code (FulfilmentService).  The hub consolidates   *)
(* and books beside them; OrderPayment has cancelling and the refund of the *)
(* fee, Sourcing and Shipment the whole of what the hub does.               *)
(***************************************************************************)
EXTENDS Integers, Sequences, FiniteSets
LOCAL INSTANCE FiniteSetsExt

CONSTANTS
  Requests,   \* numbers from 1
  Items,      \* OrderItems
  Price,      \* [Items -> totalPriceMinor]
  Fee,        \* deliveryFeeMinor of the order
  MaxRetries  \* bound on a transaction's second attempts

VARIABLES
  order,     \* status, method, high (requiresOverride), call, override, timeline, address
  overrides, \* PodOverride exists
  eligible,  \* podEligible of the customer
  groups,    \* OrderFulfilmentGroups: [id, items, fee]
  groupOf,   \* [Items -> fulfilmentGroupId of the item]
  parcel,    \* Consolidation: [made, group]
  shipment,  \* [made, group, address, courier, picked, version]
  pack,      \* RunnerPackage at the hub's door: [code, locked, waiting], code 0 not readable
  told,      \* the handover codes Market Associates were given
  decided,   \* the decisions that took effect
  req        \* [Requests -> a request: op, on, at, seen]

deskVars == <<order, overrides, eligible, groups, groupOf, parcel, shipment, pack, told, decided, req>>

Ask(op, on) == [op |-> op, on |-> on, at |-> "start", seen |-> <<>>]
NoId == <<0, 0>>

(* does[r] is what request r asks for                                       *)
Init(does, status, high) ==
  /\ order = [status |-> status, method |-> "POD", high |-> high, override |-> FALSE, timeline |-> {},
              address |-> 0, call |-> IF status = "approved" THEN "CONFIRMED" ELSE "none"]
  /\ overrides = FALSE /\ eligible = TRUE
  /\ groups = {[id |-> <<0, 1>>, items |-> Items, fee |-> Fee]}
  /\ groupOf = [i \in Items |-> <<0, 1>>]
  /\ parcel = [made |-> FALSE, group |-> NoId]
  /\ shipment = [made |-> FALSE, group |-> NoId, address |-> 0, courier |-> 0, picked |-> FALSE, version |-> 1]
  /\ pack = [code |-> 0, locked |-> FALSE, waiting |-> TRUE]
  /\ told = {} /\ decided = {}
  /\ req = [r \in Requests |-> does[r]]

Now(r, ops, at) == req[r].op \in ops /\ req[r].at = at
Goto(r, at) == req' = [req EXCEPT ![r] = [@ EXCEPT !.at = at]]
Remember(r, at, what) == req' = [req EXCEPT ![r] = [@ EXCEPT !.at = at, !.seen = what]]
Done(r) == Goto(r, "done")
InReview(o) == o.status = "review" /\ o.method = "POD"
Over(o) == o.status \in {"cancelled", "delivered"}

-----------------------------------------------------------------------------
(* recordCall and override read the order and save podReview whole          *)
ReadCall(r) ==
  /\ Now(r, {"call"}, "start") /\ (IF InReview(order) THEN Remember(r, "save", order) ELSE Done(r))
  /\ UNCHANGED <<order, overrides, eligible, groups, groupOf, parcel, shipment, pack, told, decided>>
SaveCall(r) ==
  /\ Now(r, {"call"}, "save")
  /\ order' = [order EXCEPT !.call = req[r].on, !.override = req[r].seen.override] /\ Done(r)
  /\ UNCHANGED <<overrides, eligible, groups, groupOf, parcel, shipment, pack, told, decided>>
ReadOverride(r) ==
  /\ Now(r, {"override"}, "start")
  /\ IF order.method = "POD" /\ order.high THEN Remember(r, "insert", order) ELSE Done(r)
  /\ UNCHANGED <<order, overrides, eligible, groups, groupOf, parcel, shipment, pack, told, decided>>
InsertOverride(r) ==
  /\ Now(r, {"override"}, "insert") /\ overrides' = TRUE /\ Goto(r, "save")
  /\ UNCHANGED <<order, eligible, groups, groupOf, parcel, shipment, pack, told, decided>>
SaveOverride(r) ==
  /\ Now(r, {"override"}, "save")
  /\ order' = [order EXCEPT !.override = TRUE, !.call = req[r].seen.call] /\ Done(r)
  /\ UNCHANGED <<overrides, eligible, groups, groupOf, parcel, shipment, pack, told, decided>>

(* decide: the checks on the order as it was read; then one transaction,    *)
(* if the status and the method are still those that were read              *)
MayApprove(o) == o.call = "CONFIRMED" /\ (o.high => o.override) /\ eligible
ReadDecision(r) ==
  /\ Now(r, {"approve", "prepay", "decline"}, "start")
  /\ IF InReview(order) /\ (req[r].op = "approve" => MayApprove(order)) THEN Remember(r, "decide", order) ELSE Done(r)
  /\ UNCHANGED <<order, overrides, eligible, groups, groupOf, parcel, shipment, pack, told, decided>>
(* mutant: whatever has become of the order in between                      *)
Regardless(seen) == TRUE
AsRead(seen) == order.status = seen.status /\ order.method = seen.method
Outcome(op) ==
  CASE op = "approve" -> [status |-> "approved", method |-> "POD"]
    [] op = "prepay" -> [status |-> "awaiting_payment", method |-> "PREPAID"]
    [] op = "decline" -> [status |-> "cancelled", method |-> "POD"]
Decide(r) ==
  /\ Now(r, {"approve", "prepay", "decline"}, "decide")
  /\ IF AsRead(req[r].seen)
     THEN /\ order' = [order EXCEPT !.status = Outcome(req[r].op).status, !.method = Outcome(req[r].op).method,
                                    !.timeline = @ \cup {r}]
          /\ decided' = decided \cup {r}
     ELSE UNCHANGED <<order, decided>>
  /\ Done(r) /\ UNCHANGED <<overrides, eligible, groups, groupOf, parcel, shipment, pack, told>>
(* restoreCustomer; a refusal at the door takes the right away              *)
RestoreCustomer(r) ==
  /\ Now(r, {"restore"}, "start") /\ eligible' = TRUE /\ Done(r)
  /\ UNCHANGED <<order, overrides, groups, groupOf, parcel, shipment, pack, told, decided>>
Refuse(r) ==
  /\ Now(r, {"refuse"}, "start") /\ eligible' = FALSE /\ Done(r)
  /\ UNCHANGED <<order, overrides, groups, groupOf, parcel, shipment, pack, told, decided>>

-----------------------------------------------------------------------------
(* updateDelivery saves the address and the timeline as it read it          *)
ReadCorrection(r) ==
  /\ Now(r, {"correct"}, "start") /\ (IF Over(order) THEN Done(r) ELSE Remember(r, "save", order))
  /\ UNCHANGED <<order, overrides, eligible, groups, groupOf, parcel, shipment, pack, told, decided>>
SaveCorrection(r) ==
  /\ Now(r, {"correct"}, "save")
  /\ order' = [order EXCEPT !.address = r, !.timeline = req[r].seen.timeline \cup {r}] /\ Done(r)
  /\ UNCHANGED <<overrides, eligible, groups, groupOf, parcel, shipment, pack, told, decided>>

(* splitOrderIntoGroups: on is the plan, a sequence of sets of items        *)
Partition(plan) ==
  /\ Len(plan) >= 2 /\ UNION {plan[k] : k \in 1..Len(plan)} = Items
  /\ \A k \in 1..Len(plan) : plan[k] # {} /\ \A l \in 1..Len(plan) : l # k => plan[k] \cap plan[l] = {}
ReadSplit(r) ==
  /\ Now(r, {"split"}, "start")
  /\ IF Over(order) \/ shipment.made \/ ~Partition(req[r].on) THEN Done(r) ELSE Remember(r, "write", order)
  /\ UNCHANGED <<order, overrides, eligible, groups, groupOf, parcel, shipment, pack, told, decided>>
Total(s) == MapThenSumSet(LAMBDA i : Price[i], s)
(* share: rounded down, the rest on the last; what is already allocated is  *)
(* counted outside of the transaction, so it starts from the whole fee when *)
(* the transaction is tried again                                           *)
Share(plan, k, before) ==
  LET floor(j) == (Fee * Total(plan[j])) \div Total(Items) IN
  IF k < Len(plan) THEN floor(k) ELSE Fee - before - MapThenSumSet(floor, 1..(Len(plan) - 1))
(* mutant: the old groups are left                                          *)
Kept == groups
Retired == {}
Regrouped(r, before) ==
  LET plan == req[r].on IN
  /\ groups' = Retired \cup {[id |-> <<r, k>>, items |-> plan[k], fee |-> Share(plan, k, before)] : k \in 1..Len(plan)}
  /\ groupOf' = [i \in Items |-> <<r, CHOOSE k \in 1..Len(plan) : i \in plan[k]>>]
  /\ order' = [order EXCEPT !.timeline = req[r].seen.timeline \cup {r}]
WriteSplit(r) ==
  /\ Now(r, {"split"}, "write") /\ Regrouped(r, 0) /\ Done(r)
  /\ UNCHANGED <<overrides, eligible, parcel, shipment, pack, told, decided>>
(* the transaction is tried again; no share may be below zero               *)
RetrySplit(r) ==
  /\ MaxRetries > 0 /\ Now(r, {"split"}, "write")
  /\ IF Share(req[r].on, Len(req[r].on), Fee) >= 0 THEN Regrouped(r, Fee) ELSE UNCHANGED <<groups, groupOf, order>>
  /\ Done(r) /\ UNCHANGED <<overrides, eligible, parcel, shipment, pack, told, decided>>

(* the hub: consolidate all items of a group, then book under its name      *)
Consolidate(r) ==
  /\ Now(r, {"consolidate"}, "start") /\ order.status = "approved" /\ ~parcel.made
  /\ \E g \in groups : parcel' = [made |-> TRUE, group |-> g.id]
  /\ Done(r) /\ UNCHANGED <<order, overrides, eligible, groups, groupOf, shipment, pack, told, decided>>
Book(r) ==
  /\ Now(r, {"book"}, "start") /\ parcel.made /\ ~shipment.made
  /\ shipment' = [shipment EXCEPT !.made = TRUE, !.group = parcel.group, !.address = order.address]
  /\ Done(r) /\ UNCHANGED <<order, overrides, eligible, groups, groupOf, parcel, pack, told, decided>>
PickUp(r) ==
  /\ Now(r, {"pickup"}, "start") /\ shipment.made
  /\ shipment' = [shipment EXCEPT !.picked = TRUE, !.version = @ + 1]
  /\ Done(r) /\ UNCHANGED <<order, overrides, eligible, groups, groupOf, parcel, pack, told, decided>>
(* reassignShipmentCourier, until pickup and if nobody changed the shipment *)
ReadSwitch(r) ==
  /\ Now(r, {"switch"}, "start") /\ shipment.made
  /\ IF shipment.picked \/ req[r].on = shipment.courier THEN Done(r) ELSE Remember(r, "switch", shipment)
  /\ UNCHANGED <<order, overrides, eligible, groups, groupOf, parcel, shipment, pack, told, decided>>
SwitchCourier(r) ==
  /\ Now(r, {"switch"}, "switch")
  /\ IF shipment.version = req[r].seen.version /\ ~shipment.picked
     THEN /\ shipment' = [shipment EXCEPT !.courier = req[r].on, !.version = @ + 1]
          /\ order' = [order EXCEPT !.timeline = @ \cup {r}]
     ELSE UNCHANGED <<shipment, order>>
  /\ Done(r) /\ UNCHANGED <<overrides, eligible, groups, groupOf, parcel, pack, told, decided>>

-----------------------------------------------------------------------------
(* regenerateHandoverCode: a code that can be read is told, another is      *)
(* replaced only if it is still the one that was read                       *)
ReadPack(r) ==
  /\ Now(r, {"code"}, "start")
  /\ IF ~pack.waiting \/ pack.locked THEN Done(r) /\ UNCHANGED told
     ELSE IF pack.code # 0 THEN told' = told \cup {pack.code} /\ Done(r)
     ELSE UNCHANGED told /\ Remember(r, "draw", pack)
  /\ UNCHANGED <<order, overrides, eligible, groups, groupOf, parcel, shipment, pack, decided>>
(* mutant: it is replaced if the package still waits                        *)
StillWaits(seen) == pack.waiting /\ ~pack.locked
StillUnread(seen) == StillWaits(seen) /\ pack.code = seen.code
DrawCode(r) ==
  /\ Now(r, {"code"}, "draw")
  /\ IF StillUnread(req[r].seen)
     THEN pack' = [pack EXCEPT !.code = r] /\ told' = told \cup {r}
     ELSE UNCHANGED pack /\ told' = (IF pack.code # 0 THEN told \cup {pack.code} ELSE told)
  /\ Done(r) /\ UNCHANGED <<order, overrides, eligible, groups, groupOf, parcel, shipment, decided>>
LockPack(r) ==
  /\ Now(r, {"lock"}, "start") /\ pack' = [pack EXCEPT !.locked = TRUE] /\ Done(r)
  /\ UNCHANGED <<order, overrides, eligible, groups, groupOf, parcel, shipment, told, decided>>
ReceivePack(r) ==
  /\ Now(r, {"receive"}, "start") /\ pack.code # 0 /\ pack' = [pack EXCEPT !.waiting = FALSE] /\ Done(r)
  /\ UNCHANGED <<order, overrides, eligible, groups, groupOf, parcel, shipment, told, decided>>

Next == \E r \in Requests :
  \/ ReadCall(r) \/ SaveCall(r) \/ ReadOverride(r) \/ InsertOverride(r) \/ SaveOverride(r)
  \/ ReadDecision(r) \/ Decide(r) \/ RestoreCustomer(r) \/ Refuse(r)
  \/ ReadCorrection(r) \/ SaveCorrection(r) \/ ReadSplit(r) \/ WriteSplit(r) \/ RetrySplit(r)
  \/ Consolidate(r) \/ Book(r) \/ PickUp(r) \/ ReadSwitch(r) \/ SwitchCourier(r)
  \/ ReadPack(r) \/ DrawCode(r) \/ LockPack(r) \/ ReceivePack(r)

-----------------------------------------------------------------------------
Quiet == \A r \in Requests : req[r].at = "done"

(* Every item is in one delivery, the one it names, although two operators  *)
(* split the order at the same time.                                        *)
ItemsInOneGroup ==
  \A i \in Items : \E g \in groups : groupOf[i] = g.id /\ {h \in groups : i \in h.items} = {g}

(* An order on review is decided by one operator: approved, turned into a   *)
(* prepaid one or declined, never two of these.                             *)
DecidedByOne == \A r, q \in decided : r = q

(* Every code a Market Associate was given for a package opens it.          *)
ToldCodeOpens == told \subseteq {pack.code}

-----------------------------------------------------------------------------
(* Not so: the fees of the deliveries add up to the fee of the order.       *)
SharesAddUp == MapThenSumSet(LAMBDA g : g.fee, groups) = Fee
(* Not so: a split that is asked for and not refused is made.               *)
SplitIsMade == Quiet => \A r \in Requests : (req[r].op = "split" /\ req[r].seen # <<>>) => r \in order.timeline
(* Not so: a shipment is of a delivery the order has.                       *)
ShipmentHasItsGroup == shipment.made => \E g \in groups : g.id = shipment.group
(* Not so: an override that was given is on the order.                      *)
ReviewIsKept == (Quiet /\ overrides) => order.override
(* Not so: an order is approved on a call that confirmed it.                *)
ApprovedIsConfirmed == order.status = "approved" => order.call = "CONFIRMED"
(* Not so: what was done stays on the timeline.                             *)
TimelineKept == [][order.timeline \subseteq order'.timeline]_deskVars
(* Not so: the parcel goes to the address the order has.                    *)
AddressIsDelivered == (Quiet /\ shipment.made) => shipment.address = order.address
=============================================================================
