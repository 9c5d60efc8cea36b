------------------------------- MODULE Custody -------------------------------
(***************************************************************************)
(* A parcel that a partner hands to the customer, and returns:              *)
(* FulfilmentService partnerCustody, syncPartnerCustody, createCustody,     *)
(* mutateCustody, createReturn and reviewReturn.  They meet the shipments   *)
(* of the order, and its refund, on the order's status, which all of them   *)
(* write without looking at it.                                             *)
(***************************************************************************)
EXTENDS Shipment

CONSTANTS Counter,   \* a partner's requests to receive and to release
          Customers  \* requests of the customer to return what was delivered

ASSUME CustodyAssumption ==
  Counter \cap Customers = {} /\ (Counter \cup Customers) \cap (Desk \cup Hooks) = {}

VARIABLES
  (* PartnerCustody of the order, "none" before it; expiresAt has passed    *)
  custody, pastDue,
  (* the refund of the order: none, of its payment, recorded on the order;  *)
  (* the ReturnRequest of each customer's request                           *)
  refunded, returns,
  (* steps of these requests; history: how often the parcel was released     *)
  at, releases

custodyVars == <<custody, pastDue, refunded, returns, at, releases>>
Requests == Counter \cup Customers
To(r, step) == at' = [at EXCEPT ![r] = step]

CustodyInit ==
  /\ custody = "none" /\ pastDue = FALSE
  /\ refunded = "none"
  /\ returns = [r \in Customers |-> "none"]
  /\ at = [r \in Requests |-> "ready"]
  /\ releases = 0

-----------------------------------------------------------------------------
(* partnerCustody on demand, and syncPartnerCustody: one record per order   *)
OpenCustody ==
  /\ ~handover /\ custody = "none" /\ \E g \in Groups : Booked(g)
  /\ custody' = "AWAITING_RECEIPT"
  /\ UNCHANGED <<pastDue, refunded, returns, at, releases, shipmentVars>>

(* seven days pass *)
CustodyExpires ==
  /\ custody \notin {"none", "RELEASED"} /\ ~pastDue /\ pastDue' = TRUE
  /\ UNCHANGED <<custody, refunded, returns, at, releases, shipmentVars>>

(* mutateCustody up to its first write *)
CounterRead(r, action) ==
  /\ at[r] = "ready" /\ custody # "none"
  /\ \/ pastDue /\ custody # "RELEASED" /\ To(r, "overdue")
     \/ ~pastDue /\ action = "receive" /\ custody = "AWAITING_RECEIPT" /\ To(r, "receive")
     \/ ~pastDue /\ action = "release" /\ custody = "IN_CUSTODY" /\ To(r, "order")
  /\ UNCHANGED <<custody, pastDue, refunded, returns, releases, shipmentVars>>

(* the update looks at nothing but the record's id *)
MarkOverdue(r) ==
  /\ at[r] = "overdue"
  /\ custody' = "OVERDUE" /\ To(r, "ready")
  /\ UNCHANGED <<pastDue, refunded, returns, releases, shipmentVars>>

ReceiveParcel(r) ==
  /\ at[r] = "receive"
  /\ custody' = IF custody = "AWAITING_RECEIPT" THEN "IN_CUSTODY" ELSE custody
  /\ To(r, "ready")
  /\ UNCHANGED <<pastDue, refunded, returns, releases, shipmentVars>>

(* the order's status, then (with the right code) its payments *)
OrderIsLive == ordStatus \notin {"CANCELLED", "DELIVERY_FAILED", "RETURNED", "REFUNDED"}

CheckOrder(r) ==
  /\ at[r] = "order"
  /\ To(r, IF OrderIsLive THEN "payments" ELSE "ready")
  /\ UNCHANGED <<custody, pastDue, refunded, returns, releases, shipmentVars>>

Confirmed == refunded = "none"

CheckPayments(r) ==
  /\ at[r] = "payments"
  /\ \/ Confirmed /\ To(r, "release")
     \/ To(r, "ready") \* a payment is not confirmed, or the code is wrong
  /\ UNCHANGED <<custody, pastDue, refunded, returns, releases, shipmentVars>>

(* mutant: the status is not in the filter *)
MayReleaseAny == custody # "none"
MayRelease == custody = "IN_CUSTODY"

ReleaseParcel(r) ==
  /\ at[r] = "release"
  /\ IF MayRelease
       THEN custody' = "RELEASED" /\ releases' = releases + 1 /\ To(r, "collected")
       ELSE UNCHANGED <<custody, releases>> /\ To(r, "ready")
  /\ UNCHANGED <<pastDue, refunded, returns, shipmentVars>>

(* the order's status, in a write of its own *)
SetOrder(status) ==
  /\ ordStatus' = status
  /\ UNCHANGED <<fixed, sealed, ship, payVars, userVars, courierVars, eventVars, pc, seen, repeats, crashes>>

RecordCollected(r) ==
  /\ at[r] = "collected"
  /\ To(r, "ready") /\ SetOrder("COLLECTED")
  /\ UNCHANGED <<custody, pastDue, refunded, returns, releases>>

-----------------------------------------------------------------------------
(* createReturn: what it checks (within 24 hours), the record, the order    *)
MayReturn == ordStatus \in {"DELIVERED", "COLLECTED", "COMPLETED"}

ReturnRead(r) ==
  /\ at[r] = "ready" /\ MayReturn /\ returns[r] = "none"
  /\ To(r, "create")
  /\ UNCHANGED <<custody, pastDue, refunded, returns, releases, shipmentVars>>

CreateReturn(r) ==
  /\ at[r] = "create"
  /\ returns' = [returns EXCEPT ![r] = "REQUESTED"] /\ To(r, "return")
  /\ UNCHANGED <<custody, pastDue, refunded, releases, shipmentVars>>

RecordReturn(r) ==
  /\ at[r] = "return"
  /\ To(r, "ready") /\ SetOrder("RETURN_IN_PROGRESS")
  /\ UNCHANGED <<custody, pastDue, refunded, returns, releases>>

(* reviewReturn: one guarded update *)
ReviewReturn(r, decision) ==
  /\ returns[r] = "REQUESTED"
  /\ returns' = [returns EXCEPT ![r] = decision]
  /\ UNCHANGED <<custody, pastDue, refunded, at, releases, shipmentVars>>

-----------------------------------------------------------------------------
(* What Refunds models in detail: the payment is refunded in full, and the  *)
(* order's status follows in a later transaction                            *)
RefundPayment ==
  /\ ~handover /\ refunded = "none" /\ refunded' = "payment"
  /\ UNCHANGED <<custody, pastDue, returns, at, releases, shipmentVars>>
RefundOrder ==
  /\ refunded = "payment" /\ refunded' = "order" /\ SetOrder("REFUNDED")
  /\ UNCHANGED <<custody, pastDue, returns, at, releases>>

(* a process stops between two writes *)
CustodyCrash(r) ==
  /\ at[r] \in {"collected", "return"} /\ crashes < MaxCrashes /\ crashes' = crashes + 1
  /\ To(r, "ready")
  /\ UNCHANGED <<custody, pastDue, refunded, returns, releases,
                 fixed, orderVars, ship, payVars, userVars, courierVars, eventVars, pc, seen, repeats>>

CounterStep(r) ==
  \/ CounterRead(r, "receive") \/ CounterRead(r, "release")
  \/ MarkOverdue(r) \/ ReceiveParcel(r)
  \/ CheckOrder(r) \/ CheckPayments(r) \/ ReleaseParcel(r) \/ RecordCollected(r)

CustodyNext ==
  \/ OpenCustody \/ CustodyExpires
  \/ \E r \in Counter : CounterStep(r)
  \/ \E r \in Customers : \/ ReturnRead(r) \/ CreateReturn(r) \/ RecordReturn(r)
                          \/ \E decision \in {"APPROVED", "REJECTED"} : ReviewReturn(r, decision)
  \/ RefundPayment \/ RefundOrder
  \/ \E r \in Requests : CustodyCrash(r)
=============================================================================
