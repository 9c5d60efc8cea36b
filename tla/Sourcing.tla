------------------------------- MODULE Sourcing -------------------------------
(***************************************************************************)
(* One order's sourcing task, from the event that creates it to the sealed *)
(* parcel: FulfilmentService between consumeApprovedOrder and              *)
(* sealConsolidation, with the item issues that stop it on the way, and    *)
(* the part of AdminOrdersController.cancel that stops the task.           *)
(* A task's version guards the writes of associates and of staff on the    *)
(* task; receiving, quality checks, substitutions and send-backs count it  *)
(* up without looking at it, and verifications and issues never touch it.  *)
(* What a caller read before an await it keeps in req.                     *)
(***************************************************************************)
EXTENDS Naturals, FiniteSets
LOCAL INSTANCE TLC

CONSTANTS Items,         \* order items, of one market and one delivery group
          Packages,      \* publicIds of runner packages; a hub package has the
                         \* publicId of its runner package here
          Associates,    \* requests of the task's associate
          Staff,         \* requests of hub staff and administrators
          None,
          MaxVersion,    \* bound: versions of the task
          MaxChecks,     \* bound: versions of a hub package
          MaxDetours     \* bound: redeliveries, reassignments, blocks, declines,
                         \* items reported or found not to match

ASSUME RequestsAssumption == Associates \cap Staff = {}
ASSUME NoneAssumption == None \notin Packages
ASSUME BoundsAssumption == MaxVersion \in Nat /\ MaxChecks \in Nat /\ MaxDetours \in Nat

Callers == Associates \cup Staff

\* No definition tells items, packages or requests of a kind apart.
Symmetry == Permutations(Items) \cup Permutations(Packages) \cup Permutations(Associates) \cup Permutations(Staff)

VARIABLES
  order,       \* Order.commerceStatus
  deliveries,  \* of ORDER_APPROVED_FOR_FULFILMENT
  detours,     \* taken so far
  task,        \* FulfilmentTask: status, version, orderItemIds, resourceItemIds
  verified,    \* FulfilmentTask.itemVerifications, of each item
  resolution,  \* OrderItem.resolutionState
  active,      \* the ItemResolution under the partial unique index, of each item
  declined,    \* how many ItemResolutions of an item are DECLINED
  runner,      \* RunnerPackages
  slot,        \* the RunnerPackage whose taskId is the task's
  hub,         \* HubPackages
  parcel,      \* the Consolidation of the order's delivery group
  req          \* what each caller is doing

issueVars == <<resolution, active, declined>>
packVars == <<runner, slot, hub>>
sourcingVars == <<order, deliveries, detours, task, verified, issueVars, packVars, parcel, req>>

\* UNASSIGNED, ACCEPTED and COMPLETED, and a hub package that is RECEIVED, are
\* never written by the operations here.
Working == {"SOURCING", "PRODUCT_SECURED", "PACKING"}
TaskStatuses == Working \cup {"none", "ALERTED", "BLOCKED", "READY_FOR_HUB", "HUB_RECEIVED", "QC_PASSED", "CANCELLED"}
OrderStatuses == {"APPROVED", "IN_FULFILMENT", "READY_FOR_CONSOLIDATION", "READY_FOR_DISPATCH", "CANCELLED"}
Ops == {"idle", "verify", "submit", "packed", "report", "fail", "reopen", "consolidate", "cancel", "stop"}

Tasks == [status : TaskStatuses, version : Nat, items : SUBSET Items, resource : SUBSET Items]
Runners == [status : {"none", "READY_FOR_HUB", "HUB_RECEIVED"}, items : SUBSET Items]
\* failed: the items of qualityChecks; resourced: those entries were sent back;
\* keys: items with an issue whose idempotencyKey is qc-fail:<this package>.
HubPackages == [status : {"none", "QC_PENDING", "QC_FAILED", "QC_PASSED", "CONSOLIDATED"}, version : Nat,
                failed : SUBSET Items, resourced : BOOLEAN, keys : SUBSET Items]
RequestRecords == [op : Ops, version : Nat, items : SUBSET Items, found : SUBSET Items, packs : SUBSET Packages]
Parcels == [status : {"none", "DRAFT", "SEALED"}, packs : SUBSET Packages]

SourcingTypeOK ==
  /\ order \in OrderStatuses /\ deliveries \in Nat /\ detours \in Nat /\ task \in Tasks
  /\ verified \in [Items -> {"none", "mismatched", "matched"}]
  /\ resolution \in [Items -> {"OPEN", "REPLACEMENT_PENDING", "RESOLVED"}]
  /\ active \in [Items -> {"none", "OPEN", "CUSTOMER_APPROVAL_PENDING", "PAYMENT_PENDING"}]
  /\ declined \in [Items -> Nat]
  /\ runner \in [Packages -> Runners] /\ slot \in Packages \cup {None}
  /\ hub \in [Packages -> HubPackages]
  /\ parcel \in Parcels
  /\ req \in [Callers -> RequestRecords]

Idle == [op |-> "idle", version |-> 0, items |-> {}, found |-> {}, packs |-> {}]

SourcingInit ==
  /\ order = "APPROVED" /\ deliveries = 0 /\ detours = 0
  /\ task = [status |-> "none", version |-> 0, items |-> {}, resource |-> {}]
  /\ verified = [i \in Items |-> "none"]
  /\ resolution = [i \in Items |-> "OPEN"]
  /\ active = [i \in Items |-> "none"] /\ declined = [i \in Items |-> 0]
  /\ runner = [p \in Packages |-> [status |-> "none", items |-> {}]] /\ slot = None
  /\ hub = [p \in Packages |-> [status |-> "none", version |-> 0, failed |-> {}, resourced |-> FALSE, keys |-> {}]]
  /\ parcel = [status |-> "none", packs |-> {}]
  /\ req = [c \in Callers |-> Idle]

\* The request of c goes on, or is over.
Remember(c, op, version, items, found, packs) ==
  req' = [req EXCEPT ![c] = [op |-> op, version |-> version, items |-> items, found |-> found, packs |-> packs]]
Done(c) == req' = [req EXCEPT ![c] = Idle]

Counted == task.version < MaxVersion
Detour == detours < MaxDetours /\ detours' = detours + 1
MoveTask(status) == task' = [task EXCEPT !.status = status, !.version = @ + 1]
\* The items with an issue that is neither RESOLVED nor CANCELLED.
Unresolved == {i \in Items : active[i] # "none" \/ declined[i] > 0}
AllMatched == \A i \in task.items : verified[i] = "matched"

-----------------------------------------------------------------------------
(* The task.                                                               *)

\* A redelivery only sets the items again; they lack those already replaced.
ConsumeApprovedOrder ==
  LET wanted == {i \in Items : resolution[i] # "RESOLVED"} IN
  /\ order \in {"APPROVED", "IN_FULFILMENT"}
  /\ wanted # {}
  /\ deliveries' = deliveries + 1
  /\ order' = "IN_FULFILMENT"
  /\ \/ /\ task.status = "none" /\ Counted
        /\ \E s \in {"ALERTED", "BLOCKED"} :
             task' = [status |-> s, version |-> 1, items |-> wanted, resource |-> {}]
        /\ UNCHANGED detours
     \/ /\ task.status # "none" /\ Detour
        /\ task' = [task EXCEPT !.items = wanted]
  /\ UNCHANGED <<verified, issueVars, packVars, parcel, req>>

\* Writes guarded by the version that was read are one step.
StepTask(from, to) ==
  /\ task.status \in from /\ Counted
  /\ MoveTask(to)
  /\ UNCHANGED <<order, deliveries, verified, issueVars, packVars, parcel, req>>

Accept == StepTask({"ALERTED"}, "SOURCING") /\ UNCHANGED detours
Secure == Unresolved = {} /\ AllMatched /\ StepTask({"SOURCING"}, "PRODUCT_SECURED") /\ UNCHANGED detours
BeginPacking == StepTask({"PRODUCT_SECURED"}, "PACKING") /\ UNCHANGED detours
Reassign == StepTask(TaskStatuses \ {"none", "CANCELLED", "HUB_RECEIVED", "QC_PASSED"}, "ALERTED") /\ Detour
\* An associate may report a problem with a task in any status.
Block == StepTask(TaskStatuses \ {"none"}, "BLOCKED") /\ Detour
Unblock == StepTask({"BLOCKED"}, "ALERTED") /\ UNCHANGED detours

VerifyReads(c, i) ==
  /\ req[c].op = "idle"
  /\ task.status \in Working /\ i \in task.items
  /\ Remember(c, "verify", 0, {i}, {}, {})
  /\ UNCHANGED <<order, deliveries, detours, task, verified, issueVars, packVars, parcel>>

\* The write looks at neither the status nor the version.
VerifyWrites(c) ==
  /\ req[c].op = "verify"
  /\ \E i \in req[c].items :
       \/ verified' = [verified EXCEPT ![i] = "matched"] /\ UNCHANGED detours
       \/ verified' = [verified EXCEPT ![i] = "mismatched"] /\ Detour
  /\ Done(c)
  /\ UNCHANGED <<order, deliveries, task, issueVars, packVars, parcel>>

SubmitReads(c) ==
  /\ req[c].op = "idle"
  /\ task.status \in Working /\ Unresolved = {} /\ AllMatched
  /\ Remember(c, "submit", task.version, IF task.resource # {} THEN task.resource ELSE task.items, {}, {})
  /\ UNCHANGED <<order, deliveries, detours, task, verified, issueVars, packVars, parcel>>

SubmitPacksIf(c, reuse) ==
  /\ req[c].op = "submit"
  /\ \/ reuse /\ UNCHANGED <<runner, slot>>
     \/ /\ ~reuse
        /\ \E p \in Packages :
             /\ runner[p].status = "none"
             /\ runner' = [runner EXCEPT ![p] = [status |-> "READY_FOR_HUB", items |-> req[c].items]]
             /\ slot' = p
  /\ Remember(c, "packed", req[c].version, {}, {}, {})
  /\ UNCHANGED <<order, deliveries, detours, task, verified, issueVars, hub, parcel>>

\* Mutant: each submission makes a package, with no index on taskId.
SubmitPacksAnew(c) == SubmitPacksIf(c, FALSE)
\* The task's package is taken as it is, or created under the index on taskId.
SubmitPacks(c) == SubmitPacksIf(c, slot # None)

SubmitWritesIf(c, same) ==
  /\ req[c].op = "packed" /\ Counted
  /\ IF same THEN MoveTask("READY_FOR_HUB") ELSE UNCHANGED task
  /\ Done(c)
  /\ UNCHANGED <<order, deliveries, detours, verified, issueVars, packVars, parcel>>

SubmitWrites(c) == SubmitWritesIf(c, task.version = req[c].version)

\* marketAssociateTask repairs, on reading it, a task whose package is at the hub.
Heal ==
  /\ slot # None /\ runner[slot].status = "HUB_RECEIVED"
  /\ StepTask({"READY_FOR_HUB"}, "HUB_RECEIVED") /\ UNCHANGED detours

\* AdminOrdersController.cancel: the order, and later its task as read then.
AdminCancels(c) ==
  /\ req[c].op = "idle" /\ order # "CANCELLED"
  /\ order' = "CANCELLED"
  /\ Remember(c, "cancel", 0, {}, {}, {})
  /\ UNCHANGED <<deliveries, detours, task, verified, issueVars, packVars, parcel>>

StopReads(c) ==
  /\ req[c].op = "cancel" /\ task.status \notin {"none", "CANCELLED"}
  /\ Remember(c, "stop", task.version, {}, {}, {})
  /\ UNCHANGED <<order, deliveries, detours, task, verified, issueVars, packVars, parcel>>

StopWrites(c) ==
  /\ req[c].op = "stop" /\ Counted
  /\ IF task.version = req[c].version THEN MoveTask("CANCELLED") ELSE UNCHANGED task
  /\ Done(c)
  /\ UNCHANGED <<order, deliveries, detours, verified, issueVars, packVars, parcel>>

-----------------------------------------------------------------------------
(* Item issues.                                                            *)

ReportIssue(c, i) ==
  /\ req[c].op = "idle" /\ i \in task.items
  /\ active[i] = "none"
  /\ active' = [active EXCEPT ![i] = "OPEN"]
  /\ Remember(c, "report", 0, {i}, {}, {}) /\ Detour
  /\ UNCHANGED <<order, deliveries, task, verified, resolution, declined, packVars, parcel>>

\* The second write of the report.
MarkItem(c) ==
  /\ req[c].op = "report"
  /\ resolution' = [i \in Items |-> IF i \in req[c].items THEN "REPLACEMENT_PENDING" ELSE resolution[i]]
  /\ Done(c)
  /\ UNCHANGED <<order, deliveries, detours, task, verified, active, declined, packVars, parcel>>

\* A proposal is for an open issue, or for one the customer declined, which then
\* has to be the item's only active one.
ProposeIf(i, wanted) ==
  /\ wanted
  /\ IF active[i] = "OPEN" THEN UNCHANGED declined ELSE declined' = [declined EXCEPT ![i] = @ - 1]
  /\ active' = [active EXCEPT ![i] = "CUSTOMER_APPROVAL_PENDING"]
  /\ UNCHANGED <<order, deliveries, detours, task, verified, resolution, packVars, parcel, req>>

Propose(i) == ProposeIf(i, active[i] = "OPEN" \/ (active[i] = "none" /\ declined[i] > 0))

Decline(i) ==
  /\ active[i] = "CUSTOMER_APPROVAL_PENDING" /\ Detour
  /\ active' = [active EXCEPT ![i] = "none"]
  /\ declined' = [declined EXCEPT ![i] = @ + 1]
  /\ UNCHANGED <<order, deliveries, task, verified, resolution, packVars, parcel, req>>

\* Accepted with a difference in price: a top-up or a refund comes first.
AcceptForMoney(i) ==
  /\ active[i] = "CUSTOMER_APPROVAL_PENDING"
  /\ active' = [active EXCEPT ![i] = "PAYMENT_PENDING"]
  /\ UNCHANGED <<order, deliveries, detours, task, verified, resolution, declined, packVars, parcel, req>>

ApplyResolvedSubstitution(i) ==
  /\ active[i] \in {"CUSTOMER_APPROVAL_PENDING", "PAYMENT_PENDING"}
  /\ resolution[i] = "REPLACEMENT_PENDING" /\ Counted
  /\ resolution' = [resolution EXCEPT ![i] = "RESOLVED"]
  /\ active' = [active EXCEPT ![i] = "none"]
  /\ task' = [task EXCEPT !.version = @ + 1]
  /\ UNCHANGED <<order, deliveries, detours, verified, declined, packVars, parcel, req>>

-----------------------------------------------------------------------------
(* The hub.                                                                *)

ReceivePackage(p) ==
  /\ runner[p].status = "READY_FOR_HUB" /\ Counted
  /\ runner' = [runner EXCEPT ![p].status = "HUB_RECEIVED"]
  /\ hub' = [hub EXCEPT ![p].status = "QC_PENDING", ![p].version = 1]
  /\ MoveTask("HUB_RECEIVED")
  /\ UNCHANGED <<order, deliveries, detours, verified, issueVars, slot, parcel, req>>

\* Every item of the package is confirmed.
PassQuality(p) ==
  /\ hub[p].status = "QC_PENDING" /\ Counted /\ hub[p].version < MaxChecks
  /\ hub' = [hub EXCEPT ![p].status = "QC_PASSED", ![p].version = @ + 1, ![p].failed = {}, ![p].resourced = FALSE]
  /\ MoveTask("QC_PASSED")
  /\ UNCHANGED <<order, deliveries, detours, verified, issueVars, runner, slot, parcel, req>>

\* The failed items that have an active issue already are looked up first.
FailReads(c, p) ==
  /\ req[c].op = "idle" /\ hub[p].status = "QC_PENDING"
  /\ \E failed \in (SUBSET runner[p].items) \ {{}} :
       Remember(c, "fail", hub[p].version, failed, {i \in failed : active[i] # "none"}, {p})
  /\ UNCHANGED <<order, deliveries, detours, task, verified, issueVars, packVars, parcel>>

SameCheck(c, p) == hub[p].status = "QC_PENDING" /\ hub[p].version = req[c].version

\* The transaction, with the unique indexes on the issues it creates.
FailWrites(c) ==
  /\ req[c].op = "fail"
  /\ \E p \in req[c].packs :
       LET failed == req[c].items
           created == failed \ req[c].found
       IN IF /\ SameCheck(c, p)
             /\ \A i \in created : active[i] = "none" /\ i \notin hub[p].keys
          THEN /\ hub[p].version < MaxChecks
               /\ hub' = [hub EXCEPT ![p] = [status |-> "QC_FAILED", version |-> @.version + 1, failed |-> failed,
                                             resourced |-> FALSE, keys |-> @.keys \cup created]]
               /\ active' = [i \in Items |-> IF i \in created THEN "OPEN" ELSE active[i]]
               /\ resolution' = [i \in Items |-> IF i \in failed THEN "REPLACEMENT_PENDING" ELSE resolution[i]]
          ELSE UNCHANGED <<hub, active, resolution>>
  /\ Done(c)
  /\ UNCHANGED <<order, deliveries, detours, task, verified, declined, runner, slot, parcel>>

ReopenReads(c, p) ==
  /\ req[c].op = "idle" /\ hub[p].status = "QC_FAILED"
  /\ \A i \in runner[p].items : active[i] = "none"
  /\ Remember(c, "reopen", hub[p].version, {}, {}, {p})
  /\ UNCHANGED <<order, deliveries, detours, task, verified, issueVars, packVars, parcel>>

ReopenWrites(c) ==
  /\ req[c].op = "reopen"
  /\ \E p \in req[c].packs :
       IF hub[p].status = "QC_FAILED" /\ hub[p].version = req[c].version
         THEN hub[p].version < MaxChecks /\ hub' = [hub EXCEPT ![p].status = "QC_PENDING", ![p].version = @ + 1]
         ELSE UNCHANGED hub
  /\ Done(c)
  /\ UNCHANGED <<order, deliveries, detours, task, verified, issueVars, runner, slot, parcel>>

\* Mutant: the task is reopened without counting its version.
ReopenUncounted(failed) == [task EXCEPT !.status = "SOURCING", !.resource = failed]
ReopenTask(failed) == [task EXCEPT !.status = "SOURCING", !.version = @ + 1, !.resource = failed]

\* The failed items go back to the associate; the task gets a new package.
ResourceFailedPackage(p) ==
  LET failed == hub[p].failed IN
  /\ hub[p].status = "QC_FAILED" /\ ~hub[p].resourced
  /\ Counted /\ hub[p].version < MaxChecks
  /\ hub' = [hub EXCEPT ![p].resourced = TRUE, ![p].version = @ + 1]
  /\ active' = [i \in Items |-> IF i \in failed THEN "none" ELSE active[i]]
  /\ slot' = IF slot = p THEN None ELSE slot
  /\ task' = ReopenTask(failed)
  /\ verified' = [i \in Items |-> IF i \in failed THEN "none" ELSE verified[i]]
  /\ resolution' = [i \in Items |-> IF i \in failed THEN "OPEN" ELSE resolution[i]]
  /\ UNCHANGED <<order, deliveries, detours, declined, runner, parcel, req>>

InPackages(passed) == UNION {runner[p].items : p \in passed}

\* Every item of the order has to be in a package that passed.
ConsolidateReads(c) ==
  LET passed == {p \in Packages : hub[p].status = "QC_PASSED"} IN
  /\ req[c].op = "idle" /\ parcel.status = "none"
  /\ Items \subseteq InPackages(passed)
  /\ Remember(c, "consolidate", 0, {}, {}, passed)
  /\ UNCHANGED <<order, deliveries, detours, task, verified, issueVars, packVars, parcel>>

\* The transaction, with the unique index on the delivery group.
ConsolidateWrites(c) ==
  /\ req[c].op = "consolidate"
  /\ IF parcel.status = "none"
       THEN /\ parcel' = [status |-> "DRAFT", packs |-> req[c].packs]
            /\ hub' = [p \in Packages |-> IF p \in req[c].packs THEN [hub[p] EXCEPT !.status = "CONSOLIDATED"] ELSE hub[p]]
            /\ order' = "READY_FOR_CONSOLIDATION"
       ELSE UNCHANGED <<parcel, hub, order>>
  /\ Done(c)
  /\ UNCHANGED <<deliveries, detours, task, verified, issueVars, runner, slot>>

SealConsolidation ==
  /\ parcel.status = "DRAFT"
  /\ parcel' = [parcel EXCEPT !.status = "SEALED"]
  /\ order' = "READY_FOR_DISPATCH"
  /\ UNCHANGED <<deliveries, detours, task, verified, issueVars, packVars, req>>

\* The process of a request dies, or its next call throws.
Die(c) ==
  /\ req[c].op # "idle"
  /\ Done(c)
  /\ UNCHANGED <<order, deliveries, detours, task, verified, issueVars, packVars, parcel>>

SourcingNext ==
  \/ ConsumeApprovedOrder \/ Accept \/ Secure \/ BeginPacking \/ Reassign \/ Block \/ Unblock \/ Heal
  \/ SealConsolidation
  \/ \E c \in Associates :
       \/ SubmitReads(c) \/ SubmitPacks(c) \/ SubmitWrites(c) \/ VerifyWrites(c) \/ MarkItem(c)
       \/ \E i \in Items : VerifyReads(c, i) \/ ReportIssue(c, i)
  \/ \E c \in Staff :
       \/ AdminCancels(c) \/ StopReads(c) \/ StopWrites(c)
       \/ FailWrites(c) \/ ReopenWrites(c) \/ ConsolidateReads(c) \/ ConsolidateWrites(c)
       \/ \E p \in Packages : FailReads(c, p) \/ ReopenReads(c, p)
  \/ \E c \in Callers : Die(c)
  \/ \E i \in Items : Propose(i) \/ Decline(i) \/ AcceptForMoney(i) \/ ApplyResolvedSubstitution(i)
  \/ \E p \in Packages : ReceivePackage(p) \/ PassQuality(p) \/ ResourceFailedPackage(p)

SourcingSpec == SourcingInit /\ [][SourcingNext]_sourcingVars

-----------------------------------------------------------------------------
(* Properties.                                                             *)

\* A task said to be waiting for the hub has a package that the hub can look up,
\* whatever was received, failed and sent back while it was being submitted.
ReadyHasPackage == task.status = "READY_FOR_HUB" => slot # None

\* A task is not submitted with an item whose verification was struck off by a
\* send-back, unless the items of the task were set anew by a redelivered event.
ReadyIsVerified ==
  deliveries < 2 /\ task.status = "READY_FOR_HUB" => \A i \in task.items : verified[i] # "none"

\* What the hub may rely on when a task says that it is ready.
ReadyForHub == ReadyHasPackage /\ ReadyIsVerified

\* A task has one package on its way at most: one that lost the task's slot has
\* been at the hub.
NoPackageOrphaned == \A p \in Packages : runner[p].status # "none" /\ p # slot => hub[p].status # "none"

\* The parcel holds every item of the order, replaced ones too, and exactly the
\* packages the hub gave to it, however many staff members consolidate at once.
ParcelIsWhole ==
  /\ parcel.status # "none" => Items \subseteq UNION {runner[p].items : p \in parcel.packs}
  /\ \A p \in Packages : hub[p].status = "CONSOLIDATED" <=> p \in parcel.packs

\* A check that was begun before another one ended does not undo its result: what
\* passed only goes on into the parcel, and stays there.
HubMovesForward == [][
  \A p \in Packages :
    hub[p].status \in {"QC_PASSED", "CONSOLIDATED"} => hub'[p].status \in {hub[p].status, "CONSOLIDATED"}
  ]_sourcingVars

\* The stopped task of a cancelled order is not taken on again by an associate or
\* a dispatcher, not even by a request that began before it was stopped.
StoppedIsNotWorkedOn == [][
  task.status = "CANCELLED" => task'.status \notin {"ALERTED", "PRODUCT_SECURED", "PACKING", "READY_FOR_HUB"}
  ]_sourcingVars

\* fulfilment.service.ts:1347-1348, "Each failure opens an item issue for the admin,
\* so the order cannot be sealed around it." It is, when the customer declined the
\* replacement: reopenQualityCheck does not count DECLINED issues.
NotSealedAround == \A p \in parcel.packs : hub[p].keys \cap Unresolved = {}

\* What the following say fails in the code; the README tells how.

\* An item that waits for a replacement has an issue somebody can settle.
PendingHasIssue == \A i \in Items : resolution[i] = "REPLACEMENT_PENDING" => i \in Unresolved

\* An item sent back has no issue left that stops the task from being submitted.
SentBackIsFree == [][
  \A p \in Packages : ~hub[p].resourced /\ hub'[p].resourced => hub[p].failed \cap Unresolved' = {}
  ]_sourcingVars

\* A top-up or refund the customer agreed to can be applied to its item.
AcceptedApplies == \A i \in Items : active[i] = "PAYMENT_PENDING" => resolution[i] = "REPLACEMENT_PENDING"

\* A package that was sent back stays on record and is not checked again.
SentBackIsHistory == \A p \in Packages : hub[p].resourced => hub[p].status = "QC_FAILED"

\* A stopped task stays stopped, and a cancelled order cancelled.
StoppedIsFinal == [][task.status = "CANCELLED" => task'.status = "CANCELLED"]_sourcingVars
CancelledOrderIsFinal == [][order = "CANCELLED" => order' = "CANCELLED"]_sourcingVars

\* No item waits for the hub in the task's package without a verification.
PackedIsVerified == task.status = "READY_FOR_HUB" => \A i \in runner[slot].items : verified[i] # "none"
=============================================================================
