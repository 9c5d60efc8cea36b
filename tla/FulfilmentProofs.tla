--------------------------- MODULE FulfilmentProofs ---------------------------
(***************************************************************************)
(* What fulfilment guarantees, for any number of requests and detours: the *)
(* task of Sourcing until its parcel is sealed, and the shipments and the  *)
(* counter of Delivery after that.  The two share no variable.             *)
(*                                                                         *)
(* Sourcing's invariant is inductive in four parts: the types; what the    *)
(* version a request remembers says of the task; what is recorded of a     *)
(* package; and what a consolidation has collected.  Delivery's in five:   *)
(* the types; what the version that was read says of a shipment; the       *)
(* parcels that were let go; the counter; and the account of refusals.     *)
(***************************************************************************)
EXTENDS Sourcing, Delivery, FiniteSetTheorems, TLAPS

Submitting == {"submit", "packed"}
OnTask == Submitting \cup {"stop"}

Verified == \A i \in task.items : verified[i] # "none"

\* What c knows of the task whose version it remembers: as long as that is the
\* task's version, nobody else has moved the task, so it is still being worked on,
\* verified, and, once packed, has a package.
TaskKnows(c) ==
  /\ req[c].op \in OnTask => task.status # "none" /\ req[c].version <= task.version
  /\ req[c].op \in Submitting /\ req[c].version = task.version =>
       task.status \in Working /\ (deliveries < 2 => Verified)
  /\ req[c].op = "packed" /\ req[c].version = task.version => slot # None

TaskInv ==
  /\ \A c \in Callers : TaskKnows(c)
  /\ ReadyHasPackage /\ ReadyIsVerified

\* A package at the hub was handed over by its runner, a package was made for a
\* task, and a task by an event.
PackInv ==
  /\ \A p \in Packages : hub[p].status # "none" => runner[p].status = "HUB_RECEIVED"
  /\ \A p \in Packages : runner[p].status # "none" => task.status # "none"
  /\ task.status # "none" => deliveries > 0
  /\ NoPackageOrphaned

\* The packages a consolidation goes on with are at the hub, so what is in them
\* does not change any more, and hold every item.
Collected(c) ==
  req[c].op = "consolidate" =>
    /\ Items \subseteq InPackages(req[c].packs)
    /\ \A p \in req[c].packs : hub[p].status # "none"

ParcelInv ==
  /\ \A c \in Callers : Collected(c)
  /\ parcel.status = "none" => parcel.packs = {}
  /\ ParcelIsWhole

SourcingInv == SourcingTypeOK /\ TaskInv /\ PackInv /\ ParcelInv

\* Parts of SourcingTypeOK, for the actions that disturb nothing else.
CountsTyped == order \in OrderStatuses /\ deliveries \in Nat /\ detours \in Nat
IssuesTyped ==
  /\ verified \in [Items -> {"none", "mismatched", "matched"}]
  /\ resolution \in [Items -> {"OPEN", "REPLACEMENT_PENDING", "RESOLVED"}]
  /\ active \in [Items -> {"none", "OPEN", "CUSTOMER_APPROVAL_PENDING", "PAYMENT_PENDING"}]
  /\ declined \in [Items -> Nat]

\* What a step may do to a package at the hub and to a stopped task.
HubForward ==
  \A p \in Packages :
    hub[p].status \in {"QC_PASSED", "CONSOLIDATED"} => hub'[p].status \in {hub[p].status, "CONSOLIDATED"}
NotWorkedOn ==
  task.status = "CANCELLED" => task'.status \notin {"ALERTED", "PRODUCT_SECURED", "PACKING", "READY_FOR_HUB"}

\* What each action is shown to keep.
Keeps == SourcingInv' /\ HubForward /\ NotWorkedOn

-----------------------------------------------------------------------------
(* Ways to move, and what each of them keeps.                              *)

\* A request of c goes on, or is over; the others stay where they are.
LEMMA RequestMoves ==
  ASSUME SourcingTypeOK, NEW c \in Callers, NEW r \in RequestRecords, req' = [req EXCEPT ![c] = r]
  PROVE  /\ req' \in [Callers -> RequestRecords]
         /\ req'[c] = r
         /\ \A d \in Callers : d # c => req'[d] = req[d]
BY DEF SourcingTypeOK

LEMMA NothingTyped == 0 \in Nat /\ {} \in SUBSET Items /\ {} \in SUBSET Packages
OBVIOUS

LEMMA IdleTyped == Idle \in RequestRecords
BY DEF Idle, RequestRecords, Ops

LEMMA RequestTyped ==
  ASSUME NEW op \in Ops, NEW version \in Nat, NEW items \in SUBSET Items, NEW found \in SUBSET Items,
         NEW packs \in SUBSET Packages
  PROVE  [op |-> op, version |-> version, items |-> items, found |-> found, packs |-> packs] \in RequestRecords
BY DEF RequestRecords

\* The two ways in which an action moves its request.
LEMMA Remembered ==
  ASSUME SourcingTypeOK, NEW c \in Callers, NEW op \in Ops, NEW version \in Nat,
         NEW items \in SUBSET Items, NEW found \in SUBSET Items, NEW packs \in SUBSET Packages,
         Remember(c, op, version, items, found, packs)
  PROVE  /\ req' \in [Callers -> RequestRecords]
         /\ req'[c].op = op /\ req'[c].version = version
         /\ req'[c].items = items /\ req'[c].packs = packs
         /\ \A d \in Callers : d # c => req'[d] = req[d]
<1> DEFINE r == [op |-> op, version |-> version, items |-> items, found |-> found, packs |-> packs]
<1>1. r \in RequestRecords BY RequestTyped
<1>2. req' = [req EXCEPT ![c] = r] BY DEF Remember
<1>3. /\ r.op = op /\ r.version = version
      /\ r.items = items /\ r.packs = packs
  OBVIOUS
<1> HIDE DEF r
<1> QED BY <1>1, <1>2, <1>3, RequestMoves

LEMMA Finished ==
  ASSUME SourcingTypeOK, NEW c \in Callers, Done(c)
  PROVE  /\ req' \in [Callers -> RequestRecords]
         /\ req'[c].op = "idle"
         /\ \A d \in Callers : d # c => req'[d] = req[d]
<1>1. Idle.op = "idle" BY DEF Idle
<1> QED BY <1>1, IdleTyped, RequestMoves DEF Done

LEMMA TaskFields ==
  ASSUME SourcingTypeOK
  PROVE  /\ task.status \in TaskStatuses /\ task.version \in Nat
         /\ task.items \in SUBSET Items /\ task.resource \in SUBSET Items
BY DEF SourcingTypeOK, Tasks

LEMMA TaskMoves ==
  ASSUME SourcingTypeOK, NEW s \in TaskStatuses, MoveTask(s)
  PROVE  /\ task' \in Tasks
         /\ task'.status = s /\ task'.version = task.version + 1 /\ task'.items = task.items
<1>1. task' = [status |-> s, version |-> task.version + 1, items |-> task.items, resource |-> task.resource]
  BY DEF SourcingTypeOK, Tasks, MoveTask
<1>2. task.version + 1 \in Nat BY TaskFields
<1>3. task' \in Tasks BY <1>1, <1>2, TaskFields DEF Tasks
<1>4. /\ task'.status = s /\ task'.version = task.version + 1
      /\ task'.items = task.items
  BY <1>1
<1> QED BY <1>3, <1>4

\* A task whose version was counted is known to nobody any more.
LEMMA CountedKeepsTask ==
  ASSUME SourcingTypeOK, TaskInv, task'.version = task.version + 1,
         task.status # "none" => task'.status # "none",
         \A c \in Callers : req'[c] = req[c] \/ req'[c].op \notin OnTask,
         ReadyForHub'
  PROVE  TaskInv'
<1>1. task.version \in Nat BY TaskFields
<1>2. ASSUME NEW c \in Callers PROVE TaskKnows(c)'
  <2>1. CASE req'[c].op \notin OnTask
    BY <2>1 DEF TaskKnows, OnTask, Submitting
  <2>2. CASE req'[c] = req[c] /\ req[c].op \in OnTask
    <3>1. req[c].version \in Nat BY DEF SourcingTypeOK, RequestRecords
    <3>2. req[c].version <= task.version BY <2>2 DEF TaskInv, TaskKnows
    <3>3. req'[c].version <= task'.version /\ req'[c].version # task'.version
      BY <1>1, <2>2, <3>1, <3>2
    <3>4. task'.status # "none" BY <2>2 DEF TaskInv, TaskKnows
    <3> QED BY <3>3, <3>4 DEF TaskKnows
  <2> QED BY <2>1, <2>2
<1> QED BY <1>2 DEF TaskInv, ReadyForHub

\* A step that leaves the task alone may only find it a package or verify more,
\* and a request that it moves has to know the task still.
LEMMA UntouchedKeepsTask ==
  ASSUME TaskInv, UNCHANGED <<task, deliveries>>,
         \A c \in Callers : req'[c] = req[c] \/ req'[c].op \notin OnTask \/ TaskKnows(c)',
         slot' = slot \/ slot' # None,
         \A i \in task.items : verified'[i] = "none" => verified[i] = "none"
  PROVE  TaskInv'
<1>1. Verified => Verified' BY DEF Verified
<1>2. ASSUME NEW c \in Callers PROVE TaskKnows(c)'
  <2>1. CASE req'[c].op \notin OnTask
    BY <2>1 DEF TaskKnows, OnTask, Submitting
  <2>2. CASE req'[c] = req[c]
    BY <2>2, <1>1 DEF TaskInv, TaskKnows
  <2> QED BY <2>1, <2>2
<1>3. ReadyHasPackage' BY DEF TaskInv, ReadyHasPackage
<1>4. ReadyIsVerified' BY DEF TaskInv, ReadyIsVerified
<1> QED BY <1>2, <1>3, <1>4 DEF TaskInv

\* No package is made, handed over or received, and the task is still there.
LEMMA SamePackages ==
  ASSUME PackInv, UNCHANGED <<runner, slot, deliveries>>,
         task'.status = "none" <=> task.status = "none",
         \A p \in Packages : hub'[p].status = "none" <=> hub[p].status = "none"
  PROVE  PackInv'
BY DEF PackInv, NoPackageOrphaned

\* The parcel and what it is made of are as they were.
LEMMA SameParcel ==
  ASSUME ParcelInv, UNCHANGED <<parcel, runner, hub>>,
         \A c \in Callers : req'[c] = req[c] \/ req'[c].op # "consolidate"
  PROVE  ParcelInv'
<1>1. ParcelIsWhole' BY DEF ParcelInv, ParcelIsWhole
<1>2. ASSUME NEW c \in Callers PROVE Collected(c)'
  BY <1>2 DEF ParcelInv, Collected, InPackages
<1> QED BY <1>1, <1>2 DEF ParcelInv

\* A package moved at the hub, but not into the parcel or out of it.
LEMMA HubMoves ==
  ASSUME SourcingTypeOK, ParcelInv, UNCHANGED parcel,
         \A c \in Callers : req'[c] = req[c] \/ req'[c].op # "consolidate",
         \A p \in Packages :
           /\ runner'[p].items = runner[p].items
           /\ hub[p].status # "none" => hub'[p].status # "none"
           /\ hub'[p].status = "CONSOLIDATED" <=> hub[p].status = "CONSOLIDATED"
  PROVE  ParcelInv'
<1>0. parcel.packs \subseteq Packages BY DEF SourcingTypeOK, Parcels
<1>1. ParcelIsWhole'
  <2>1. UNION {runner'[p].items : p \in parcel.packs} = UNION {runner[p].items : p \in parcel.packs}
    BY <1>0
  <2> QED BY <2>1 DEF ParcelInv, ParcelIsWhole
<1>2. ASSUME NEW c \in Callers PROVE Collected(c)'
  <2>1. req[c].packs \subseteq Packages BY DEF SourcingTypeOK, RequestRecords
  <2>2. UNION {runner'[p].items : p \in req[c].packs} = UNION {runner[p].items : p \in req[c].packs}
    BY <2>1
  <2>3. CASE req'[c].op # "consolidate" BY <2>3 DEF Collected
  <2>4. CASE req'[c] = req[c]
    BY <2>1, <2>2, <2>4 DEF ParcelInv, Collected, InPackages
  <2> QED BY <2>3, <2>4
<1> QED BY <1>1, <1>2 DEF ParcelInv

-----------------------------------------------------------------------------
(* RequestRecords and issues.                                                    *)

\* Steps that leave the task, the packages and the parcel alone.
LEMMA QuietKeeps ==
  ASSUME SourcingInv, CountsTyped', IssuesTyped', req' \in [Callers -> RequestRecords],
         UNCHANGED <<deliveries, task, runner, slot, hub, parcel>>,
         \A c \in Callers : req'[c] = req[c] \/ req'[c].op \notin OnTask \cup {"consolidate"},
         \A i \in Items : verified'[i] = "none" => verified[i] = "none"
  PROVE  Keeps
<1>1. SourcingTypeOK' BY DEF SourcingInv, SourcingTypeOK, CountsTyped, IssuesTyped
<1>2. task.items \subseteq Items BY TaskFields DEF SourcingInv
<1>3. TaskInv' BY <1>2, UntouchedKeepsTask DEF SourcingInv
<1>4. PackInv' BY SamePackages DEF SourcingInv
<1>5. ParcelInv' BY SameParcel DEF SourcingInv
<1>6. HubForward /\ NotWorkedOn BY DEF HubForward, NotWorkedOn
<1> QED BY <1>1, <1>3, <1>4, <1>5, <1>6 DEF Keeps, SourcingInv

\* Nothing changes but the request of c and how much was done.
LEMMA AsksKeeps ==
  ASSUME SourcingInv, NEW c \in Callers, CountsTyped', req' \in [Callers -> RequestRecords],
         UNCHANGED <<deliveries, task, verified, issueVars, packVars, parcel>>,
         req'[c].op \notin OnTask \cup {"consolidate"},
         \A d \in Callers : d # c => req'[d] = req[d]
  PROVE  Keeps
<1>1. IssuesTyped' BY DEF SourcingInv, SourcingTypeOK, IssuesTyped, issueVars
<1>2. \A d \in Callers : req'[d] = req[d] \/ req'[d].op \notin OnTask \cup {"consolidate"}
  OBVIOUS
<1>3. UNCHANGED <<runner, slot, hub>> BY DEF packVars
<1>4. \A i \in Items : verified'[i] = "none" => verified[i] = "none" OBVIOUS
<1> QED BY <1>1, <1>2, <1>3, <1>4, QuietKeeps

LEMMA SameCounts == ASSUME SourcingInv, UNCHANGED <<order, deliveries, detours>> PROVE CountsTyped'
BY DEF SourcingInv, SourcingTypeOK, CountsTyped

LEMMA DetourCounts == ASSUME SourcingInv, Detour, UNCHANGED <<order, deliveries>> PROVE CountsTyped'
BY DEF SourcingInv, SourcingTypeOK, CountsTyped, Detour

LEMMA VerifyReadsKeeps == ASSUME SourcingInv, NEW c \in Callers, NEW i \in Items, VerifyReads(c, i) PROVE Keeps
<1>1. CountsTyped' BY SameCounts DEF VerifyReads
<1>2. Remember(c, "verify", 0, {i}, {}, {}) BY DEF VerifyReads
<1>3. /\ req' \in [Callers -> RequestRecords] /\ req'[c].op = "verify"
      /\ \A d \in Callers : d # c => req'[d] = req[d]
  <2>1. SourcingTypeOK /\ "verify" \in Ops /\ {i} \in SUBSET Items BY DEF SourcingInv, Ops
  <2> QED BY <1>2, <2>1, NothingTyped, Remembered
<1> QED BY <1>1, <1>3, AsksKeeps DEF VerifyReads, OnTask, Submitting

LEMMA FailReadsKeeps == ASSUME SourcingInv, NEW c \in Callers, NEW p \in Packages, FailReads(c, p) PROVE Keeps
<1>1. CountsTyped' BY SameCounts DEF FailReads
<1>2. PICK failed \in SUBSET runner[p].items :
        Remember(c, "fail", hub[p].version, failed, {i \in failed : active[i] # "none"}, {p})
  BY DEF FailReads
<1>3. hub[p].version \in Nat /\ failed \in SUBSET Items BY DEF SourcingInv, SourcingTypeOK, HubPackages, Runners
<1>4. /\ req' \in [Callers -> RequestRecords] /\ req'[c].op = "fail"
      /\ \A d \in Callers : d # c => req'[d] = req[d]
  <2> DEFINE found == {i \in failed : active[i] # "none"}
  <2>1. found \in SUBSET Items BY <1>3
  <2> HIDE DEF found
  <2>2. Remember(c, "fail", hub[p].version, failed, found, {p}) BY <1>2 DEF found
  <2>3. SourcingTypeOK /\ "fail" \in Ops /\ {p} \in SUBSET Packages BY DEF SourcingInv, Ops
  <2> QED BY <1>3, <2>1, <2>2, <2>3, Remembered
<1> QED BY <1>1, <1>4, AsksKeeps DEF FailReads, OnTask, Submitting

LEMMA ReopenReadsKeeps == ASSUME SourcingInv, NEW c \in Callers, NEW p \in Packages, ReopenReads(c, p) PROVE Keeps
<1>1. CountsTyped' BY SameCounts DEF ReopenReads
<1>2. Remember(c, "reopen", hub[p].version, {}, {}, {p}) BY DEF ReopenReads
<1>3. hub[p].version \in Nat BY DEF SourcingInv, SourcingTypeOK, HubPackages
<1>4. /\ req' \in [Callers -> RequestRecords] /\ req'[c].op = "reopen"
      /\ \A d \in Callers : d # c => req'[d] = req[d]
  BY <1>2, <1>3, Remembered DEF SourcingInv, Ops
<1> QED BY <1>1, <1>4, AsksKeeps DEF ReopenReads, OnTask, Submitting

LEMMA AdminCancelsKeeps == ASSUME SourcingInv, NEW c \in Callers, AdminCancels(c) PROVE Keeps
<1>1. CountsTyped' BY DEF AdminCancels, SourcingInv, SourcingTypeOK, CountsTyped, OrderStatuses
<1>2. Remember(c, "cancel", 0, {}, {}, {}) BY DEF AdminCancels
<1>3. /\ req' \in [Callers -> RequestRecords] /\ req'[c].op = "cancel"
      /\ \A d \in Callers : d # c => req'[d] = req[d]
  <2>1. SourcingTypeOK /\ "cancel" \in Ops /\ 0 \in Nat BY DEF SourcingInv, Ops
  <2> QED BY <1>2, <2>1, NothingTyped, Remembered, Zenon
<1> QED BY <1>1, <1>3, AsksKeeps DEF AdminCancels, OnTask, Submitting

LEMMA DieKeeps == ASSUME SourcingInv, NEW c \in Callers, Die(c) PROVE Keeps
<1>1. CountsTyped' BY SameCounts DEF Die
<1>2. /\ req' \in [Callers -> RequestRecords] /\ req'[c].op = "idle"
      /\ \A d \in Callers : d # c => req'[d] = req[d]
  BY Finished DEF Die, SourcingInv
<1> QED BY <1>1, <1>2, AsksKeeps DEF Die, OnTask, Submitting

LEMMA VerifyWritesKeeps == ASSUME SourcingInv, NEW c \in Callers, VerifyWrites(c) PROVE Keeps
<1>1. /\ req' \in [Callers -> RequestRecords] /\ req'[c].op = "idle"
      /\ \A d \in Callers : d # c => req'[d] = req[d]
  BY Finished DEF VerifyWrites, SourcingInv
<1>2. CountsTyped' BY SameCounts, DetourCounts DEF VerifyWrites
<1>3. PICK i \in req[c].items, v \in {"matched", "mismatched"} : verified' = [verified EXCEPT ![i] = v]
  BY DEF VerifyWrites
<1>4. verified' \in [Items -> {"none", "mismatched", "matched"}] BY <1>3 DEF SourcingInv, SourcingTypeOK
<1>5. IssuesTyped' BY <1>4 DEF VerifyWrites, issueVars, SourcingInv, SourcingTypeOK, IssuesTyped
<1>6. \A j \in Items : verified'[j] = "none" => verified[j] = "none" BY <1>3 DEF SourcingInv, SourcingTypeOK
<1>7. UNCHANGED <<deliveries, task, runner, slot, hub, parcel>> BY DEF VerifyWrites, packVars
<1>8. \A d \in Callers : req'[d] = req[d] \/ req'[d].op \notin OnTask \cup {"consolidate"}
  BY <1>1 DEF OnTask, Submitting
<1> QED BY <1>1, <1>2, <1>5, <1>6, <1>7, <1>8, QuietKeeps

LEMMA ReportIssueKeeps == ASSUME SourcingInv, NEW c \in Callers, NEW i \in Items, ReportIssue(c, i) PROVE Keeps
<1>1. Remember(c, "report", 0, {i}, {}, {}) BY DEF ReportIssue
<1>2. /\ req' \in [Callers -> RequestRecords] /\ req'[c].op = "report"
      /\ \A d \in Callers : d # c => req'[d] = req[d]
  <2>1. SourcingTypeOK /\ "report" \in Ops /\ {i} \in SUBSET Items BY DEF SourcingInv, Ops
  <2> QED BY <1>1, <2>1, NothingTyped, Remembered
<1>3. CountsTyped' BY DetourCounts DEF ReportIssue
<1>4. active' \in [Items -> {"none", "OPEN", "CUSTOMER_APPROVAL_PENDING", "PAYMENT_PENDING"}]
  BY DEF ReportIssue, SourcingInv, SourcingTypeOK
<1>5. IssuesTyped' BY <1>4 DEF ReportIssue, SourcingInv, SourcingTypeOK, IssuesTyped
<1>6. UNCHANGED <<deliveries, task, verified, runner, slot, hub, parcel>> BY DEF ReportIssue, packVars
<1>7. \A d \in Callers : req'[d] = req[d] \/ req'[d].op \notin OnTask \cup {"consolidate"}
  BY <1>2 DEF OnTask, Submitting
<1>8. \A j \in Items : verified'[j] = "none" => verified[j] = "none" BY <1>6
<1> QED BY <1>2, <1>3, <1>5, <1>6, <1>7, <1>8, QuietKeeps

LEMMA MarkItemKeeps == ASSUME SourcingInv, NEW c \in Callers, MarkItem(c) PROVE Keeps
<1>1. /\ req' \in [Callers -> RequestRecords] /\ req'[c].op = "idle"
      /\ \A d \in Callers : d # c => req'[d] = req[d]
  BY Finished DEF MarkItem, SourcingInv
<1>2. CountsTyped' BY SameCounts DEF MarkItem
<1>3. resolution' \in [Items -> {"OPEN", "REPLACEMENT_PENDING", "RESOLVED"}] BY DEF MarkItem, SourcingInv, SourcingTypeOK
<1>4. IssuesTyped' BY <1>3 DEF MarkItem, SourcingInv, SourcingTypeOK, IssuesTyped
<1>5. UNCHANGED <<deliveries, task, verified, runner, slot, hub, parcel>> BY DEF MarkItem, packVars
<1>6. \A d \in Callers : req'[d] = req[d] \/ req'[d].op \notin OnTask \cup {"consolidate"}
  BY <1>1 DEF OnTask, Submitting
<1>7. \A j \in Items : verified'[j] = "none" => verified[j] = "none" BY <1>5
<1> QED BY <1>1, <1>2, <1>4, <1>5, <1>6, <1>7, QuietKeeps

\* Proposals and the customer's answers to them.
LEMMA AnswersKeep ==
  ASSUME SourcingInv, NEW i \in Items, Propose(i) \/ Decline(i) \/ AcceptForMoney(i)
  PROVE  Keeps
<1>1. CountsTyped' BY SameCounts, DetourCounts DEF Propose, ProposeIf, Decline, AcceptForMoney
<1>2. active' \in [Items -> {"none", "OPEN", "CUSTOMER_APPROVAL_PENDING", "PAYMENT_PENDING"}]
  BY DEF Propose, ProposeIf, Decline, AcceptForMoney, SourcingInv, SourcingTypeOK
<1>3. declined' \in [Items -> Nat]
  <2>1. declined[i] \in Nat BY DEF SourcingInv, SourcingTypeOK
  <2>2. declined' = declined \/ (declined[i] > 0 /\ declined' = [declined EXCEPT ![i] = @ - 1])
          \/ declined' = [declined EXCEPT ![i] = @ + 1]
    BY DEF Propose, ProposeIf, Decline, AcceptForMoney
  <2> QED BY <2>1, <2>2 DEF SourcingInv, SourcingTypeOK
<1>4. IssuesTyped'
  BY <1>2, <1>3 DEF Propose, ProposeIf, Decline, AcceptForMoney, SourcingInv, SourcingTypeOK, IssuesTyped
<1>5. UNCHANGED <<deliveries, task, verified, runner, slot, hub, parcel, req>>
  BY DEF Propose, ProposeIf, Decline, AcceptForMoney, packVars
<1>6. /\ req' \in [Callers -> RequestRecords]
      /\ \A d \in Callers : req'[d] = req[d]
  BY <1>5 DEF SourcingInv, SourcingTypeOK
<1>7. \A j \in Items : verified'[j] = "none" => verified[j] = "none" BY <1>5
<1> QED BY <1>1, <1>4, <1>5, <1>6, <1>7, QuietKeeps

-----------------------------------------------------------------------------
(* The task.                                                               *)

\* The reads after which c relies on the version of the task or on packages.
LEMMA ReliesKeeps ==
  ASSUME SourcingInv, NEW c \in Callers, req' \in [Callers -> RequestRecords],
         UNCHANGED <<order, deliveries, detours, task, verified, issueVars, packVars, parcel>>,
         \A d \in Callers : d # c => req'[d] = req[d],
         TaskKnows(c)', Collected(c)'
  PROVE  Keeps
<1>1. SourcingTypeOK' BY DEF SourcingInv, SourcingTypeOK, issueVars, packVars
<1>2. \A d \in Callers : req'[d] = req[d] \/ req'[d].op \notin OnTask \/ TaskKnows(d)' OBVIOUS
<1>3. TaskInv' BY <1>2, UntouchedKeepsTask DEF SourcingInv, packVars
<1>4. PackInv' BY SamePackages DEF SourcingInv, packVars
<1>5. \A d \in Callers : Collected(d)' BY DEF SourcingInv, ParcelInv, Collected, InPackages, packVars
<1>6. ParcelInv' BY <1>5 DEF SourcingInv, ParcelInv, ParcelIsWhole, packVars
<1>7. HubForward /\ NotWorkedOn BY DEF HubForward, NotWorkedOn, packVars
<1> QED BY <1>1, <1>3, <1>4, <1>6, <1>7 DEF Keeps, SourcingInv

LEMMA SubmitReadsKeeps == ASSUME SourcingInv, NEW c \in Callers, SubmitReads(c) PROVE Keeps
<1> DEFINE items == IF task.resource # {} THEN task.resource ELSE task.items
           version == task.version
<1>1. SourcingTypeOK /\ "submit" \in Ops /\ items \in SUBSET Items /\ version \in Nat
  BY TaskFields DEF SourcingInv, Ops
<1>2. Remember(c, "submit", version, items, {}, {}) BY DEF SubmitReads
<1> HIDE DEF items, version
<1>3. /\ req' \in [Callers -> RequestRecords] /\ req'[c].op = "submit" /\ req'[c].version = version
      /\ \A d \in Callers : d # c => req'[d] = req[d]
  BY <1>1, <1>2, NothingTyped, Remembered
<1>4. Verified BY DEF SubmitReads, AllMatched, Verified
<1>5. task' = task /\ deliveries' = deliveries /\ verified' = verified /\ task.status \in Working
  BY DEF SubmitReads
<1>6. TaskKnows(c)' BY <1>1, <1>3, <1>4, <1>5 DEF TaskKnows, Verified, Working, version
<1>7. Collected(c)' BY <1>3 DEF Collected
<1> QED BY <1>3, <1>6, <1>7, ReliesKeeps DEF SubmitReads

LEMMA StopReadsKeeps == ASSUME SourcingInv, NEW c \in Callers, StopReads(c) PROVE Keeps
<1> DEFINE version == task.version
<1>1. SourcingTypeOK /\ "stop" \in Ops /\ version \in Nat BY TaskFields DEF SourcingInv, Ops
<1>2. Remember(c, "stop", version, {}, {}, {}) BY DEF StopReads
<1> HIDE DEF version
<1>3. /\ req' \in [Callers -> RequestRecords] /\ req'[c].op = "stop" /\ req'[c].version = version
      /\ \A d \in Callers : d # c => req'[d] = req[d]
  BY <1>1, <1>2, NothingTyped, Remembered
<1>4. TaskKnows(c)' BY <1>1, <1>3 DEF TaskKnows, Submitting, StopReads, version
<1>5. Collected(c)' BY <1>3 DEF Collected
<1> QED BY <1>3, <1>4, <1>5, ReliesKeeps DEF StopReads

LEMMA ConsolidateReadsKeeps == ASSUME SourcingInv, NEW c \in Callers, ConsolidateReads(c) PROVE Keeps
<1> DEFINE passed == {p \in Packages : hub[p].status = "QC_PASSED"}
<1>1. SourcingTypeOK /\ "consolidate" \in Ops /\ passed \in SUBSET Packages /\ 0 \in Nat BY DEF SourcingInv, Ops
<1>2. \A p \in passed : hub[p].status # "none" OBVIOUS
<1>3. Remember(c, "consolidate", 0, {}, {}, passed) /\ Items \subseteq InPackages(passed)
  BY DEF ConsolidateReads
<1> HIDE DEF passed
<1>4. /\ req' \in [Callers -> RequestRecords] /\ req'[c].op = "consolidate" /\ req'[c].packs = passed
      /\ \A d \in Callers : d # c => req'[d] = req[d]
  BY <1>1, <1>3, Remembered
<1>5. TaskKnows(c)' BY <1>4 DEF TaskKnows, OnTask, Submitting
<1>6. Collected(c)' BY <1>2, <1>3, <1>4 DEF Collected, InPackages, ConsolidateReads, packVars
<1> QED BY <1>4, <1>5, <1>6, ReliesKeeps DEF ConsolidateReads

\* The writes guarded by the task's version, by associates, dispatchers and Heal.
LEMMA StepTaskKeeps ==
  ASSUME SourcingInv, NEW from \in SUBSET (TaskStatuses \ {"none"}), NEW to \in TaskStatuses \ {"none", "READY_FOR_HUB"},
         StepTask(from, to), UNCHANGED detours \/ Detour,
         "CANCELLED" \notin from \/ to \notin {"ALERTED", "PRODUCT_SECURED", "PACKING"}
  PROVE  Keeps
<1>1. CountsTyped' BY SameCounts, DetourCounts DEF StepTask
<1>2. /\ task' \in Tasks
      /\ task'.status = to /\ task'.version = task.version + 1 /\ task'.items = task.items
  BY TaskMoves DEF StepTask, SourcingInv
<1>3. task.status \in from /\ UNCHANGED <<deliveries, verified, issueVars, runner, slot, hub, parcel, req>>
  BY DEF StepTask, packVars
<1>4. SourcingTypeOK' BY <1>1, <1>2, <1>3 DEF SourcingInv, SourcingTypeOK, CountsTyped, issueVars
<1>5. ReadyForHub' BY <1>2 DEF ReadyForHub, ReadyHasPackage, ReadyIsVerified
<1>6. TaskInv' BY <1>2, <1>3, <1>5, CountedKeepsTask DEF SourcingInv
<1>7. PackInv' BY <1>2, <1>3, SamePackages DEF SourcingInv
<1>8. ParcelInv' BY <1>3, SameParcel DEF SourcingInv
<1>9. HubForward /\ NotWorkedOn BY <1>2, <1>3 DEF HubForward, NotWorkedOn
<1> QED BY <1>4, <1>6, <1>7, <1>8, <1>9 DEF Keeps, SourcingInv

LEMMA MovesKeep ==
  ASSUME SourcingInv, Accept \/ Secure \/ BeginPacking \/ Reassign \/ Block \/ Unblock \/ Heal
  PROVE  Keeps
<1> USE DEF TaskStatuses, Working
<1>1. CASE Accept BY <1>1, StepTaskKeeps DEF Accept
<1>2. CASE Secure BY <1>2, StepTaskKeeps DEF Secure
<1>3. CASE BeginPacking BY <1>3, StepTaskKeeps DEF BeginPacking
<1>4. CASE Reassign
  <2> DEFINE from == TaskStatuses \ {"none", "CANCELLED", "HUB_RECEIVED", "QC_PASSED"}
  <2>1. from \in SUBSET (TaskStatuses \ {"none"}) /\ "CANCELLED" \notin from OBVIOUS
  <2>2. StepTask(from, "ALERTED") /\ Detour BY <1>4 DEF Reassign
  <2> HIDE DEF from
  <2> QED BY <2>1, <2>2, StepTaskKeeps
<1>5. CASE Block BY <1>5, StepTaskKeeps DEF Block
<1>6. CASE Unblock BY <1>6, StepTaskKeeps DEF Unblock
<1>7. CASE Heal BY <1>7, StepTaskKeeps DEF Heal
<1> QED BY <1>1, <1>2, <1>3, <1>4, <1>5, <1>6, <1>7

LEMMA ConsumeKeeps == ASSUME SourcingInv, ConsumeApprovedOrder PROVE Keeps
<1> DEFINE wanted == {i \in Items : resolution[i] # "RESOLVED"}
<1>1. wanted \in SUBSET Items OBVIOUS
<1>2. /\ UNCHANGED <<verified, issueVars, runner, slot, hub, parcel, req>>
      /\ order' = "IN_FULFILMENT" /\ deliveries' = deliveries + 1
  BY DEF ConsumeApprovedOrder, packVars
<1>3. \/ /\ task.status = "none" /\ UNCHANGED detours
         /\ \E s \in {"ALERTED", "BLOCKED"} :
              task' = [status |-> s, version |-> 1, items |-> wanted, resource |-> {}]
      \/ task.status # "none" /\ Detour /\ task' = [task EXCEPT !.items = wanted]
  BY DEF ConsumeApprovedOrder
<1> HIDE DEF wanted
<1>4. deliveries \in Nat /\ deliveries' \in Nat /\ deliveries' > 0 BY <1>2 DEF SourcingInv, SourcingTypeOK
<1>5. CountsTyped' BY <1>2, <1>3, <1>4 DEF SourcingInv, SourcingTypeOK, CountsTyped, OrderStatuses, Detour
<1>6. HubForward BY <1>2 DEF HubForward
<1>7. ParcelInv' BY <1>2, SameParcel DEF SourcingInv
<1>8. CASE task.status = "none"
  <2>1. PICK s \in {"ALERTED", "BLOCKED"} :
          task' = [status |-> s, version |-> 1, items |-> wanted, resource |-> {}]
    BY <1>3, <1>8
  <2>2. task' \in Tasks BY <1>1, <2>1 DEF Tasks, TaskStatuses
  <2>3. SourcingTypeOK' BY <1>2, <1>5, <2>2 DEF SourcingInv, SourcingTypeOK, CountsTyped, issueVars
  <2>4. task'.status = s BY <2>1
  <2>5. \A c \in Callers : req[c].op \notin OnTask BY <1>8 DEF SourcingInv, TaskInv, TaskKnows
  <2>6. \A c \in Callers : TaskKnows(c)' BY <1>2, <2>5 DEF TaskKnows, OnTask, Submitting
  <2>7. TaskInv' BY <2>4, <2>6 DEF TaskInv, ReadyHasPackage, ReadyIsVerified
  <2>8. PackInv' BY <1>2, <1>4, <1>8, <2>4 DEF SourcingInv, PackInv, NoPackageOrphaned
  <2>9. NotWorkedOn BY <1>8 DEF NotWorkedOn
  <2> QED BY <1>6, <1>7, <2>3, <2>7, <2>8, <2>9 DEF Keeps, SourcingInv
<1>9. CASE task.status # "none"
  <2>1. task' = [task EXCEPT !.items = wanted] BY <1>3, <1>9
  <2>2. task' \in Tasks BY <1>1, <2>1 DEF SourcingInv, SourcingTypeOK, Tasks
  <2>3. SourcingTypeOK' BY <1>2, <1>5, <2>2 DEF SourcingInv, SourcingTypeOK, CountsTyped, issueVars
  <2>4. task'.status = task.status /\ task'.version = task.version BY <2>1 DEF SourcingInv, SourcingTypeOK, Tasks
  <2>5. ~(deliveries' < 2) BY <1>2, <1>4, <1>9 DEF SourcingInv, PackInv
  <2>6. \A c \in Callers : TaskKnows(c)' BY <1>2, <2>4, <2>5 DEF SourcingInv, TaskInv, TaskKnows
  <2>7. ReadyHasPackage' /\ ReadyIsVerified'
    BY <1>2, <2>4, <2>5 DEF SourcingInv, TaskInv, ReadyHasPackage, ReadyIsVerified
  <2>8. PackInv' BY <1>2, <1>4, <2>4 DEF SourcingInv, PackInv, NoPackageOrphaned
  <2>9. NotWorkedOn BY <2>4 DEF NotWorkedOn
  <2> QED BY <1>6, <1>7, <2>3, <2>6, <2>7, <2>8, <2>9 DEF Keeps, SourcingInv, TaskInv
<1> QED BY <1>8, <1>9

LEMMA SubmitPacksKeeps == ASSUME SourcingInv, NEW c \in Callers, SubmitPacks(c) PROVE Keeps
<1>1. /\ req[c].op = "submit" /\ Remember(c, "packed", req[c].version, {}, {}, {})
      /\ UNCHANGED <<order, deliveries, detours, task, verified, issueVars, hub, parcel>>
  BY DEF SubmitPacks, SubmitPacksIf
<1>2. SourcingTypeOK /\ "packed" \in Ops /\ req[c].version \in Nat BY DEF SourcingInv, SourcingTypeOK, RequestRecords, Ops
<1>3. /\ req' \in [Callers -> RequestRecords] /\ req'[c].op = "packed" /\ req'[c].version = req[c].version
      /\ \A d \in Callers : d # c => req'[d] = req[d]
  <2>1. PICK version \in Nat : version = req[c].version BY <1>2
  <2>2. Remember(c, "packed", version, {}, {}, {}) BY <1>1, <2>1
  <2> QED BY <1>2, <2>1, <2>2, NothingTyped, Remembered
<1>4. TaskKnows(c) BY DEF SourcingInv, TaskInv
<1>5. ASSUME slot' # None PROVE TaskKnows(c)'
  BY <1>1, <1>3, <1>4, <1>5 DEF TaskKnows, OnTask, Submitting, Verified
<1>6. HubForward /\ NotWorkedOn BY <1>1 DEF HubForward, NotWorkedOn
<1>7. \A d \in Callers : req'[d] = req[d] \/ req'[d].op # "consolidate" BY <1>3
<1>8. CASE slot # None
  <2>1. UNCHANGED <<runner, slot>> BY <1>8 DEF SubmitPacks, SubmitPacksIf
  <2>2. SourcingTypeOK' BY <1>1, <1>3, <2>1 DEF SourcingInv, SourcingTypeOK, issueVars
  <2>3. \A d \in Callers : req'[d] = req[d] \/ req'[d].op \notin OnTask \/ TaskKnows(d)'
    BY <1>3, <1>5, <1>8, <2>1
  <2>4. TaskInv' BY <1>1, <2>1, <2>3, UntouchedKeepsTask DEF SourcingInv
  <2>5. PackInv' BY <1>1, <2>1, SamePackages DEF SourcingInv
  <2>6. ParcelInv' BY <1>1, <1>7, <2>1, SameParcel DEF SourcingInv
  <2> QED BY <1>6, <2>2, <2>4, <2>5, <2>6 DEF Keeps, SourcingInv
<1>9. CASE slot = None
  <2>1. PICK p \in Packages :
          /\ runner[p].status = "none"
          /\ runner' = [runner EXCEPT ![p] = [status |-> "READY_FOR_HUB", items |-> req[c].items]]
          /\ slot' = p
    BY <1>9 DEF SubmitPacks, SubmitPacksIf
  <2>2. /\ runner' \in [Packages -> Runners] /\ runner'[p].status = "READY_FOR_HUB"
        /\ \A q \in Packages : q # p => runner'[q] = runner[q]
    <3>1. req[c].items \in SUBSET Items BY DEF SourcingInv, SourcingTypeOK, RequestRecords
    <3>2. [status |-> "READY_FOR_HUB", items |-> req[c].items] \in Runners BY <3>1 DEF Runners
    <3> QED BY <2>1, <3>2 DEF SourcingInv, SourcingTypeOK
  <2>3. slot' \in Packages /\ slot' # None BY <2>1, NoneAssumption
  <2>4. SourcingTypeOK' BY <1>1, <1>3, <2>2, <2>3 DEF SourcingInv, SourcingTypeOK, issueVars
  <2>5. \A d \in Callers : req'[d] = req[d] \/ req'[d].op \notin OnTask \/ TaskKnows(d)'
    BY <1>3, <1>5, <2>3
  <2>6. TaskInv' BY <1>1, <2>3, <2>5, UntouchedKeepsTask DEF SourcingInv
  <2>7. hub[p].status = "none" BY <2>1 DEF SourcingInv, PackInv
  <2>8. task.status # "none" BY <1>1, <1>4 DEF TaskKnows, OnTask, Submitting
  <2>9. PackInv'
    <3>1. \A q \in Packages : hub'[q].status # "none" => runner'[q].status = "HUB_RECEIVED"
      BY <1>1, <2>2, <2>7 DEF SourcingInv, PackInv
    <3>2. \A q \in Packages : q # p /\ runner'[q].status # "none" => hub'[q].status # "none"
      BY <1>1, <1>9, <2>2, NoneAssumption DEF SourcingInv, PackInv, NoPackageOrphaned
    <3>3. NoPackageOrphaned' BY <2>1, <3>2 DEF NoPackageOrphaned
    <3> QED BY <1>1, <2>8, <3>1, <3>3 DEF SourcingInv, PackInv
  <2>10. ParcelInv'
    <3>1. p \notin parcel.packs /\ parcel.packs \subseteq Packages
      BY <2>1, <2>7 DEF SourcingInv, SourcingTypeOK, Parcels, ParcelInv, ParcelIsWhole
    <3>2. UNION {runner'[q].items : q \in parcel.packs} = UNION {runner[q].items : q \in parcel.packs}
      BY <2>2, <3>1
    <3>3. ParcelIsWhole' BY <1>1, <3>2 DEF SourcingInv, ParcelInv, ParcelIsWhole
    <3>4. ASSUME NEW d \in Callers PROVE Collected(d)'
      <4>1. CASE req'[d].op # "consolidate" BY <4>1 DEF Collected
      <4>2. CASE req'[d] = req[d] /\ req[d].op = "consolidate"
        <5>1. p \notin req[d].packs /\ req[d].packs \subseteq Packages
          BY <2>7, <4>2 DEF SourcingInv, SourcingTypeOK, RequestRecords, ParcelInv, Collected
        <5>2. UNION {runner'[q].items : q \in req[d].packs} = UNION {runner[q].items : q \in req[d].packs}
          BY <2>2, <5>1
        <5> QED BY <1>1, <4>2, <5>2 DEF SourcingInv, ParcelInv, Collected, InPackages
      <4> QED BY <1>7, <4>1, <4>2
    <3> QED BY <1>1, <3>3, <3>4 DEF SourcingInv, ParcelInv
  <2> QED BY <1>6, <2>4, <2>6, <2>9, <2>10 DEF Keeps, SourcingInv
<1> QED BY <1>8, <1>9

\* The guarded write that ends a submission or stops a task, when it finds the
\* version that was read.
LEMMA GuardedWriteKeeps ==
  ASSUME SourcingInv, NEW c \in Callers, NEW s \in {"READY_FOR_HUB", "CANCELLED"},
         MoveTask(s), Done(c), req[c].op \in OnTask,
         s = "READY_FOR_HUB" => req[c].op = "packed" /\ req[c].version = task.version,
         UNCHANGED <<order, deliveries, detours, verified, issueVars, packVars, parcel>>
  PROVE  Keeps
<1>1. /\ req' \in [Callers -> RequestRecords] /\ req'[c].op = "idle"
      /\ \A d \in Callers : d # c => req'[d] = req[d]
  BY Finished DEF SourcingInv
<1>2. /\ task' \in Tasks
      /\ task'.status = s /\ task'.version = task.version + 1 /\ task'.items = task.items
  BY TaskMoves DEF TaskStatuses, SourcingInv
<1>3. SourcingTypeOK' BY <1>1, <1>2 DEF SourcingInv, SourcingTypeOK, issueVars, packVars
<1>4. TaskKnows(c) BY DEF SourcingInv, TaskInv
<1>5. task.status # "none" BY <1>4 DEF TaskKnows
<1>6. s = "READY_FOR_HUB" => task.status \in Working /\ slot # None /\ (deliveries < 2 => Verified)
  BY <1>4 DEF TaskKnows, Submitting
<1>7. ReadyForHub' BY <1>2, <1>6 DEF ReadyForHub, ReadyHasPackage, ReadyIsVerified, Verified, packVars
<1>8. \A d \in Callers : req'[d] = req[d] \/ req'[d].op \notin OnTask \cup {"consolidate"}
  BY <1>1 DEF OnTask, Submitting
<1>9. TaskInv' BY <1>2, <1>7, <1>8, CountedKeepsTask DEF SourcingInv
<1>10. PackInv' BY <1>2, <1>5, SamePackages DEF SourcingInv, packVars
<1>11. ParcelInv' BY <1>8, SameParcel DEF SourcingInv, packVars
<1>12. HubForward /\ NotWorkedOn BY <1>2, <1>6 DEF HubForward, NotWorkedOn, Working, packVars
<1> QED BY <1>3, <1>9, <1>10, <1>11, <1>12 DEF Keeps, SourcingInv

LEMMA TaskWritesKeep == ASSUME SourcingInv, NEW c \in Callers, SubmitWrites(c) \/ StopWrites(c) PROVE Keeps
<1>1. Done(c) /\ UNCHANGED <<order, deliveries, detours, verified, issueVars, packVars, parcel>>
  BY DEF SubmitWrites, SubmitWritesIf, StopWrites
<1>2. CASE UNCHANGED task
  <2>1. CountsTyped' BY <1>1, SameCounts
  <2>2. /\ req' \in [Callers -> RequestRecords] /\ req'[c].op = "idle"
        /\ \A d \in Callers : d # c => req'[d] = req[d]
    BY <1>1, Finished DEF SourcingInv
  <2> QED BY <1>1, <1>2, <2>1, <2>2, AsksKeeps DEF OnTask, Submitting
<1>3. CASE SubmitWrites(c) /\ task.version = req[c].version
  <2>1. MoveTask("READY_FOR_HUB") /\ req[c].op = "packed" BY <1>3 DEF SubmitWrites, SubmitWritesIf
  <2> QED BY <1>1, <1>3, <2>1, GuardedWriteKeeps DEF OnTask, Submitting
<1>4. CASE StopWrites(c) /\ task.version = req[c].version
  <2>1. MoveTask("CANCELLED") /\ req[c].op = "stop" BY <1>4 DEF StopWrites
  <2> QED BY <1>1, <2>1, GuardedWriteKeeps DEF OnTask, Submitting
<1> QED BY <1>2, <1>3, <1>4 DEF SubmitWrites, SubmitWritesIf, StopWrites

LEMMA SubstitutionKeeps == ASSUME SourcingInv, NEW i \in Items, ApplyResolvedSubstitution(i) PROVE Keeps
<1>1. UNCHANGED <<order, deliveries, detours, verified, declined, runner, slot, hub, parcel, req>>
  BY DEF ApplyResolvedSubstitution, packVars
<1>2. task' = [status |-> task.status, version |-> task.version + 1, items |-> task.items,
               resource |-> task.resource]
  BY DEF ApplyResolvedSubstitution, SourcingInv, SourcingTypeOK, Tasks
<1>3. task' \in Tasks
  <2>1. task.version + 1 \in Nat BY TaskFields DEF SourcingInv
  <2> QED BY <1>2, <2>1, TaskFields DEF SourcingInv, Tasks
<1>4. task'.status = task.status /\ task'.version = task.version + 1 /\ task'.items = task.items BY <1>2
<1>5. /\ resolution' \in [Items -> {"OPEN", "REPLACEMENT_PENDING", "RESOLVED"}]
      /\ active' \in [Items -> {"none", "OPEN", "CUSTOMER_APPROVAL_PENDING", "PAYMENT_PENDING"}]
  BY DEF ApplyResolvedSubstitution, SourcingInv, SourcingTypeOK
<1>6. SourcingTypeOK' BY <1>1, <1>3, <1>5 DEF SourcingInv, SourcingTypeOK
<1>7. ReadyForHub' BY <1>1, <1>4 DEF SourcingInv, TaskInv, ReadyForHub, ReadyHasPackage, ReadyIsVerified
<1>8. TaskInv' BY <1>1, <1>4, <1>7, CountedKeepsTask DEF SourcingInv
<1>9. PackInv' BY <1>1, <1>4, SamePackages DEF SourcingInv
<1>10. ParcelInv' BY <1>1, SameParcel DEF SourcingInv
<1>11. HubForward /\ NotWorkedOn BY <1>1, <1>4 DEF HubForward, NotWorkedOn
<1> QED BY <1>6, <1>8, <1>9, <1>10, <1>11 DEF Keeps, SourcingInv

-----------------------------------------------------------------------------
(* The hub.                                                                *)

\* One package changes at the hub.
LEMMA HubTyped ==
  ASSUME SourcingTypeOK, NEW p \in Packages, NEW r \in HubPackages, hub' = [hub EXCEPT ![p] = r]
  PROVE  /\ hub' \in [Packages -> HubPackages] /\ hub'[p] = r
         /\ \A q \in Packages : q # p => hub'[q] = hub[q]
BY DEF SourcingTypeOK

LEMMA ReceivePackageKeeps == ASSUME SourcingInv, NEW p \in Packages, ReceivePackage(p) PROVE Keeps
<1>1. /\ runner[p].status = "READY_FOR_HUB" /\ MoveTask("HUB_RECEIVED")
      /\ UNCHANGED <<order, deliveries, detours, verified, issueVars, slot, parcel, req>>
  BY DEF ReceivePackage
<1>2. hub[p].status = "none" /\ task.status # "none" BY <1>1 DEF SourcingInv, PackInv
<1> DEFINE r == [hub[p] EXCEPT !.status = "QC_PENDING", !.version = 1]
<1>3. r \in HubPackages /\ r.status = "QC_PENDING" BY DEF SourcingInv, SourcingTypeOK, HubPackages
<1>4. hub' = [hub EXCEPT ![p] = r] BY DEF ReceivePackage, SourcingInv, SourcingTypeOK, HubPackages
<1> HIDE DEF r
<1>5. /\ hub' \in [Packages -> HubPackages] /\ hub'[p].status = "QC_PENDING"
      /\ \A q \in Packages : q # p => hub'[q] = hub[q]
  BY <1>3, <1>4, HubTyped DEF SourcingInv
<1>6. runner' \in [Packages -> Runners] BY DEF ReceivePackage, SourcingInv, SourcingTypeOK, Runners
<1>7. /\ runner'[p].status = "HUB_RECEIVED" /\ runner'[p].items = runner[p].items
      /\ \A q \in Packages : q # p => runner'[q] = runner[q]
  BY DEF ReceivePackage, SourcingInv, SourcingTypeOK, Runners
<1>8. /\ task' \in Tasks
      /\ task'.status = "HUB_RECEIVED" /\ task'.version = task.version + 1 /\ task'.items = task.items
  BY <1>1, TaskMoves DEF TaskStatuses, SourcingInv
<1>9. SourcingTypeOK' BY <1>1, <1>5, <1>6, <1>8 DEF SourcingInv, SourcingTypeOK, issueVars
<1>10. ReadyForHub' BY <1>8 DEF ReadyForHub, ReadyHasPackage, ReadyIsVerified
<1>11. TaskInv' BY <1>1, <1>8, <1>10, CountedKeepsTask DEF SourcingInv
<1>12. PackInv'
  <2>1. \A q \in Packages : hub'[q].status # "none" => runner'[q].status = "HUB_RECEIVED"
    BY <1>5, <1>7 DEF SourcingInv, PackInv
  <2>2. NoPackageOrphaned' BY <1>1, <1>5, <1>7 DEF SourcingInv, PackInv, NoPackageOrphaned
  <2> QED BY <1>1, <1>2, <1>8, <2>1, <2>2 DEF SourcingInv, PackInv
<1>13. \A q \in Packages :
         /\ runner'[q].items = runner[q].items
         /\ hub[q].status # "none" => hub'[q].status # "none"
         /\ hub'[q].status = "CONSOLIDATED" <=> hub[q].status = "CONSOLIDATED"
  BY <1>2, <1>5, <1>7
<1>14. ParcelInv' BY <1>1, <1>13, HubMoves DEF SourcingInv
<1>15. HubForward /\ NotWorkedOn BY <1>2, <1>5, <1>8 DEF HubForward, NotWorkedOn
<1> QED BY <1>9, <1>11, <1>12, <1>14, <1>15 DEF Keeps, SourcingInv

LEMMA PassQualityKeeps == ASSUME SourcingInv, NEW p \in Packages, PassQuality(p) PROVE Keeps
<1>1. /\ hub[p].status = "QC_PENDING" /\ MoveTask("QC_PASSED")
      /\ UNCHANGED <<order, deliveries, detours, verified, issueVars, runner, slot, parcel, req>>
  BY DEF PassQuality
<1> DEFINE r == [status |-> "QC_PASSED", version |-> hub[p].version + 1, failed |-> {}, resourced |-> FALSE,
                 keys |-> hub[p].keys]
<1>2. r \in HubPackages /\ r.status = "QC_PASSED" BY DEF SourcingInv, SourcingTypeOK, HubPackages
<1>3. hub' = [hub EXCEPT ![p] = r] BY DEF PassQuality, SourcingInv, SourcingTypeOK, HubPackages
<1> HIDE DEF r
<1>4. /\ hub' \in [Packages -> HubPackages] /\ hub'[p].status = "QC_PASSED"
      /\ \A q \in Packages : q # p => hub'[q] = hub[q]
  BY <1>2, <1>3, HubTyped DEF SourcingInv
<1>5. /\ task' \in Tasks
      /\ task'.status = "QC_PASSED" /\ task'.version = task.version + 1 /\ task'.items = task.items
  BY <1>1, TaskMoves DEF TaskStatuses, SourcingInv
<1>6. task.status # "none" BY <1>1 DEF SourcingInv, PackInv
<1>7. SourcingTypeOK' BY <1>1, <1>4, <1>5 DEF SourcingInv, SourcingTypeOK, issueVars
<1>8. ReadyForHub' BY <1>5 DEF ReadyForHub, ReadyHasPackage, ReadyIsVerified
<1>9. TaskInv' BY <1>1, <1>5, <1>8, CountedKeepsTask DEF SourcingInv
<1>10. PackInv' BY <1>1, <1>4, <1>5, <1>6, SamePackages DEF SourcingInv
<1>11. \A q \in Packages :
         /\ runner'[q].items = runner[q].items
         /\ hub[q].status # "none" => hub'[q].status # "none"
         /\ hub'[q].status = "CONSOLIDATED" <=> hub[q].status = "CONSOLIDATED"
  BY <1>1, <1>4
<1>12. ParcelInv' BY <1>1, <1>11, HubMoves DEF SourcingInv
<1>13. HubForward /\ NotWorkedOn BY <1>1, <1>4, <1>5 DEF HubForward, NotWorkedOn
<1> QED BY <1>7, <1>9, <1>10, <1>12, <1>13 DEF Keeps, SourcingInv

\* A guarded write on a package in a check leaves the task and the parcel alone.
LEMMA CheckKeeps ==
  ASSUME SourcingInv, NEW c \in Callers, NEW p \in Packages, NEW r \in HubPackages,
         hub[p].status \in {"QC_PENDING", "QC_FAILED"}, r.status \in {"QC_PENDING", "QC_FAILED"},
         hub' = [hub EXCEPT ![p] = r], Done(c), IssuesTyped',
         UNCHANGED <<order, deliveries, detours, task, verified, runner, slot, parcel>>
  PROVE  Keeps
<1>1. /\ req' \in [Callers -> RequestRecords] /\ req'[c].op = "idle"
      /\ \A d \in Callers : d # c => req'[d] = req[d]
  BY Finished DEF SourcingInv
<1>2. /\ hub' \in [Packages -> HubPackages] /\ hub'[p] = r
      /\ \A q \in Packages : q # p => hub'[q] = hub[q]
  BY HubTyped DEF SourcingInv
<1>3. SourcingTypeOK' BY <1>1, <1>2 DEF SourcingInv, SourcingTypeOK, IssuesTyped
<1>4. \A d \in Callers : req'[d] = req[d] \/ req'[d].op \notin OnTask \cup {"consolidate"}
  BY <1>1 DEF OnTask, Submitting
<1>5. \A i \in task.items : verified'[i] = "none" => verified[i] = "none" OBVIOUS
<1>6. TaskInv' BY <1>4, <1>5, UntouchedKeepsTask DEF SourcingInv
<1>7. PackInv' BY <1>2, SamePackages DEF SourcingInv
<1>8. \A q \in Packages :
        /\ runner'[q].items = runner[q].items
        /\ hub[q].status # "none" => hub'[q].status # "none"
        /\ hub'[q].status = "CONSOLIDATED" <=> hub[q].status = "CONSOLIDATED"
  BY <1>2
<1>9. ParcelInv' BY <1>4, <1>8, HubMoves DEF SourcingInv
<1>10. HubForward /\ NotWorkedOn BY <1>2 DEF HubForward, NotWorkedOn
<1> QED BY <1>3, <1>6, <1>7, <1>9, <1>10 DEF Keeps, SourcingInv

\* The write of a request that lost the race: the request is over, that is all.
LEMMA LostKeeps ==
  ASSUME SourcingInv, NEW c \in Callers, Done(c),
         UNCHANGED <<order, deliveries, detours, task, verified, issueVars, packVars, parcel>>
  PROVE  Keeps
<1>1. CountsTyped' BY SameCounts
<1>2. /\ req' \in [Callers -> RequestRecords] /\ req'[c].op = "idle"
      /\ \A d \in Callers : d # c => req'[d] = req[d]
  BY Finished DEF SourcingInv
<1> QED BY <1>1, <1>2, AsksKeeps DEF OnTask, Submitting

LEMMA FailWritesKeeps == ASSUME SourcingInv, NEW c \in Callers, FailWrites(c) PROVE Keeps
<1> DEFINE failed == req[c].items
           created == failed \ req[c].found
<1>1. failed \in SUBSET Items /\ created \in SUBSET Items BY DEF SourcingInv, SourcingTypeOK, RequestRecords
<1>2. req[c].packs \subseteq Packages BY DEF SourcingInv, SourcingTypeOK, RequestRecords
<1>3. PICK p \in req[c].packs :
        \/ /\ SameCheck(c, p)
           /\ hub' = [hub EXCEPT ![p] = [status |-> "QC_FAILED", version |-> hub[p].version + 1, failed |-> failed,
                                         resourced |-> FALSE, keys |-> hub[p].keys \cup created]]
           /\ active' = [i \in Items |-> IF i \in created THEN "OPEN" ELSE active[i]]
           /\ resolution' = [i \in Items |-> IF i \in failed THEN "REPLACEMENT_PENDING" ELSE resolution[i]]
        \/ UNCHANGED <<hub, active, resolution>>
  BY DEF FailWrites
<1>4. Done(c) /\ UNCHANGED <<order, deliveries, detours, task, verified, declined, runner, slot, parcel>>
  BY DEF FailWrites
<1> HIDE DEF failed, created
<1>5. CASE UNCHANGED <<hub, active, resolution>>
  BY <1>4, <1>5, LostKeeps DEF issueVars, packVars
<1>6. CASE ~UNCHANGED <<hub, active, resolution>>
  <2> DEFINE r == [status |-> "QC_FAILED", version |-> hub[p].version + 1, failed |-> failed,
                   resourced |-> FALSE, keys |-> hub[p].keys \cup created]
  <2>1. hub[p] \in HubPackages BY <1>2 DEF SourcingInv, SourcingTypeOK
  <2>2. r \in HubPackages /\ r.status = "QC_FAILED" BY <1>1, <2>1 DEF HubPackages
  <2>3. hub' = [hub EXCEPT ![p] = r] /\ hub[p].status = "QC_PENDING" BY <1>3, <1>6 DEF SameCheck
  <2> HIDE DEF r
  <2>4. /\ resolution' \in [Items -> {"OPEN", "REPLACEMENT_PENDING", "RESOLVED"}]
        /\ active' \in [Items -> {"none", "OPEN", "CUSTOMER_APPROVAL_PENDING", "PAYMENT_PENDING"}]
    BY <1>3, <1>6 DEF SourcingInv, SourcingTypeOK
  <2>5. IssuesTyped' BY <1>4, <2>4 DEF SourcingInv, SourcingTypeOK, IssuesTyped
  <2>6. p \in Packages BY <1>2
  <2> QED BY <1>4, <2>2, <2>3, <2>5, <2>6, CheckKeeps
<1> QED BY <1>5, <1>6

LEMMA ReopenWritesKeeps == ASSUME SourcingInv, NEW c \in Callers, ReopenWrites(c) PROVE Keeps
<1>1. req[c].packs \subseteq Packages BY DEF SourcingInv, SourcingTypeOK, RequestRecords
<1>2. PICK p \in req[c].packs :
        \/ /\ hub[p].status = "QC_FAILED"
           /\ hub' = [hub EXCEPT ![p].status = "QC_PENDING", ![p].version = @ + 1]
        \/ UNCHANGED hub
  BY DEF ReopenWrites
<1>3. Done(c) /\ UNCHANGED <<order, deliveries, detours, task, verified, issueVars, runner, slot, parcel>>
  BY DEF ReopenWrites
<1>4. CASE UNCHANGED hub BY <1>3, <1>4, LostKeeps DEF packVars
<1>5. CASE ~UNCHANGED hub
  <2> DEFINE r == [status |-> "QC_PENDING", version |-> hub[p].version + 1, failed |-> hub[p].failed,
                   resourced |-> hub[p].resourced, keys |-> hub[p].keys]
  <2>1. p \in Packages /\ hub[p] \in HubPackages BY <1>1 DEF SourcingInv, SourcingTypeOK
  <2>2. r \in HubPackages /\ r.status = "QC_PENDING" BY <2>1 DEF HubPackages
  <2>3. hub' = [hub EXCEPT ![p] = r] /\ hub[p].status = "QC_FAILED"
    BY <1>2, <1>5, <2>1 DEF SourcingInv, SourcingTypeOK, HubPackages
  <2> HIDE DEF r
  <2>4. IssuesTyped' BY <1>3 DEF SourcingInv, SourcingTypeOK, IssuesTyped, issueVars
  <2> QED BY <1>3, <2>1, <2>2, <2>3, <2>4, CheckKeeps
<1> QED BY <1>4, <1>5

LEMMA ResourceKeeps == ASSUME SourcingInv, NEW p \in Packages, ResourceFailedPackage(p) PROVE Keeps
<1> DEFINE failed == hub[p].failed
           r == [status |-> hub[p].status, version |-> hub[p].version + 1, failed |-> hub[p].failed,
                 resourced |-> TRUE, keys |-> hub[p].keys]
<1>1. hub[p] \in HubPackages BY DEF SourcingInv, SourcingTypeOK
<1>2. failed \in SUBSET Items /\ r \in HubPackages /\ r.status = hub[p].status BY <1>1 DEF HubPackages
<1>3. hub' = [hub EXCEPT ![p] = r] BY <1>1 DEF ResourceFailedPackage, SourcingInv, SourcingTypeOK, HubPackages
<1>4. /\ hub[p].status = "QC_FAILED" /\ task' = ReopenTask(failed)
      /\ slot' = (IF slot = p THEN None ELSE slot)
      /\ UNCHANGED <<order, deliveries, detours, declined, runner, parcel, req>>
  BY DEF ResourceFailedPackage
<1>5. /\ verified' \in [Items -> {"none", "mismatched", "matched"}]
      /\ resolution' \in [Items -> {"OPEN", "REPLACEMENT_PENDING", "RESOLVED"}]
      /\ active' \in [Items -> {"none", "OPEN", "CUSTOMER_APPROVAL_PENDING", "PAYMENT_PENDING"}]
  BY DEF ResourceFailedPackage, SourcingInv, SourcingTypeOK
<1> HIDE DEF failed, r
<1>6. /\ hub' \in [Packages -> HubPackages] /\ hub'[p].status = "QC_FAILED"
      /\ \A q \in Packages : q # p => hub'[q] = hub[q]
  BY <1>2, <1>3, <1>4, HubTyped DEF SourcingInv
<1>7. task' = [status |-> "SOURCING", version |-> task.version + 1, items |-> task.items, resource |-> failed]
  BY <1>4 DEF ReopenTask, SourcingInv, SourcingTypeOK, Tasks
<1>8. task' \in Tasks
  <2>1. task.version + 1 \in Nat BY TaskFields DEF SourcingInv
  <2> QED BY <1>2, <1>7, <2>1, TaskFields DEF SourcingInv, Tasks, TaskStatuses, Working
<1>9. task'.status = "SOURCING" /\ task'.version = task.version + 1 BY <1>7
<1>10. task.status # "none" BY <1>4 DEF SourcingInv, PackInv
<1>11. SourcingTypeOK' BY <1>4, <1>5, <1>6, <1>8 DEF SourcingInv, SourcingTypeOK
<1>12. ReadyForHub' BY <1>9 DEF ReadyForHub, ReadyHasPackage, ReadyIsVerified
<1>13. TaskInv' BY <1>4, <1>9, <1>12, CountedKeepsTask DEF SourcingInv
<1>14. PackInv'
  <2>1. \A q \in Packages : hub'[q].status = "none" <=> hub[q].status = "none" BY <1>4, <1>6
  <2>2. NoPackageOrphaned' BY <1>4, <1>6, <2>1 DEF SourcingInv, PackInv, NoPackageOrphaned
  <2> QED BY <1>4, <1>9, <1>10, <2>1, <2>2 DEF SourcingInv, PackInv
<1>15. \A q \in Packages :
         /\ runner'[q].items = runner[q].items
         /\ hub[q].status # "none" => hub'[q].status # "none"
         /\ hub'[q].status = "CONSOLIDATED" <=> hub[q].status = "CONSOLIDATED"
  BY <1>4, <1>6
<1>16. ParcelInv' BY <1>4, <1>15, HubMoves DEF SourcingInv
<1>17. HubForward /\ NotWorkedOn BY <1>4, <1>6, <1>9 DEF HubForward, NotWorkedOn
<1> QED BY <1>11, <1>13, <1>14, <1>16, <1>17 DEF Keeps, SourcingInv

LEMMA ConsolidateWritesKeeps == ASSUME SourcingInv, NEW c \in Callers, ConsolidateWrites(c) PROVE Keeps
<1>1. /\ req[c].op = "consolidate" /\ Done(c)
      /\ UNCHANGED <<deliveries, detours, task, verified, issueVars, runner, slot>>
  BY DEF ConsolidateWrites
<1>2. CASE parcel.status # "none"
  <2>1. UNCHANGED <<parcel, hub, order>> BY <1>2 DEF ConsolidateWrites
  <2> QED BY <1>1, <2>1, LostKeeps DEF packVars
<1>3. CASE parcel.status = "none"
  <2> DEFINE packs == req[c].packs
  <2>1. packs \in SUBSET Packages BY DEF SourcingInv, SourcingTypeOK, RequestRecords
  <2>2. Items \subseteq InPackages(packs) /\ \A p \in packs : hub[p].status # "none"
    BY <1>1 DEF SourcingInv, ParcelInv, Collected
  <2>3. \A p \in Packages : hub[p].status # "CONSOLIDATED" BY <1>3 DEF SourcingInv, ParcelInv, ParcelIsWhole
  <2>4. /\ parcel' = [status |-> "DRAFT", packs |-> packs]
        /\ hub' = [p \in Packages |-> IF p \in packs THEN [hub[p] EXCEPT !.status = "CONSOLIDATED"] ELSE hub[p]]
        /\ order' = "READY_FOR_CONSOLIDATION"
    BY <1>3 DEF ConsolidateWrites
  <2> HIDE DEF packs
  <2>5. \A p \in Packages :
          /\ hub'[p] \in HubPackages
          /\ hub'[p].status = IF p \in packs THEN "CONSOLIDATED" ELSE hub[p].status
    <3> TAKE p \in Packages
    <3>1. hub[p] \in HubPackages BY DEF SourcingInv, SourcingTypeOK
    <3> QED BY <2>4, <3>1 DEF HubPackages
  <2>6. hub' \in [Packages -> HubPackages] BY <2>4, <2>5
  <2>7. /\ req' \in [Callers -> RequestRecords] /\ req'[c].op = "idle"
        /\ \A d \in Callers : d # c => req'[d] = req[d]
    BY <1>1, Finished DEF SourcingInv
  <2>8. parcel' \in Parcels /\ parcel'.status = "DRAFT" /\ parcel'.packs = packs BY <2>1, <2>4 DEF Parcels
  <2>9. SourcingTypeOK' BY <1>1, <2>4, <2>6, <2>7, <2>8 DEF SourcingInv, SourcingTypeOK, issueVars, OrderStatuses
  <2>10. \A d \in Callers : req'[d] = req[d] \/ req'[d].op \notin OnTask \cup {"consolidate"}
    BY <2>7 DEF OnTask, Submitting
  <2>11. \A i \in task.items : verified'[i] = "none" => verified[i] = "none" BY <1>1
  <2>12. TaskInv' BY <1>1, <2>10, <2>11, UntouchedKeepsTask DEF SourcingInv
  <2>13. PackInv' BY <1>1, <2>2, <2>5, SamePackages DEF SourcingInv
  <2>14. ParcelInv'
    <3>1. ParcelIsWhole' BY <1>1, <2>1, <2>2, <2>3, <2>5, <2>8 DEF ParcelIsWhole, InPackages
    <3>2. ASSUME NEW d \in Callers PROVE Collected(d)'
      <4>1. CASE req'[d].op # "consolidate" BY <4>1 DEF Collected
      <4>2. CASE req'[d] = req[d]
        <5>1. req[d].packs \subseteq Packages BY DEF SourcingInv, SourcingTypeOK, RequestRecords
        <5> QED BY <1>1, <2>5, <4>2, <5>1 DEF SourcingInv, ParcelInv, Collected, InPackages
      <4> QED BY <2>10, <4>1, <4>2
    <3> QED BY <2>8, <3>1, <3>2 DEF ParcelInv
  <2>15. HubForward /\ NotWorkedOn BY <1>1, <2>5 DEF HubForward, NotWorkedOn
  <2> QED BY <2>9, <2>12, <2>13, <2>14, <2>15 DEF Keeps, SourcingInv
<1> QED BY <1>2, <1>3

LEMMA SealKeeps == ASSUME SourcingInv, SealConsolidation PROVE Keeps
<1>1. /\ parcel.status = "DRAFT" /\ order' = "READY_FOR_DISPATCH"
      /\ UNCHANGED <<deliveries, detours, task, verified, issueVars, runner, slot, hub, req>>
  BY DEF SealConsolidation, packVars
<1>2. parcel' \in Parcels /\ parcel'.status = "SEALED" /\ parcel'.packs = parcel.packs
  BY DEF SealConsolidation, SourcingInv, SourcingTypeOK, Parcels
<1>3. SourcingTypeOK' BY <1>1, <1>2 DEF SourcingInv, SourcingTypeOK, issueVars, OrderStatuses
<1>4. TaskInv' BY <1>1, UntouchedKeepsTask DEF SourcingInv
<1>5. PackInv' BY <1>1, SamePackages DEF SourcingInv
<1>6. \A d \in Callers : Collected(d)' BY <1>1 DEF SourcingInv, ParcelInv, Collected, InPackages
<1>7. ParcelInv' BY <1>1, <1>2, <1>6 DEF SourcingInv, ParcelInv, ParcelIsWhole
<1>8. HubForward /\ NotWorkedOn BY <1>1 DEF HubForward, NotWorkedOn
<1> QED BY <1>3, <1>4, <1>5, <1>7, <1>8 DEF Keeps, SourcingInv

-----------------------------------------------------------------------------
(* The invariant and the theorems.                                         *)

LEMMA InitSourcing == SourcingInit => SourcingInv
<1> SUFFICES ASSUME SourcingInit PROVE SourcingInv
  OBVIOUS
<1>1. /\ task \in Tasks /\ task.status = "none"
      /\ \A c \in Callers : req[c].op = "idle"
  BY DEF SourcingInit, Tasks, TaskStatuses, Idle
<1>2. hub \in [Packages -> HubPackages] /\ runner \in [Packages -> Runners]
  BY DEF SourcingInit, HubPackages, Runners
<1>3. parcel \in Parcels /\ req \in [Callers -> RequestRecords] BY IdleTyped DEF SourcingInit, Parcels
<1>4. SourcingTypeOK BY <1>1, <1>2, <1>3 DEF SourcingInit, SourcingTypeOK, OrderStatuses
<1>5. TaskInv BY <1>1 DEF TaskInv, TaskKnows, OnTask, Submitting, ReadyHasPackage, ReadyIsVerified
<1>6. PackInv BY DEF SourcingInit, PackInv, NoPackageOrphaned
<1>7. ParcelInv BY <1>1 DEF SourcingInit, ParcelInv, Collected, ParcelIsWhole
<1> QED BY <1>4, <1>5, <1>6, <1>7 DEF SourcingInv

LEMMA NextKeeps == SourcingInv /\ [SourcingNext]_sourcingVars => Keeps
<1> SUFFICES ASSUME SourcingInv, [SourcingNext]_sourcingVars PROVE Keeps
  OBVIOUS
<1>1. CASE UNCHANGED sourcingVars
  <2>1. UNCHANGED <<order, deliveries, detours, task, verified, resolution, active, declined,
                    runner, slot, hub, parcel, req>>
    BY <1>1 DEF sourcingVars, issueVars, packVars
  <2>2. CountsTyped' /\ IssuesTyped' BY <2>1 DEF SourcingInv, SourcingTypeOK, CountsTyped, IssuesTyped
  <2>3. req' \in [Callers -> RequestRecords] BY <2>1 DEF SourcingInv, SourcingTypeOK
  <2> QED BY <2>1, <2>2, <2>3, QuietKeeps
<1>2. CASE ConsumeApprovedOrder BY <1>2, ConsumeKeeps
<1>3. CASE Accept \/ Secure \/ BeginPacking \/ Reassign \/ Block \/ Unblock \/ Heal BY <1>3, MovesKeep
<1>4. CASE SealConsolidation BY <1>4, SealKeeps
<1>5. ASSUME NEW c \in Associates,
             \/ SubmitReads(c) \/ SubmitPacks(c) \/ SubmitWrites(c) \/ VerifyWrites(c) \/ MarkItem(c)
             \/ \E i \in Items : VerifyReads(c, i) \/ ReportIssue(c, i)
      PROVE  Keeps
  <2>1. c \in Callers BY DEF Callers
  <2> QED BY <1>5, <2>1, SubmitReadsKeeps, SubmitPacksKeeps, TaskWritesKeep, VerifyWritesKeeps, MarkItemKeeps,
             VerifyReadsKeeps, ReportIssueKeeps
<1>6. ASSUME NEW c \in Staff,
             \/ AdminCancels(c) \/ StopReads(c) \/ StopWrites(c)
             \/ FailWrites(c) \/ ReopenWrites(c) \/ ConsolidateReads(c) \/ ConsolidateWrites(c)
             \/ \E p \in Packages : FailReads(c, p) \/ ReopenReads(c, p)
      PROVE  Keeps
  <2>1. c \in Callers BY DEF Callers
  <2> QED BY <1>6, <2>1, AdminCancelsKeeps, StopReadsKeeps, TaskWritesKeep, FailWritesKeeps, ReopenWritesKeeps,
             ConsolidateReadsKeeps, ConsolidateWritesKeeps, FailReadsKeeps, ReopenReadsKeeps
<1>7. ASSUME NEW c \in Callers, Die(c) PROVE Keeps BY <1>7, DieKeeps
<1>8. ASSUME NEW i \in Items, Propose(i) \/ Decline(i) \/ AcceptForMoney(i) \/ ApplyResolvedSubstitution(i)
      PROVE  Keeps
  BY <1>8, AnswersKeep, SubstitutionKeeps
<1>9. ASSUME NEW p \in Packages, ReceivePackage(p) \/ PassQuality(p) \/ ResourceFailedPackage(p)
      PROVE  Keeps
  BY <1>9, ReceivePackageKeeps, PassQualityKeeps, ResourceKeeps
<1> QED BY <1>1, <1>2, <1>3, <1>4, <1>5, <1>6, <1>7, <1>8, <1>9 DEF SourcingNext

THEOREM SourcingInvariant == SourcingSpec => []SourcingInv
<1>1. SourcingInv /\ [SourcingNext]_sourcingVars => SourcingInv' BY NextKeeps DEF Keeps
<1> QED BY <1>1, InitSourcing, PTL DEF SourcingSpec

\* Every state of the task, its packages, issues and requests has its type.
THEOREM SourcingTypeCorrect == SourcingSpec => []SourcingTypeOK
<1>1. SourcingInv => SourcingTypeOK BY DEF SourcingInv
<1> QED BY <1>1, SourcingInvariant, PTL

\* A task that says it is ready has a package the hub can look up, and no item whose
\* verification a send-back struck off.
THEOREM SourcingReadyForHub == SourcingSpec => []ReadyForHub
<1>1. SourcingInv => ReadyForHub BY DEF SourcingInv, TaskInv, ReadyForHub
<1> QED BY <1>1, SourcingInvariant, PTL

\* However often a submission is repeated, no package is on its way besides the task's.
THEOREM SourcingNoPackageOrphaned == SourcingSpec => []NoPackageOrphaned
<1>1. SourcingInv => NoPackageOrphaned BY DEF SourcingInv, PackInv
<1> QED BY <1>1, SourcingInvariant, PTL

\* The parcel holds every item, and exactly the packages marked as consolidated.
THEOREM SourcingParcelIsWhole == SourcingSpec => []ParcelIsWhole
<1>1. SourcingInv => ParcelIsWhole BY DEF SourcingInv, ParcelInv
<1> QED BY <1>1, SourcingInvariant, PTL

\* No check, re-check or send-back that started earlier undoes a pass or takes a
\* package out of the parcel.
THEOREM SourcingHubMovesForward == SourcingSpec => HubMovesForward
<1>1. SourcingInv /\ [SourcingNext]_sourcingVars => [HubForward]_sourcingVars BY NextKeeps DEF Keeps
<1>2. [][HubForward]_sourcingVars => HubMovesForward BY PTL DEF HubMovesForward, HubForward
<1> QED BY <1>1, <1>2, SourcingInvariant, PTL DEF SourcingSpec

\* A stopped task is not moved on by a request that read it before it was stopped.
THEOREM SourcingStoppedIsNotWorkedOn == SourcingSpec => StoppedIsNotWorkedOn
<1>1. SourcingInv /\ [SourcingNext]_sourcingVars => [NotWorkedOn]_sourcingVars BY NextKeeps DEF Keeps
<1>2. [][NotWorkedOn]_sourcingVars => StoppedIsNotWorkedOn BY PTL DEF StoppedIsNotWorkedOn, NotWorkedOn
<1> QED BY <1>1, <1>2, SourcingInvariant, PTL DEF SourcingSpec

-----------------------------------------------------------------------------
(* Delivery *)

(* The roads *)

Releases == {"NONE", "NOT_REQUIRED", "AWAITING_HANDOVER_PAYMENT", "RELEASE_APPROVED"}
FailedStatuses == {"DELIVERY_FAILED", "RETURN_IN_TRANSIT", "RETURNED_TO_HOOK"}
LetGo == {"RELEASE_APPROVED", "DELIVERED"}

LEMMA StatusesListed ==
  Statuses = {"BOOKED_WITH_PROVIDER", "AWAITING_PICKUP", "PICKED_UP", "IN_TRANSIT",
    "OUT_FOR_DELIVERY", "AWAITING_HANDOVER_PAYMENT", "RELEASE_APPROVED", "DELIVERED",
    "DELIVERY_FAILED", "RETURN_IN_TRANSIT", "RETURNED_TO_HOOK", "CANCELLED"}
<1> DEFINE Listed == {"BOOKED_WITH_PROVIDER", "AWAITING_PICKUP", "PICKED_UP", "IN_TRANSIT",
    "OUT_FOR_DELIVERY", "AWAITING_HANDOVER_PAYMENT", "RELEASE_APPROVED", "DELIVERED",
    "DELIVERY_FAILED", "RETURN_IN_TRANSIT", "RETURNED_TO_HOOK", "CANCELLED"}
<1>1. \A edge \in CourierRoad : edge[1] \in Listed /\ edge[2] \in Listed
  BY DEF CourierRoad, StaffRoad
<1>2. /\ <<"BOOKED_WITH_PROVIDER", "AWAITING_PICKUP">> \in CourierRoad
      /\ <<"BOOKED_WITH_PROVIDER", "CANCELLED">> \in CourierRoad
      /\ <<"PICKED_UP", "IN_TRANSIT">> \in CourierRoad
      /\ <<"OUT_FOR_DELIVERY", "AWAITING_HANDOVER_PAYMENT">> \in CourierRoad
      /\ <<"RELEASE_APPROVED", "DELIVERED">> \in CourierRoad
      /\ <<"DELIVERY_FAILED", "RETURN_IN_TRANSIT">> \in CourierRoad
      /\ <<"RETURN_IN_TRANSIT", "RETURNED_TO_HOOK">> \in CourierRoad
  BY DEF CourierRoad, StaffRoad
<1>3. \A s, t : <<s, t>> \in CourierRoad => s \in Statuses /\ t \in Statuses
  <2> TAKE s, t
  <2> HAVE <<s, t>> \in CourierRoad
  <2>1. <<s, t>>[1] = s /\ <<s, t>>[2] = t OBVIOUS
  <2> QED BY <2>1 DEF Statuses
<1>4. Listed \subseteq Statuses
  <2> HIDE DEF Listed
  <2>1. /\ "BOOKED_WITH_PROVIDER" \in Statuses /\ "AWAITING_PICKUP" \in Statuses
        /\ "CANCELLED" \in Statuses /\ "PICKED_UP" \in Statuses /\ "IN_TRANSIT" \in Statuses
        /\ "OUT_FOR_DELIVERY" \in Statuses /\ "AWAITING_HANDOVER_PAYMENT" \in Statuses
        /\ "RELEASE_APPROVED" \in Statuses /\ "DELIVERED" \in Statuses
        /\ "DELIVERY_FAILED" \in Statuses /\ "RETURN_IN_TRANSIT" \in Statuses
        /\ "RETURNED_TO_HOOK" \in Statuses
    BY <1>2, <1>3
  <2> QED BY <2>1 DEF Listed
<1>5. Statuses \subseteq Listed
  <2> HIDE DEF Listed
  <2> QED BY <1>1 DEF Statuses
<1> QED BY <1>4, <1>5

\* What a shipment may move to, as far as the proofs need it.
LEMMA RoadFacts ==
  ASSUME NEW s, NEW t, <<s, t>> \in CourierRoad
  PROVE  /\ s \in Statuses /\ t \in Statuses /\ s # t
         /\ s \in LetGo => t \in LetGo
         /\ s \in FailedStatuses => t \in FailedStatuses \ {"DELIVERY_FAILED"}
<1>1. <<s, t>>[1] = s /\ <<s, t>>[2] = t OBVIOUS
<1>2. s \in Statuses /\ t \in Statuses BY <1>1 DEF Statuses
<1>3. /\ s # t
      /\ s \in LetGo => t \in LetGo
      /\ s \in FailedStatuses => t \in FailedStatuses \ {"DELIVERY_FAILED"}
  BY DEF CourierRoad, StaffRoad, LetGo, FailedStatuses
<1> QED BY <1>2, <1>3

LEMMA StaffUsesTheRoad == StaffRoad \subseteq CourierRoad
BY DEF CourierRoad

LEMMA NoStatusIsNone == "NONE" \notin Statuses /\ "none" \notin Statuses
BY StatusesListed

-----------------------------------------------------------------------------
(* The invariant *)

Readings == [group : Groups \cup {"none"}, next : Statuses \cup {"none"}, version : Nat,
             release : Releases \cup {"none"}]

\* What a request of the staff, or a delivery of an event, knows of the shipment
\* as long as the version it read is the shipment's.
StaffKnows(p) ==
  /\ pc[p] \in {"ready", "courier", "create", "update"}
  /\ pc[p] # "ready" => seen[p].group \in Groups
  /\ pc[p] = "update" =>
       LET now == ship[seen[p].group] IN
       /\ seen[p].version <= now.version /\ seen[p].next \in Statuses
       /\ seen[p].version = now.version =>
            /\ now.status = seen[p].next \/ <<now.status, seen[p].next>> \in CourierRoad
            /\ now.release = seen[p].release
HookKnows(d) ==
  /\ pc[d] \in {"ready", "look", "same", "ignore", "apply", "unlock"}
  /\ pc[d] # "ready" => seen[d].group \in Groups /\ seen[d].next \in Reports
  /\ pc[d] = "apply" =>
       LET now == ship[seen[d].group] IN
       /\ seen[d].version <= now.version
       /\ seen[d].version = now.version => <<now.status, seen[d].next>> \in CourierRoad

ReadInv ==
  /\ seen \in [Procs -> Readings]
  /\ \A p \in Desk : StaffKnows(p)
  /\ \A d \in Hooks : HookKnows(d)

\* A parcel that was let go stays so.
PaidInv == \A g \in paid \ early : ship[g].status \in LetGo /\ ship[g].release = "RELEASE_APPROVED"

\* What was handed over is out of custody for good.
CounterInv ==
  /\ releases \in {0, 1}
  /\ releases = 1 => custody \in {"RELEASED", "OVERDUE"}
  /\ \A r \in Requests : at[r] = "collected" => releases = 1
  /\ ordStatus = "COLLECTED" => releases = 1

\* Members of the staff about to report a failure that is the shipment's status already:
\* each has been counted in repeats, and may still count one refusal.
Repeating == {p \in Desk :
  /\ pc[p] = "update" /\ seen[p].next = "DELIVERY_FAILED"
  /\ ship[seen[p].group].status = "DELIVERY_FAILED"
  /\ seen[p].version = ship[seen[p].group].version}

RefusalInv ==
  /\ IsFiniteSet(Failed) /\ IsFiniteSet(Repeating)
  /\ refusals + Cardinality(Repeating) <= Cardinality(Failed) + repeats

DeliveryInv == TypeOK /\ ReadInv /\ PaidInv /\ CounterInv /\ RefusalInv

\* The parts of TypeOK that a step of Shipment, or of Custody, may disturb.
ShipRecords == [status : Statuses \cup {"NONE"}, version : Nat, release : Releases]
OrderStates == {"IN_FULFILMENT", "READY_FOR_DISPATCH", "IN_TRANSIT", "PARTIALLY_IN_TRANSIT",
  "PARTIALLY_DELIVERED", "DELIVERED", "COLLECTED", "RETURN_IN_PROGRESS", "REFUNDED"}
ProcSteps == {"ready", "courier", "create", "update", "look", "same", "apply", "ignore", "unlock"}
RowStates == {"NONE", "RECEIVED", "PROCESSED", "IGNORED"}

FixedTyped == handover \in BOOLEAN /\ fez \subseteq Groups
OrderTyped == sealed \subseteq Groups /\ ordStatus \in OrderStates
ShipTyped == ship \in [Groups -> ShipRecords]
PayTyped == paid \subseteq linked /\ linked \subseteq Groups /\ early \subseteq paid
UserTyped == refusals \in Nat /\ eligible \in BOOLEAN
CourierTyped ==
  bookings \in [Groups -> Nat] /\ truth \in [Groups -> Statuses] /\ reported \subseteq Events
EventTyped == row \in [Events -> RowStates] /\ leased \subseteq Events /\ dismissed \subseteq Events
StepTyped == pc \in [Procs -> ProcSteps] /\ repeats \in Nat /\ crashes \in Nat
CustodyTyped ==
  /\ custody \in {"none", "AWAITING_RECEIPT", "IN_CUSTODY", "RELEASED", "OVERDUE"}
  /\ pastDue \in BOOLEAN /\ refunded \in {"none", "payment", "order"}
  /\ returns \in [Customers -> {"none", "REQUESTED", "APPROVED", "REJECTED"}]
  /\ at \in [Requests -> {"ready", "overdue", "receive", "order", "payments", "release",
                          "collected", "create", "return"}]
  /\ releases \in Nat

LEMMA TypeParts ==
  TypeOK <=> /\ FixedTyped /\ OrderTyped /\ ShipTyped /\ PayTyped /\ UserTyped
             /\ CourierTyped /\ EventTyped /\ StepTyped /\ CustodyTyped
BY DEF TypeOK, FixedTyped, OrderTyped, ShipTyped, PayTyped, UserTyped, CourierTyped, EventTyped,
  StepTyped, CustodyTyped, ShipRecords, Releases, OrderStates, ProcSteps, RowStates

LEMMA TypePartsPrimed ==
  TypeOK' <=> /\ FixedTyped' /\ OrderTyped' /\ ShipTyped' /\ PayTyped' /\ UserTyped'
              /\ CourierTyped' /\ EventTyped' /\ StepTyped' /\ CustodyTyped'
BY DEF TypeOK, FixedTyped, OrderTyped, ShipTyped, PayTyped, UserTyped, CourierTyped, EventTyped,
  StepTyped, CustodyTyped, ShipRecords, Releases, OrderStates, ProcSteps, RowStates

LEMMA InitDelivery == Init => DeliveryInv
<1> SUFFICES ASSUME Init PROVE DeliveryInv
  OBVIOUS
<1> USE DEF Init, ShipmentInit, CustodyInit
<1>1. TypeOK
  <2>1. ShipTyped BY DEF ShipTyped, ShipRecords, Releases, NoShip
  <2>2. CourierTyped BY StatusesListed DEF CourierTyped
  <2>3. EventTyped BY DEF EventTyped, RowStates
  <2>4. StepTyped BY DEF StepTyped, ProcSteps
  <2> QED BY <2>1, <2>2, <2>3, <2>4, TypeParts
       DEF FixedTyped, OrderTyped, OrderStates, PayTyped, UserTyped, CustodyTyped
<1>2. ReadInv
  BY DEF ReadInv, Readings, Nothing, Procs, StaffKnows, HookKnows
<1>3. PaidInv /\ CounterInv BY DEF PaidInv, CounterInv
<1>4. RefusalInv
  <2>1. Failed = {} BY DEF Failed, NoShip
  <2>2. Repeating = {} BY DEF Repeating, Procs
  <2> QED BY <2>1, <2>2, FS_EmptySet DEF RefusalInv
<1> QED BY <1>1, <1>2, <1>3, <1>4 DEF DeliveryInv

-----------------------------------------------------------------------------
(* What the parts need of a step *)

\* No shipment loses its version, and what keeps its version stays as it is.
Forward == \A g \in Groups : ship'[g] = ship[g] \/ ship'[g].version > ship[g].version

\* A reading says the same of a shipment that moved on.
LEMMA StaffStillKnows ==
  ASSUME ShipTyped, ShipTyped', ReadInv, Forward, NEW p \in Desk, pc'[p] = pc[p], seen'[p] = seen[p]
  PROVE  StaffKnows(p)'
<1>1. seen[p] \in Readings /\ StaffKnows(p) BY DEF ReadInv, Procs
<1>2. CASE pc[p] = "update"
  <2> DEFINE g == seen[p].group
  <2>1. g \in Groups /\ ship[g] \in ShipRecords /\ ship'[g] \in ShipRecords
    BY <1>1, <1>2 DEF StaffKnows, ShipTyped
  <2>2. seen[p].version \in Nat /\ ship[g].version \in Nat /\ ship'[g].version \in Nat
    BY <1>1, <2>1 DEF Readings, ShipRecords
  <2>3. CASE ship'[g] = ship[g] BY <1>1, <1>2, <2>1, <2>3 DEF StaffKnows
  <2>4. CASE ship'[g] # ship[g]
    <3>1. ship'[g].version > ship[g].version BY <2>1, <2>4 DEF Forward
    <3>2. seen[p].version <= ship[g].version /\ seen[p].next \in Statuses
      BY <1>1, <1>2 DEF StaffKnows
    <3>3. seen[p].version <= ship'[g].version /\ seen[p].version # ship'[g].version
      BY <2>2, <3>1, <3>2
    <3> QED BY <1>1, <1>2, <2>1, <3>2, <3>3 DEF StaffKnows
  <2> QED BY <2>3, <2>4
<1>3. CASE pc[p] # "update" BY <1>1, <1>3 DEF StaffKnows
<1> QED BY <1>2, <1>3

LEMMA HookStillKnows ==
  ASSUME ShipTyped, ShipTyped', ReadInv, Forward, NEW d \in Hooks, pc'[d] = pc[d], seen'[d] = seen[d]
  PROVE  HookKnows(d)'
<1>1. seen[d] \in Readings /\ HookKnows(d) BY DEF ReadInv, Procs
<1>2. CASE pc[d] = "apply"
  <2> DEFINE g == seen[d].group
  <2>1. g \in Groups /\ ship[g] \in ShipRecords /\ ship'[g] \in ShipRecords
    BY <1>1, <1>2 DEF HookKnows, ShipTyped
  <2>2. seen[d].version \in Nat /\ ship[g].version \in Nat /\ ship'[g].version \in Nat
    BY <1>1, <2>1 DEF Readings, ShipRecords
  <2>3. CASE ship'[g] = ship[g] BY <1>1, <1>2, <2>1, <2>3 DEF HookKnows
  <2>4. CASE ship'[g] # ship[g]
    <3>1. ship'[g].version > ship[g].version BY <2>1, <2>4 DEF Forward
    <3>2. seen[d].version <= ship[g].version BY <1>1, <1>2 DEF HookKnows
    <3>3. seen[d].version <= ship'[g].version /\ seen[d].version # ship'[g].version
      BY <2>2, <3>1, <3>2
    <3> QED BY <1>1, <1>2, <2>1, <3>3 DEF HookKnows
  <2> QED BY <2>3, <2>4
<1>3. CASE pc[d] # "apply" BY <1>1, <1>3 DEF HookKnows
<1> QED BY <1>2, <1>3

\* Only the process that moved needs a look.
LEMMA OneReads ==
  ASSUME ShipTyped, ShipTyped', ReadInv, Forward, NEW q \in Procs,
         \A p \in Procs \ {q} : pc'[p] = pc[p] /\ seen'[p] = seen[p],
         seen' \in [Procs -> Readings],
         q \in Desk => StaffKnows(q)', q \in Hooks => HookKnows(q)'
  PROVE  ReadInv'
<1>1. ASSUME NEW p \in Desk PROVE StaffKnows(p)'
  <2>1. CASE p = q BY <2>1
  <2>2. CASE p # q BY <2>2, StaffStillKnows DEF Procs
  <2> QED BY <2>1, <2>2
<1>2. ASSUME NEW d \in Hooks PROVE HookKnows(d)'
  <2>1. CASE d = q BY <2>1
  <2>2. CASE d # q BY <2>2, HookStillKnows DEF Procs
  <2> QED BY <2>1, <2>2
<1> QED BY <1>1, <1>2 DEF ReadInv

LEMMA NoneReads ==
  ASSUME ShipTyped, ShipTyped', ReadInv, Forward, UNCHANGED <<pc, seen>>
  PROVE  ReadInv'
<1>1. \A p \in Desk : StaffKnows(p)' BY StaffStillKnows
<1>2. \A d \in Hooks : HookKnows(d)' BY HookStillKnows
<1> QED BY <1>1, <1>2 DEF ReadInv

\* A refusal is counted for a failure of its own, or for a repetition.
LEMMA RefusalsStand ==
  ASSUME RefusalInv, UserTyped, StepTyped, StepTyped', UserTyped',
         refusals' <= refusals, repeats' >= repeats, Repeating' \subseteq Repeating,
         IsFiniteSet(Failed'), Cardinality(Failed') >= Cardinality(Failed)
  PROVE  RefusalInv'
<1>1. IsFiniteSet(Repeating') /\ Cardinality(Repeating') <= Cardinality(Repeating)
  BY FS_Subset DEF RefusalInv
<1>2. /\ Cardinality(Repeating) \in Nat /\ Cardinality(Repeating') \in Nat
      /\ Cardinality(Failed) \in Nat /\ Cardinality(Failed') \in Nat
  BY <1>1, FS_CardinalityType DEF RefusalInv
<1> QED BY <1>1, <1>2 DEF RefusalInv, UserTyped, StepTyped

LEMMA CounterStands ==
  ASSUME CounterInv, UNCHANGED custodyVars, ordStatus' # ordStatus => ordStatus' # "COLLECTED"
  PROVE  CounterInv'
BY DEF CounterInv, custodyVars

\* A step that moves no shipment.
LEMMA ShipsStand ==
  ASSUME DeliveryInv, TypeOK', ReadInv', UNCHANGED <<ship, refusals, custodyVars>>,
         paid' \ early' = paid \ early, ordStatus' # ordStatus => ordStatus' # "COLLECTED",
         repeats' = repeats, Repeating' \subseteq Repeating
  PROVE  DeliveryInv'
<1>1. PaidInv' BY DEF DeliveryInv, PaidInv
<1>2. CounterInv' BY CounterStands DEF DeliveryInv
<1>3. Failed' = Failed BY DEF Failed
<1>4. repeats \in Nat /\ refusals \in Nat BY TypeParts DEF DeliveryInv, StepTyped, UserTyped
<1>5. IsFiniteSet(Failed) /\ Cardinality(Failed) \in Nat
  BY FS_CardinalityType DEF DeliveryInv, RefusalInv
<1>6. RefusalInv'
  BY <1>3, <1>4, <1>5, RefusalsStand, TypeParts, TypePartsPrimed DEF DeliveryInv
<1> QED BY <1>1, <1>2, <1>6 DEF DeliveryInv

\* Who is about to repeat a failure, when only q moves and no shipment does.
LEMMA RepeatingStands ==
  ASSUME UNCHANGED ship, NEW q \in Procs, \A p \in Procs \ {q} : pc'[p] = pc[p] /\ seen'[p] = seen[p],
         q \in Desk => pc'[q] # "update"
  PROVE  Repeating' \subseteq Repeating
BY DEF Repeating, Procs

LEMMA ShipTypedStands == ASSUME ShipTyped, UNCHANGED ship PROVE ShipTyped' /\ Forward
BY DEF ShipTyped, Forward

-----------------------------------------------------------------------------
(* Steps that move neither a shipment nor a request *)

LEMMA WorldKeeps ==
  ASSUME DeliveryInv, UNCHANGED <<fixed, custodyVars>>,
         \/ \E g \in Groups : SealParcel(g) \/ InitializeHandover(g)
         \/ \E g \in Groups, status \in Reports : CourierReports(g, status)
         \/ \E e \in Events : LeaseExpires(e) \/ AnswerDuplicate(e)
  PROVE  DeliveryInv'
<1> USE DEF orderVars, payVars, userVars, courierVars, eventVars, fixed, custodyVars
<1>1. /\ UNCHANGED <<ship, paid, early, userVars, pc, seen, repeats, crashes>>
      /\ ordStatus' # ordStatus => ordStatus' = "READY_FOR_DISPATCH"
  BY DEF SealParcel, InitializeHandover, CourierReports, LeaseExpires, AnswerDuplicate
<1>2. TypeOK BY DEF DeliveryInv
<1>3. TypeOK'
  <2>1. FixedTyped' /\ ShipTyped' /\ UserTyped' /\ StepTyped' /\ CustodyTyped'
    BY <1>1, <1>2, TypeParts DEF FixedTyped, ShipTyped, UserTyped, StepTyped, CustodyTyped
  <2>2. OrderTyped'
    BY <1>1, <1>2, TypeParts DEF OrderTyped, OrderStates, SealParcel, InitializeHandover,
      CourierReports, LeaseExpires, AnswerDuplicate
  <2>3. PayTyped'
    BY <1>1, <1>2, TypeParts DEF PayTyped, SealParcel, InitializeHandover,
      CourierReports, LeaseExpires, AnswerDuplicate
  <2>4. CourierTyped'
    BY <1>1, <1>2, TypeParts, ReportsAssumption DEF CourierTyped, Events, SealParcel,
      InitializeHandover, CourierReports, LeaseExpires, AnswerDuplicate
  <2>5. EventTyped'
    BY <1>1, <1>2, TypeParts DEF EventTyped, SealParcel, InitializeHandover,
      CourierReports, LeaseExpires, AnswerDuplicate
  <2> QED BY <2>1, <2>2, <2>3, <2>4, <2>5, TypePartsPrimed
<1>4. ReadInv' BY <1>1, <1>2, TypeParts, ShipTypedStands, NoneReads DEF DeliveryInv
<1>5. Repeating' = Repeating BY <1>1 DEF Repeating
<1> QED BY <1>1, <1>3, <1>4, <1>5, ShipsStand

-----------------------------------------------------------------------------
(* Steps of one request that move no shipment *)

LEMMA KeptReadings ==
  ASSUME seen \in [Procs -> Readings], NEW q \in Procs, NEW what \in Readings, Keep(q, what)
  PROVE  /\ seen' \in [Procs -> Readings] /\ seen'[q] = what
         /\ \A p \in Procs \ {q} : seen'[p] = seen[p]
BY DEF Keep

LEMMA MovedProc ==
  ASSUME pc \in [Procs -> ProcSteps], NEW q \in Procs, NEW step \in ProcSteps, Goto(q, step)
  PROVE  /\ pc' \in [Procs -> ProcSteps] /\ pc'[q] = step
         /\ \A p \in Procs \ {q} : pc'[p] = pc[p]
BY DEF Goto

LEMMA Answered ==
  ASSUME pc \in [Procs -> ProcSteps], seen \in [Procs -> Readings], NEW q \in Procs, Answer(q)
  PROVE  /\ pc' \in [Procs -> ProcSteps] /\ pc'[q] = "ready"
         /\ seen' \in [Procs -> Readings]
         /\ \A p \in Procs \ {q} : pc'[p] = pc[p] /\ seen'[p] = seen[p]
         /\ StaffKnows(q)' /\ HookKnows(q)'
<1>1. Nothing \in Readings BY DEF Nothing, Readings
<1>2. "ready" \in ProcSteps BY DEF ProcSteps
<1>3. pc'[q] = "ready" BY <1>2, MovedProc DEF Answer
<1> QED BY <1>1, <1>2, <1>3, KeptReadings, MovedProc DEF Answer, StaffKnows, HookKnows

\* Nothing of an order, a shipment or a customer changes when a request takes such a step.
LEMMA RequestKeeps ==
  ASSUME DeliveryInv, NEW q \in Procs,
         UNCHANGED <<fixed, orderVars, ship, payVars, userVars, repeats, custodyVars>>,
         CourierTyped', EventTyped', crashes' \in Nat,
         pc' \in [Procs -> ProcSteps], seen' \in [Procs -> Readings],
         \A p \in Procs \ {q} : pc'[p] = pc[p] /\ seen'[p] = seen[p],
         q \in Desk => StaffKnows(q)' /\ pc'[q] # "update",
         q \in Hooks => HookKnows(q)'
  PROVE  DeliveryInv'
<1> USE DEF fixed, orderVars, payVars, userVars, custodyVars
<1>1. TypeOK BY DEF DeliveryInv
<1>2. FixedTyped' /\ OrderTyped' /\ ShipTyped' /\ PayTyped' /\ UserTyped' /\ CustodyTyped'
  BY <1>1, TypeParts DEF FixedTyped, OrderTyped, ShipTyped, PayTyped, UserTyped, CustodyTyped
<1>3. StepTyped' BY <1>1, TypeParts DEF StepTyped
<1>4. TypeOK' BY <1>2, <1>3, TypePartsPrimed
<1>5. ReadInv' BY <1>1, <1>2, TypeParts, ShipTypedStands, OneReads DEF DeliveryInv
<1>6. Repeating' \subseteq Repeating BY RepeatingStands
<1> QED BY <1>4, <1>5, <1>6, ShipsStand

LEMMA BookReadKeeps ==
  ASSUME DeliveryInv, UNCHANGED <<fixed, custodyVars>>, NEW p \in Desk, NEW g \in Groups, BookRead(p, g)
  PROVE  DeliveryInv'
<1> DEFINE step == IF g \in fez THEN "courier" ELSE "create"
<1>1. TypeOK BY DEF DeliveryInv
<1>2. p \in Procs /\ step \in ProcSteps /\ pc \in [Procs -> ProcSteps] /\ seen \in [Procs -> Readings]
  BY <1>1, TypeParts DEF Procs, ProcSteps, StepTyped, DeliveryInv, ReadInv
<1>3. Seen(g, "none", 0, "none") \in Readings BY DEF Seen, Readings
<1>4. /\ pc' \in [Procs -> ProcSteps] /\ pc'[p] = step /\ \A q \in Procs \ {p} : pc'[q] = pc[q]
      /\ seen' \in [Procs -> Readings] /\ seen'[p] = Seen(g, "none", 0, "none")
      /\ \A q \in Procs \ {p} : seen'[q] = seen[q]
  BY <1>2, <1>3, MovedProc, KeptReadings DEF BookRead
<1>5. StaffKnows(p)' BY <1>4 DEF StaffKnows, Seen
<1>6. CourierTyped' /\ EventTyped' /\ crashes' \in Nat
  BY <1>1, TypeParts DEF CourierTyped, EventTyped, StepTyped, BookRead, courierVars, eventVars
<1>7. p \notin Hooks BY ShipmentAssumption
<1> QED BY <1>2, <1>4, <1>5, <1>6, <1>7, RequestKeeps DEF BookRead

LEMMA BookCourierKeeps ==
  ASSUME DeliveryInv, UNCHANGED <<fixed, custodyVars>>, NEW p \in Desk, BookCourier(p)
  PROVE  DeliveryInv'
<1>1. TypeOK /\ StaffKnows(p) BY DEF DeliveryInv, ReadInv
<1>2. p \in Procs /\ "create" \in ProcSteps /\ pc \in [Procs -> ProcSteps] /\ seen \in [Procs -> Readings]
  BY <1>1, TypeParts DEF Procs, ProcSteps, StepTyped, DeliveryInv, ReadInv
<1>3. pc' \in [Procs -> ProcSteps] /\ pc'[p] = "create" /\ \A q \in Procs \ {p} : pc'[q] = pc[q]
  BY <1>2, MovedProc DEF BookCourier
<1>4. StaffKnows(p)' BY <1>1, <1>3 DEF StaffKnows, BookCourier
<1>5. CourierTyped' /\ EventTyped' /\ crashes' \in Nat
  <2>1. seen[p].group \in Groups BY <1>1 DEF StaffKnows, BookCourier
  <2>2. CourierTyped' BY <1>1, <2>1, TypeParts DEF CourierTyped, BookCourier
  <2> QED BY <1>1, <2>2, TypeParts DEF EventTyped, StepTyped, BookCourier, eventVars
<1>6. p \notin Hooks BY ShipmentAssumption
<1> QED BY <1>2, <1>3, <1>4, <1>5, <1>6, RequestKeeps DEF BookCourier

\* A request that ends, whether it answers, throws or dies.
LEMMA EndKeeps ==
  ASSUME DeliveryInv, UNCHANGED <<fixed, custodyVars>>, NEW p \in Procs, Answer(p),
         UNCHANGED <<orderVars, ship, payVars, userVars, repeats>>,
         CourierTyped', EventTyped', crashes' \in Nat
  PROVE  DeliveryInv'
<1>1. pc \in [Procs -> ProcSteps] /\ seen \in [Procs -> Readings]
  BY TypeParts DEF StepTyped, DeliveryInv, ReadInv
<1> QED BY <1>1, Answered, RequestKeeps

LEMMA EndingsKeep ==
  ASSUME DeliveryInv, UNCHANGED <<fixed, custodyVars>>,
         \/ \E p \in Desk : BookCourierFails(p)
         \/ \E d \in Hooks : Settle(d) \/ Unlock(d)
         \/ \E p \in Procs : Crash(p)
  PROVE  DeliveryInv'
<1>1. TypeOK BY DEF DeliveryInv
<1> USE DEF courierVars, eventVars
<1>2. ASSUME NEW p \in Desk, BookCourierFails(p) PROVE DeliveryInv'
  <2>1. StaffKnows(p) /\ p \in Procs BY DEF DeliveryInv, ReadInv, Procs
  <2>2. CourierTyped' /\ EventTyped' /\ crashes' \in Nat
    BY <1>1, <1>2, <2>1, TypeParts DEF CourierTyped, EventTyped, StepTyped, BookCourierFails
  <2> QED BY <1>2, <2>1, <2>2, EndKeeps DEF BookCourierFails
<1>3. ASSUME NEW d \in Hooks, Settle(d) PROVE DeliveryInv'
  <2>1. HookKnows(d) /\ d \in Procs BY DEF DeliveryInv, ReadInv, Procs
  <2>2. EventOf(d) \in Events BY <1>3, <2>1 DEF HookKnows, Settle, EventOf, Events
  <2>3. CourierTyped' /\ EventTyped' /\ crashes' \in Nat
    BY <1>1, <1>3, <2>2, TypeParts DEF CourierTyped, EventTyped, StepTyped, Settle, RowStates
  <2> QED BY <1>3, <2>1, <2>3, EndKeeps DEF Settle
<1>4. ASSUME NEW d \in Hooks, Unlock(d) PROVE DeliveryInv'
  <2>1. d \in Procs BY DEF Procs
  <2>2. CourierTyped' /\ EventTyped' /\ crashes' \in Nat
    BY <1>1, <1>4, TypeParts DEF CourierTyped, EventTyped, StepTyped, Unlock
  <2> QED BY <1>4, <2>1, <2>2, EndKeeps DEF Unlock
<1>5. ASSUME NEW p \in Procs, Crash(p) PROVE DeliveryInv'
  <2>1. CourierTyped' /\ EventTyped' /\ crashes' \in Nat
    BY <1>1, <1>5, TypeParts DEF CourierTyped, EventTyped, StepTyped, Crash
  <2> QED BY <1>5, <2>1, EndKeeps DEF Crash
<1> QED BY <1>2, <1>3, <1>4, <1>5

LEMMA ReceiveKeeps ==
  ASSUME DeliveryInv, UNCHANGED <<fixed, custodyVars>>, NEW d \in Hooks, NEW e \in Events, Receive(d, e)
  PROVE  DeliveryInv'
<1>1. TypeOK BY DEF DeliveryInv
<1>2. d \in Procs /\ "look" \in ProcSteps /\ pc \in [Procs -> ProcSteps] /\ seen \in [Procs -> Readings]
  BY <1>1, TypeParts DEF Procs, ProcSteps, StepTyped, DeliveryInv, ReadInv
<1>3. e[1] \in Groups /\ e[2] \in Reports BY DEF Events
<1>4. Seen(e[1], e[2], 0, "none") \in Readings BY <1>3, ReportsAssumption DEF Seen, Readings
<1>5. /\ pc' \in [Procs -> ProcSteps] /\ pc'[d] = "look" /\ \A q \in Procs \ {d} : pc'[q] = pc[q]
      /\ seen' \in [Procs -> Readings] /\ seen'[d] = Seen(e[1], e[2], 0, "none")
      /\ \A q \in Procs \ {d} : seen'[q] = seen[q]
  BY <1>2, <1>4, MovedProc, KeptReadings DEF Receive
<1>6. HookKnows(d)' BY <1>3, <1>5 DEF HookKnows, Seen
<1>7. CourierTyped' /\ EventTyped' /\ crashes' \in Nat
  BY <1>1, TypeParts DEF CourierTyped, EventTyped, StepTyped, Receive, courierVars, RowStates
<1>8. d \notin Desk BY ShipmentAssumption
<1> QED BY <1>2, <1>5, <1>6, <1>7, <1>8, RequestKeeps DEF Receive

LEMMA LookKeeps ==
  ASSUME DeliveryInv, UNCHANGED <<fixed, custodyVars>>, NEW d \in Hooks, Look(d)
  PROVE  DeliveryInv'
<1> DEFINE g == seen[d].group
           kept == [seen[d] EXCEPT !.version = ship[g].version]
           step == Verdict(g, seen[d].next)
<1>1. TypeOK /\ HookKnows(d) BY DEF DeliveryInv, ReadInv
<1>2. d \in Procs /\ step \in ProcSteps /\ pc \in [Procs -> ProcSteps] /\ seen \in [Procs -> Readings]
  BY <1>1, TypeParts DEF Procs, ProcSteps, StepTyped, DeliveryInv, ReadInv, Verdict
<1>3. g \in Groups /\ ship[g] \in ShipRecords /\ seen[d].next \in Reports /\ seen[d] \in Readings
  BY <1>1, <1>2, TypeParts DEF HookKnows, Look, ShipTyped
<1>4. /\ kept \in Readings /\ kept.version = ship[g].version /\ kept.group = g
      /\ kept.next = seen[d].next
  BY <1>3 DEF Readings, ShipRecords
<1> HIDE DEF step, kept, g
<1>5. Goto(d, step) /\ Keep(d, kept) BY DEF Look, step, kept, g
<1>6. /\ pc' \in [Procs -> ProcSteps] /\ pc'[d] = step /\ \A q \in Procs \ {d} : pc'[q] = pc[q]
      /\ seen' \in [Procs -> Readings] /\ seen'[d] = kept
      /\ \A q \in Procs \ {d} : seen'[q] = seen[q]
  BY <1>2, <1>4, <1>5, MovedProc, KeptReadings
<1>7. HookKnows(d)'
  <2>1. step \in {"same", "ignore", "apply"} BY DEF step, Verdict
  <2>2. step = "apply" => <<ship[g].status, kept.next>> \in CourierRoad
    BY <1>4 DEF step, Verdict
  <2>3. ship' = ship /\ ship[g].version \in Nat BY <1>3 DEF Look, ShipRecords
  <2> QED BY <1>3, <1>4, <1>6, <2>1, <2>2, <2>3 DEF HookKnows
<1>8. CourierTyped' /\ EventTyped' /\ crashes' \in Nat
  BY <1>1, TypeParts DEF CourierTyped, EventTyped, StepTyped, Look, courierVars, eventVars
<1>9. d \notin Desk BY ShipmentAssumption
<1> QED BY <1>2, <1>6, <1>7, <1>8, <1>9, RequestKeeps DEF Look

-----------------------------------------------------------------------------
(* Steps that move a shipment *)

\* Readings of a shipment that moves are no repetitions any more.
LEMMA RepeatingLeaves ==
  ASSUME ShipTyped, ShipTyped', ReadInv, Forward, NEW Q \in SUBSET Procs,
         \A p \in Q : pc'[p] # "update",
         \A p \in Procs \ Q : pc'[p] = pc[p] /\ seen'[p] = seen[p]
  PROVE  Repeating' \subseteq Repeating \ Q
<1> SUFFICES ASSUME NEW p \in Repeating' PROVE p \in Repeating /\ p \notin Q
  OBVIOUS
<1>1. p \in Desk /\ p \in Procs /\ pc'[p] = "update" BY DEF Repeating, Procs
<1>2. p \notin Q /\ pc[p] = "update" /\ seen'[p] = seen[p] BY <1>1
<1>3. seen[p] \in Readings /\ StaffKnows(p) BY <1>1 DEF ReadInv
<1> DEFINE g == seen[p].group
<1>4. g \in Groups /\ seen[p].version <= ship[g].version BY <1>2, <1>3 DEF StaffKnows
<1>5. seen[p].version \in Nat /\ ship[g].version \in Nat /\ ship'[g].version \in Nat
  BY <1>3, <1>4 DEF Readings, ShipTyped, ShipRecords
<1>6. seen[p].version = ship'[g].version BY <1>2 DEF Repeating
<1>7. ship'[g] = ship[g] BY <1>4, <1>5, <1>6 DEF Forward
<1> QED BY <1>1, <1>2, <1>7 DEF Repeating

\* The failed deliveries when one shipment changes.
LEMMA FailedCounted ==
  ASSUME IsFiniteSet(Failed), NEW g \in Groups, \A h \in Groups \ {g} : ship'[h] = ship[h],
         ship[g].status \in FailedStatuses => ship'[g].status \in FailedStatuses
  PROVE  /\ IsFiniteSet(Failed') /\ Cardinality(Failed) \in Nat /\ Cardinality(Failed') \in Nat
         /\ Cardinality(Failed') >= Cardinality(Failed)
         /\ ship[g].status \notin FailedStatuses /\ ship'[g].status \in FailedStatuses =>
              Cardinality(Failed') = Cardinality(Failed) + 1
<1>1. Cardinality(Failed) \in Nat BY FS_CardinalityType
<1>2. CASE ship[g].status \in FailedStatuses \/ ship'[g].status \notin FailedStatuses
  <2>1. Failed' = Failed BY <1>2 DEF Failed, FailedStatuses
  <2> QED BY <1>1, <1>2, <2>1
<1>3. CASE ship[g].status \notin FailedStatuses /\ ship'[g].status \in FailedStatuses
  <2>1. Failed' = Failed \cup {g} /\ g \notin Failed BY <1>3 DEF Failed, FailedStatuses
  <2>2. IsFiniteSet(Failed') /\ Cardinality(Failed') = Cardinality(Failed) + 1
    BY <2>1, FS_AddElement
  <2> QED BY <1>1, <2>2
<1> QED BY <1>2, <1>3

LEMMA RefusalCounted ==
  ASSUME UserTyped, NEW next, RecordRefusal(next)
  PROVE  /\ UserTyped'
         /\ refusals' = refusals \/ (next = "DELIVERY_FAILED" /\ refusals' = refusals + 1)
<1>1. CASE next = "DELIVERY_FAILED" /\ handover
  <2>1. refusals' = refusals + 1 /\ eligible' = (eligible /\ refusals' < PodLimit)
    BY <1>1 DEF RecordRefusal
  <2>2. eligible' \in BOOLEAN
    <3>1. (eligible /\ refusals' < PodLimit) \in BOOLEAN OBVIOUS
    <3> QED BY <2>1, <3>1, Zenon
  <2> QED BY <1>1, <2>1, <2>2 DEF UserTyped
<1>2. CASE ~(next = "DELIVERY_FAILED" /\ handover)
  BY <1>2 DEF UserTyped, RecordRefusal, userVars
<1> QED BY <1>1, <1>2

\* A shipment that goes along a road.
LEMMA RoadKeeps ==
  ASSUME DeliveryInv, TypeOK', ReadInv', NEW g \in Groups, NEW next, NEW release,
         NEW Q \in SUBSET Procs, \A p \in Q : pc'[p] # "update",
         \A p \in Procs \ Q : pc'[p] = pc[p] /\ seen'[p] = seen[p],
         ship' = Moved(ship, g, next, release), <<ship[g].status, next>> \in CourierRoad,
         release \in {ship[g].release, "RELEASE_APPROVED"},
         paid' \ early' = paid \ early \/ (paid' \ early' = (paid \ early) \cup {g}
                                           /\ next \in LetGo /\ release = "RELEASE_APPROVED"),
         refusals' = refusals \/ (next = "DELIVERY_FAILED" /\ refusals' = refusals + 1),
         repeats' = repeats, UNCHANGED custodyVars, ordStatus' # ordStatus => ordStatus' # "COLLECTED"
  PROVE  DeliveryInv'
<1>1. /\ ShipTyped /\ ShipTyped' /\ UserTyped /\ StepTyped /\ PayTyped /\ ReadInv
      /\ IsFiniteSet(Failed) /\ IsFiniteSet(Repeating)
  BY TypeParts, TypePartsPrimed DEF DeliveryInv, RefusalInv
<1>2. /\ ship[g] \in ShipRecords /\ ship[g].version \in Nat
      /\ ship'[g] = [status |-> next, version |-> ship[g].version + 1, release |-> release]
      /\ \A h \in Groups \ {g} : ship'[h] = ship[h]
  BY <1>1 DEF ShipTyped, ShipRecords, Moved
<1>3. Forward BY <1>2 DEF Forward
<1>4. Repeating' \subseteq Repeating \ Q BY <1>1, <1>3, RepeatingLeaves
<1>5. PaidInv'
  <2> SUFFICES ASSUME NEW h \in paid' \ early'
               PROVE  ship'[h].status \in LetGo /\ ship'[h].release = "RELEASE_APPROVED"
    BY DEF PaidInv
  <2>1. CASE h \notin paid \ early BY <1>2, <2>1
  <2>2. CASE h \in paid \ early
    <3>1. ship[h].status \in LetGo /\ ship[h].release = "RELEASE_APPROVED" /\ h \in Groups
      BY <1>1, <2>2 DEF DeliveryInv, PaidInv, PayTyped
    <3>2. CASE h = g BY <1>2, <3>1, <3>2, RoadFacts
    <3>3. CASE h # g BY <1>2, <3>1, <3>3
    <3> QED BY <3>2, <3>3
  <2> QED BY <2>1, <2>2
<1>6. CounterInv' BY CounterStands DEF DeliveryInv
<1>7. RefusalInv'
  <2>1. /\ ship[g].status \in FailedStatuses => next \in FailedStatuses \ {"DELIVERY_FAILED"}
        /\ ship'[g].status = next
    BY <1>2, RoadFacts
  <2>2. /\ IsFiniteSet(Failed') /\ Cardinality(Failed) \in Nat /\ Cardinality(Failed') \in Nat
        /\ Cardinality(Failed') >= Cardinality(Failed)
        /\ ship[g].status \notin FailedStatuses /\ next \in FailedStatuses =>
             Cardinality(Failed') = Cardinality(Failed) + 1
    BY <1>1, <1>2, <2>1, FailedCounted
  <2>3. /\ IsFiniteSet(Repeating') /\ Cardinality(Repeating') <= Cardinality(Repeating)
    BY <1>1, <1>4, FS_Subset
  <2>4. Cardinality(Repeating) \in Nat /\ Cardinality(Repeating') \in Nat
    BY <1>1, <2>3, FS_CardinalityType
  <2>5. refusals \in Nat /\ repeats \in Nat BY <1>1 DEF UserTyped, StepTyped
  <2>6. next = "DELIVERY_FAILED" => Cardinality(Failed') = Cardinality(Failed) + 1
    BY <2>1, <2>2 DEF FailedStatuses
  <2>7. refusals + Cardinality(Repeating) <= Cardinality(Failed) + repeats
    BY DEF DeliveryInv, RefusalInv
  <2>8. refusals' + Cardinality(Repeating') <= Cardinality(Failed') + repeats'
    BY <2>2, <2>3, <2>4, <2>5, <2>6, <2>7
  <2> QED BY <2>2, <2>3, <2>8 DEF RefusalInv
<1> QED BY <1>5, <1>6, <1>7 DEF DeliveryInv

LEMMA UpdateReadKeeps ==
  ASSUME DeliveryInv, UNCHANGED <<fixed, custodyVars>>,
         NEW p \in Desk, NEW g \in Groups, NEW next \in Statuses, UpdateRead(p, g, next)
  PROVE  DeliveryInv'
<1> DEFINE what == Seen(g, next, ship[g].version, ship[g].release)
<1>1. TypeOK BY DEF DeliveryInv
<1>2. /\ p \in Procs /\ "update" \in ProcSteps /\ pc \in [Procs -> ProcSteps]
      /\ seen \in [Procs -> Readings] /\ ship[g] \in ShipRecords /\ pc[p] = "ready"
  BY <1>1, TypeParts
    DEF Procs, ProcSteps, StepTyped, DeliveryInv, ReadInv, ShipTyped, UpdateRead
<1>3. what \in Readings BY <1>2 DEF Seen, Readings, ShipRecords
<1>4. /\ pc' \in [Procs -> ProcSteps] /\ pc'[p] = "update" /\ \A q \in Procs \ {p} : pc'[q] = pc[q]
      /\ seen' \in [Procs -> Readings] /\ seen'[p] = what /\ \A q \in Procs \ {p} : seen'[q] = seen[q]
  BY <1>2, <1>3, MovedProc, KeptReadings DEF UpdateRead
<1>5. UNCHANGED <<orderVars, ship, payVars, userVars, courierVars, eventVars, crashes>>
  BY DEF UpdateRead
<1>6. TypeOK'
  <2>1. repeats' \in Nat BY <1>1, TypeParts DEF StepTyped, UpdateRead
  <2> QED BY <1>1, <1>4, <1>5, <2>1, TypeParts, TypePartsPrimed
       DEF FixedTyped, OrderTyped, ShipTyped, PayTyped, UserTyped, CourierTyped, EventTyped, StepTyped,
         CustodyTyped, fixed, orderVars, payVars, userVars, courierVars, eventVars, custodyVars
<1>7. StaffKnows(p)'
  <2>1. ship[g].status = next \/ <<ship[g].status, next>> \in CourierRoad
    BY StaffUsesTheRoad DEF UpdateRead, MayUpdate
  <2>2. ship' = ship /\ ship[g].version \in Nat BY <1>2, <1>5 DEF ShipRecords
  <2> QED BY <1>4, <2>1, <2>2 DEF StaffKnows, Seen
<1>8. ReadInv'
  <2>1. ShipTyped /\ ShipTyped' /\ Forward BY <1>1, <1>5, TypeParts, ShipTypedStands
  <2>2. p \notin Hooks BY ShipmentAssumption
  <2> QED BY <1>2, <1>4, <1>7, <2>1, <2>2, OneReads DEF DeliveryInv
<1>9. PaidInv' /\ CounterInv'
  BY <1>5, CounterStands DEF DeliveryInv, PaidInv, payVars, orderVars
<1>10. RefusalInv'
  <2>1. Failed' = Failed BY <1>5 DEF Failed
  <2>2. /\ repeats \in Nat /\ refusals \in Nat /\ refusals' = refusals
        /\ IsFiniteSet(Failed) /\ IsFiniteSet(Repeating)
        /\ Cardinality(Failed) \in Nat /\ Cardinality(Repeating) \in Nat
        /\ refusals + Cardinality(Repeating) <= Cardinality(Failed) + repeats
    BY <1>1, <1>5, TypeParts, FS_CardinalityType
      DEF DeliveryInv, RefusalInv, StepTyped, UserTyped, userVars
  <2>3. \A q \in Procs \ {p} : q \in Repeating' => q \in Repeating
    BY <1>4, <1>5 DEF Repeating, Procs
  <2>4. CASE p \notin Repeating'
    <3>1. Repeating' \subseteq Repeating BY <2>3, <2>4 DEF Repeating, Procs
    <3>2. IsFiniteSet(Repeating') /\ Cardinality(Repeating') <= Cardinality(Repeating)
      BY <2>2, <3>1, FS_Subset
    <3>3. Cardinality(Repeating') \in Nat BY <3>2, FS_CardinalityType
    <3>4. repeats' >= repeats BY <2>2 DEF UpdateRead
    <3>5. repeats' \in Nat BY <2>2 DEF UpdateRead
    <3> QED BY <2>1, <2>2, <3>2, <3>3, <3>4, <3>5 DEF RefusalInv
  <2>5. CASE p \in Repeating'
    <3>1. next = "DELIVERY_FAILED" /\ ship[g].status = next
      BY <1>4, <1>5, <2>5 DEF Repeating, Seen
    <3>2. repeats' = repeats + 1 BY <3>1 DEF UpdateRead
    <3>3. p \notin Repeating BY <1>2 DEF Repeating
    <3>4. Repeating' \subseteq Repeating \cup {p} BY <2>3 DEF Repeating, Procs
    <3>5. IsFiniteSet(Repeating \cup {p})
          /\ Cardinality(Repeating \cup {p}) = Cardinality(Repeating) + 1
      BY <2>2, <3>3, FS_AddElement
    <3>6. IsFiniteSet(Repeating') /\ Cardinality(Repeating') <= Cardinality(Repeating) + 1
      BY <3>4, <3>5, FS_Subset
    <3>7. Cardinality(Repeating') \in Nat BY <3>6, FS_CardinalityType
    <3> QED BY <2>1, <2>2, <3>2, <3>6, <3>7 DEF RefusalInv
  <2> QED BY <2>4, <2>5
<1> QED BY <1>6, <1>8, <1>9, <1>10 DEF DeliveryInv

LEMMA CreateKeeps ==
  ASSUME DeliveryInv, UNCHANGED <<fixed, custodyVars>>, NEW p \in Desk, CreateShipment(p)
  PROVE  DeliveryInv'
<1> DEFINE g == seen[p].group
           made == [status |-> "BOOKED_WITH_PROVIDER", version |-> 1,
                    release |-> IF handover THEN "AWAITING_HANDOVER_PAYMENT" ELSE "NOT_REQUIRED"]
<1>1. TypeOK /\ ReadInv /\ StaffKnows(p) BY DEF DeliveryInv, ReadInv
<1>2. p \in Procs /\ g \in Groups /\ pc \in [Procs -> ProcSteps] /\ seen \in [Procs -> Readings]
  BY <1>1, TypeParts DEF Procs, StaffKnows, CreateShipment, StepTyped, ReadInv
<1>3. UNCHANGED <<sealed, payVars, userVars, courierVars, eventVars, repeats, crashes>> /\ Answer(p)
  BY DEF CreateShipment
<1>4. /\ pc' \in [Procs -> ProcSteps] /\ pc'[p] = "ready" /\ seen' \in [Procs -> Readings]
      /\ \A q \in Procs \ {p} : pc'[q] = pc[q] /\ seen'[q] = seen[q]
      /\ StaffKnows(p)' /\ HookKnows(p)'
  BY <1>2, <1>3, Answered
<1>5. \/ UNCHANGED <<ship, ordStatus>>
      \/ /\ ~Booked(g) /\ ship' = [ship EXCEPT ![g] = made] /\ ordStatus' = "READY_FOR_DISPATCH"
  BY DEF CreateShipment
<1>6. made \in ShipRecords BY StatusesListed DEF ShipRecords, Releases
<1> HIDE DEF g
<1>7. ShipTyped /\ ShipTyped' BY <1>1, <1>2, <1>5, <1>6, TypeParts DEF ShipTyped
<1>8. TypeOK'
  <2>1. OrderTyped' BY <1>1, <1>3, <1>5, TypeParts DEF OrderTyped, OrderStates
  <2> QED BY <1>1, <1>3, <1>4, <1>7, <2>1, TypeParts, TypePartsPrimed
       DEF FixedTyped, PayTyped, UserTyped, CourierTyped, EventTyped, StepTyped,
         CustodyTyped, fixed, payVars, userVars, courierVars, eventVars, custodyVars
<1>9. /\ \A h \in Groups : ship'[h] # ship[h] =>
           h = g /\ ship[h] = NoShip /\ ship'[h] = made
  BY <1>2, <1>5, <1>7 DEF ShipTyped, Booked
<1>10. Forward BY <1>9 DEF Forward, NoShip
<1>11. ReadInv' BY <1>1, <1>2, <1>4, <1>7, <1>10, OneReads
<1>12. PaidInv'
  <2> SUFFICES ASSUME NEW h \in paid \ early
               PROVE  ship'[h].status \in LetGo /\ ship'[h].release = "RELEASE_APPROVED"
    BY <1>3 DEF PaidInv, payVars
  <2>1. h \in Groups /\ ship[h].status \in LetGo /\ ship[h].release = "RELEASE_APPROVED"
    BY <1>1, TypeParts DEF DeliveryInv, PaidInv, PayTyped
  <2> QED BY <1>9, <2>1 DEF NoShip, LetGo
<1>13. CounterInv' BY <1>5, CounterStands DEF DeliveryInv
<1>14. RefusalInv'
  <2>1. Repeating' \subseteq Repeating
    BY <1>1, <1>2, <1>4, <1>7, <1>10, RepeatingLeaves, {p} \in SUBSET Procs
  <2>2. Failed' = Failed BY <1>9 DEF Failed, NoShip
  <2>3. UserTyped /\ StepTyped /\ UserTyped' /\ StepTyped' /\ refusals' = refusals /\ repeats' = repeats
    BY <1>1, <1>3, <1>8, TypeParts, TypePartsPrimed DEF userVars
  <2>4. IsFiniteSet(Failed) /\ Cardinality(Failed) \in Nat /\ RefusalInv
    BY FS_CardinalityType DEF DeliveryInv, RefusalInv
  <2> QED BY <2>1, <2>2, <2>3, <2>4, RefusalsStand DEF UserTyped, StepTyped
<1> QED BY <1>8, <1>11, <1>12, <1>13, <1>14 DEF DeliveryInv

LEMMA OrderAfterTyped ==
  ASSUME NEW sh, NEW next
  PROVE  OrderAfter(sh, next) \in (OrderStates \ {"COLLECTED"}) \cup {"unchanged"}
BY DEF OrderAfter, OrderStates

\* A repetition: the status stays, the version counts up.
LEMMA RepetitionKeeps ==
  ASSUME DeliveryInv, TypeOK', ReadInv', NEW g \in Groups, NEW release, NEW p \in Desk,
         pc[p] = "update", seen[p].group = g, seen[p].version = ship[g].version,
         seen[p].next = ship[g].status, pc'[p] = "ready",
         \A q \in Procs \ {p} : pc'[q] = pc[q] /\ seen'[q] = seen[q],
         ship' = Moved(ship, g, ship[g].status, release),
         release \in {ship[g].release, "RELEASE_APPROVED"}, UNCHANGED <<paid, early>>,
         refusals' = refusals \/ (ship[g].status = "DELIVERY_FAILED" /\ refusals' = refusals + 1),
         repeats' = repeats, UNCHANGED custodyVars, ordStatus' # ordStatus => ordStatus' # "COLLECTED"
  PROVE  DeliveryInv'
<1>1. /\ ShipTyped /\ ShipTyped' /\ UserTyped /\ StepTyped /\ PayTyped /\ ReadInv /\ p \in Procs
      /\ IsFiniteSet(Failed) /\ IsFiniteSet(Repeating)
  BY TypeParts, TypePartsPrimed DEF DeliveryInv, RefusalInv, Procs
<1>2. /\ ship[g] \in ShipRecords /\ ship[g].version \in Nat /\ ship'[g].status = ship[g].status
      /\ ship'[g].version = ship[g].version + 1 /\ ship'[g].release = release
      /\ \A h \in Groups \ {g} : ship'[h] = ship[h]
  BY <1>1 DEF ShipTyped, ShipRecords, Moved
<1>3. Forward BY <1>2 DEF Forward
<1>4. Repeating' \subseteq Repeating \ {p}
  BY <1>1, <1>3, RepeatingLeaves, {p} \in SUBSET Procs
<1>5. PaidInv'
  <2> SUFFICES ASSUME NEW h \in paid \ early
               PROVE  ship'[h].status \in LetGo /\ ship'[h].release = "RELEASE_APPROVED"
    BY DEF PaidInv
  <2>1. ship[h].status \in LetGo /\ ship[h].release = "RELEASE_APPROVED" /\ h \in Groups
    BY <1>1 DEF DeliveryInv, PaidInv, PayTyped
  <2> QED BY <1>2, <2>1
<1>6. CounterInv' BY CounterStands DEF DeliveryInv
<1>7. RefusalInv'
  <2>1. Failed' = Failed BY <1>2 DEF Failed
  <2>2. /\ IsFiniteSet(Repeating') /\ Cardinality(Repeating') <= Cardinality(Repeating)
        /\ IsFiniteSet(Repeating \ {p})
        /\ Cardinality(Repeating') <= Cardinality(Repeating \ {p})
    <3>1. IsFiniteSet(Repeating \ {p}) BY <1>1, FS_Subset
    <3> QED BY <1>1, <1>4, <3>1, FS_Subset
  <2>3. /\ Cardinality(Repeating) \in Nat /\ Cardinality(Repeating') \in Nat
        /\ Cardinality(Failed) \in Nat /\ Cardinality(Repeating \ {p}) \in Nat
    BY <1>1, <2>2, FS_CardinalityType
  <2>4. refusals \in Nat /\ repeats \in Nat BY <1>1 DEF UserTyped, StepTyped
  <2>5. refusals + Cardinality(Repeating) <= Cardinality(Failed) + repeats
    BY DEF DeliveryInv, RefusalInv
  <2>6. CASE refusals' = refusals
    BY <1>1, <2>1, <2>2, <2>3, <2>4, <2>5, <2>6 DEF RefusalInv
  <2>7. CASE refusals' # refusals
    <3>1. ship[g].status = "DELIVERY_FAILED" /\ refusals' = refusals + 1 BY <2>7
    <3>2. p \in Repeating BY <3>1 DEF Repeating
    <3>3. Cardinality(Repeating \ {p}) = Cardinality(Repeating) - 1
      BY <1>1, <3>2, FS_RemoveElement
    <3>4. refusals' + Cardinality(Repeating') <= Cardinality(Failed') + repeats'
      BY <2>1, <2>2, <2>3, <2>4, <2>5, <3>1, <3>3
    <3> QED BY <1>1, <2>1, <2>2, <3>4 DEF RefusalInv
  <2> QED BY <2>6, <2>7
<1> QED BY <1>5, <1>6, <1>7 DEF DeliveryInv

LEMMA UpdateWriteKeeps ==
  ASSUME DeliveryInv, UNCHANGED <<fixed, custodyVars>>, NEW p \in Desk, UpdateWrite(p)
  PROVE  DeliveryInv'
<1> DEFINE g == seen[p].group
           next == seen[p].next
           release == IF next = "RELEASE_APPROVED" THEN "RELEASE_APPROVED" ELSE seen[p].release
           after == OrderAfter(Moved(ship, g, next, release), next)
<1>1. TypeOK /\ ReadInv /\ StaffKnows(p) /\ pc[p] = "update"
  BY DEF DeliveryInv, ReadInv, UpdateWrite
<1>2. /\ p \in Procs /\ p \notin Hooks /\ g \in Groups /\ next \in Statuses
      /\ pc \in [Procs -> ProcSteps] /\ seen \in [Procs -> Readings]
      /\ seen[p].version <= ship[g].version
      /\ seen[p].version = ship[g].version =>
           /\ ship[g].status = next \/ <<ship[g].status, next>> \in CourierRoad
           /\ ship[g].release = seen[p].release
  BY <1>1, TypeParts, ShipmentAssumption DEF Procs, StaffKnows, StepTyped, ReadInv
<1>3. /\ UNCHANGED <<sealed, payVars, courierVars, eventVars, repeats, crashes>> /\ Answer(p)
      /\ IF Unmoved(g, seen[p].version)
           THEN /\ ship' = Moved(ship, g, next, release)
                /\ RecordRefusal(next)
                /\ ordStatus' = IF after = "unchanged" THEN ordStatus ELSE after
           ELSE UNCHANGED <<ship, userVars, ordStatus>>
  BY DEF UpdateWrite
<1>4. /\ pc' \in [Procs -> ProcSteps] /\ pc'[p] = "ready" /\ seen' \in [Procs -> Readings]
      /\ \A q \in Procs \ {p} : pc'[q] = pc[q] /\ seen'[q] = seen[q]
      /\ StaffKnows(p)'
  BY <1>2, <1>3, Answered
<1>5. after \in (OrderStates \ {"COLLECTED"}) \cup {"unchanged"} BY OrderAfterTyped
<1> HIDE DEF after
<1>6. CASE Unmoved(g, seen[p].version)
  <2>1. /\ seen[p].version = ship[g].version
        /\ ship[g].status = next \/ <<ship[g].status, next>> \in CourierRoad
        /\ release \in {ship[g].release, "RELEASE_APPROVED"}
        /\ ship' = Moved(ship, g, next, release) /\ RecordRefusal(next)
        /\ ordStatus' = IF after = "unchanged" THEN ordStatus ELSE after
    BY <1>2, <1>3, <1>6 DEF Unmoved
  <2> HIDE DEF g, next, release
  <2>2. ShipTyped /\ ship[g] \in ShipRecords /\ ship[g].version \in Nat
    BY <1>1, <1>2, TypeParts DEF ShipTyped, ShipRecords
  <2>3. ShipTyped' /\ Forward
    <3>1. [status |-> next, version |-> ship[g].version + 1, release |-> release] \in ShipRecords
      BY <1>2, <2>1, <2>2 DEF ShipRecords, Releases
    <3> QED BY <1>2, <2>1, <2>2, <3>1 DEF ShipTyped, Moved, Forward
  <2>4. UserTyped' /\ (refusals' = refusals \/ (next = "DELIVERY_FAILED" /\ refusals' = refusals + 1))
    BY <1>1, <2>1, TypeParts, RefusalCounted
  <2>5. OrderTyped' BY <1>1, <1>3, <1>5, <2>1, TypeParts DEF OrderTyped
  <2>6. TypeOK'
    BY <1>1, <1>3, <1>4, <2>3, <2>4, <2>5, TypeParts, TypePartsPrimed
       DEF FixedTyped, PayTyped, CourierTyped, EventTyped, StepTyped,
         CustodyTyped, fixed, payVars, courierVars, eventVars, custodyVars
  <2>7. ReadInv' BY <1>1, <1>2, <1>4, <2>2, <2>3, OneReads
  <2>8. /\ UNCHANGED <<paid, early>> /\ repeats' = repeats
        /\ ordStatus' # ordStatus => ordStatus' # "COLLECTED"
    BY <1>3, <1>5, <2>1 DEF payVars
  <2>9. CASE <<ship[g].status, next>> \in CourierRoad
    BY <1>2, <1>4, <2>1, <2>4, <2>6, <2>7, <2>8, <2>9, RoadKeeps, {p} \in SUBSET Procs
  <2>10. CASE ship[g].status = next
    <3>1. seen[p].group = g /\ seen[p].next = ship[g].status BY <2>10 DEF g, next
    <3>2. ship' = Moved(ship, g, ship[g].status, release) BY <2>1, <2>10
    <3>3. refusals' = refusals \/ (ship[g].status = "DELIVERY_FAILED" /\ refusals' = refusals + 1)
      BY <2>4, <2>10
    <3> QED BY <1>1, <1>2, <1>4, <2>1, <2>6, <2>7, <2>8, <3>1, <3>2, <3>3, RepetitionKeeps
  <2> QED BY <2>1, <2>9, <2>10
<1>7. CASE ~Unmoved(g, seen[p].version)
  <2>1. UNCHANGED <<orderVars, ship, payVars, userVars, courierVars, eventVars, repeats, crashes>>
    BY <1>3, <1>7 DEF orderVars
  <2>2. CourierTyped' /\ EventTyped' /\ crashes' \in Nat
    BY <1>1, <2>1, TypeParts DEF CourierTyped, EventTyped, StepTyped, courierVars, eventVars
  <2> QED BY <1>2, <1>3, <2>1, <2>2, EndKeeps
<1> QED BY <1>6, <1>7

LEMMA ApplyKeeps ==
  ASSUME DeliveryInv, UNCHANGED <<fixed, custodyVars>>, NEW d \in Hooks, Apply(d)
  PROVE  DeliveryInv'
<1> DEFINE g == seen[d].group
           next == seen[d].next
           after == OrderAfterEvent(next)
<1>1. TypeOK /\ ReadInv /\ HookKnows(d) /\ pc[d] = "apply"
  BY DEF DeliveryInv, ReadInv, Apply
<1>2. /\ d \in Procs /\ d \notin Desk /\ g \in Groups /\ next \in Reports /\ next \in Statuses
      /\ EventOf(d) \in Events
      /\ pc \in [Procs -> ProcSteps] /\ seen \in [Procs -> Readings]
      /\ seen[d].version = ship[g].version => <<ship[g].status, next>> \in CourierRoad
  BY <1>1, TypeParts, ShipmentAssumption, ReportsAssumption
    DEF Procs, HookKnows, StepTyped, ReadInv, EventOf, Events
<1>3. UNCHANGED <<sealed, payVars, courierVars, dismissed, repeats, crashes>> BY DEF Apply
<1>4. CASE Unmoved(g, seen[d].version)
  <2>1. /\ <<ship[g].status, next>> \in CourierRoad
        /\ ship' = Moved(ship, g, next, ship[g].release) /\ RecordRefusal(next)
        /\ ordStatus' = IF after = "unchanged" THEN ordStatus ELSE after
        /\ row' = [row EXCEPT ![EventOf(d)] = "PROCESSED"] /\ leased' = leased \ {EventOf(d)}
        /\ Answer(d)
    BY <1>2, <1>4 DEF Unmoved, Apply
  <2>2. after \in (OrderStates \ {"COLLECTED"}) \cup {"unchanged"}
    BY DEF OrderAfterEvent, OrderStates
  <2> HIDE DEF g, next, after
  <2>3. /\ pc' \in [Procs -> ProcSteps] /\ pc'[d] = "ready" /\ seen' \in [Procs -> Readings]
        /\ \A q \in Procs \ {d} : pc'[q] = pc[q] /\ seen'[q] = seen[q]
        /\ HookKnows(d)'
    BY <1>2, <2>1, Answered
  <2>4. ShipTyped /\ ship[g] \in ShipRecords /\ ship[g].version \in Nat
    BY <1>1, <1>2, TypeParts DEF ShipTyped, ShipRecords
  <2>5. ShipTyped' /\ Forward
    <3>1. [status |-> next, version |-> ship[g].version + 1, release |-> ship[g].release] \in ShipRecords
      BY <1>2, <2>4 DEF ShipRecords
    <3> QED BY <1>2, <2>1, <2>4, <3>1 DEF ShipTyped, Moved, Forward
  <2>6. UserTyped' /\ (refusals' = refusals \/ (next = "DELIVERY_FAILED" /\ refusals' = refusals + 1))
    BY <1>1, <2>1, TypeParts, RefusalCounted
  <2>7. OrderTyped' /\ EventTyped'
    BY <1>1, <1>2, <1>3, <2>1, <2>2, TypeParts DEF OrderTyped, EventTyped, RowStates
  <2>8. TypeOK'
    BY <1>1, <1>3, <2>3, <2>5, <2>6, <2>7, TypeParts, TypePartsPrimed
       DEF FixedTyped, PayTyped, CourierTyped, StepTyped, CustodyTyped,
         fixed, payVars, courierVars, custodyVars
  <2>9. ReadInv' BY <1>1, <1>2, <2>3, <2>4, <2>5, OneReads
  <2>10. /\ UNCHANGED <<paid, early>> /\ repeats' = repeats
         /\ ordStatus' # ordStatus => ordStatus' # "COLLECTED"
    BY <1>3, <2>1, <2>2 DEF payVars
  <2> QED BY <1>2, <2>1, <2>3, <2>6, <2>8, <2>9, <2>10, RoadKeeps, {d} \in SUBSET Procs
<1>5. CASE ~Unmoved(g, seen[d].version)
  <2>1. Goto(d, "unlock") /\ UNCHANGED <<ship, userVars, ordStatus, row, leased, seen>>
    BY <1>5 DEF Apply
  <2>2. "unlock" \in ProcSteps BY DEF ProcSteps
  <2>3. pc' \in [Procs -> ProcSteps] /\ pc'[d] = "unlock" /\ \A q \in Procs \ {d} : pc'[q] = pc[q]
    BY <1>2, <2>1, <2>2, MovedProc
  <2>4. HookKnows(d)' BY <1>1, <2>1, <2>3 DEF HookKnows
  <2>5. CourierTyped' /\ EventTyped' /\ crashes' \in Nat
    BY <1>1, <1>3, <2>1, TypeParts DEF CourierTyped, EventTyped, StepTyped, courierVars
  <2>6. UNCHANGED <<orderVars, eventVars>> BY <1>3, <2>1 DEF orderVars, eventVars
  <2> QED BY <1>2, <1>3, <2>1, <2>3, <2>4, <2>5, <2>6, RequestKeeps
<1> QED BY <1>4, <1>5

LEMMA ConfirmKeeps ==
  ASSUME DeliveryInv, UNCHANGED <<fixed, custodyVars>>, NEW g \in Groups, ConfirmHandover(g)
  PROVE  DeliveryInv'
<1>1. TypeOK /\ ReadInv /\ ShipTyped /\ PayTyped BY TypeParts DEF DeliveryInv
<1>2. /\ UNCHANGED <<orderVars, linked, userVars, courierVars, eventVars, pc, seen, repeats, crashes>>
      /\ g \in linked /\ g \notin paid /\ g \notin early /\ paid' = paid \cup {g}
      /\ early' = IF Asked(g) THEN early ELSE early \cup {g}
      /\ ship' = IF Asked(g) THEN Released(g) ELSE ship
  BY <1>1 DEF ConfirmHandover, PayTyped
<1>3. ship[g] \in ShipRecords /\ ship[g].version \in Nat BY <1>1 DEF ShipTyped, ShipRecords
<1>4. ShipTyped' /\ Forward
  <2>1. [status |-> "RELEASE_APPROVED", version |-> ship[g].version + 1, release |-> "RELEASE_APPROVED"]
          \in ShipRecords
    BY <1>3, StatusesListed DEF ShipRecords, Releases
  <2> QED BY <1>1, <1>2, <1>3, <2>1 DEF ShipTyped, Released, Moved, Forward
<1>5. TypeOK'
  <2>1. PayTyped' BY <1>1, <1>2 DEF PayTyped
  <2> QED BY <1>1, <1>2, <1>4, <2>1, TypeParts, TypePartsPrimed
       DEF FixedTyped, OrderTyped, UserTyped, CourierTyped, EventTyped, StepTyped,
         CustodyTyped, fixed, orderVars, userVars, courierVars, eventVars, custodyVars
<1>6. ReadInv' BY <1>1, <1>2, <1>4, NoneReads
<1>7. refusals' = refusals /\ repeats' = repeats /\ ordStatus' = ordStatus
  BY <1>2 DEF userVars, orderVars
<1>8. CASE Asked(g)
  <2>1. <<ship[g].status, "RELEASE_APPROVED">> \in CourierRoad
    BY <1>8 DEF Asked, CourierRoad, StaffRoad
  <2>2. ship' = Moved(ship, g, "RELEASE_APPROVED", "RELEASE_APPROVED") BY <1>2, <1>8 DEF Released
  <2>3. paid' \ early' = (paid \ early) \cup {g} BY <1>2, <1>8
  <2>4. "RELEASE_APPROVED" \in LetGo BY DEF LetGo
  <2>5. {} \in SUBSET Procs /\ \A p \in Procs \ {} : pc'[p] = pc[p] /\ seen'[p] = seen[p]
    BY <1>2
  <2> QED BY <1>5, <1>6, <1>7, <2>1, <2>2, <2>3, <2>4, <2>5, RoadKeeps
<1>9. CASE ~Asked(g)
  <2>1. ship' = ship /\ paid' \ early' = paid \ early BY <1>2, <1>9
  <2>2. Repeating' = Repeating BY <1>2, <2>1 DEF Repeating
  <2> QED BY <1>5, <1>6, <1>7, <2>1, <2>2, ShipsStand
<1> QED BY <1>8, <1>9

LEMMA ShipmentKeeps ==
  ASSUME DeliveryInv, ShipmentNext, UNCHANGED custodyVars
  PROVE  DeliveryInv'
<1>0. UNCHANGED <<fixed, custodyVars>> BY DEF ShipmentNext
<1>1. ASSUME NEW p \in Desk, StaffStep(p) PROVE DeliveryInv'
  <2>1. ASSUME NEW g \in Groups, BookRead(p, g) PROVE DeliveryInv' BY <1>0, <2>1, BookReadKeeps
  <2>2. CASE BookCourier(p) BY <1>0, <2>2, BookCourierKeeps
  <2>3. CASE BookCourierFails(p) BY <1>0, <2>3, EndingsKeep
  <2>4. CASE CreateShipment(p) BY <1>0, <2>4, CreateKeeps
  <2>5. ASSUME NEW g \in Groups, NEW next \in Statuses, UpdateRead(p, g, next) PROVE DeliveryInv'
    BY <1>0, <2>5, UpdateReadKeeps
  <2>6. CASE UpdateWrite(p) BY <1>0, <2>6, UpdateWriteKeeps
  <2> QED BY <1>1, <2>1, <2>2, <2>3, <2>4, <2>5, <2>6 DEF StaffStep
<1>2. ASSUME NEW d \in Hooks, HookStep(d) PROVE DeliveryInv'
  BY <1>0, <1>2, LookKeeps, ApplyKeeps, EndingsKeep DEF HookStep
<1>3. ASSUME NEW d \in Hooks, NEW e \in Events, Receive(d, e) PROVE DeliveryInv'
  BY <1>0, <1>3, ReceiveKeeps
<1>4. ASSUME NEW g \in Groups, SealParcel(g) \/ InitializeHandover(g) PROVE DeliveryInv'
  BY <1>0, <1>4, WorldKeeps
<1>5. ASSUME NEW g \in Groups, NEW status \in Reports, CourierReports(g, status) PROVE DeliveryInv'
  BY <1>0, <1>5, WorldKeeps
<1>6. ASSUME NEW e \in Events, LeaseExpires(e) \/ AnswerDuplicate(e) PROVE DeliveryInv'
  BY <1>0, <1>6, WorldKeeps
<1>7. ASSUME NEW g \in Groups, ConfirmHandover(g) PROVE DeliveryInv'
  BY <1>0, <1>7, ConfirmKeeps
<1>8. ASSUME NEW p \in Procs, Crash(p) PROVE DeliveryInv' BY <1>0, <1>8, EndingsKeep
<1> QED BY <1>1, <1>2, <1>3, <1>4, <1>5, <1>6, <1>7, <1>8 DEF ShipmentNext

-----------------------------------------------------------------------------
(* The counter *)

\* What every step of Custody leaves alone.
LEMMA CustodyLeaves ==
  ASSUME CustodyNext
  PROVE  /\ UNCHANGED <<fixed, sealed, ship, payVars, userVars, courierVars, eventVars, pc, seen, repeats>>
         /\ crashes' \in {crashes, crashes + 1}
         /\ ordStatus' \in {ordStatus, "COLLECTED", "RETURN_IN_PROGRESS", "REFUNDED"}
BY DEF CustodyNext, OpenCustody, CustodyExpires, CounterStep, CounterRead, MarkOverdue, ReceiveParcel,
  CheckOrder, CheckPayments, ReleaseParcel, RecordCollected, ReturnRead, CreateReturn, RecordReturn,
  ReviewReturn, RefundPayment, RefundOrder, CustodyCrash, SetOrder, shipmentVars, orderVars

LEMMA CounterStepTyped ==
  ASSUME CustodyTyped, CounterInv, NEW r \in Counter, CounterStep(r)
  PROVE  CustodyTyped' /\ CounterInv'
<1>0. r \in Requests BY DEF Requests
<1> USE <1>0 DEF To, shipmentVars, orderVars
<1>1. CASE CounterRead(r, "receive") \/ CounterRead(r, "release") \/ MarkOverdue(r)
  BY <1>1 DEF CounterRead, MarkOverdue, CustodyTyped, CounterInv
<1>2. CASE ReceiveParcel(r) \/ CheckOrder(r) \/ CheckPayments(r)
  BY <1>2 DEF ReceiveParcel, CheckOrder, CheckPayments, CustodyTyped, CounterInv
<1>3. CASE ReleaseParcel(r)
  BY <1>3 DEF ReleaseParcel, MayRelease, CustodyTyped, CounterInv
<1>4. CASE RecordCollected(r)
  BY <1>4 DEF RecordCollected, SetOrder, CustodyTyped, CounterInv
<1> QED BY <1>1, <1>2, <1>3, <1>4 DEF CounterStep

LEMMA CustodyStepTyped ==
  ASSUME CustodyTyped, CounterInv, CustodyNext
  PROVE  CustodyTyped' /\ CounterInv'
<1> USE DEF To, shipmentVars, orderVars
<1>1. CASE OpenCustody \/ CustodyExpires
  BY <1>1 DEF OpenCustody, CustodyExpires, CustodyTyped, CounterInv
<1>2. CASE RefundPayment \/ RefundOrder
  BY <1>2 DEF RefundPayment, RefundOrder, SetOrder, CustodyTyped, CounterInv
<1>3. ASSUME NEW r \in Counter, CounterStep(r) PROVE CustodyTyped' /\ CounterInv'
  BY <1>3, CounterStepTyped
<1>4. ASSUME NEW r \in Customers, ReturnRead(r) \/ CreateReturn(r)
      PROVE  CustodyTyped' /\ CounterInv'
  BY <1>4 DEF ReturnRead, CreateReturn, Requests, CustodyTyped, CounterInv
<1>5. ASSUME NEW r \in Customers, RecordReturn(r)
      PROVE  CustodyTyped' /\ CounterInv'
  BY <1>5 DEF RecordReturn, SetOrder, Requests, CustodyTyped, CounterInv
<1>6. ASSUME NEW r \in Customers, NEW decision \in {"APPROVED", "REJECTED"}, ReviewReturn(r, decision)
      PROVE  CustodyTyped' /\ CounterInv'
  BY <1>6 DEF ReviewReturn, CustodyTyped, CounterInv
<1>7. ASSUME NEW r \in Requests, CustodyCrash(r) PROVE CustodyTyped' /\ CounterInv'
  BY <1>7 DEF CustodyCrash, CustodyTyped, CounterInv
<1> QED BY <1>1, <1>2, <1>3, <1>4, <1>5, <1>6, <1>7 DEF CustodyNext

LEMMA CustodyKeeps ==
  ASSUME DeliveryInv, CustodyNext
  PROVE  DeliveryInv'
<1> USE DEF fixed, payVars, userVars, courierVars, eventVars
<1>1. /\ UNCHANGED <<fixed, sealed, ship, payVars, userVars, courierVars, eventVars, pc, seen, repeats>>
      /\ crashes' \in {crashes, crashes + 1}
      /\ ordStatus' \in {ordStatus, "COLLECTED", "RETURN_IN_PROGRESS", "REFUNDED"}
  BY CustodyLeaves
<1>2. TypeOK /\ CustodyTyped /\ CounterInv /\ ShipTyped /\ ReadInv BY TypeParts DEF DeliveryInv
<1>3. CustodyTyped' /\ CounterInv' BY <1>2, CustodyStepTyped
<1>4. TypeOK'
  <2>1. OrderTyped' BY <1>1, <1>2, TypeParts DEF OrderTyped, OrderStates
  <2>2. StepTyped' BY <1>1, <1>2, TypeParts DEF StepTyped
  <2> QED BY <1>1, <1>2, <1>3, <2>1, <2>2, TypeParts, TypePartsPrimed
       DEF FixedTyped, ShipTyped, PayTyped, UserTyped, CourierTyped, EventTyped
<1>5. ReadInv' BY <1>1, <1>2, ShipTypedStands, NoneReads
<1>6. PaidInv' BY <1>1 DEF DeliveryInv, PaidInv
<1>7. RefusalInv' BY <1>1 DEF DeliveryInv, RefusalInv, Failed, Repeating
<1> QED BY <1>3, <1>4, <1>5, <1>6, <1>7 DEF DeliveryInv

-----------------------------------------------------------------------------
THEOREM DeliveryInvariant == Spec => []DeliveryInv
<1>1. DeliveryInv /\ [Next]_vars => DeliveryInv'
  <2> SUFFICES ASSUME DeliveryInv, [Next]_vars PROVE DeliveryInv'
    OBVIOUS
  <2>1. CASE ShipmentNext /\ UNCHANGED custodyVars BY <2>1, ShipmentKeeps
  <2>2. CASE CustodyNext BY <2>2, CustodyKeeps
  <2>3. CASE UNCHANGED vars
    BY <2>3 DEF vars, shipmentVars, fixed, orderVars, payVars, userVars, courierVars, eventVars,
      custodyVars, DeliveryInv, TypeOK, ReadInv, StaffKnows, HookKnows, PaidInv, CounterInv, RefusalInv,
      Failed, Repeating, Events, Procs
  <2> QED BY <2>1, <2>2, <2>3 DEF Next
<1> QED BY <1>1, InitDelivery, PTL DEF Spec

\* The shipments, events, readings, the counter and the bounds have their types.
THEOREM DeliveryTypeCorrect == Spec => []TypeOK
<1>1. DeliveryInv => TypeOK BY DEF DeliveryInv
<1> QED BY <1>1, DeliveryInvariant, PTL

\* A failed Pay-on-Delivery delivery costs one refusal, however often its event comes again,
\* whatever dies and whoever takes it over: more only where the staff reports it again.
THEOREM DeliveryRefusalPerFailure == Spec => []RefusalPerFailure
<1>1. DeliveryInv => RefusalPerFailure
  <2> SUFFICES ASSUME DeliveryInv PROVE RefusalPerFailure
    OBVIOUS
  <2>1. Cardinality(Repeating) \in Nat /\ Cardinality(Failed) \in Nat
    BY FS_CardinalityType DEF DeliveryInv, RefusalInv
  <2>2. refusals \in Nat /\ repeats \in Nat
    BY TypeParts DEF DeliveryInv, UserTyped, StepTyped
  <2> QED BY <2>1, <2>2 DEF DeliveryInv, RefusalInv, RefusalPerFailure
<1> QED BY <1>1, DeliveryInvariant, PTL

\* A parcel paid for at the door is let go, and no update decided earlier asks for the money again.
THEOREM DeliveryPaidIsReleased == Spec => []PaidIsReleased
<1>1. DeliveryInv => PaidIsReleased BY DEF DeliveryInv, PaidInv, PaidIsReleased, Asked, LetGo
<1> QED BY <1>1, DeliveryInvariant, PTL

\* However many requests there are at the counter, the parcel is handed over once, and an order
\* says COLLECTED only after that.
THEOREM DeliveryHandedOverOnce == Spec => []HandedOverOnce
<1>1. DeliveryInv => HandedOverOnce BY DEF DeliveryInv, CounterInv, HandedOverOnce
<1> QED BY <1>1, DeliveryInvariant, PTL

\* Both ways to the customer.
THEOREM DeliveryLetGoOnce == Spec => []LetGoOnce
<1>1. PaidIsReleased /\ HandedOverOnce => LetGoOnce BY DEF LetGoOnce
<1> QED BY <1>1, DeliveryPaidIsReleased, DeliveryHandedOverOnce, PTL

\* What FollowsTheRoad says of a step.
OnTheRoad == \A g \in Groups : ship'[g].status # ship[g].status =>
  ~Booked(g) \/ <<ship[g].status, ship'[g].status>> \in CourierRoad

LEMMA NextOnTheRoad ==
  ASSUME DeliveryInv, [Next]_vars
  PROVE  OnTheRoad
<1>1. TypeOK /\ ShipTyped /\ ReadInv BY TypeParts DEF DeliveryInv
<1>2. ASSUME NEW p \in Desk, CreateShipment(p) PROVE OnTheRoad
  BY <1>1, <1>2 DEF CreateShipment, OnTheRoad, ShipTyped, Booked
<1>3. ASSUME NEW p \in Desk, UpdateWrite(p) PROVE OnTheRoad
  <2>1. StaffKnows(p) BY <1>1 DEF ReadInv
  <2>2. CASE UNCHANGED ship BY <2>2 DEF OnTheRoad
  <2>3. CASE ~UNCHANGED ship
    BY <1>1, <1>3, <2>1, <2>3 DEF UpdateWrite, StaffKnows, Unmoved, Moved, OnTheRoad, ShipTyped
  <2> QED BY <2>2, <2>3
<1>4. ASSUME NEW d \in Hooks, Apply(d) PROVE OnTheRoad
  <2>1. HookKnows(d) BY <1>1 DEF ReadInv
  <2> QED BY <1>1, <1>4, <2>1 DEF Apply, HookKnows, Unmoved, Moved, OnTheRoad, ShipTyped
<1>5. ASSUME NEW g \in Groups, ConfirmHandover(g) PROVE OnTheRoad
  <2>1. CASE Asked(g)
    <3>1. <<ship[g].status, "RELEASE_APPROVED">> \in CourierRoad
      BY <2>1 DEF Asked, CourierRoad, StaffRoad
    <3> QED BY <1>1, <1>5, <2>1, <3>1 DEF ConfirmHandover, Released, Moved, OnTheRoad, ShipTyped
  <2>2. CASE ~Asked(g) BY <1>5, <2>2 DEF ConfirmHandover, OnTheRoad
  <2> QED BY <2>1, <2>2
<1>6. CASE UNCHANGED ship BY <1>6 DEF OnTheRoad
<1>7. CASE CustodyNext BY <1>6, <1>7, CustodyLeaves
<1>8. CASE UNCHANGED vars BY <1>6, <1>8 DEF vars, shipmentVars
<1>9. CASE ShipmentNext
  <2>1. ASSUME NEW p \in Desk, StaffStep(p) PROVE OnTheRoad
    BY <1>2, <1>3, <1>6, <2>1 DEF StaffStep, BookRead, BookCourier, BookCourierFails, UpdateRead
  <2>2. ASSUME NEW d \in Hooks, HookStep(d) PROVE OnTheRoad
    BY <1>4, <1>6, <2>2 DEF HookStep, Look, Settle, Unlock
  <2> QED BY <1>5, <1>6, <1>9, <2>1, <2>2 DEF ShipmentNext, SealParcel, CourierReports, Receive,
       LeaseExpires, AnswerDuplicate, InitializeHandover, Crash
<1> QED BY <1>7, <1>8, <1>9 DEF Next

\* Whoever moves a shipment, and however old the reading it was decided on, it goes along a road.
THEOREM DeliveryFollowsTheRoad == Spec => FollowsTheRoad
<1>1. DeliveryInv /\ [Next]_vars => [OnTheRoad]_vars BY NextOnTheRoad
<1>2. [][OnTheRoad]_vars => FollowsTheRoad BY PTL DEF FollowsTheRoad, OnTheRoad
<1> QED BY <1>1, <1>2, DeliveryInvariant, PTL DEF Spec
===============================================================================
