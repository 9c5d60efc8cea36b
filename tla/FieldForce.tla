---------------------------- MODULE FieldForce ----------------------------
(***************************************************************************)
(* The people in the field: market associates, their assignments to the     *)
(* markets of a state and the tasks allotted by them; partners and what     *)
(* they keep in custody (PlatformController, stale-invitation, and          *)
(* consumeApprovedOrder and reassignTask of FulfilmentService).  Writes     *)
(* that are made side by side land in any order.  What a request asks for   *)
(* is chosen at the start; Invitation has the invitations, Sourcing what    *)
(* becomes of a task.                                                       *)
(***************************************************************************)
EXTENDS Integers, FiniteSets, Sequences

CONSTANTS
  People, Partners, \* the persons, and those of them who are partners
  Staffing,         \* requests
  Tasks             \* orders that arrive

VARIABLES
  profile, \* [People -> status of MarketAssociateProfile or HookPartner, or none]
  account, \* [People -> [status, password]: User]
  home,    \* [People -> the states of the profile]
  assign,  \* the MarketAssociateMarketAssignments: who, market, status, primary
  task,    \* [Tasks -> a FulfilmentTask: who, market, status, version]
  custody, \* [Partners -> PartnerCustody of a parcel: partnerId, status]
  work     \* [Staffing -> a request: op, who, to, at, and what it has read]

fieldVars == <<profile, account, home, assign, task, custody, work>>

NoAccount == [status |-> "none", password |-> FALSE]
(* the states the markets are in                                           *)
StateOf(m) == IF m = "m3" THEN "s2" ELSE "s1"
InScope(p, m) == StateOf(m) \in home[p]
NoTask == [who |-> 0, market |-> "", status |-> "none", version |-> 0]
Open == {"active", "paused"}
(* the two names of a record: _id and publicId                              *)
Id(p) == <<"_id", p>>
PublicId(p) == <<"publicId", p>>

(* an asked request: op, who, to (the markets or the assignment or task),   *)
(* primary, password                                                        *)
Asked(q) == [op |-> q.op, who |-> q.who, to |-> q.to, primary |-> q.primary,
             password |-> q.password, at |-> "start", left |-> {}, seen |-> NoTask, failed |-> FALSE]

Init(asked, start) ==
  /\ profile = start.profile /\ account = start.account /\ home = start.home /\ custody = start.custody
  /\ assign = start.assign
  /\ task = [t \in Tasks |-> NoTask]
  /\ work = [r \in Staffing |-> Asked(asked[r])]

On(r, ops, at) == work[r].op \in ops /\ work[r].at = at
Goto(r, at) == work' = [work EXCEPT ![r].at = at]
Done(r) == work' = [work EXCEPT ![r] = [@ EXCEPT !.at = "done", !.left = {}, !.seen = NoTask]]
Of(p) == {a \in DOMAIN assign : assign[a].who = p}
With(f, x, v) == [y \in DOMAIN f \cup {x} |-> IF y = x THEN v ELSE f[y]]
NeverUsed(p) == ~account[p].password

-----------------------------------------------------------------------------
(* createMarketAssociate and createPartner; staff have no markets           *)

(* clearStaleInvitationFor: a dead leftover is removed, one read before.    *)
(* A person is invited by one request at a time                             *)
StaleReason(p) == NeverUsed(p) /\ profile[p] \in {"none", "disabled"}
Alone(r) == \A s \in Staffing \ {r} :
  work[s].op = "create" /\ work[s].who = work[r].who => work[s].at \in {"start", "done"}
StartCreate(r) ==
  LET p == work[r].who IN
  /\ On(r, {"create"}, "start") /\ p \notin Partners /\ Alone(r)
  /\ IF account[p].status = "none" THEN Goto(r, "account")
     ELSE IF StaleReason(p) THEN Goto(r, "stale") ELSE Done(r)
  /\ UNCHANGED <<home, profile, account, assign, task, custody>>
(* createPartner clears nothing                                             *)
StartCreatePartner(r) ==
  /\ On(r, {"create"}, "start") /\ work[r].who \in Partners /\ Alone(r)
  /\ Goto(r, "account") /\ UNCHANGED <<home, profile, account, assign, task, custody>>

(* purgeUnacceptedAccount, after it read that the account was never used    *)
Purged(p) ==
  /\ profile' = [profile EXCEPT ![p] = "none"]
  /\ account' = [account EXCEPT ![p] = NoAccount]
  /\ assign' = [a \in DOMAIN assign \ Of(p) |-> assign[a]]
ClearStale(r) ==
  /\ On(r, {"create"}, "stale")
  /\ Purged(work[r].who) /\ Goto(r, "account") /\ UNCHANGED <<home, task, custody>>

(* email and phone are unique                                               *)
CreateAccount(r) ==
  LET p == work[r].who IN
  /\ On(r, {"create"}, "account")
  /\ IF account[p].status # "none"
     THEN Done(r) /\ UNCHANGED account
     ELSE /\ account' = [account EXCEPT ![p] = [status |-> "invited", password |-> work[r].password]]
          /\ Goto(r, "profile")
  /\ UNCHANGED <<home, profile, assign, task, custody>>
CreateProfile(r) ==
  LET p == work[r].who IN
  /\ On(r, {"create"}, "profile")
  /\ profile' = [profile EXCEPT ![p] = "invited"]
  /\ home' = [home EXCEPT ![p] = {"s1"}]
  /\ IF p \in Partners \/ work[r].to = <<>> THEN Done(r) ELSE Goto(r, "market")
  /\ UNCHANGED <<account, assign, task, custody>>

-----------------------------------------------------------------------------
(* makeAssignment: for one market, or for those a new associate starts in   *)
Market(r) == Head(work[r].to)
Assigning(r, at) == On(r, {"create", "assign"}, at)

(* an archived profile has the status disabled, which is not asked about    *)
StartAssign(r) ==
  LET p == work[r].who IN
  /\ On(r, {"assign"}, "start")
  /\ IF profile[p] \in {"none", "archived", "suspended"} \/ ~InScope(p, Market(r)) THEN Done(r) ELSE Goto(r, "market")
  /\ UNCHANGED <<home, profile, account, assign, task, custody>>
Unassigned(r) == Goto(r, IF work[r].op = "create" THEN "undo" ELSE "done")
CheckDuplicate(r) ==
  LET p == work[r].who
      same == {a \in Of(p) : assign[a].market = Market(r) /\ assign[a].status \in Open} IN
  /\ Assigning(r, "market")
  /\ IF same # {} THEN Unassigned(r)
     ELSE Goto(r, IF work[r].primary THEN "retire" ELSE "insert")
  /\ UNCHANGED <<home, profile, account, assign, task, custody>>
Demoted(p, m) == [a \in DOMAIN assign |->
  IF a \in Of(p) /\ assign[a].status = "active" /\ StateOf(assign[a].market) = StateOf(m) THEN [assign[a] EXCEPT !.primary = FALSE] ELSE assign[a]]
RetirePrimary(r) ==
  /\ Assigning(r, "retire")
  /\ assign' = Demoted(work[r].who, Market(r)) /\ Goto(r, "insert")
  /\ UNCHANGED <<home, profile, account, task, custody>>

(* the index of primaries: one of a person's active ones in a state         *)
(* mutant: one of a person's active ones in a market                        *)
ClashesInMarket(a, p, m) ==
  \E b \in Of(p) \ {a} : assign[b].status = "active" /\ assign[b].primary /\ assign[b].market = m
Clashes(a, p, m) ==
  \E b \in Of(p) \ {a} : assign[b].status = "active" /\ assign[b].primary /\ StateOf(assign[b].market) = StateOf(m)
Insert(r) ==
  LET p == work[r].who
      rest == Tail(work[r].to)
      new == <<r, Len(rest)>> IN
  /\ Assigning(r, "insert")
  /\ IF work[r].primary /\ Clashes(new, p, Market(r))
     THEN Unassigned(r) /\ UNCHANGED assign
     ELSE /\ assign' = With(assign, new, [who |-> p, market |-> Market(r), status |-> "active",
                                          primary |-> work[r].primary])
          /\ IF rest = <<>> THEN Done(r)
             ELSE work' = [work EXCEPT ![r] = [@ EXCEPT !.at = "market", !.to = rest, !.primary = FALSE]]
  /\ UNCHANGED <<home, profile, account, task, custody>>

(* "No half-made account": the invitation is undone, unless there is a      *)
(* password                                                                 *)
UndoIf(r, purges) ==
  /\ On(r, {"create"}, "undo")
  /\ IF purges /\ account[work[r].who].status # "none" THEN Purged(work[r].who)
     ELSE UNCHANGED <<profile, account, assign>>
  /\ work' = [work EXCEPT ![r] = [@ EXCEPT !.at = "done", !.left = {}, !.failed = TRUE]]
  /\ UNCHANGED <<home, task, custody>>
(* mutant: only the account and the profile's request end                   *)
UndoNothing(r) == UndoIf(r, FALSE)
Undo(r) == UndoIf(r, NeverUsed(work[r].who))

-----------------------------------------------------------------------------
(* updateAssignment and assignmentStatus of the assignment `to`             *)
Change(r) ==
  LET a == work[r].to
      is == assign[a] IN
  /\ On(r, {"repoint", "activate", "pause", "end"}, "start") /\ a \in DOMAIN assign
  /\ \E to \in CASE work[r].op = "repoint"  -> {is} \cup [who : {is.who}, market : {m \in {"m1", "m2"} : InScope(is.who, m)},
                                                          status : {is.status}, primary : BOOLEAN]
                 [] work[r].op = "activate" -> {[is EXCEPT !.status = "active"]}
                 [] work[r].op = "pause"    -> {[is EXCEPT !.status = "paused"]}
                 [] work[r].op = "end"      -> {[is EXCEPT !.status = "ended"]} :
       assign' = IF to.status = "active" /\ to.primary /\ Clashes(a, is.who, to.market)
                 THEN assign ELSE [assign EXCEPT ![a] = to]
  /\ Done(r) /\ UNCHANGED <<home, profile, account, task, custody>>

-----------------------------------------------------------------------------
(* marketAssociateStatus, archive, restore and delete, and those of partners *)
Finished == {"COMPLETED", "CANCELLED", "UNASSIGNED"}
Statuses == [suspend |-> "suspended", reinstate |-> "active"]
Lifecycle == {"suspend", "reinstate", "archive", "restore", "delete"}
Becomes(op) == CASE op \in DOMAIN Statuses -> Statuses[op]
                 [] op = "archive" -> "disabled" [] op = "restore" -> "active" [] op = "delete" -> "none"
(* what is written side by side                                             *)
PartnerWrites == {"profile", "account"}
AssociateWrites(op) ==
  {"profile", "account"} \cup (IF op \in {"archive", "delete"} THEN {"assignments"} ELSE {})
WritesOf(op, p) == IF p \in Partners THEN PartnerWrites ELSE AssociateWrites(op)
OpenTasks(p) == {t \in Tasks : task[t].who = p /\ task[t].status \notin Finished}
OpenCustodies(p) == {q \in Partners : custody[q].partnerId = Id(p) /\ custody[q].status \notin {"none", "RELEASED"}}
Busy(p) == (IF p \in Partners THEN OpenCustodies(p) ELSE OpenTasks(p)) # {}
(* the order of a parcel has the partner's _id                              *)
PartnerHistory(p) == custody[p].status # "none"
AssociateHistory(p) == \E t \in Tasks : task[t].who = p
HasHistory(p) == IF p \in Partners THEN PartnerHistory(p) ELSE AssociateHistory(p)
Allowed(op, p) ==
  CASE op = "archive" -> profile[p] # "disabled" /\ ~Busy(p)
    [] op = "restore" -> profile[p] = "disabled"
    [] op = "delete"  -> profile[p] = "disabled" /\ ~HasHistory(p)
    [] OTHER          -> TRUE
StartLifecycle(r) ==
  LET p == work[r].who IN
  /\ On(r, Lifecycle, "start") /\ profile[p] # "none"
  /\ work' = [work EXCEPT ![r] = IF ~Allowed(@.op, p) THEN [@ EXCEPT !.at = "done"]
                                 ELSE [@ EXCEPT !.at = "write", !.left = WritesOf(work[r].op, p)]]
  /\ UNCHANGED <<home, profile, account, assign, task, custody>>
Write(r, what) ==
  LET p == work[r].who
      to == Becomes(work[r].op) IN
  /\ On(r, Lifecycle, "write") /\ what \in work[r].left
  /\ profile' = IF what = "profile" /\ profile[p] # "none" THEN [profile EXCEPT ![p] = to] ELSE profile
  /\ account' = IF what = "account" /\ account[p].status # "none"
                THEN [account EXCEPT ![p] = IF to = "none" THEN NoAccount ELSE [@ EXCEPT !.status = to]]
                ELSE account
  /\ assign' = IF what # "assignments" THEN assign
               ELSE IF to = "none" THEN [a \in DOMAIN assign \ Of(p) |-> assign[a]]
               ELSE [a \in DOMAIN assign |-> IF a \in Of(p) /\ assign[a].status \in Open
                       THEN [assign[a] EXCEPT !.status = "ended", !.primary = FALSE] ELSE assign[a]]
  /\ IF work[r].left = {what} THEN Done(r) ELSE work' = [work EXCEPT ![r].left = @ \ {what}]
  /\ UNCHANGED <<home, task, custody>>

(* updateMarketAssociate: the states of the profile, whatever is assigned   *)
UpdateAssociate(r) ==
  /\ On(r, {"move"}, "start") /\ profile[work[r].who] # "none"
  /\ home' = [home EXCEPT ![work[r].who] = work[r].to]
  /\ Done(r) /\ UNCHANGED <<profile, account, assign, task, custody>>

(* cancelMarketAssociateInvitation and cancelPartnerInvitation              *)
StartCancel(r) ==
  LET p == work[r].who IN
  /\ On(r, {"cancel"}, "start")
  /\ IF profile[p] = "invited" /\ (p \in Partners \/ NeverUsed(p)) THEN Goto(r, "purge") ELSE Done(r)
  /\ UNCHANGED <<home, profile, account, assign, task, custody>>
Cancel(r) ==
  /\ On(r, {"cancel"}, "purge") /\ work[r].who \notin Partners
  /\ Purged(work[r].who)
  /\ Done(r) /\ UNCHANGED <<home, task, custody>>
CancelPartner(r) ==
  LET p == work[r].who IN
  /\ On(r, {"cancel"}, "purge") /\ p \in Partners
  /\ profile' = [profile EXCEPT ![p] = "disabled"]
  /\ account' = [account EXCEPT ![p].status = "disabled"]
  /\ Done(r) /\ UNCHANGED <<home, assign, task, custody>>

(* acceptAccountInvitation of the invitation a create ends with: it sets    *)
(* the password, and the profile follows                                    *)
Accept(r) ==
  LET p == work[r].who IN
  /\ On(r, {"accept"}, "start") /\ account[p].status = "invited"
  /\ \A s \in Staffing : work[s].op = "create" /\ work[s].who = p => work[s].at = "done" /\ ~work[s].failed
  /\ account' = [account EXCEPT ![p] = [status |-> "active", password |-> TRUE]]
  /\ Goto(r, "profile") /\ UNCHANGED <<home, profile, assign, task, custody>>
AcceptProfile(r) ==
  LET p == work[r].who IN
  /\ On(r, {"accept"}, "profile")
  /\ profile' = [profile EXCEPT ![p] = IF @ = "none" THEN @ ELSE "active"]
  /\ Done(r) /\ UNCHANGED <<home, account, assign, task, custody>>

-----------------------------------------------------------------------------
(* consumeApprovedOrder: the task of an order goes to who has its market    *)
(* as the primary one                                                       *)
Primaries(m) == {a \in DOMAIN assign : assign[a].market = m /\ assign[a].status = "active" /\ assign[a].primary}
Approve(r, t) ==
  LET found == Primaries(Market(r)) IN
  /\ On(r, {"order"}, "start") /\ task[t] = NoTask
  /\ \E a \in IF found = {} THEN {<<0, 0>>} ELSE found :
       work' = [work EXCEPT ![r] = [@ EXCEPT !.at = "allot", !.seen =
         [who |-> IF found = {} THEN 0 ELSE assign[a].who, market |-> Market(r),
          status |-> IF found = {} THEN "BLOCKED" ELSE "ALERTED", version |-> 1]]]
  /\ UNCHANGED <<home, profile, account, assign, task, custody>>
Allot(r, t) ==
  /\ On(r, {"order"}, "allot") /\ task[t] = NoTask
  /\ task' = [task EXCEPT ![t] = work[r].seen]
  /\ Done(r) /\ UNCHANGED <<home, profile, account, assign, custody>>
(* reassignTask, with the version of the task it read                       *)
StartReassign(r, t) ==
  LET p == work[r].who IN
  /\ On(r, {"reassign"}, "start") /\ task[t].status \in {"BLOCKED", "ALERTED"}
  /\ work' = [work EXCEPT ![r] =
       IF profile[p] = "active" /\ InScope(p, task[t].market) /\ \E a \in Primaries(task[t].market) : assign[a].who = p
       THEN [@ EXCEPT !.at = "save", !.seen = task[t]] ELSE [@ EXCEPT !.at = "done"]]
  /\ UNCHANGED <<home, profile, account, assign, task, custody>>
Reassign(r, t) ==
  /\ On(r, {"reassign"}, "save") /\ task[t] # NoTask
  /\ task' = IF task[t].version # work[r].seen.version THEN task
             ELSE [task EXCEPT ![t] = [@ EXCEPT !.who = work[r].who, !.status = "ALERTED", !.version = @ + 1]]
  /\ Done(r) /\ UNCHANGED <<home, profile, account, assign, custody>>
(* who signs in and acts                                                    *)
Active(p) == account[p].status = "active" /\ profile[p] = "active"
Complete(t) ==
  /\ task[t].status = "ALERTED" /\ Active(task[t].who)
  /\ task' = [task EXCEPT ![t].status = "COMPLETED", ![t].version = @ + 1]
  /\ UNCHANGED <<home, profile, account, assign, custody, work>>

(* createCustody and mutateCustody: an order of the partner is dispatched   *)
(* to the partner, who gives it out                                         *)
OpenCustody(p) ==
  /\ custody[p].status = "none" /\ profile[p] = "active"
  /\ custody' = [custody EXCEPT ![p] = [partnerId |-> PublicId(p), status |-> "AWAITING_RECEIPT"]]
  /\ UNCHANGED <<home, profile, account, assign, task, work>>
Handled(p, from, to) ==
  /\ custody[p].status = from /\ Active(p)
  /\ custody' = [custody EXCEPT ![p].status = to]
  /\ UNCHANGED <<home, profile, account, assign, task, work>>
Receive(p) == Handled(p, "AWAITING_RECEIPT", "IN_CUSTODY")
Release(p) == Handled(p, "IN_CUSTODY", "RELEASED")

-----------------------------------------------------------------------------
Next ==
  \/ \E r \in Staffing :
       \/ StartCreate(r) \/ StartCreatePartner(r) \/ ClearStale(r) \/ CreateAccount(r) \/ CreateProfile(r)
       \/ StartAssign(r) \/ CheckDuplicate(r) \/ RetirePrimary(r) \/ Insert(r) \/ Undo(r)
       \/ Change(r) \/ UpdateAssociate(r) \/ StartLifecycle(r) \/ StartCancel(r) \/ Cancel(r) \/ CancelPartner(r) \/ Accept(r) \/ AcceptProfile(r)
       \/ \E what \in {"profile", "account", "assignments"} : Write(r, what)
       \/ \E t \in Tasks : Approve(r, t) \/ Allot(r, t) \/ StartReassign(r, t) \/ Reassign(r, t)
  \/ \E t \in Tasks : Complete(t)
  \/ \E p \in Partners : OpenCustody(p) \/ Receive(p) \/ Release(p)

-----------------------------------------------------------------------------
Primary(p) == {a \in Of(p) : assign[a].status = "active" /\ assign[a].primary}
InState(s, as) == {a \in as : StateOf(assign[a].market) = s}
Settled == \A r \in Staffing : work[r].at \in {"start", "done"}

(* One who has a primary market of a state, assignment <<0, p>>, and is made *)
(* primary in another of it never has two, and has one when it is over.     *)
OnlyOf(ops) == \A r \in Staffing : work[r].op \in ops
PrimaryIsReplaced ==
  \A p \in People :
    /\ \A s \in {"s1", "s2"} : \A a, b \in InState(s, Primary(p)) : a = b
    /\ (Settled /\ <<0, p>> \in DOMAIN assign /\ OnlyOf({"assign", "order", "reassign"})) => InState("s1", Primary(p)) # {}

(* When a starting market of a new associate cannot be assigned, "the whole *)
(* invitation is undone": nothing of what the request wrote is left.        *)
Gone(p, r) ==
  profile[p] = "none" /\ account[p] = NoAccount /\ \A a \in Of(p) : a[1] # r
FailedCreateLeavesNothing ==
  \A r \in Staffing :
    (/\ work[r].failed /\ ~work[r].password
     /\ \A s \in Staffing \ {r} : ~(work[s].op = "create" /\ work[s].who = work[r].who))
    => Gone(work[r].who, r)

(* The same of one who was created with a password.                         *)
NoHalfMade == \A r \in Staffing : work[r].failed => account[work[r].who] = NoAccount
(* "Their Market assignments are closed": an archived associate has none,   *)
(* and gets none.                                                           *)
ArchivedIsNotAssigned == \A p \in People : Settled /\ profile[p] = "disabled" => Primary(p) = {}
(* "Does not work in this state yet": who is given the task of a market     *)
(* works in its state.                                                      *)
AlertedWorksThere == \A t \in Tasks : task[t].status = "ALERTED" => InScope(task[t].who, task[t].market)
(* "This would strand it": who has a task or an order to give out can       *)
(* sign in.                                                                 *)
AlertedCanAnswer ==
  \A t \in Tasks : Settled /\ task[t].status = "ALERTED" => account[task[t].who].status \notin {"none", "disabled"}
CustodyIsNotStranded == \A p \in Partners : Settled /\ custody[p].status = "IN_CUSTODY" => profile[p] # "disabled"
(* One who has set a password is not removed as never having used it.       *)
AcceptedIsKept == [][\A p \in People : account[p].password /\ account'[p] = NoAccount =>
                       \E r \in Staffing : work[r].op = "delete" /\ work[r].who = p]_fieldVars
(* Nobody is assigned to a market twice.                                    *)
OneOfAMarket == \A p \in People, m \in {"m1", "m2"} :
  Cardinality({a \in Of(p) : assign[a].market = m /\ assign[a].status \in Open}) <= 1
=============================================================================
