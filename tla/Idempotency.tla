----------------------------- MODULE Idempotency -----------------------------
(***************************************************************************)
(* The idempotency middleware, for one key of one actor and operation:     *)
(* the attempts that carry it, the IdempotencyRecord they share, and the   *)
(* handler each may run.  A lease has a number of its own: an attempt      *)
(* compares lockedUntil with the time it started, so it may only take over *)
(* the lease that had lapsed by then.                                      *)
(***************************************************************************)
EXTENDS Naturals, FiniteSets

CONSTANTS Attempts,     \* HTTP requests with this Idempotency-Key
          Hash,         \* Hash[a]: requestHash
          MaxOutlived,  \* bound: leases that end, by time or by a disconnect, before the handler
          MaxCrashes,   \* bound: attempts that die, and settlements that throw
          MaxExpiries,  \* bound: records the TTL index removes
          None

ASSUME BudgetAssumption == MaxOutlived \in Nat /\ MaxCrashes \in Nat /\ MaxExpiries \in Nat

VARIABLES
  record,     \* the IdempotencyRecord, or None
  fresh,      \* the last number given to a record or a lease
  pc,         \* where the attempt is
  mine,       \* recordId in the attempt's closure, 0 before
  lease,      \* the lease it runs under, 0 for none
  lapsed,     \* the lease that had lapsed when it started, 0 for none
  outcome,    \* what its client is told
  replayed,   \* whose response it was given, None if not a replay
  outlived, crashes, expiries

recordVars == <<record, fresh>>
attemptVars == <<pc, mine, lease, lapsed, outcome, replayed>>
budgetVars == <<outlived, crashes, expiries>>
vars == <<recordVars, attemptVars, budgetVars>>

Steps == {"start", "find", "reclaim", "running", "settle", "done", "dead"}
Outcomes == {"none", "success", "failure", "conflict", "busy", "replay"}
Hashes == {Hash[a] : a \in Attempts}
Records == [id : Nat, hash : Hashes, completed : BOOLEAN,
            lease : Nat, held : BOOLEAN, body : Attempts \cup {None}]

ASSUME NoneAssumption == None \notin Attempts /\ None \notin Records

Present == record # None

TypeOK ==
  /\ record \in Records \cup {None} /\ fresh \in Nat
  /\ pc \in [Attempts -> Steps]
  /\ mine \in [Attempts -> 0..fresh] /\ lease \in [Attempts -> 0..fresh]
  /\ lapsed \in [Attempts -> 0..fresh]
  /\ outcome \in [Attempts -> Outcomes]
  /\ replayed \in [Attempts -> Attempts \cup {None}]
  /\ outlived \in Nat /\ crashes \in Nat /\ expiries \in Nat

Init ==
  /\ record = None /\ fresh = 0
  /\ pc = [a \in Attempts |-> "start"]
  /\ mine = [a \in Attempts |-> 0] /\ lease = [a \in Attempts |-> 0]
  /\ lapsed = [a \in Attempts |-> 0]
  /\ outcome = [a \in Attempts |-> "none"] /\ replayed = [a \in Attempts |-> None]
  /\ outlived = 0 /\ crashes = 0 /\ expiries = 0

-----------------------------------------------------------------------------
Goto(a, step) == pc' = [pc EXCEPT ![a] = step]

Answer(a, what) == outcome' = [outcome EXCEPT ![a] = what] /\ Goto(a, "done")

\* The attempt runs its handler under a lease of its own on the record.
Hold(a, id) == /\ fresh' = fresh + 1
               /\ mine' = [mine EXCEPT ![a] = id]
               /\ lease' = [lease EXCEPT ![a] = fresh + 1]
               /\ Goto(a, "running")

\* IdempotencyRecord.create, stopped by the unique index if there is one.
Create(a) ==
  /\ pc[a] = "start"
  /\ IF Present
       THEN /\ lapsed' = [lapsed EXCEPT ![a] = IF record.held THEN 0 ELSE record.lease]
            /\ Goto(a, "find")
            /\ UNCHANGED <<record, fresh, mine, lease>>
       ELSE /\ record' = [id |-> fresh + 1, hash |-> Hash[a], completed |-> FALSE,
                          lease |-> fresh + 1, held |-> TRUE, body |-> None]
            /\ Hold(a, fresh + 1)
            /\ UNCHANGED lapsed
  /\ UNCHANGED <<outcome, replayed, budgetVars>>

\* What the attempt makes of the record it finds; with none it runs the handler
\* unprotected.
FindIf(a, sameRequest) ==
  /\ pc[a] = "find"
  /\ IF ~Present
       THEN Goto(a, "running") /\ UNCHANGED <<outcome, replayed>>
     ELSE IF ~sameRequest
       THEN Answer(a, "conflict") /\ UNCHANGED replayed
     ELSE IF record.completed
       THEN Answer(a, "replay") /\ replayed' = [replayed EXCEPT ![a] = record.body]
     ELSE IF record.lease # lapsed[a]
       THEN Answer(a, "busy") /\ UNCHANGED replayed
       ELSE Goto(a, "reclaim") /\ UNCHANGED <<outcome, replayed>>
  /\ UNCHANGED <<recordVars, mine, lease, lapsed, budgetVars>>

\* Mutant: the request hash is not compared.
FindUnhashed(a) == FindIf(a, TRUE)

Find(a) == FindIf(a, Present /\ record.hash = Hash[a])

ReclaimIf(a, free) ==
  /\ pc[a] = "reclaim"
  /\ IF free
       THEN /\ record' = [record EXCEPT !.lease = fresh + 1, !.held = TRUE]
            /\ Hold(a, record.id)
            /\ UNCHANGED outcome
       ELSE Answer(a, "busy") /\ UNCHANGED <<record, fresh, mine, lease>>
  /\ UNCHANGED <<lapsed, replayed, budgetVars>>

\* Mutant: the filter on lockedUntil is missing.
ReclaimHeld(a) == ReclaimIf(a, Present /\ ~record.completed)

Reclaim(a) == ReclaimIf(a, Present /\ ~record.completed /\ record.lease = lapsed[a])

\* The handler answers its client; the answer does not wait for the record.
Finish(a, how) ==
  /\ pc[a] = "running"
  /\ outcome' = [outcome EXCEPT ![a] = how]
  /\ Goto(a, IF mine[a] = 0 THEN "done" ELSE "settle")
  /\ UNCHANGED <<recordVars, mine, lease, lapsed, replayed, budgetVars>>

\* By _id: a success is kept, a failure frees the key.
SettleAs(a, kept) ==
  /\ pc[a] = "settle"
  /\ IF Present /\ record.id = mine[a]
       THEN record' = IF kept THEN [record EXCEPT !.completed = TRUE, !.body = a] ELSE None
       ELSE UNCHANGED record
  /\ Goto(a, "done")
  /\ UNCHANGED <<fresh, mine, lease, lapsed, outcome, replayed, budgetVars>>

Settle(a) == SettleAs(a, outcome[a] = "success")

-----------------------------------------------------------------------------
(* What goes wrong.                                                        *)

LetGo == record' = [record EXCEPT !.held = FALSE]

\* The lease of an attempt that is still working ends: its 60 seconds pass, or
\* its client disconnects, which ends the record's lease whoever has it.
OutliveLease(a) ==
  /\ outlived < MaxOutlived
  /\ pc[a] = "running"
  /\ Present /\ record.held /\ ~record.completed
  /\ record.id = mine[a]
  /\ LetGo
  /\ outlived' = outlived + 1
  /\ UNCHANGED <<fresh, attemptVars, crashes, expiries>>

Crash(a) ==
  /\ crashes < MaxCrashes
  /\ pc[a] \in {"running", "settle"}
  /\ Goto(a, "dead")
  /\ crashes' = crashes + 1
  /\ UNCHANGED <<recordVars, mine, lease, lapsed, outcome, replayed, outlived, expiries>>

\* Nobody works under the lease any more, or the record no longer needs it.
LeaseLapses ==
  /\ Present /\ record.held
  /\ record.completed \/ \A a \in Attempts : lease[a] = record.lease => pc[a] = "dead"
  /\ LetGo
  /\ UNCHANGED <<fresh, attemptVars, budgetVars>>

\* 24 hours after its creation: later than any attempt still runs.
Expire ==
  /\ expiries < MaxExpiries
  /\ Present /\ ~record.held
  /\ \A a \in Attempts : mine[a] = record.id => pc[a] \in {"done", "dead"}
  /\ record' = None
  /\ expiries' = expiries + 1
  /\ UNCHANGED <<fresh, attemptVars, outlived, crashes>>

-----------------------------------------------------------------------------
Next ==
  \/ \E a \in Attempts :
       \/ Create(a) \/ Find(a) \/ Reclaim(a)
       \/ \E how \in {"success", "failure"} : Finish(a, how)
       \/ Settle(a) \/ OutliveLease(a) \/ Crash(a)
  \/ LeaseLapses \/ Expire

Spec == Init /\ [][Next]_vars

-----------------------------------------------------------------------------
(* Properties.                                                             *)

\* A replayed response is the answer of an attempt that succeeded, at the same
\* request: through takeovers, disconnects, crashes and expiries no attempt is
\* given a failure, or somebody else's response (idempotency.ts:87-92).
ReplayIsOwn == \A a \in Attempts : outcome[a] = "replay" =>
  /\ replayed[a] \in Attempts
  /\ outcome[replayed[a]] = "success"
  /\ Hash[replayed[a]] = Hash[a]

Working(a) == pc[a] \in {"running", "settle"} /\ mine[a] # 0

\* No two attempts work under the record.
Exclusive == \A a, b \in Attempts : Working(a) /\ Working(b) => a = b

\* As long as no lease has ended under a working handler, the record lets one
\* attempt in at a time, through takeovers, crashes and expiries (idempotency.ts:94-107).
OneHolder == outlived = 0 => Exclusive

\* "Only successes are remembered; a failed attempt releases the key"
\* (idempotency.ts:115): a success that was recorded is not forgotten because
\* another attempt with the key fails, but by its expiry only ...
SuccessIsNotForgotten ==
  [][Present /\ record.completed => (Present' /\ record'.completed) \/ expiries' > expiries]_vars

\* ... as long as no lease has ended under a working handler.
SuccessIsRemembered ==
  [][outlived = 0 /\ Present /\ record.completed =>
       (Present' /\ record'.completed) \/ expiries' > expiries]_vars

Succeeded == {a \in Attempts : outcome[a] = "success"}

\* "Concurrent duplicates execute once" (reliability-idempotency.test.ts:60).
ExecutedOnce == Cardinality(Succeeded) <= 1
=============================================================================
