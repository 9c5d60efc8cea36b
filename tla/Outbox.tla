------------------------------- MODULE Outbox --------------------------------
(***************************************************************************)
(* The transactional outbox (services/outbox.service.ts): events are       *)
(* written with the business change that caused them and drained by any    *)
(* number of workers, each holding a 60 s lease on the event it handles.   *)
(*                                                                         *)
(* Time is kept as two facts per event that the clock alone changes:       *)
(* due[e] is availableAt <= now, leased[e] is lockedUntil >= now.  A       *)
(* lockToken is a fresh UUID per claim; a worker handles one event at a    *)
(* time, so the token is represented by the worker that drew it.           *)
(***************************************************************************)
EXTENDS Naturals, FiniteSets

CONSTANTS Events,        \* one per {aggregateId, eventType, eventVersion}
          Workers,       \* drain loops, in any number of processes
          Admins,        \* requests running replayDeadLetter
          MaxAttempts,   \* OUTBOX_MAX_ATTEMPTS
          MaxDeaths,    \* bound: runs that die between two of their steps
          MaxStalls,     \* bound: leases that end under a live handler
          MaxReplays,    \* bound: replays that reset an event
          NoWorker,      \* lockToken unset
          NoEvent        \* no event in hand

ASSUME MaxAttemptsAssumption == MaxAttempts \in Nat \ {0}
ASSUME BoundsAssumption == MaxDeaths \in Nat /\ MaxStalls \in Nat /\ MaxReplays \in Nat
ASSUME NullAssumption == NoWorker \notin Workers /\ NoEvent \notin Events

VARIABLES
  (* CommerceOutboxEvent *)
  status, lock, leased, due, attempts,
  (* DeadLetterEvent.replayStatus, "none" when the event has no row *)
  deadRow,
  (* each drain loop: its step, the event in hand, attempts as claimed *)
  at, cur, seen,
  (* each replay request: the event it has reset and not yet marked *)
  replaying,
  (* history: the consumer of e ran to completion *)
  delivered,
  (* budgets spent *)
  deaths, stalls, replays

rowVars == <<status, lock, leased, due, attempts>>
workerVars == <<at, cur, seen>>
budgetsSpent == <<deaths, stalls, replays>>
outboxVars == <<rowVars, deadRow, workerVars, replaying, delivered, budgetsSpent>>

Statuses == {"none", "pending", "processing", "published", "dead_letter"}

OutboxTypeOK ==
  /\ status \in [Events -> Statuses]
  /\ lock \in [Events -> Workers \cup {NoWorker}]
  /\ leased \in [Events -> BOOLEAN]
  /\ due \in [Events -> BOOLEAN]
  /\ attempts \in [Events -> Nat]
  /\ deadRow \in [Events -> {"none", "pending", "replayed"}]
  /\ at \in [Workers -> {"idle", "handling", "handled", "parking"}]
  /\ cur \in [Workers -> Events \cup {NoEvent}]
  /\ seen \in [Workers -> Nat]
  /\ replaying \in [Admins -> Events \cup {NoEvent}]
  /\ delivered \in [Events -> BOOLEAN]
  /\ deaths \in Nat /\ stalls \in Nat /\ replays \in Nat

OutboxInit ==
  /\ status = [e \in Events |-> "none"]
  /\ lock = [e \in Events |-> NoWorker]
  /\ leased = [e \in Events |-> FALSE]
  /\ due = [e \in Events |-> FALSE]
  /\ attempts = [e \in Events |-> 0]
  /\ deadRow = [e \in Events |-> "none"]
  /\ at = [w \in Workers |-> "idle"]
  /\ cur = [w \in Workers |-> NoEvent]
  /\ seen = [w \in Workers |-> 0]
  /\ replaying = [a \in Admins |-> NoEvent]
  /\ delivered = [e \in Events |-> FALSE]
  /\ deaths = 0 /\ stalls = 0 /\ replays = 0

-----------------------------------------------------------------------------
(* Emitting.  The probe, the unique index and the surrounding transaction  *)
(* make one row per event, whoever emits it again.                         *)

Emit(e) ==
  /\ status[e] = "none"
  /\ status' = [status EXCEPT ![e] = "pending"]
  /\ due' = [due EXCEPT ![e] = TRUE]
  /\ UNCHANGED <<lock, leased, attempts, deadRow, workerVars, replaying,
                 delivered, budgetsSpent>>

-----------------------------------------------------------------------------
(* Draining.                                                               *)

\* Mutant: an event whose worker died is never taken over.
ClaimableWithoutTakeover(e) == status[e] = "pending" /\ due[e]

Claimable(e) == \/ status[e] = "pending" /\ due[e]
                \/ status[e] = "processing" /\ ~leased[e]

\* The atomic findOneAndUpdate.  The code takes the oldest availableAt first;
\* any claimable event may be taken here, and the fairness states the part
\* of that order liveness needs.
Claim(w, e) ==
  /\ at[w] = "idle"
  /\ Claimable(e)
  /\ status' = [status EXCEPT ![e] = "processing"]
  /\ lock' = [lock EXCEPT ![e] = w]
  /\ leased' = [leased EXCEPT ![e] = TRUE]
  /\ attempts' = [attempts EXCEPT ![e] = @ + 1]
  /\ at' = [at EXCEPT ![w] = "handling"]
  /\ cur' = [cur EXCEPT ![w] = e]
  /\ seen' = [seen EXCEPT ![w] = attempts[e] + 1]
  /\ UNCHANGED <<due, deadRow, replaying, delivered, budgetsSpent>>

\* The consumer returns.
HandlerReturns(w) ==
  /\ at[w] = "handling"
  /\ at' = [at EXCEPT ![w] = "handled"]
  /\ delivered' = [delivered EXCEPT ![cur[w]] = TRUE]
  /\ UNCHANGED <<rowVars, deadRow, cur, seen, replaying, budgetsSpent>>

\* updateOne({_id, lockToken}, published): a no-op once the lease was retaken.
PublishIf(w, held) ==
  LET e == cur[w] IN
  /\ IF held
       THEN /\ status' = [status EXCEPT ![e] = "published"]
            /\ lock' = [lock EXCEPT ![e] = NoWorker]
            /\ leased' = [leased EXCEPT ![e] = FALSE]
       ELSE UNCHANGED <<status, lock, leased>>
  /\ at' = [at EXCEPT ![w] = "idle"]
  /\ cur' = [cur EXCEPT ![w] = NoEvent]
  /\ seen' = [seen EXCEPT ![w] = 0]
  /\ UNCHANGED <<due, attempts, deadRow, replaying, delivered, budgetsSpent>>

\* Mutant: the filter forgets the lockToken.
PublishUnfenced(w) == at[w] = "handled" /\ PublishIf(w, TRUE)

Publish(w) == at[w] = "handled" /\ PublishIf(w, lock[cur[w]] = w)

Exhausted(w) == seen[w] >= MaxAttempts

\* failOutboxEvent: the consumer threw, or the write of "published" did.
FailIf(w, held) ==
  LET e == cur[w] IN
  /\ at[w] \in {"handling", "handled"}
  /\ IF held
       THEN /\ status' = [status EXCEPT ![e] = IF Exhausted(w) THEN "dead_letter" ELSE "pending"]
            /\ due' = [due EXCEPT ![e] = FALSE]
            /\ lock' = [lock EXCEPT ![e] = NoWorker]
            /\ leased' = [leased EXCEPT ![e] = FALSE]
       ELSE UNCHANGED <<status, due, lock, leased>>
  /\ seen' = [seen EXCEPT ![w] = 0]
  /\ UNCHANGED <<attempts, deadRow, replaying, delivered, budgetsSpent>>

\* The drain loop goes on, or first records the dead letter.
NextStep(w, record) ==
  /\ at' = [at EXCEPT ![w] = IF record THEN "parking" ELSE "idle"]
  /\ cur' = [cur EXCEPT ![w] = IF record THEN @ ELSE NoEvent]

\* Mutant: the dead letter is not recorded.
FailUnrecorded(w) == /\ FailIf(w, lock[cur[w]] = w)
                     /\ NextStep(w, FALSE)

Fail(w) == /\ FailIf(w, lock[cur[w]] = w)
           /\ NextStep(w, lock[cur[w]] = w /\ Exhausted(w))

\* The upsert of the DeadLetterEvent, a second write after the first one.
RecordAs(w, replayStatus) ==
  /\ at[w] = "parking"
  /\ deadRow' = [deadRow EXCEPT ![cur[w]] = replayStatus]
  /\ at' = [at EXCEPT ![w] = "idle"]
  /\ cur' = [cur EXCEPT ![w] = NoEvent]
  /\ UNCHANGED <<rowVars, seen, replaying, delivered, budgetsSpent>>

RecordDeadLetter(w) == RecordAs(w, "pending")

-----------------------------------------------------------------------------
(* Replaying a dead letter.                                                *)

ResetDeadLetter(a, e) ==
  /\ replaying[a] = NoEvent
  /\ deadRow[e] # "none"
  /\ status[e] = "dead_letter"
  /\ replays < MaxReplays
  /\ status' = [status EXCEPT ![e] = "pending"]
  /\ attempts' = [attempts EXCEPT ![e] = 0]
  /\ due' = [due EXCEPT ![e] = TRUE]
  /\ replaying' = [replaying EXCEPT ![a] = e]
  /\ replays' = replays + 1
  /\ UNCHANGED <<lock, leased, deadRow, workerVars, delivered, deaths, stalls>>

MarkReplayed(a) ==
  /\ replaying[a] # NoEvent
  /\ deadRow' = [deadRow EXCEPT ![replaying[a]] = "replayed"]
  /\ replaying' = [replaying EXCEPT ![a] = NoEvent]
  /\ UNCHANGED <<rowVars, workerVars, delivered, budgetsSpent>>

-----------------------------------------------------------------------------
(* The clock and the failures.                                             *)

Holding(w, e) == at[w] \in {"handling", "handled"} /\ cur[w] = e /\ lock[e] = w

BackoffElapses(e) ==
  /\ status[e] = "pending" /\ ~due[e]
  /\ due' = [due EXCEPT ![e] = TRUE]
  /\ UNCHANGED <<status, lock, leased, attempts, deadRow, workerVars,
                 replaying, delivered, budgetsSpent>>

\* 60 s pass after the holder died.
LeaseRunsOut(e) ==
  /\ leased[e]
  /\ \A w \in Workers : ~Holding(w, e)
  /\ leased' = [leased EXCEPT ![e] = FALSE]
  /\ UNCHANGED <<status, lock, due, attempts, deadRow, workerVars, replaying,
                 delivered, budgetsSpent>>

\* 60 s pass while the holder is still in its consumer.
LeaseOutlived(e) ==
  /\ leased[e]
  /\ \E w \in Workers : Holding(w, e)
  /\ stalls < MaxStalls
  /\ stalls' = stalls + 1
  /\ leased' = [leased EXCEPT ![e] = FALSE]
  /\ UNCHANGED <<status, lock, due, attempts, deadRow, workerVars, replaying,
                 delivered, deaths, replays>>

\* The process dies, or a database write of the drain loop throws out of it.
CrashWorker(w) ==
  /\ at[w] # "idle"
  /\ deaths < MaxDeaths
  /\ deaths' = deaths + 1
  /\ at' = [at EXCEPT ![w] = "idle"]
  /\ cur' = [cur EXCEPT ![w] = NoEvent]
  /\ seen' = [seen EXCEPT ![w] = 0]
  /\ UNCHANGED <<rowVars, deadRow, replaying, delivered, stalls, replays>>

CrashReplay(a) ==
  /\ replaying[a] # NoEvent
  /\ deaths < MaxDeaths
  /\ deaths' = deaths + 1
  /\ replaying' = [replaying EXCEPT ![a] = NoEvent]
  /\ UNCHANGED <<rowVars, deadRow, workerVars, delivered, stalls, replays>>

-----------------------------------------------------------------------------
OutboxNext ==
  \/ \E e \in Events : \/ Emit(e) \/ BackoffElapses(e)
                       \/ LeaseRunsOut(e) \/ LeaseOutlived(e)
  \/ \E w \in Workers : \/ \E e \in Events : Claim(w, e)
                        \/ HandlerReturns(w) \/ Publish(w) \/ Fail(w)
                        \/ RecordDeadLetter(w) \/ CrashWorker(w)
  \/ \E a \in Admins : \/ \E e \in Events : ResetDeadLetter(a, e)
                       \/ MarkReplayed(a) \/ CrashReplay(a)

\* outbox-drain runs every 3 s in every worker, so a due event is taken sooner
\* or later (oldest availableAt first: no other event can pass it for ever), a
\* consumer returns or throws, and the clock runs.  Nobody has to replay.
Fairness ==
  /\ \A e \in Events : /\ SF_outboxVars(\E w \in Workers : Claim(w, e))
                       /\ WF_outboxVars(BackoffElapses(e))
                       /\ WF_outboxVars(LeaseRunsOut(e))
  /\ \A w \in Workers : /\ WF_outboxVars(HandlerReturns(w) \/ Fail(w))
                        /\ WF_outboxVars(Publish(w))
                        /\ WF_outboxVars(RecordDeadLetter(w))

OutboxSpec == OutboxInit /\ [][OutboxNext]_outboxVars
FairSpec == OutboxSpec /\ Fairness

-----------------------------------------------------------------------------
(* Properties.                                                             *)

\* An event waits for another try, or is given up, as its count says: fewer
\* than MaxAttempts tries since its last replay, or that many.  A worker whose
\* lease was retaken must not requeue or park the event under the new holder
\* (outbox.service.ts failOutboxEvent, the lockToken in the filter).
BudgetDecides == \A e \in Events :
  /\ status[e] = "pending" => attempts[e] < MaxAttempts
  /\ status[e] = "dead_letter" => attempts[e] >= MaxAttempts

\* A lapsed lease is taken over whatever the count is (outbox.service.ts:94, 97:
\* the claim has no cap), so an event may be tried more than MaxAttempts times
\* between two replays: once more for each worker that died or outlived a
\* lease, and no more than that.
RetryBudget == BudgetDecides /\ \A e \in Events : attempts[e] <= MaxAttempts + deaths + stalls

\* An event is marked published only after its consumer completed, whichever
\* of the workers that held it does the marking.
PublishedWasDelivered == \A e \in Events : status[e] = "published" => delivered[e]

\* No late worker, expired lease, crash or replay takes a published event out
\* of that state: its consumer is not started again.
PublishedIsFinal == [][\A e \in Events :
    status[e] = "published" => status'[e] = "published"]_outboxVars

\* Every dead-lettered event has, or is about to get, the DeadLetterEvent row
\* without which replayDeadLetter cannot find it.
DeadLetterIsReplayable == \A e \in Events :
  status[e] = "dead_letter" =>
    \/ deadRow[e] # "none"
    \/ \E w \in Workers : at[w] = "parking" /\ cur[w] = e

\* Only a death between the two writes can lose that row: concurrent replays,
\* outlived leases and repeated failures cannot.
ReplayableUnlessCrashed == deaths = 0 => DeadLetterIsReplayable

\* Every emitted event is published or dead-lettered in the end, through
\* failing consumers, expired leases and workers that die.
EventuallySettled == \A e \in Events :
  status[e] \in {"pending", "processing"} ~> status[e] \in {"published", "dead_letter"}

\* The outbox implements at-least-once delivery with parking.
PhaseOf(st) == CASE st = "none" -> "absent"
                 [] st \in {"pending", "processing"} -> "queued"
                 [] st = "published" -> "delivered"
                 [] st = "dead_letter" -> "parked"

Delivery == INSTANCE EventDelivery WITH
  phase <- [e \in Events |-> PhaseOf(status[e])],
  done <- delivered

DeliverySpec == Delivery!Spec
=============================================================================
