---------------------------- MODULE EventDelivery ----------------------------
(***************************************************************************)
(* What the transactional outbox promises to the code that emits events,   *)
(* with no workers, leases or retries: an emitted event is acknowledged    *)
(* only after its consumer ran to completion, an acknowledged event is     *)
(* never queued again, and an event is given up only into the parked state *)
(* from which an administrator can put it back.                            *)
(***************************************************************************)

CONSTANT Events

VARIABLES phase,    \* phase[e]: where event e stands for its emitter
          done      \* done[e]: e's consumer ran to completion at least once

vars == <<phase, done>>

Phases == {"absent", "queued", "delivered", "parked"}

Init == /\ phase = [e \in Events |-> "absent"]
        /\ done = [e \in Events |-> FALSE]

Enqueue(e) == /\ phase[e] = "absent"
              /\ phase' = [phase EXCEPT ![e] = "queued"]
              /\ UNCHANGED done

\* A consumer may complete late or twice: delivery is at least once.
Consume(e) == /\ phase[e] # "absent"
              /\ done' = [done EXCEPT ![e] = TRUE]
              /\ UNCHANGED phase

Acknowledge(e) == /\ phase[e] = "queued"
                  /\ done[e]
                  /\ phase' = [phase EXCEPT ![e] = "delivered"]
                  /\ UNCHANGED done

Park(e) == /\ phase[e] = "queued"
           /\ phase' = [phase EXCEPT ![e] = "parked"]
           /\ UNCHANGED done

Requeue(e) == /\ phase[e] = "parked"
              /\ phase' = [phase EXCEPT ![e] = "queued"]
              /\ UNCHANGED done

Next == \E e \in Events : \/ Enqueue(e) \/ Consume(e) \/ Acknowledge(e)
                          \/ Park(e) \/ Requeue(e)

Spec == Init /\ [][Next]_vars
=============================================================================
