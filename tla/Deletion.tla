----------------------------- MODULE Deletion -----------------------------
(***************************************************************************)
(* A customer asks for the account to be deleted, and may call it back      *)
(* until the erasure starts: AccountDeletionService, AccountErasureService  *)
(* and AdminCommerceController.updateDeletion.  Several workers run the job *)
(* account-deletion-erasure; one that dies leaves its request erasing, and  *)
(* another takes it up at the step recorded.                                *)
(***************************************************************************)
EXTENDS Accounts

CONSTANTS Workers, MaxCrashes,
          MaySlow  \* an erasure may last longer than STALE_ERASURE_MS

ASSUME DeletionAssumption == MaxCrashes \in Nat /\ MaySlow \in BOOLEAN

VARIABLES
  del,     \* AccountDeletionRequest: status, paused, due, number of steps recorded
  proof,   \* Otp of type account_deletion: none, open, used
  order,   \* the customer's order: none, unpaid, paid, finished, cancelled
  work,    \* workers: step; the request, the number of steps done
  crashes

deletionVars == <<del, proof, order, work, crashes>>

Steps == <<"cancel_unpaid", "notify", "delete_personal", "scrub_orders", "anonymize_user">>
Notify == 2
Live == {"cooling_off", "erasing"}
LiveRequests == {d \in DOMAIN del : del[d].status \in Live}
Set(d, rec) == del' = [del EXCEPT ![d] = rec]
Idle == [at |-> "idle", d |-> 0, n |-> 0]

-----------------------------------------------------------------------------
(* sendCode; consumeCode finds the code, and spends it with a second write  *)
SendCode ==
  /\ user.status \in {"active", "deletion_requested"} /\ ~user.password /\ proof # "open"
  /\ \E r \in Requests : pc[r] = "ready" /\ does[r] = "prove"
  /\ proof' = "open"
  /\ UNCHANGED <<accountVars, del, order, work, crashes, pc, seen>>

Prove(r) ==
  /\ Starts(r, "prove") /\ proof = "open" /\ ~user.password
  /\ user.status \in {"active", "deletion_requested"}
  /\ Goto(r, "spend") /\ UNCHANGED <<accountVars, deletionVars, seen>>

SpendCode(r) ==
  /\ pc[r] = "spend"
  /\ IF proof = "open"
       THEN proof' = "used" /\ Goto(r, "ask") /\ UNCHANGED seen
       ELSE Done(r) /\ UNCHANGED proof
  /\ UNCHANGED <<accountVars, del, order, work, crashes>>

(* verifyOwner by password *)
VerifyOwner(r) ==
  /\ Starts(r, "ask") /\ user.password /\ user.status = "active"
  /\ Goto(r, "ask") /\ UNCHANGED <<accountVars, deletionVars, seen>>

(* request: a live request, an order in progress                            *)
Blocked == order = "paid"
AskRead(r) ==
  /\ pc[r] = "ask"
  /\ IF LiveRequests # {} \/ user.status # "active" \/ Blocked
       THEN Done(r) ELSE Goto(r, "create") /\ UNCHANGED seen
  /\ UNCHANGED <<accountVars, deletionVars>>

(* the transaction: the unique index lets one request live                  *)
CreateRequest(r) ==
  /\ pc[r] = "create"
  /\ IF LiveRequests = {}
       THEN /\ del' = Append(del, [status |-> "cooling_off", paused |-> FALSE, due |-> FALSE, steps |-> 0])
            /\ user' = IF user.status = "active" THEN [user EXCEPT !.status = "deletion_requested"] ELSE user
            /\ Goto(r, "revoke")
       ELSE Goto(r, "done") /\ UNCHANGED <<del, user>>
  /\ UNCHANGED <<sess, tokens, code, proof, order, work, crashes, seen>>

(* cancel by its owner, or by the link; cancelByAdmin                       *)
CancelRead(r, d) ==
  /\ Starts(r, "cancel") /\ del[d].status = "cooling_off"
  /\ Goto(r, "cancel") /\ seen' = [seen EXCEPT ![r].ref = d]
  /\ UNCHANGED <<accountVars, deletionVars>>

(* mutant: the write finds the request whatever has become of it *)
MayCancelAny(rec) == rec.status \in Live
MayCancel(rec) == rec.status = "cooling_off"
CancelRequest(r) ==
  LET d == seen[r].ref IN
  /\ pc[r] = "cancel"
  /\ IF MayCancel(del[d])
       THEN /\ Set(d, [del[d] EXCEPT !.status = "cancelled"])
            /\ user' = IF user.status = "deletion_requested" THEN [user EXCEPT !.status = "active"] ELSE user
       ELSE UNCHANGED <<del, user>>
  /\ Done(r)
  /\ UNCHANGED <<sess, tokens, code, proof, order, work, crashes>>

(* updateDeletion: pause and resume *)
Pause(r, d) ==
  /\ Starts(r, "pause") /\ del[d].status = "cooling_off"
  /\ Set(d, [del[d] EXCEPT !.paused = ~@]) /\ Done(r)
  /\ UNCHANGED <<accountVars, proof, order, work, crashes>>

-----------------------------------------------------------------------------
(* The end of the cooling-off, or of a deferral                             *)
CoolingOffEnds ==
  \E d \in DOMAIN del :
    /\ del[d].status = "cooling_off" /\ ~del[d].due
    /\ Set(d, [del[d] EXCEPT !.due = TRUE])
    /\ UNCHANGED <<accountVars, proof, order, work, crashes, pc, seen>>

After(n) == IF n = Len(Steps) THEN "finish" ELSE "work"
Take(w, d) ==
  LET n == del[d].steps IN
  work' = [work EXCEPT ![w] = [at |-> IF n < Notify THEN "check" ELSE After(n), d |-> d, n |-> n]]

(* runDue: a request that is due *)
Claim(w, d) ==
  /\ work[w] = Idle /\ del[d].status = "cooling_off" /\ del[d].due /\ ~del[d].paused
  /\ Set(d, [del[d] EXCEPT !.status = "erasing"]) /\ Take(w, d)
  /\ UNCHANGED <<accountVars, proof, order, crashes, pc, seen>>

(* updateDeletion: erase_now *)
EraseNow(r, w, d) ==
  /\ Starts(r, "erase_now") /\ work[w] = Idle /\ del[d].status = "cooling_off"
  /\ Set(d, [del[d] EXCEPT !.status = "erasing", !.paused = FALSE]) /\ Take(w, d) /\ Done(r)
  /\ UNCHANGED <<accountVars, proof, order, crashes>>

(* runDue: one left for STALE_ERASURE_MS                                    *)
(* mutant: what a crash leaves is not taken up *)
MayResumeNever(d) == FALSE
MayResume(d) ==
  /\ del[d].status = "erasing" /\ ~del[d].paused
  /\ MaySlow \/ \A w \in Workers : work[w].d # d
Resume(w, d) ==
  /\ work[w] = Idle /\ MayResume(d) /\ Take(w, d)
  /\ UNCHANGED <<accountVars, del, proof, order, crashes, pc, seen>>

(* erase: the blockers, looked at again until the customer has been told    *)
Check(w) ==
  LET d == work[w].d IN
  /\ work[w].at = "check"
  /\ IF Blocked
       THEN /\ work' = [work EXCEPT ![w] = Idle]
            /\ IF del[d].status = "erasing" THEN Set(d, [del[d] EXCEPT !.status = "cooling_off", !.due = FALSE])
               ELSE UNCHANGED del
       ELSE work' = [work EXCEPT ![w].at = "work"] /\ UNCHANGED del
  /\ UNCHANGED <<accountVars, proof, order, crashes, pc, seen>>

(* one step of the erasure: cancelUnpaidOrders, the last mail,              *)
(* deletePersonalRecords, scrubOrders and scrubNegotiations, anonymizeUser  *)
Work(w) ==
  LET step == Steps[work[w].n + 1] IN
  /\ work[w].at = "work"
  /\ work' = [work EXCEPT ![w].at = "record"]
  /\ order' = IF step = "cancel_unpaid" /\ order = "unpaid" THEN "cancelled" ELSE order
  /\ sess' = IF step = "delete_personal" THEN Closed(sess) ELSE sess
  /\ code' = IF step = "delete_personal" THEN "used" ELSE code
  /\ user' = IF step = "anonymize_user" /\ Exists
               THEN [status |-> "anonymized", active |-> FALSE, password |-> FALSE] ELSE user
  /\ UNCHANGED <<tokens, del, proof, crashes, pc, seen>>

(* $addToSet: another worker may have gone further *)
Recorded(steps, n) == IF n > steps THEN n ELSE steps
Record(w) ==
  LET d == work[w].d
      n == work[w].n + 1 IN
  /\ work[w].at = "record"
  /\ Set(d, [del[d] EXCEPT !.steps = Recorded(@, n)])
  /\ work' = [work EXCEPT ![w].n = n, ![w].at = After(n)]
  /\ UNCHANGED <<accountVars, proof, order, crashes, pc, seen>>

Finish(w) ==
  /\ work[w].at = "finish"
  /\ Set(work[w].d, [del[work[w].d] EXCEPT !.status = "anonymized", !.due = FALSE])
  /\ work' = [work EXCEPT ![w] = Idle]
  /\ UNCHANGED <<accountVars, proof, order, crashes, pc, seen>>

Crash(w) ==
  /\ work[w] # Idle /\ crashes < MaxCrashes
  /\ crashes' = crashes + 1 /\ work' = [work EXCEPT ![w] = Idle]
  /\ UNCHANGED <<accountVars, del, proof, order, pc, seen>>

(* the customer's order, seen from here: placed, paid, finished             *)
OrderMoves ==
  /\ \/ order = "none" /\ IsActiveAccount(user) /\ order' = "unpaid"
     \/ order = "unpaid" /\ order' = "paid"
     \/ order = "paid" /\ order' = "finished"
  /\ UNCHANGED <<accountVars, del, proof, work, crashes, pc, seen>>

-----------------------------------------------------------------------------
Erase(w) ==
  \/ \E d \in DOMAIN del : Claim(w, d) \/ Resume(w, d)
  \/ Check(w) \/ Work(w) \/ Record(w) \/ Finish(w)
DeletionNext ==
  \/ SendCode \/ CoolingOffEnds \/ OrderMoves
  \/ \E r \in Requests :
       \/ Prove(r) \/ SpendCode(r) \/ VerifyOwner(r) \/ AskRead(r) \/ CreateRequest(r) \/ CancelRequest(r)
       \/ \E d \in DOMAIN del : CancelRead(r, d) \/ Pause(r, d) \/ \E w \in Workers : EraseNow(r, w, d)
  \/ \E w \in Workers : Erase(w) \/ Crash(w)


-----------------------------------------------------------------------------
(* A request called back is not carried out: when the customer has been     *)
(* told the account is restored, no worker erases anything of it.           *)
CancelledIsKept ==
  \A w \in Workers : work[w].at \in {"work", "record", "finish"}
                       => del[work[w].d].status # "cancelled"

(* An erasure that has begun does not stay half done: workers that die on   *)
(* the way are followed by others, until it is complete or put off.         *)
ErasureEnds == []<>(\A d \in DOMAIN del : del[d].status # "erasing")

(* While a request is live the account is closed to sign-in.                *)
LiveIsClosed == LiveRequests # {} => user.status # "active"

(* What was erased stays so. *)
ErasedStays == [][user.status = "anonymized" => user'.status = "anonymized"]_user

(* An account with an order in progress is not erased. *)
NothingInProgress == \A w \in Workers : work[w].at \in {"work", "record"} /\ work[w].n + 1 > Notify => ~Blocked
=============================================================================
