--------------------------- MODULE PlatformProofs ---------------------------
(***************************************************************************)
(* Proofs about what the commerce rests on.  Idempotency: requests that     *)
(* share a key.  Outbox: events that are handled again, for every set of    *)
(* events, workers and admins, every retry budget and every number of       *)
(* deaths, stalls and replays.  SharedCache: what is kept of what was read. *)
(* Access: who is let through while roles and accounts change.              *)
(***************************************************************************)
EXTENDS Backbone, Outbox, FiniteSetTheorems, SequenceTheorems, TLAPS

-----------------------------------------------------------------------------
\* Records and leases are numbered, and a record that is completed holds the
\* answer of an attempt that has succeeded for good.
RecordInv == Present =>
  /\ record.id \in 1..fresh /\ record.lease \in 1..fresh
  /\ record.completed =>
       /\ record.body \in Attempts
       /\ pc[record.body] = "done" /\ outcome[record.body] = "success"
       /\ Hash[record.body] = record.hash

\* What an attempt may do to the record it does to a record of its request.
RequestInv == \A a \in Attempts :
  /\ Present /\ record.id = mine[a] => record.hash = Hash[a]
  /\ pc[a] = "reclaim" /\ Present /\ record.lease = lapsed[a] => record.hash = Hash[a]

\* Which step an attempt is at tells what its client was told.
AnswerInv == \A a \in Attempts :
  /\ pc[a] \in {"start", "find", "reclaim"} => mine[a] = 0
  /\ pc[a] \in {"start", "find", "reclaim", "running"} => outcome[a] = "none"
  /\ pc[a] = "settle" => outcome[a] \in {"success", "failure"} /\ mine[a] # 0
  /\ outcome[a] = "replay" =>
       replayed[a] \in Attempts /\ pc[replayed[a]] = "done"

\* The inductive invariant of ReplayIsOwn: the answer a replay copies must be
\* final (RecordInv, AnswerInv) and of the same request (RequestInv).
IInv == TypeOK /\ RecordInv /\ RequestInv /\ AnswerInv /\ ReplayIsOwn

\* Without outlived leases, a working attempt has the record's lease, and a
\* lease somebody found lapsed is not held.
HolderInv ==
  /\ \A a \in Attempts : Working(a) =>
       Present /\ record.id = mine[a] /\ record.lease = lease[a] /\ record.held /\ ~record.completed
  /\ \A a \in Attempts : Present /\ record.lease = lapsed[a] => ~record.held

LEMMA InitIInv == Init => IInv /\ HolderInv
<1> SUFFICES ASSUME Init PROVE IInv /\ HolderInv
  OBVIOUS
<1>1. TypeOK BY DEF Init, TypeOK, Steps, Outcomes
<1>2. RecordInv /\ RequestInv BY NoneAssumption DEF Init, RecordInv, RequestInv, Present
<1>3. AnswerInv /\ ReplayIsOwn BY DEF Init, AnswerInv, ReplayIsOwn
<1>4. HolderInv BY DEF Init, HolderInv, Working, Present
<1> QED BY <1>1, <1>2, <1>3, <1>4 DEF IInv

\* A record is a record: its fields have their types, and it is not None.
LEMMA PresentTyped ==
  ASSUME TypeOK, Present PROVE record \in Records
  BY DEF TypeOK, Present


-----------------------------------------------------------------------------
(* Types.                                                                  *)

RecordTyped == record \in Records \cup {None} /\ fresh \in Nat

AttemptTyped ==
  /\ pc \in [Attempts -> Steps]
  /\ mine \in [Attempts -> 0..fresh] /\ lease \in [Attempts -> 0..fresh]
  /\ lapsed \in [Attempts -> 0..fresh]
  /\ outcome \in [Attempts -> Outcomes]
  /\ replayed \in [Attempts -> Attempts \cup {None}]

BudgetTyped == outlived \in Nat /\ crashes \in Nat /\ expiries \in Nat

LEMMA TypedParts == TypeOK <=> RecordTyped /\ AttemptTyped /\ BudgetTyped
  BY DEF TypeOK, RecordTyped, AttemptTyped, BudgetTyped

\* Taking a new number keeps the attempts' numbers within bounds.
LEMMA HoldTyped ==
  ASSUME RecordTyped, AttemptTyped, NEW a \in Attempts, NEW id \in 1..(fresh + 1), Hold(a, id),
         UNCHANGED <<lapsed, outcome, replayed>>
  PROVE  AttemptTyped' /\ fresh' \in Nat
<1>1. fresh \in Nat /\ fresh' = fresh + 1 BY DEF RecordTyped, Hold
<1>2. pc' \in [Attempts -> Steps] BY DEF AttemptTyped, Hold, Goto, Steps
<1>3. mine' \in [Attempts -> 0..fresh'] /\ lease' \in [Attempts -> 0..fresh']
  BY <1>1 DEF AttemptTyped, Hold
<1>4. lapsed' \in [Attempts -> 0..fresh'] BY <1>1 DEF AttemptTyped
<1> QED BY <1>1, <1>2, <1>3, <1>4 DEF AttemptTyped

LEMMA TypedStep ==
  ASSUME IInv, [Next]_vars PROVE TypeOK'
<1> USE TypedParts DEF IInv
<1> SUFFICES RecordTyped' /\ AttemptTyped' /\ BudgetTyped'
  BY DEF TypeOK, RecordTyped, AttemptTyped, BudgetTyped
<1>r. Present => /\ record \in Records /\ record.id \in 1..fresh
                 /\ record.lease \in 1..fresh
  BY PresentTyped DEF RecordInv
<1>1. ASSUME NEW a \in Attempts, Create(a) PROVE RecordTyped' /\ AttemptTyped' /\ BudgetTyped'
  <2>1. CASE Present
    <3>1. RecordTyped' /\ fresh' = fresh BY <1>1, <2>1 DEF Create, RecordTyped
    <3>2. lapsed' \in [Attempts -> 0..fresh]
      <4>1. (IF record.held THEN 0 ELSE record.lease) \in 0..fresh BY <1>r, <2>1 DEF RecordTyped
      <4> QED BY <1>1, <2>1, <4>1 DEF Create, AttemptTyped
    <3>3. pc' \in [Attempts -> Steps] BY <1>1, <2>1 DEF Create, AttemptTyped, Goto, Steps
    <3>4. AttemptTyped'
      BY <1>1, <2>1, <3>1, <3>2, <3>3 DEF Create, AttemptTyped
    <3> QED BY <1>1, <3>1, <3>4 DEF Create, budgetVars, BudgetTyped
  <2>2. CASE ~Present
    <3>1. Hold(a, fresh + 1) /\ UNCHANGED <<lapsed, outcome, replayed>> BY <1>1, <2>2 DEF Create
    <3>2. fresh + 1 \in 1..(fresh + 1) BY DEF RecordTyped
    <3>3. AttemptTyped' /\ fresh' \in Nat BY <3>1, <3>2, HoldTyped
    <3>4. record' \in Records
      <4>1. Hash[a] \in Hashes BY DEF Hashes
      <4>2. fresh + 1 \in Nat BY DEF RecordTyped
      <4>3. record' = [id |-> fresh + 1, hash |-> Hash[a], completed |-> FALSE,
                       lease |-> fresh + 1, held |-> TRUE, body |-> None]
        BY <1>1, <2>2 DEF Create
      <4> QED BY <4>1, <4>2, <4>3 DEF Records
    <3> QED BY <1>1, <3>3, <3>4 DEF Create, budgetVars, RecordTyped, BudgetTyped
  <2> QED BY <2>1, <2>2
<1>2. ASSUME NEW a \in Attempts, Find(a) PROVE RecordTyped' /\ AttemptTyped' /\ BudgetTyped'
  <2>1. RecordTyped' /\ fresh' = fresh BY <1>2 DEF Find, FindIf, recordVars, RecordTyped
  <2>2. pc' \in [Attempts -> Steps] BY <1>2 DEF Find, FindIf, Answer, Goto, AttemptTyped, Steps
  <2>3. outcome' \in [Attempts -> Outcomes]
    BY <1>2 DEF Find, FindIf, Answer, AttemptTyped, Outcomes
  <2>4. replayed' \in [Attempts -> Attempts \cup {None}]
    <3>1. Present => record.body \in Attempts \cup {None} BY <1>r DEF Records
    <3>2. \/ UNCHANGED replayed
          \/ Present /\ replayed' = [replayed EXCEPT ![a] = record.body]
      BY <1>2 DEF Find, FindIf
    <3> QED BY <3>1, <3>2 DEF AttemptTyped
  <2> QED BY <1>2, <2>1, <2>2, <2>3, <2>4 DEF Find, FindIf, AttemptTyped, budgetVars, BudgetTyped
<1>3. ASSUME NEW a \in Attempts, Reclaim(a) PROVE RecordTyped' /\ AttemptTyped' /\ BudgetTyped'
  <2> DEFINE free == Present /\ ~record.completed /\ record.lease = lapsed[a]
  <2>1. CASE free
    <3>1. Hold(a, record.id) /\ UNCHANGED <<lapsed, outcome, replayed>>
      BY <1>3, <2>1 DEF Reclaim, ReclaimIf
    <3>2. record.id \in 1..(fresh + 1) BY <1>r, <2>1 DEF RecordTyped
    <3>3. AttemptTyped' /\ fresh' \in Nat BY <3>1, <3>2, HoldTyped
    <3>4. record' = [record EXCEPT !.lease = fresh + 1, !.held = TRUE]
      BY <1>3, <2>1 DEF Reclaim, ReclaimIf
    <3>5. fresh + 1 \in Nat /\ record \in Records BY <1>r, <2>1 DEF RecordTyped
    <3>6. record' \in Records BY <3>4, <3>5 DEF Records
    <3> QED BY <1>3, <3>3, <3>6 DEF Reclaim, ReclaimIf, budgetVars, RecordTyped, BudgetTyped
  <2>2. CASE ~free
    <3>1. Answer(a, "busy") /\ UNCHANGED <<record, fresh, mine, lease, lapsed, replayed, budgetVars>>
      BY <1>3, <2>2 DEF Reclaim, ReclaimIf
    <3> QED BY <3>1 DEF Answer, Goto, RecordTyped, AttemptTyped, BudgetTyped, budgetVars, Steps, Outcomes
  <2> QED BY <2>1, <2>2
<1>4. ASSUME NEW a \in Attempts, NEW how \in {"success", "failure"}, Finish(a, how)
      PROVE  RecordTyped' /\ AttemptTyped' /\ BudgetTyped'
  BY <1>4 DEF Finish, Goto, RecordTyped, AttemptTyped, BudgetTyped, budgetVars, recordVars, Steps, Outcomes
<1>5. ASSUME NEW a \in Attempts, Settle(a) PROVE RecordTyped' /\ AttemptTyped' /\ BudgetTyped'
  <2>1. record' \in Records \cup {None} BY <1>5, <1>r DEF Settle, SettleAs, RecordTyped, Records
  <2>2. AttemptTyped' BY <1>5 DEF Settle, SettleAs, Goto, AttemptTyped, Steps
  <2> QED BY <1>5, <2>1, <2>2 DEF Settle, SettleAs, RecordTyped, BudgetTyped, budgetVars
<1>6. ASSUME NEW a \in Attempts, OutliveLease(a) PROVE RecordTyped' /\ AttemptTyped' /\ BudgetTyped'
  <2>1. record' \in Records BY <1>6, <1>r DEF OutliveLease, LetGo, Records
  <2> QED BY <1>6, <2>1 DEF OutliveLease, RecordTyped, AttemptTyped, BudgetTyped, attemptVars
<1>7. ASSUME NEW a \in Attempts, Crash(a) PROVE RecordTyped' /\ AttemptTyped' /\ BudgetTyped'
  BY <1>7 DEF Crash, Goto, RecordTyped, AttemptTyped, BudgetTyped, recordVars, Steps
<1>8. ASSUME LeaseLapses PROVE RecordTyped' /\ AttemptTyped' /\ BudgetTyped'
  <2>1. record' \in Records BY <1>8, <1>r DEF LeaseLapses, LetGo, Records
  <2> QED BY <1>8, <2>1 DEF LeaseLapses, RecordTyped, AttemptTyped, BudgetTyped, attemptVars, budgetVars
<1>9. ASSUME Expire PROVE RecordTyped' /\ AttemptTyped' /\ BudgetTyped'
  BY <1>9 DEF Expire, RecordTyped, AttemptTyped, BudgetTyped, attemptVars
<1>10. ASSUME UNCHANGED vars PROVE RecordTyped' /\ AttemptTyped' /\ BudgetTyped'
  BY <1>10 DEF vars, recordVars, attemptVars, budgetVars, RecordTyped, AttemptTyped, BudgetTyped
<1> QED BY <1>1, <1>2, <1>3, <1>4, <1>5, <1>6, <1>7, <1>8, <1>9, <1>10 DEF Next

-----------------------------------------------------------------------------
(* Answers.                                                                *)

\* What every step leaves alone: an attempt that is done, and the record's
\* identity and request while it has the same number.
LEMMA DoneStays ==
  ASSUME IInv, [Next]_vars, NEW b \in Attempts, pc[b] = "done"
  PROVE  pc'[b] = "done" /\ outcome'[b] = outcome[b] /\ replayed'[b] = replayed[b]
<1> USE DEF IInv, TypeOK
<1>1. ASSUME NEW a \in Attempts, Create(a) \/ Find(a) \/ Reclaim(a) PROVE a # b
  BY <1>1 DEF Create, Find, FindIf, Reclaim, ReclaimIf
<1>2. ASSUME NEW a \in Attempts, Create(a)
      PROVE  pc'[b] = "done" /\ outcome'[b] = outcome[b] /\ replayed'[b] = replayed[b]
  BY <1>1, <1>2 DEF Create, Hold, Goto
<1>3. ASSUME NEW a \in Attempts, Find(a)
      PROVE  pc'[b] = "done" /\ outcome'[b] = outcome[b] /\ replayed'[b] = replayed[b]
  <2>1. a # b BY <1>1, <1>3
  <2>2. pc'[b] = pc[b] BY <1>3, <2>1 DEF Find, FindIf, Answer, Goto
  <2>3. outcome'[b] = outcome[b] BY <1>3, <2>1 DEF Find, FindIf, Answer
  <2>4. replayed'[b] = replayed[b] BY <1>3, <2>1 DEF Find, FindIf
  <2> QED BY <2>2, <2>3, <2>4
<1>4. ASSUME NEW a \in Attempts, Reclaim(a)
      PROVE  pc'[b] = "done" /\ outcome'[b] = outcome[b] /\ replayed'[b] = replayed[b]
  <2>1. a # b BY <1>1, <1>4
  <2>2. pc'[b] = pc[b] BY <1>4, <2>1 DEF Reclaim, ReclaimIf, Answer, Hold, Goto
  <2> QED BY <1>4, <2>1, <2>2 DEF Reclaim, ReclaimIf, Answer
<1>5. ASSUME NEW a \in Attempts, NEW how \in {"success", "failure"}, Finish(a, how)
      PROVE  pc'[b] = "done" /\ outcome'[b] = outcome[b] /\ replayed'[b] = replayed[b]
  BY <1>5 DEF Finish, Goto
<1>6. ASSUME NEW a \in Attempts, Settle(a) \/ Crash(a) \/ OutliveLease(a)
      PROVE  pc'[b] = "done" /\ outcome'[b] = outcome[b] /\ replayed'[b] = replayed[b]
  BY <1>6 DEF Settle, SettleAs, Crash, OutliveLease, Goto, attemptVars
<1>7. ASSUME LeaseLapses \/ Expire \/ UNCHANGED vars
      PROVE  pc'[b] = "done" /\ outcome'[b] = outcome[b] /\ replayed'[b] = replayed[b]
  BY <1>7 DEF LeaseLapses, Expire, vars, attemptVars
<1> QED BY <1>2, <1>3, <1>4, <1>5, <1>6, <1>7 DEF Next

\* A replay's answer is copied by Find only, from the record it found.
LEMMA ReplayStep ==
  ASSUME IInv, [Next]_vars, NEW a \in Attempts, outcome'[a] = "replay"
  PROVE  \/ outcome[a] = "replay" /\ replayed'[a] = replayed[a]
         \/ /\ Find(a) /\ Present /\ record.completed /\ record.hash = Hash[a]
            /\ replayed'[a] = record.body
<1> USE DEF IInv, TypeOK
<1>1. CASE outcome[a] = "replay" /\ replayed'[a] = replayed[a]
  BY <1>1
<1>2. ASSUME NEW b \in Attempts, Find(b)
      PROVE  \/ outcome[a] = "replay" /\ replayed'[a] = replayed[a]
             \/ /\ Find(a) /\ Present /\ record.completed /\ record.hash = Hash[a]
                /\ replayed'[a] = record.body
  <2>1. CASE a # b BY <1>2, <2>1 DEF Find, FindIf, Answer
  <2>2. CASE a = b
    <3>1. outcome[a] = "none" BY <1>2, <2>2 DEF Find, FindIf, AnswerInv
    <3>2. Present /\ record.completed /\ record.hash = Hash[a] /\ replayed'[a] = record.body
      BY <1>2, <2>2, <3>1 DEF Find, FindIf, Answer
    <3> QED BY <1>2, <2>2, <3>2
  <2> QED BY <2>1, <2>2
<1>3. ASSUME NEW b \in Attempts, Create(b) \/ Settle(b) \/ Crash(b) \/ OutliveLease(b)
      PROVE  outcome[a] = "replay" /\ replayed'[a] = replayed[a]
  BY <1>3 DEF Create, Settle, SettleAs, Crash, OutliveLease, attemptVars
<1>4. ASSUME NEW b \in Attempts, Reclaim(b)
      PROVE  outcome[a] = "replay" /\ replayed'[a] = replayed[a]
  BY <1>4 DEF Reclaim, ReclaimIf, Answer
<1>5. ASSUME NEW b \in Attempts, NEW how \in {"success", "failure"}, Finish(b, how)
      PROVE  outcome[a] = "replay" /\ replayed'[a] = replayed[a]
  BY <1>5 DEF Finish
<1>6. ASSUME LeaseLapses \/ Expire \/ UNCHANGED vars
      PROVE  outcome[a] = "replay" /\ replayed'[a] = replayed[a]
  BY <1>6 DEF LeaseLapses, Expire, vars, attemptVars
<1> QED BY <1>2, <1>3, <1>4, <1>5, <1>6 DEF Next

LEMMA ReplayIsOwnStep ==
  ASSUME IInv, [Next]_vars PROVE ReplayIsOwn'
<1> SUFFICES ASSUME NEW a \in Attempts, outcome'[a] = "replay"
             PROVE  /\ replayed'[a] \in Attempts
                    /\ outcome'[replayed'[a]] = "success"
                    /\ Hash[replayed'[a]] = Hash[a]
  BY DEF ReplayIsOwn
<1>1. CASE outcome[a] = "replay" /\ replayed'[a] = replayed[a]
  <2>1. replayed[a] \in Attempts /\ pc[replayed[a]] = "done" BY <1>1 DEF IInv, AnswerInv
  <2>2. outcome'[replayed[a]] = outcome[replayed[a]] BY <2>1, DoneStays
  <2> QED BY <1>1, <2>1, <2>2 DEF IInv, ReplayIsOwn
<1>2. CASE /\ Present /\ record.completed /\ record.hash = Hash[a]
           /\ replayed'[a] = record.body
  <2>1. /\ record.body \in Attempts /\ pc[record.body] = "done"
        /\ outcome[record.body] = "success" /\ Hash[record.body] = record.hash
    BY <1>2 DEF IInv, RecordInv
  <2>2. outcome'[record.body] = outcome[record.body] BY <2>1, DoneStays
  <2> QED BY <1>2, <2>1, <2>2
<1> QED BY <1>1, <1>2, ReplayStep

-----------------------------------------------------------------------------
(* The record.                                                             *)

\* A step keeps the record, replaces the lease of one that is not completed by
\* a new lease, completes it with a success, removes it, or creates one under
\* a new number.
RecordMoves ==
  \/ record' = record
  \/ Present /\ record' = [record EXCEPT !.held = FALSE]
  \/ /\ Present /\ ~record.completed /\ fresh' = fresh + 1
     /\ record' = [record EXCEPT !.lease = fresh + 1, !.held = TRUE]
  \/ \E a \in Attempts :
       /\ Present /\ record.id = mine[a] /\ outcome[a] = "success" /\ pc[a] = "settle"
       /\ outcome'[a] = "success" /\ pc'[a] = "done"
       /\ record' = [record EXCEPT !.completed = TRUE, !.body = a]
  \/ record' = None
  \/ /\ ~Present /\ fresh' = fresh + 1
     /\ \E a \in Attempts :
          record' = [id |-> fresh + 1, hash |-> Hash[a], completed |-> FALSE,
                     lease |-> fresh + 1, held |-> TRUE, body |-> None]

LEMMA RecordMovesStep ==
  ASSUME IInv, [Next]_vars PROVE RecordMoves /\ fresh' \in {fresh, fresh + 1}
<1> USE DEF RecordMoves
<1>1. ASSUME NEW a \in Attempts, Create(a) PROVE RecordMoves /\ fresh' \in {fresh, fresh + 1}
  BY <1>1 DEF Create, Hold
<1>2. ASSUME NEW a \in Attempts, Reclaim(a) PROVE RecordMoves /\ fresh' \in {fresh, fresh + 1}
  BY <1>2 DEF Reclaim, ReclaimIf, Hold
<1>3. ASSUME NEW a \in Attempts, Settle(a) PROVE RecordMoves /\ fresh' \in {fresh, fresh + 1}
  <2>1. pc[a] = "settle" /\ pc'[a] = "done" /\ outcome' = outcome /\ fresh' = fresh
    BY <1>3 DEF Settle, SettleAs, Goto, IInv, TypeOK
  <2> QED BY <1>3, <2>1 DEF Settle, SettleAs
<1>4. ASSUME NEW a \in Attempts, OutliveLease(a) PROVE RecordMoves /\ fresh' \in {fresh, fresh + 1}
  BY <1>4 DEF OutliveLease, LetGo
<1>5. ASSUME LeaseLapses \/ Expire PROVE RecordMoves /\ fresh' \in {fresh, fresh + 1}
  BY <1>5 DEF LeaseLapses, LetGo, Expire
<1>6. ASSUME NEW a \in Attempts, Find(a) \/ Crash(a)
      PROVE RecordMoves /\ fresh' \in {fresh, fresh + 1}
  BY <1>6 DEF Find, FindIf, Crash, recordVars
<1>7. ASSUME NEW a \in Attempts, NEW how \in {"success", "failure"}, Finish(a, how)
      PROVE RecordMoves /\ fresh' \in {fresh, fresh + 1}
  BY <1>7 DEF Finish, recordVars
<1>8. ASSUME UNCHANGED vars PROVE RecordMoves /\ fresh' \in {fresh, fresh + 1}
  BY <1>8 DEF vars, recordVars
<1> QED BY <1>1, <1>2, <1>3, <1>4, <1>5, <1>6, <1>7, <1>8 DEF Next

LEMMA RecordInvStep ==
  ASSUME IInv, [Next]_vars PROVE RecordInv'
<1> SUFFICES ASSUME Present'
             PROVE  /\ record'.id \in 1..fresh' /\ record'.lease \in 1..fresh'
                    /\ record'.completed =>
                         /\ record'.body \in Attempts
                         /\ pc'[record'.body] = "done" /\ outcome'[record'.body] = "success"
                         /\ Hash[record'.body] = record'.hash
  BY DEF RecordInv
<1>f. fresh \in Nat /\ fresh' \in {fresh, fresh + 1} BY RecordMovesStep DEF IInv, TypeOK
<1>r. Present => /\ record \in Records /\ record.id \in 1..fresh /\ record.lease \in 1..fresh
                 /\ record.completed =>
                      /\ record.body \in Attempts
                      /\ pc'[record.body] = "done" /\ outcome'[record.body] = "success"
                      /\ Hash[record.body] = record.hash
  BY PresentTyped, DoneStays DEF IInv, RecordInv
<1>1. CASE record' = record BY <1>1, <1>f, <1>r DEF Present
<1>2. CASE Present /\ record' = [record EXCEPT !.held = FALSE]
  BY <1>2, <1>f, <1>r DEF Records
<1>3. CASE /\ Present /\ ~record.completed /\ fresh' = fresh + 1
           /\ record' = [record EXCEPT !.lease = fresh + 1, !.held = TRUE]
  BY <1>3, <1>f, <1>r DEF Records
<1>4. ASSUME NEW a \in Attempts, Present, record.id = mine[a],
             outcome'[a] = "success", pc'[a] = "done",
             record' = [record EXCEPT !.completed = TRUE, !.body = a]
      PROVE  /\ record'.id \in 1..fresh' /\ record'.lease \in 1..fresh'
             /\ record'.body = a /\ record'.hash = Hash[a]
  <2>1. record.hash = Hash[a] BY <1>4 DEF IInv, RequestInv
  <2> QED BY <1>4, <1>f, <1>r, <2>1 DEF Records
<1>5. CASE record' = None BY <1>5 DEF Present
<1>6. ASSUME NEW a \in Attempts, fresh' = fresh + 1,
             record' = [id |-> fresh + 1, hash |-> Hash[a], completed |-> FALSE,
                        lease |-> fresh + 1, held |-> TRUE, body |-> None]
      PROVE  record'.id \in 1..fresh' /\ record'.lease \in 1..fresh' /\ ~record'.completed
  BY <1>6, <1>f
<1> QED BY <1>1, <1>2, <1>3, <1>4, <1>5, <1>6, RecordMovesStep DEF RecordMoves

-----------------------------------------------------------------------------
(* The attempts.                                                           *)

LEMMA AnswerInvStep ==
  ASSUME IInv, [Next]_vars PROVE AnswerInv'
<1> SUFFICES ASSUME NEW a \in Attempts
             PROVE  /\ pc'[a] \in {"start", "find", "reclaim"} => mine'[a] = 0
                    /\ pc'[a] \in {"start", "find", "reclaim", "running"} => outcome'[a] = "none"
                    /\ pc'[a] = "settle" => outcome'[a] \in {"success", "failure"} /\ mine'[a] # 0
                    /\ outcome'[a] = "replay" =>
                         replayed'[a] \in Attempts /\ pc'[replayed'[a]] = "done"
  BY DEF AnswerInv
<1>0. outcome'[a] = "replay" => replayed'[a] \in Attempts /\ pc'[replayed'[a]] = "done"
  <2>1. CASE outcome[a] = "replay" /\ replayed'[a] = replayed[a]
    BY <2>1, DoneStays DEF IInv, AnswerInv
  <2>2. CASE Present /\ record.completed /\ replayed'[a] = record.body
    BY <2>2, DoneStays DEF IInv, RecordInv
  <2> QED BY <2>1, <2>2, ReplayStep
<1> DEFINE P == /\ pc'[a] \in {"start", "find", "reclaim"} => mine'[a] = 0
                /\ pc'[a] \in {"start", "find", "reclaim", "running"} => outcome'[a] = "none"
                /\ pc'[a] = "settle" => outcome'[a] \in {"success", "failure"} /\ mine'[a] # 0
<1> USE DEF IInv, TypeOK, AnswerInv
<1>1. ASSUME NEW b \in Attempts, Create(b) PROVE P
  <2>1. pc'[b] \in {"find", "running"} /\ pc[b] = "start" /\ outcome' = outcome
    BY <1>1 DEF Create, Hold, Goto
  <2>2. a # b => pc'[a] = pc[a] /\ mine'[a] = mine[a] BY <1>1 DEF Create, Hold, Goto
  <2>3. pc'[b] = "find" => mine' = mine BY <1>1 DEF Create, Hold, Goto
  <2> QED BY <2>1, <2>2, <2>3
<1>2. ASSUME NEW b \in Attempts, Find(b) PROVE P
  <2>1. mine' = mine /\ pc[b] = "find" BY <1>2 DEF Find, FindIf
  <2>2. pc'[b] = "done" \/ (pc'[b] \in {"running", "reclaim"} /\ outcome' = outcome)
    BY <1>2 DEF Find, FindIf, Answer, Goto
  <2>3. a # b => pc'[a] = pc[a] BY <1>2 DEF Find, FindIf, Answer, Goto
  <2>4. a # b => outcome'[a] = outcome[a] BY <1>2 DEF Find, FindIf, Answer
  <2> QED BY <2>1, <2>2, <2>3, <2>4
<1>3. ASSUME NEW b \in Attempts, Reclaim(b) PROVE P
  <2>1. pc[b] = "reclaim" BY <1>3 DEF Reclaim, ReclaimIf
  <2>2. pc'[b] = "done" \/ (pc'[b] = "running" /\ outcome' = outcome)
    BY <1>3 DEF Reclaim, ReclaimIf, Answer, Hold, Goto
  <2>3. a # b => pc'[a] = pc[a] BY <1>3 DEF Reclaim, ReclaimIf, Answer, Hold, Goto
  <2>4. a # b => outcome'[a] = outcome[a] BY <1>3 DEF Reclaim, ReclaimIf, Answer
  <2>5. a # b => mine'[a] = mine[a] BY <1>3 DEF Reclaim, ReclaimIf, Hold
  <2> QED BY <2>1, <2>2, <2>3, <2>4, <2>5
<1>4. ASSUME NEW b \in Attempts, NEW how \in {"success", "failure"}, Finish(b, how) PROVE P
  BY <1>4 DEF Finish, Goto
<1>5. ASSUME NEW b \in Attempts, Settle(b) \/ Crash(b) PROVE P
  BY <1>5 DEF Settle, SettleAs, Crash, Goto
<1>6. ASSUME NEW b \in Attempts, OutliveLease(b) PROVE P
  BY <1>6 DEF OutliveLease, attemptVars
<1>7. ASSUME LeaseLapses \/ Expire \/ UNCHANGED vars PROVE P
  BY <1>7 DEF LeaseLapses, Expire, vars, attemptVars
<1>8. P BY <1>1, <1>2, <1>3, <1>4, <1>5, <1>6, <1>7 DEF Next
<1> QED BY <1>0, <1>8

\* An attempt's numbers change only with its own step, and then as follows.
LEMMA NumbersStep ==
  ASSUME IInv, [Next]_vars, NEW a \in Attempts
  PROVE  /\ \/ mine'[a] = mine[a]
            \/ Create(a) /\ ~Present /\ mine'[a] = fresh + 1 /\ record'.hash = Hash[a]
            \/ /\ Present /\ record.lease = lapsed[a] /\ pc[a] = "reclaim"
               /\ record' = [record EXCEPT !.lease = fresh + 1, !.held = TRUE]
         /\ pc'[a] = "reclaim" =>
              /\ lapsed'[a] = lapsed[a]
              /\ pc[a] = "reclaim" \/ (Present /\ record' = record /\ record.hash = Hash[a])
<1> DEFINE M == \/ mine'[a] = mine[a]
                \/ Create(a) /\ ~Present /\ mine'[a] = fresh + 1 /\ record'.hash = Hash[a]
                \/ /\ Present /\ record.lease = lapsed[a] /\ pc[a] = "reclaim"
                   /\ record' = [record EXCEPT !.lease = fresh + 1, !.held = TRUE]
           R == pc'[a] = "reclaim" =>
                  /\ lapsed'[a] = lapsed[a]
                  /\ pc[a] = "reclaim" \/ (Present /\ record' = record /\ record.hash = Hash[a])
<1> USE DEF IInv, TypeOK
<1>1. ASSUME NEW b \in Attempts, Create(b) PROVE M /\ R
  <2>1. M BY <1>1 DEF Create, Hold
  <2>2. R BY <1>1 DEF Create, Hold, Goto
  <2> QED BY <2>1, <2>2
<1>2. ASSUME NEW b \in Attempts, Find(b) PROVE M /\ R
  <2>1. M BY <1>2 DEF Find, FindIf
  <2>2. R BY <1>2 DEF Find, FindIf, Answer, Goto, recordVars
  <2> QED BY <2>1, <2>2
<1>3. ASSUME NEW b \in Attempts, Reclaim(b) PROVE M /\ R
  <2>1. M BY <1>3 DEF Reclaim, ReclaimIf, Hold
  <2>2. R BY <1>3 DEF Reclaim, ReclaimIf, Answer, Hold, Goto
  <2> QED BY <2>1, <2>2
<1>4. ASSUME NEW b \in Attempts, NEW how \in {"success", "failure"}, Finish(b, how) PROVE M /\ R
  BY <1>4 DEF Finish, Goto
<1>5. ASSUME NEW b \in Attempts, Settle(b) \/ Crash(b) PROVE M /\ R
  BY <1>5 DEF Settle, SettleAs, Crash, Goto
<1>6. ASSUME NEW b \in Attempts, OutliveLease(b) PROVE M /\ R
  BY <1>6 DEF OutliveLease, attemptVars
<1>7. ASSUME LeaseLapses \/ Expire \/ UNCHANGED vars PROVE M /\ R
  BY <1>7 DEF LeaseLapses, Expire, vars, attemptVars
<1>8. M /\ R BY <1>1, <1>2, <1>3, <1>4, <1>5, <1>6, <1>7 DEF Next
<1> QED BY <1>8

LEMMA RequestInvStep ==
  ASSUME IInv, [Next]_vars PROVE RequestInv'
<1> SUFFICES ASSUME NEW a \in Attempts, Present'
             PROVE  /\ record'.id = mine'[a] => record'.hash = Hash[a]
                    /\ pc'[a] = "reclaim" /\ record'.lease = lapsed'[a] => record'.hash = Hash[a]
  BY DEF RequestInv
<1>t. /\ fresh \in Nat /\ mine[a] \in 0..fresh /\ lapsed[a] \in 0..fresh
      /\ Present => record \in Records /\ record.id \in 1..fresh
  BY PresentTyped DEF IInv, TypeOK, RecordInv
<1>q. Present => /\ record.id = mine[a] => record.hash = Hash[a]
                 /\ pc[a] = "reclaim" /\ record.lease = lapsed[a] => record.hash = Hash[a]
  BY DEF IInv, RequestInv
<1>1. CASE ~Present
  <2>1. PICK b \in Attempts :
          record' = [id |-> fresh + 1, hash |-> Hash[b], completed |-> FALSE,
                     lease |-> fresh + 1, held |-> TRUE, body |-> None]
    BY <1>1, RecordMovesStep DEF RecordMoves, Present
  <2>2. record'.id = fresh + 1 /\ record'.lease = fresh + 1 BY <2>1
  <2>3. mine'[a] = fresh + 1 => record'.hash = Hash[a] BY <1>1, <1>t, NumbersStep
  <2> QED BY <1>1, <1>t, <2>2, <2>3, NumbersStep
<1>2. CASE Present
  <2>1. record'.id = record.id /\ record'.hash = record.hash
        /\ record'.lease \in {record.lease, fresh + 1}
    BY <1>2, <1>t, RecordMovesStep DEF RecordMoves, Present, Records
  <2>2. record'.id = mine'[a] => record'.hash = Hash[a]
    BY <1>2, <1>q, <2>1, NumbersStep
  <2>3. ASSUME pc'[a] = "reclaim", record'.lease = lapsed'[a] PROVE record'.hash = Hash[a]
    <3>1. lapsed'[a] = lapsed[a] BY <2>3, NumbersStep
    <3>2. record'.lease = record.lease BY <1>t, <2>1, <2>3, <3>1
    <3> QED BY <1>2, <1>q, <2>1, <2>3, <3>1, <3>2, NumbersStep
  <2> QED BY <2>2, <2>3
<1> QED BY <1>1, <1>2

LEMMA IInvStep ==
  ASSUME IInv, [Next]_vars PROVE IInv'
  BY TypedStep, RecordInvStep, RequestInvStep, AnswerInvStep, ReplayIsOwnStep DEF IInv

\* The inductive invariant holds of every execution of the middleware.
THEOREM IdempotencyInvariant == Spec => []IInv
<1>1. Init => IInv BY InitIInv
<1>2. IInv /\ [Next]_vars => IInv' BY IInvStep
<1> QED BY <1>1, <1>2, PTL DEF Spec

\* Every execution keeps the types of the record and of the attempts' locals.
THEOREM IdempotencyTypeCorrect == Spec => []TypeOK
<1>1. IInv => TypeOK BY DEF IInv
<1> QED BY <1>1, IdempotencyInvariant, PTL

\* However many attempts carry the key, and whatever leases end under them, a
\* replayed response is that of an attempt of the same request that succeeded.
THEOREM IdempotencyReplayIsOwn == Spec => []ReplayIsOwn
<1>1. IInv => ReplayIsOwn BY DEF IInv
<1> QED BY <1>1, IdempotencyInvariant, PTL

-----------------------------------------------------------------------------
(* Leases, when none ends under a working handler.                         *)

\* Who starts to work in a step, and how.
LEMMA WorkStep ==
  ASSUME IInv, [Next]_vars, NEW a \in Attempts, Working(a)'
  PROVE  \/ Working(a) /\ mine'[a] = mine[a] /\ lease'[a] = lease[a]
         \/ /\ Create(a) /\ ~Present /\ mine'[a] = fresh + 1 /\ lease'[a] = fresh + 1
            /\ record' = [id |-> fresh + 1, hash |-> Hash[a], completed |-> FALSE,
                          lease |-> fresh + 1, held |-> TRUE, body |-> None]
         \/ /\ Reclaim(a) /\ mine'[a] = record.id /\ lease'[a] = fresh + 1
            /\ Present /\ ~record.completed /\ record.lease = lapsed[a]
            /\ record' = [record EXCEPT !.lease = fresh + 1, !.held = TRUE]
<1> DEFINE K == Working(a) /\ mine'[a] = mine[a] /\ lease'[a] = lease[a]
           C == /\ Create(a) /\ ~Present /\ mine'[a] = fresh + 1 /\ lease'[a] = fresh + 1
                /\ record' = [id |-> fresh + 1, hash |-> Hash[a], completed |-> FALSE,
                              lease |-> fresh + 1, held |-> TRUE, body |-> None]
           R == /\ Reclaim(a) /\ mine'[a] = record.id /\ lease'[a] = fresh + 1
                /\ Present /\ ~record.completed /\ record.lease = lapsed[a]
                /\ record' = [record EXCEPT !.lease = fresh + 1, !.held = TRUE]
<1> USE DEF IInv, TypeOK, AnswerInv, Working
<1>1. ASSUME NEW b \in Attempts, Create(b) PROVE K \/ C
  <2>1. CASE Present \/ a # b BY <1>1, <2>1 DEF Create, Hold, Goto
  <2>2. CASE ~Present /\ a = b BY <1>1, <2>2 DEF Create, Hold
  <2> QED BY <2>1, <2>2
<1>2. ASSUME NEW b \in Attempts, Find(b) PROVE K
  <2>1. mine' = mine /\ lease' = lease /\ mine[b] = 0 BY <1>2 DEF Find, FindIf
  <2>2. a # b => pc'[a] = pc[a] BY <1>2 DEF Find, FindIf, Answer, Goto
  <2> QED BY <2>1, <2>2
<1>3. ASSUME NEW b \in Attempts, Reclaim(b) PROVE K \/ R
  <2>1. a # b => pc'[a] = pc[a] BY <1>3 DEF Reclaim, ReclaimIf, Answer, Hold, Goto
  <2>2. a # b => mine'[a] = mine[a] /\ lease'[a] = lease[a] BY <1>3 DEF Reclaim, ReclaimIf, Hold
  <2>3. CASE a = b
    <3>1. pc'[b] # "done" BY <2>3
    <3>2. Present /\ ~record.completed /\ record.lease = lapsed[b]
      BY <1>3, <3>1 DEF Reclaim, ReclaimIf, Answer, Goto
    <3> QED BY <1>3, <2>3, <3>2 DEF Reclaim, ReclaimIf, Hold
  <2> QED BY <2>1, <2>2, <2>3
<1>4. ASSUME NEW b \in Attempts, NEW how \in {"success", "failure"}, Finish(b, how) PROVE K
  BY <1>4 DEF Finish, Goto
<1>5. ASSUME NEW b \in Attempts, Settle(b) \/ Crash(b) PROVE K
  BY <1>5 DEF Settle, SettleAs, Crash, Goto
<1>6. ASSUME NEW b \in Attempts, OutliveLease(b) PROVE K
  BY <1>6 DEF OutliveLease, attemptVars
<1>7. ASSUME LeaseLapses \/ Expire \/ UNCHANGED vars PROVE K
  BY <1>7 DEF LeaseLapses, Expire, vars, attemptVars
<1> QED BY <1>1, <1>2, <1>3, <1>4, <1>5, <1>6, <1>7 DEF Next

\* One attempt works, and no step but its own touches the record.
LEMMA HolderKeepsRecord ==
  ASSUME outlived' = 0, IInv, HolderInv, Exclusive, [Next]_vars, NEW a \in Attempts,
         Working(a), Working(a)'
  PROVE  record' = record
<1>t. outlived \in Nat /\ record \in Records /\ mine[a] # 0
  BY PresentTyped DEF IInv, TypeOK, HolderInv, Working
<1>w. \A b \in Attempts : Working(b) =>
        Present /\ record.id = mine[b] /\ record.lease = lease[b] /\ record.held /\ ~record.completed
  BY DEF HolderInv
<1>l. \A b \in Attempts : record.lease # lapsed[b] BY <1>w DEF HolderInv
<1> USE DEF IInv, TypeOK, Working
<1>1. ASSUME NEW b \in Attempts, Create(b) PROVE record' = record
  BY <1>1, <1>w DEF Create
<1>2. ASSUME NEW b \in Attempts, Find(b) \/ Crash(b) PROVE record' = record
  BY <1>2 DEF Find, FindIf, Crash, recordVars
<1>3. ASSUME NEW b \in Attempts, Reclaim(b) PROVE record' = record
  BY <1>3, <1>l DEF Reclaim, ReclaimIf
<1>4. ASSUME NEW b \in Attempts, NEW how \in {"success", "failure"}, Finish(b, how)
      PROVE record' = record
  BY <1>4 DEF Finish, recordVars
<1>5. ASSUME NEW b \in Attempts, Settle(b) PROVE FALSE
  <2>1. Working(b) /\ pc'[b] = "done" BY <1>5 DEF Settle, SettleAs, Goto, AnswerInv
  <2> QED BY <2>1 DEF Exclusive
<1>6. ASSUME NEW b \in Attempts, OutliveLease(b) PROVE FALSE
  BY <1>6, <1>t DEF OutliveLease
<1>7. ASSUME LeaseLapses PROVE FALSE
  BY <1>7, <1>w DEF LeaseLapses
<1>8. ASSUME Expire PROVE FALSE
  BY <1>8, <1>w DEF Expire
<1>9. ASSUME UNCHANGED vars PROVE record' = record
  BY <1>9 DEF vars, recordVars
<1> QED BY <1>1, <1>2, <1>3, <1>4, <1>5, <1>6, <1>7, <1>8, <1>9 DEF Next

LEMMA HolderStep ==
  ASSUME outlived' = 0, IInv, HolderInv, Exclusive, [Next]_vars PROVE Exclusive'
<1> SUFFICES ASSUME NEW a \in Attempts, NEW b \in Attempts, Working(a)', Working(b)' PROVE a = b
  BY DEF Exclusive
<1>1. ASSUME NEW c \in Attempts, Reclaim(c), Present, record.lease = lapsed[c],
             NEW d \in Attempts
      PROVE  ~Working(d)
  BY <1>1 DEF HolderInv
<1>2. ASSUME NEW c \in Attempts, ~Present PROVE ~Working(c)
  BY <1>2 DEF HolderInv
<1>3. ASSUME NEW c \in Attempts, NEW d \in Attempts, Create(c) /\ ~Present, Create(d) /\ ~Present
      PROVE  c = d
  <2>1. pc[c] = "start" /\ pc[d] = "start" /\ pc'[c] = "running" /\ pc'[d] = "running"
    BY <1>3 DEF Create, Hold, Goto, IInv, TypeOK
  <2> QED BY <1>3, <2>1 DEF Create, Hold, Goto, IInv, TypeOK
<1>4. ASSUME NEW c \in Attempts, NEW d \in Attempts, Reclaim(c), Reclaim(d) PROVE c = d
  <2>1. pc[c] = "reclaim" /\ pc[d] = "reclaim" /\ pc'[d] # "reclaim"
    BY <1>4 DEF Reclaim, ReclaimIf, Hold, Answer, Goto, IInv, TypeOK
  <2>2. c # d => pc'[d] = pc[d]
    BY <1>4 DEF Reclaim, ReclaimIf, Hold, Answer, Goto, IInv, TypeOK
  <2> QED BY <2>1, <2>2
<1>5. \A c \in Attempts : Working(c)' =>
        \/ Working(c)
        \/ Create(c) /\ ~Present
        \/ Reclaim(c) /\ Present /\ record.lease = lapsed[c]
  BY WorkStep
<1> QED BY <1>1, <1>2, <1>3, <1>4, <1>5 DEF Exclusive

LEMMA HolderInvStep ==
  ASSUME outlived' = 0, IInv, HolderInv, Exclusive, [Next]_vars PROVE HolderInv'
<1>t. /\ fresh \in Nat /\ fresh + 1 \in Nat /\ outlived \in Nat
      /\ Present => record \in Records /\ record.lease \in 1..fresh
  BY PresentTyped DEF IInv, TypeOK, RecordInv
<1>n. \A r \in Records : r # None BY NoneAssumption
<1>1. ASSUME NEW a \in Attempts, Working(a)'
      PROVE  /\ Present' /\ record'.id = mine'[a] /\ record'.lease = lease'[a]
             /\ record'.held /\ ~record'.completed
  <2>1. CASE Working(a) /\ mine'[a] = mine[a] /\ lease'[a] = lease[a]
    <3>1. record' = record BY <1>1, <2>1, HolderKeepsRecord
    <3> QED BY <2>1, <3>1 DEF HolderInv, Present
  <2>2. CASE /\ mine'[a] = fresh + 1 /\ lease'[a] = fresh + 1
             /\ record' = [id |-> fresh + 1, hash |-> Hash[a], completed |-> FALSE,
                           lease |-> fresh + 1, held |-> TRUE, body |-> None]
    <3>1. Hash[a] \in Hashes BY DEF Hashes
    <3>2. record' \in Records BY <1>t, <2>2, <3>1 DEF Records
    <3> QED BY <1>n, <2>2, <3>2 DEF Present
  <2>3. CASE /\ mine'[a] = record.id /\ lease'[a] = fresh + 1
             /\ Present /\ ~record.completed
             /\ record' = [record EXCEPT !.lease = fresh + 1, !.held = TRUE]
    <3>1. record' \in Records BY <1>t, <2>3 DEF Records
    <3>2. record'.id = record.id /\ record'.completed = record.completed
          /\ record'.lease = fresh + 1 /\ record'.held
      BY <1>t, <2>3 DEF Records
    <3> QED BY <1>n, <2>3, <3>1, <3>2 DEF Present
  <2> QED BY <1>1, <2>1, <2>2, <2>3, WorkStep
<1>2. ASSUME NEW a \in Attempts, Present', record'.lease = lapsed'[a]
      PROVE  ~record'.held
  <2>1. \/ lapsed'[a] = lapsed[a]
        \/ /\ Present /\ record' = record
           /\ lapsed'[a] = IF record.held THEN 0 ELSE record.lease
    <3> USE DEF IInv, TypeOK
    <3>1. ASSUME NEW b \in Attempts, Create(b)
          PROVE  \/ lapsed'[a] = lapsed[a]
                 \/ /\ Present /\ record' = record
                    /\ lapsed'[a] = IF record.held THEN 0 ELSE record.lease
      BY <3>1 DEF Create
    <3>2. ASSUME NEW b \in Attempts, Find(b) \/ Reclaim(b) \/ Settle(b) \/ Crash(b) \/ OutliveLease(b)
          PROVE  lapsed' = lapsed
      BY <3>2 DEF Find, FindIf, Reclaim, ReclaimIf, Settle, SettleAs, Crash, OutliveLease, attemptVars
    <3>3. ASSUME NEW b \in Attempts, NEW how \in {"success", "failure"}, Finish(b, how)
          PROVE  lapsed' = lapsed
      BY <3>3 DEF Finish
    <3>4. ASSUME LeaseLapses \/ Expire \/ UNCHANGED vars PROVE lapsed' = lapsed
      BY <3>4 DEF LeaseLapses, Expire, vars, attemptVars
    <3> QED BY <3>1, <3>2, <3>3, <3>4 DEF Next
  <2>2. CASE /\ Present /\ record' = record
             /\ lapsed'[a] = IF record.held THEN 0 ELSE record.lease
    BY <1>t, <1>2, <2>2
  <2>3. CASE lapsed'[a] = lapsed[a]
    <3>1. lapsed[a] \in 0..fresh BY DEF IInv, TypeOK
    <3>2. record'.lease # fresh + 1 BY <1>t, <1>2, <2>3, <3>1
    <3>3. Present
      <4> SUFFICES ASSUME ~Present PROVE FALSE
        OBVIOUS
      <4>1. PICK b \in Attempts :
              record' = [id |-> fresh + 1, hash |-> Hash[b], completed |-> FALSE,
                         lease |-> fresh + 1, held |-> TRUE, body |-> None]
        BY <1>2, RecordMovesStep DEF RecordMoves, Present
      <4> QED BY <3>2, <4>1
    <3>4. record'.lease = record.lease /\ (record'.held => record.held)
      BY <1>t, <1>2, <3>2, <3>3, RecordMovesStep DEF RecordMoves, Present, Records
    <3> QED BY <1>2, <2>3, <3>3, <3>4 DEF HolderInv
  <2> QED BY <2>1, <2>2, <2>3
<1> QED BY <1>1, <1>2 DEF HolderInv

\* The count of outlived leases never goes down.
LEMMA OutlivedGrows ==
  ASSUME IInv, [Next]_vars, outlived' = 0 PROVE outlived = 0
<1>t. outlived \in Nat BY DEF IInv, TypeOK
<1>1. ASSUME NEW b \in Attempts, Create(b) \/ Find(b) \/ Reclaim(b) \/ Settle(b) \/ Crash(b)
      PROVE  outlived' = outlived
  BY <1>1 DEF Create, Find, FindIf, Reclaim, ReclaimIf, Settle, SettleAs, Crash, budgetVars
<1>2. ASSUME NEW b \in Attempts, NEW how \in {"success", "failure"}, Finish(b, how)
      PROVE  outlived' = outlived
  BY <1>2 DEF Finish, budgetVars
<1>3. ASSUME NEW b \in Attempts, OutliveLease(b) PROVE FALSE
  BY <1>3, <1>t DEF OutliveLease
<1>4. ASSUME LeaseLapses \/ Expire \/ UNCHANGED vars PROVE outlived' = outlived
  BY <1>4 DEF LeaseLapses, Expire, vars, budgetVars
<1> QED BY <1>1, <1>2, <1>3, <1>4 DEF Next

\* While no lease has been outlived, attempts work one at a time and as HolderInv says.
HInv == IInv /\ (outlived = 0 => HolderInv /\ Exclusive)

LEMMA HInvInductive == (Init => HInv) /\ (HInv /\ [Next]_vars => HInv')
<1>1. Init => HInv
  <2>1. Init => Exclusive BY DEF Init, Exclusive, Working
  <2> QED BY <2>1, InitIInv DEF HInv
<1>2. HInv /\ [Next]_vars => HInv'
  <2> SUFFICES ASSUME HInv, [Next]_vars PROVE HInv'
    OBVIOUS
  <2>1. IInv' BY IInvStep DEF HInv
  <2>2. ASSUME outlived' = 0 PROVE HolderInv' /\ Exclusive'
    <3>1. HolderInv /\ Exclusive BY <2>2, OutlivedGrows DEF HInv
    <3> QED BY <2>2, <3>1, HolderInvStep, HolderStep DEF HInv
  <2> QED BY <2>1, <2>2 DEF HInv
<1> QED BY <1>1, <1>2

\* As long as no lease has ended under a working handler, one attempt works at a
\* time: what the lease of the record is for.
THEOREM IdempotencyOneHolder == Spec => []OneHolder
<1>1. HInv => OneHolder BY DEF HInv, OneHolder
<1> QED BY HInvInductive, <1>1, PTL DEF Spec

\* As long as no lease has ended under a working handler, a success that was
\* recorded is forgotten by its expiry only.
THEOREM IdempotencySuccessIsRemembered == Spec => SuccessIsRemembered
<1> DEFINE Remembers == outlived = 0 /\ Present /\ record.completed =>
                          (Present' /\ record'.completed) \/ expiries' > expiries
<1>1. HInv /\ [Next]_vars => [Remembers]_vars
  <2> SUFFICES ASSUME HInv, Next, outlived = 0, Present, record.completed
               PROVE  (Present' /\ record'.completed) \/ expiries' > expiries
    OBVIOUS
  <2>t. expiries \in Nat /\ record \in Records
    BY PresentTyped DEF HInv, IInv, TypeOK
  <2>n. \A r \in Records : r # None BY NoneAssumption
  <2>w. \A b \in Attempts : ~Working(b) BY DEF HInv, HolderInv
  <2>1. ASSUME NEW b \in Attempts, Create(b) \/ Find(b) \/ Crash(b) \/ Reclaim(b)
        PROVE  record' = record
    BY <2>1 DEF Create, Find, FindIf, Crash, Reclaim, ReclaimIf, recordVars
  <2>2. ASSUME NEW b \in Attempts, NEW how \in {"success", "failure"}, Finish(b, how)
        PROVE  record' = record
    BY <2>2 DEF Finish, recordVars
  <2>3. ASSUME NEW b \in Attempts, Settle(b) PROVE FALSE
    <3>1. Working(b) BY <2>3 DEF Settle, SettleAs, HInv, IInv, AnswerInv, Working
    <3> QED BY <2>w, <3>1
  <2>4. ASSUME NEW b \in Attempts, OutliveLease(b) PROVE FALSE
    BY <2>4 DEF OutliveLease
  <2>5. CASE LeaseLapses
    <3>1. record' = [record EXCEPT !.held = FALSE] BY <2>5 DEF LeaseLapses, LetGo
    <3>2. record' \in Records /\ record'.completed BY <2>t, <3>1 DEF Records
    <3> QED BY <2>n, <3>2 DEF Present
  <2>6. CASE Expire BY <2>t, <2>6 DEF Expire
  <2> QED BY <2>1, <2>2, <2>3, <2>4, <2>5, <2>6 DEF Next, Present
<1> QED BY HInvInductive, <1>1, PTL DEF Spec, SuccessIsRemembered

-----------------------------------------------------------------------------
(* The caches.                                                             *)

Versions == 0..MaxChanges
MaybeVersions == Versions \cup {-1}
LookSteps == {"start", "version", "answered", "data", "hit", "load", "loaded", "publish", "done"}
LookRecords == [pc : LookSteps, epoch : Nat, version : MaybeVersions, value : Int]

CacheConstants == At \in [Lookups -> Nodes] /\ MaxChanges \in Nat

CacheTypes ==
  /\ db \in Versions /\ version \in Versions
  /\ IsFiniteSet(owed) /\ version + Cardinality(owed) <= db
  /\ l2 \in [Versions -> Int] /\ born \in [Versions -> Versions]
  /\ l1 \in [Nodes -> [value : Int, under : MaybeVersions]]
  /\ memo \in [Nodes -> MaybeVersions] /\ epoch \in [Nodes -> Nat] /\ noted \in [Nodes -> Versions]
  /\ channel \in [Nodes -> Seq(Versions)]
  /\ look \in [Lookups -> LookRecords]

\* What is stored, announced or heard of is not of the future.
PastInv ==
  /\ \A v \in Versions : born[v] <= db /\ (l2[v] # -1 => v <= version /\ l2[v] >= born[v])
  /\ \A n \in Nodes : memo[n] <= version /\ noted[n] <= db
  /\ \A n \in Nodes : \A i \in 1..Len(channel[n]) : channel[n][i] <= db

\* What a lookup has loaded is as new as its version's change, and as what its process has heard of
\* unless that came after it began.
LookInv(k) ==
  /\ look[k].version <= version /\ look[k].epoch <= epoch[At[k]]
  /\ look[k].pc \in {"answered", "data", "hit", "load", "loaded", "publish"} => look[k].version # -1
  /\ look[k].pc \in {"loaded", "publish"} => look[k].value >= born[look[k].version]
  /\ look[k].pc = "loaded" /\ look[k].epoch = epoch[At[k]] => look[k].value >= noted[At[k]]

CacheInv ==
  CacheTypes /\ PastInv /\ Cache!LoadedIsFresh /\ \A k \in Lookups : LookInv(k)

LEMMA InitCache ==
  ASSUME CacheConstants, Cache!Init
  PROVE  CacheInv
<1> USE DEF CacheConstants, Cache!Init, Cache!Absent, Cache!Empty, Cache!Idle
<1>1. IsFiniteSet(owed) /\ Cardinality(owed) = 0 BY FS_EmptySet
<1>2. CacheTypes
  <2>1. version + Cardinality(owed) <= db BY <1>1
  <2>2. channel \in [Nodes -> Seq(Versions)] BY EmptySeq
  <2>3. look \in [Lookups -> LookRecords] BY DEF LookRecords, LookSteps, MaybeVersions
  <2>4. l1 \in [Nodes -> [value : Int, under : MaybeVersions]] BY DEF MaybeVersions
  <2> QED BY <1>1, <2>1, <2>2, <2>3, <2>4 DEF CacheTypes, Versions, MaybeVersions
<1>3. PastInv BY DEF PastInv, Versions
<1>4. Cache!LoadedIsFresh BY DEF Cache!LoadedIsFresh
<1>5. ASSUME NEW k \in Lookups PROVE LookInv(k) BY <1>5 DEF LookInv
<1> QED BY <1>2, <1>3, <1>4, <1>5 DEF CacheInv

\* A lookup goes on; what it writes is a tier's entry or the version remembered.
LEMMA LookupCache ==
  ASSUME CacheConstants, CacheInv, NEW k \in Lookups,
         \/ Cache!Begin(k) \/ Cache!ReadVersion(k) \/ Cache!Remember(k) \/ Cache!ReadData(k) \/ Cache!Hit(k)
         \/ Cache!Fails(k) \/ Cache!Load(k) \/ Cache!KeepLocal(k) \/ Cache!Publish(k)
  PROVE  CacheInv'
<1> USE DEF CacheConstants, Cache!Absent, Cache!Empty, Cache!Idle
<1>0. /\ CacheTypes /\ PastInv /\ Cache!LoadedIsFresh
      /\ \A q \in Lookups : LookInv(q)
      /\ look[k] \in LookRecords /\ At[k] \in Nodes
  BY DEF CacheInv, CacheTypes
<1>1. /\ UNCHANGED <<db, version, epoch, channel, noted, owed, born>>
      /\ look' = [look EXCEPT ![k] = look'[k]]
  BY <1>0 DEF CacheTypes, Cache!Begin, Cache!ReadVersion, Cache!Remember, Cache!ReadData, Cache!Hit, Cache!Fails, Cache!Load,
     Cache!KeepLocal, Cache!KeepIf, Cache!Publish
<1>2. look'[k] \in LookRecords /\ LookInv(k)'
  <2>a. /\ look[k].pc \in LookSteps /\ look[k].epoch \in Nat /\ look[k].version \in MaybeVersions
        /\ look[k].value \in Int /\ look[k] = [pc |-> look[k].pc, epoch |-> look[k].epoch,
                                               version |-> look[k].version, value |-> look[k].value]
    BY <1>0 DEF LookRecords
  <2>b. /\ version \in Versions /\ db \in Versions /\ db \in Int /\ version \in Int
        /\ epoch[At[k]] \in Nat /\ memo[At[k]] \in MaybeVersions /\ memo[At[k]] <= version
        /\ noted[At[k]] <= db /\ noted[At[k]] \in Int
        /\ \A v \in Versions : born[v] <= db /\ born[v] \in Int /\ l2[v] \in Int
    <3>1. Versions \subseteq Int BY DEF Versions
    <3> QED BY <1>0, <3>1 DEF CacheTypes, PastInv
  <2>e. /\ MaybeVersions \subseteq Int /\ Versions = MaybeVersions \ {-1} /\ 0 \in Versions /\ -1 \in MaybeVersions
        /\ 0 <= version /\ -1 <= version
    BY <2>b DEF Versions, MaybeVersions
  <2>c. LookInv(k) BY <1>0
  <2>d. look'[k] \in LookRecords <=> /\ look'[k].pc \in LookSteps /\ look'[k].epoch \in Nat
                                     /\ look'[k].version \in MaybeVersions /\ look'[k].value \in Int
                                     /\ look'[k] = [pc |-> look'[k].pc, epoch |-> look'[k].epoch,
                                                    version |-> look'[k].version, value |-> look'[k].value]
    BY DEF LookRecords
  <2> USE <1>1, <2>a, <2>b, <2>c, <2>d, <2>e DEF LookInv, LookSteps
  <2>1. CASE Cache!Begin(k)
    <3>1. \/ look'[k] = [pc |-> "done", epoch |-> 0, version |-> -1, value |-> -1]
          \/ look'[k] = [pc |-> "version", epoch |-> epoch[At[k]], version |-> memo[At[k]], value |-> -1]
          \/ /\ memo[At[k]] # -1
             /\ look'[k] = [pc |-> "data", epoch |-> epoch[At[k]], version |-> memo[At[k]], value |-> -1]
      BY <1>0, <2>1 DEF CacheTypes, Cache!Begin
    <3>2. look'[k] \in LookRecords BY <3>1
    <3>3. CASE look'[k].pc = "done" BY <3>1, <3>2, <3>3
    <3>4. CASE look'[k].pc # "done"
      <4>1. look'[k].pc \in {"version", "data"} /\ look'[k].epoch = epoch[At[k]] /\ look'[k].version = memo[At[k]]
        BY <3>1, <3>4
      <4>2. look'[k].pc = "data" => memo[At[k]] # -1 BY <3>1
      <4>3. look'[k].version <= version' /\ look'[k].epoch <= epoch'[At[k]] BY <4>1
      <4> QED BY <3>2, <4>1, <4>2, <4>3
    <3> QED BY <3>2, <3>3, <3>4
  <2>2. CASE Cache!ReadVersion(k)
    <3>1. look'[k] = [look[k] EXCEPT !.pc = "answered", !.version = version] BY <1>0, <2>2 DEF CacheTypes, Cache!ReadVersion
    <3>2. look'[k] \in LookRecords BY <2>a, <3>1
    <3>3. look'[k].pc = "answered" /\ look'[k].epoch = look[k].epoch /\ look'[k].version = version BY <2>a, <3>1
    <3> QED BY <3>2, <3>3
  <2>3. CASE Cache!Remember(k)
    <3>1. look[k].pc = "answered" /\ look'[k] = [look[k] EXCEPT !.pc = "data"] BY <1>0, <2>3 DEF CacheTypes, Cache!Remember
    <3> QED BY <2>a, <3>1
  <2>4. CASE Cache!ReadData(k)
    <3>1. look[k].version \in Versions BY <1>0, <2>4, <2>a DEF CacheTypes, Cache!ReadData
    <3>2. \E step \in {"load", "hit"} : look'[k] = [look[k] EXCEPT !.pc = step, !.value = l2[look[k].version]]
      BY <1>0, <2>4 DEF CacheTypes, Cache!ReadData
    <3>3. look[k].pc = "data" BY <1>0, <2>4 DEF CacheTypes, Cache!ReadData
    <3> QED BY <2>a, <3>1, <3>2, <3>3
  <2>5. CASE Cache!Hit(k)
    <3>1. look'[k] = [pc |-> "done", epoch |-> 0, version |-> -1, value |-> -1] BY <1>0, <2>5 DEF CacheTypes, Cache!Hit
    <3> QED BY <3>1
  <2>6. CASE Cache!Fails(k)
    <3>1. \/ look[k].pc = "version" /\ look'[k] = [look[k] EXCEPT !.pc = "load", !.version = 0]
          \/ look[k].pc = "data" /\ look'[k] = [look[k] EXCEPT !.pc = "load"]
      BY <1>0, <2>6, <2>a DEF CacheTypes, Cache!Fails
    <3>2. look'[k] \in LookRecords BY <2>a, <3>1
    <3>3. /\ look'[k].pc = "load" /\ look'[k].epoch = look[k].epoch
          /\ look'[k].version \in Versions /\ look'[k].version <= version
      BY <2>a, <3>1
    <3> QED BY <3>2, <3>3
  <2>7. CASE Cache!Load(k)
    <3>1. look[k].pc = "load" /\ look'[k] = [look[k] EXCEPT !.pc = "loaded", !.value = db] BY <1>0, <2>7 DEF CacheTypes, Cache!Load
    <3>2. look[k].version \in Versions BY <2>a, <3>1
    <3>3. look'[k] \in LookRecords BY <2>a, <3>1
    <3>4. /\ look'[k].pc = "loaded" /\ look'[k].epoch = look[k].epoch
          /\ look'[k].version = look[k].version /\ look'[k].value = db
      BY <2>a, <3>1
    <3> QED BY <3>2, <3>3, <3>4
  <2>8. CASE Cache!KeepLocal(k)
    <3>1. /\ look[k].pc = "loaded"
          /\ \/ look'[k] = [look[k] EXCEPT !.pc = "publish"]
             \/ look'[k] = [pc |-> "done", epoch |-> 0, version |-> -1, value |-> -1]
      BY <1>0, <2>8 DEF CacheTypes, Cache!KeepLocal, Cache!KeepIf
    <3>2. look'[k] \in LookRecords BY <2>a, <3>1
    <3>3. CASE look'[k].pc = "done" BY <3>1, <3>2, <3>3
    <3>4. CASE look'[k].pc # "done"
      <4>1. /\ look'[k].pc = "publish" /\ look'[k].epoch = look[k].epoch
            /\ look'[k].version = look[k].version /\ look'[k].value = look[k].value
        BY <2>a, <3>1, <3>4
      <4> QED BY <3>1, <3>2, <4>1
    <3> QED BY <3>2, <3>3, <3>4
  <2>9. CASE Cache!Publish(k)
    <3>1. look'[k] = [pc |-> "done", epoch |-> 0, version |-> -1, value |-> -1] BY <1>0, <2>9 DEF CacheTypes, Cache!Publish
    <3> QED BY <3>1
  <2> QED BY <2>1, <2>2, <2>3, <2>4, <2>5, <2>6, <2>7, <2>8, <2>9
<1>6. memo' \in [Nodes -> MaybeVersions] /\ \A n \in Nodes : memo'[n] <= version
  <2>1. CASE Cache!Remember(k)
    BY <2>1, <1>0 DEF Cache!Remember, CacheTypes, PastInv, LookInv, LookRecords
  <2>2. CASE ~Cache!Remember(k)
    <3>1. UNCHANGED memo
      BY <2>2 DEF Cache!Begin, Cache!ReadVersion, Cache!ReadData, Cache!Hit, Cache!Fails, Cache!Load, Cache!KeepLocal,
         Cache!KeepIf, Cache!Publish
    <3> QED BY <3>1, <1>0 DEF CacheTypes, PastInv
  <2> QED BY <2>1, <2>2
<1>7. l2' \in [Versions -> Int] /\ \A v \in Versions : l2'[v] # -1 => v <= version /\ l2'[v] >= born[v]
  <2>1. CASE Cache!Publish(k)
    BY <2>1, <1>0 DEF Cache!Publish, CacheTypes, PastInv, LookInv, LookRecords
  <2>2. CASE ~Cache!Publish(k)
    <3>1. UNCHANGED l2
      BY <2>2 DEF Cache!Begin, Cache!ReadVersion, Cache!Remember, Cache!ReadData, Cache!Hit, Cache!Fails, Cache!Load,
         Cache!KeepLocal, Cache!KeepIf
    <3> QED BY <3>1, <1>0 DEF CacheTypes, PastInv
  <2> QED BY <2>1, <2>2
<1>8. l1' \in [Nodes -> [value : Int, under : MaybeVersions]] /\ Cache!LoadedIsFresh'
  <2>1. CASE Cache!Hit(k)
    <3>1. look[k].version # -1 BY <2>1, <1>0 DEF LookInv, Cache!Hit
    <3>2. \/ UNCHANGED l1
          \/ l1' = [l1 EXCEPT ![At[k]] = [value |-> look[k].value, under |-> look[k].version]]
      BY <1>0, <2>1 DEF CacheTypes, Cache!Hit
    <3>3. l1' \in [Nodes -> [value : Int, under : MaybeVersions]]
      <4>1. [value |-> look[k].value, under |-> look[k].version] \in [value : Int, under : MaybeVersions]
        BY <1>0 DEF LookRecords
      <4> QED BY <4>1, <3>2, <1>0 DEF CacheTypes
    <3>4. ASSUME NEW n \in Nodes, l1'[n].value # -1, l1'[n].under = -1 PROVE l1'[n].value >= noted[n]
      <4>1. l1'[n] = l1[n] BY <3>1, <3>2, <3>4, <1>0 DEF CacheTypes
      <4> QED BY <4>1, <3>4, <1>0 DEF Cache!LoadedIsFresh
    <3> QED BY <3>3, <3>4, <1>1 DEF Cache!LoadedIsFresh
  <2>2. CASE Cache!KeepLocal(k)
    <3>1. \/ UNCHANGED l1
          \/ /\ l1' = [l1 EXCEPT ![At[k]] = [value |-> look[k].value, under |-> -1]]
             /\ look[k].pc = "loaded" /\ look[k].epoch = epoch[At[k]]
      BY <2>2 DEF Cache!KeepLocal, Cache!KeepIf
    <3>3. l1' \in [Nodes -> [value : Int, under : MaybeVersions]]
      <4>1. [value |-> look[k].value, under |-> -1] \in [value : Int, under : MaybeVersions]
        BY <1>0 DEF LookRecords, MaybeVersions
      <4> QED BY <4>1, <3>1, <1>0 DEF CacheTypes
    <3>4. ASSUME NEW n \in Nodes, l1'[n].value # -1, l1'[n].under = -1 PROVE l1'[n].value >= noted[n]
      <4>1. CASE l1'[n] = l1[n] BY <4>1, <3>4, <1>0 DEF Cache!LoadedIsFresh
      <4>2. CASE l1'[n] # l1[n]
        <5>1. n = At[k] /\ l1'[n].value = look[k].value BY <4>2, <3>1, <1>0 DEF CacheTypes
        <5> QED BY <5>1, <4>2, <3>1, <1>0 DEF LookInv
      <4> QED BY <4>1, <4>2
    <3> QED BY <3>3, <3>4, <1>1 DEF Cache!LoadedIsFresh
  <2>3. CASE ~Cache!Hit(k) /\ ~Cache!KeepLocal(k)
    <3>1. UNCHANGED l1
      BY <2>3 DEF Cache!Begin, Cache!ReadVersion, Cache!Remember, Cache!ReadData, Cache!Fails, Cache!Load, Cache!Publish
    <3> QED BY <3>1, <1>0, <1>1 DEF CacheTypes, Cache!LoadedIsFresh
  <2> QED BY <2>1, <2>2, <2>3
<1>3. CacheTypes' BY <1>0, <1>1, <1>2, <1>6, <1>7, <1>8 DEF CacheTypes
<1>4. PastInv' BY <1>0, <1>1, <1>6, <1>7 DEF PastInv
<1>5. ASSUME NEW q \in Lookups, q # k PROVE LookInv(q)'
  BY <1>0, <1>1, <1>5 DEF LookInv, CacheTypes
<1> QED BY <1>2, <1>3, <1>4, <1>5, <1>8 DEF CacheInv

\* An invalidation reaches process n, which forgets what it kept; what its lookups are at is older.
LEMMA ForgetsCache ==
  ASSUME CacheConstants, CacheInv, NEW n \in Nodes, NEW what \in Versions, what <= db, Cache!Forgets(n, what)
  PROVE  /\ l1' \in [Nodes -> [value : Int, under : MaybeVersions]] /\ memo' \in [Nodes -> MaybeVersions]
         /\ epoch' \in [Nodes -> Nat] /\ noted' \in [Nodes -> Versions]
         /\ \A o \in Nodes : noted'[o] <= db /\ (memo'[o] = memo[o] \/ memo'[o] = -1)
         /\ \A o \in Nodes : l1'[o].value # -1 => l1'[o] = l1[o] /\ noted'[o] = noted[o]
         /\ \A o \in Nodes : \/ epoch'[o] = epoch[o] /\ noted'[o] = noted[o]
                             \/ epoch'[o] = epoch[o] + 1
<1> USE DEF Cache!Absent, Cache!Empty, Cache!Forgets, CacheInv, CacheTypes, PastInv
<1>1. l1' \in [Nodes -> [value : Int, under : MaybeVersions]]
  <2>1. Cache!Empty \in [value : Int, under : MaybeVersions] BY DEF MaybeVersions
  <2> QED BY <2>1
<1>2. memo' \in [Nodes -> MaybeVersions] BY DEF MaybeVersions
<1>3. epoch' \in [Nodes -> Nat] /\ noted' \in [Nodes -> Versions]
  <2> HIDE DEF PastInv
  <2>1. epoch[n] \in Nat /\ noted[n] \in Versions OBVIOUS
  <2>2. epoch[n] + 1 \in Nat /\ (IF what > noted[n] THEN what ELSE noted[n]) \in Versions BY <2>1
  <2>3. epoch' = [epoch EXCEPT ![n] = epoch[n] + 1] OBVIOUS
  <2>4. noted' = [noted EXCEPT ![n] = IF what > noted[n] THEN what ELSE noted[n]] OBVIOUS
  <2> QED BY <2>2, <2>3, <2>4
<1>4. ASSUME NEW o \in Nodes
      PROVE  /\ noted'[o] <= db /\ (memo'[o] = memo[o] \/ memo'[o] = -1)
             /\ l1'[o].value # -1 => l1'[o] = l1[o] /\ noted'[o] = noted[o]
             /\ \/ epoch'[o] = epoch[o] /\ noted'[o] = noted[o]
                \/ epoch'[o] = epoch[o] + 1
  <2>1. CASE o = n BY <2>1
  <2>2. CASE o # n BY <2>2
  <2> QED BY <2>1, <2>2
<1> QED BY <1>1, <1>2, <1>3, <1>4

\* What the lookups know stays, when an invalidation is heard of and the version may go on.
LEMMA InvalidatedCache ==
  ASSUME CacheConstants, CacheInv, NEW n \in Nodes, NEW what \in Versions, what <= db, Cache!Forgets(n, what),
         UNCHANGED <<db, l2, look>>,
         \/ UNCHANGED <<version, born>>
         \/ version + 1 \in Versions /\ version' = version + 1 /\ born' = [born EXCEPT ![version + 1] = db]
  PROVE  /\ born' \in [Versions -> Versions]
         /\ \A v \in Versions : born'[v] <= db' /\ (l2'[v] # -1 => v <= version' /\ l2'[v] >= born'[v])
         /\ \A o \in Nodes : memo'[o] <= version' /\ noted'[o] <= db'
         /\ Cache!LoadedIsFresh' /\ \A k \in Lookups : LookInv(k)'
<1>0. /\ db \in Versions /\ version \in Versions /\ Versions \subseteq Int
      /\ \A v \in Versions : born[v] \in Versions /\ l2[v] \in Int
      /\ \A o \in Nodes : memo[o] \in MaybeVersions
      /\ MaybeVersions \subseteq Int /\ 0 <= version
  <2>1. Versions \subseteq Int /\ (\A v \in Versions : 0 <= v) /\ MaybeVersions \subseteq Int
    BY DEF Versions, MaybeVersions
  <2> QED BY <2>1 DEF CacheInv, CacheTypes
<1>1. version' \in Versions /\ version <= version' /\ version' \in Int /\ version \in Int BY <1>0
<1>2. born' \in [Versions -> Versions] BY <1>0 DEF CacheInv, CacheTypes
<1>3. ASSUME NEW v \in Versions
      PROVE  born'[v] <= db' /\ (v <= version => born'[v] = born[v])
  BY <1>0 DEF CacheInv, CacheTypes, PastInv
<1>4. ASSUME NEW v \in Versions
      PROVE  born'[v] <= db' /\ (l2'[v] # -1 => v <= version' /\ l2'[v] >= born'[v])
  <2>1. l2'[v] # -1 => v <= version /\ l2'[v] >= born[v] BY DEF CacheInv, PastInv
  <2>2. v \in Int BY <1>0
  <2> QED BY <1>1, <1>3, <2>1, <2>2
<1>5. ASSUME NEW o \in Nodes PROVE memo'[o] <= version' /\ noted'[o] <= db'
  <2>1. noted'[o] <= db /\ (memo'[o] = memo[o] \/ memo'[o] = -1) BY ForgetsCache
  <2>2. memo[o] <= version /\ memo[o] \in Int BY <1>0 DEF CacheInv, PastInv
  <2> QED BY <1>0, <1>1, <2>1, <2>2
<1>6. Cache!LoadedIsFresh'
  BY ForgetsCache DEF CacheInv, Cache!LoadedIsFresh, Cache!Absent
<1>7. ASSUME NEW k \in Lookups PROVE LookInv(k)'
  <2>1. /\ look[k] \in LookRecords /\ LookInv(k) /\ At[k] \in Nodes /\ epoch[At[k]] \in Nat
        /\ look[k].version \in MaybeVersions /\ look[k].epoch \in Nat /\ look[k].value \in Int
    BY DEF CacheInv, CacheTypes, CacheConstants, LookRecords
  <2>2. \/ epoch'[At[k]] = epoch[At[k]] /\ noted'[At[k]] = noted[At[k]]
        \/ epoch'[At[k]] = epoch[At[k]] + 1
    BY <2>1, ForgetsCache
  <2>3. look[k].version <= version' /\ look[k].epoch <= epoch'[At[k]]
    <3>1. look[k].version \in Int BY <2>1, <1>0
    <3> QED BY <2>1, <2>2, <3>1, <1>0, <1>1 DEF LookInv
  <2>4. look[k].pc \in {"loaded", "publish"} => look[k].value >= born'[look[k].version]
    <3>1. look[k].version # -1 => look[k].version \in Versions BY <2>1 DEF MaybeVersions
    <3> QED BY <2>1, <3>1, <1>3 DEF LookInv
  <2>5. look[k].pc = "loaded" /\ look[k].epoch = epoch'[At[k]] => look[k].value >= noted'[At[k]]
    BY <2>1, <2>2 DEF LookInv
  <2> QED BY <2>1, <2>3, <2>4, <2>5 DEF LookInv
<1> QED BY <1>2, <1>4, <1>5, <1>6, <1>7

LEMMA EmitCache ==
  ASSUME CacheConstants, CacheInv, NEW n \in Nodes, Cache!Emit(n)
  PROVE  CacheInv'
<1>0. CacheTypes /\ PastInv /\ db \in Versions /\ db \in Nat /\ version \in Nat /\ db <= MaxChanges
  <2>1. CacheTypes /\ PastInv BY DEF CacheInv
  <2>2. db \in Versions /\ version \in Versions BY <2>1 DEF CacheTypes
  <2> QED BY <2>1, <2>2 DEF Versions, CacheConstants
<1>1. /\ Cache!Forgets(n, db) /\ UNCHANGED <<db, l2, look>> /\ n \in owed /\ owed' = owed \ {n}
      /\ \E reached \in {Nodes \ {n}, {}} :
           channel' = [o \in Nodes |-> IF o \in reached THEN Append(channel[o], db) ELSE channel[o]]
      /\ \/ UNCHANGED <<version, born>>
         \/ version' = version + 1 /\ born' = [born EXCEPT ![version + 1] = db]
  BY DEF Cache!Emit
<1>2. /\ IsFiniteSet(owed') /\ Cardinality(owed') = Cardinality(owed) - 1 /\ Cardinality(owed) \in Nat
      /\ Cardinality(owed') \in Nat
  BY <1>0, <1>1, FS_RemoveElement, FS_CardinalityType DEF CacheTypes
<1>3. version + 1 \in Versions /\ version' + Cardinality(owed') <= db' /\ version' \in Versions
  <2>1. version + Cardinality(owed) <= db /\ MaxChanges \in Nat BY <1>0 DEF CacheTypes, CacheConstants
  <2>2. Cardinality(owed) >= 1 BY <1>2
  <2>3. version + 1 \in Versions BY <1>0, <2>1, <2>2, <1>2 DEF Versions
  <2>4. CASE version' = version BY <1>0, <1>1, <1>2, <2>1, <2>3, <2>4 DEF CacheTypes
  <2>5. CASE version' = version + 1 BY <1>0, <1>1, <1>2, <2>1, <2>3, <2>5
  <2> QED BY <1>1, <2>4, <2>5
<1>4. /\ born' \in [Versions -> Versions]
      /\ \A v \in Versions : born'[v] <= db' /\ (l2'[v] # -1 => v <= version' /\ l2'[v] >= born'[v])
      /\ \A o \in Nodes : memo'[o] <= version' /\ noted'[o] <= db'
      /\ Cache!LoadedIsFresh' /\ \A k \in Lookups : LookInv(k)'
  BY <1>0, <1>1, <1>3, InvalidatedCache
<1>5. ASSUME NEW o \in Nodes
      PROVE  channel'[o] \in Seq(Versions) /\ \A i \in 1..Len(channel'[o]) : channel'[o][i] <= db
  <2>1. channel[o] \in Seq(Versions) /\ \A i \in 1..Len(channel[o]) : channel[o][i] <= db
    BY <1>0 DEF CacheTypes, PastInv
  <2>2. CASE channel'[o] = channel[o] BY <2>1, <2>2
  <2>3. CASE channel'[o] = Append(channel[o], db)
    <3>1. /\ channel'[o] \in Seq(Versions) /\ Len(channel'[o]) = Len(channel[o]) + 1
          /\ \A i \in 1..Len(channel[o]) : channel'[o][i] = channel[o][i]
          /\ channel'[o][Len(channel[o]) + 1] = db
      BY <1>0, <2>1, <2>3, AppendProperties
    <3>2. Len(channel[o]) \in Nat BY <2>1
    <3> QED BY <1>0, <2>1, <3>1, <3>2
  <2> QED BY <1>1, <2>2, <2>3
<1>6. channel' \in [Nodes -> Seq(Versions)] BY <1>1, <1>5
<1>7. CacheTypes'
  <2>1. /\ l1' \in [Nodes -> [value : Int, under : MaybeVersions]] /\ memo' \in [Nodes -> MaybeVersions]
        /\ epoch' \in [Nodes -> Nat] /\ noted' \in [Nodes -> Versions]
    BY <1>0, <1>1, ForgetsCache
  <2> QED BY <1>0, <1>1, <1>2, <1>3, <1>4, <1>6, <2>1 DEF CacheTypes
<1>8. PastInv' BY <1>1, <1>4, <1>5 DEF PastInv
<1> QED BY <1>4, <1>7, <1>8 DEF CacheInv

LEMMA ReceiveCache ==
  ASSUME CacheConstants, CacheInv, NEW n \in Nodes, Cache!Receive(n)
  PROVE  CacheInv'
<1>0. CacheTypes /\ PastInv BY DEF CacheInv
<1>1. /\ channel[n] # <<>> /\ Cache!Forgets(n, Head(channel[n])) /\ channel' = [channel EXCEPT ![n] = Tail(@)]
      /\ UNCHANGED <<db, version, l2, bumping, lost, owed, born, look>>
  BY DEF Cache!Receive
<1>2. channel[n] \in Seq(Versions) BY <1>0 DEF CacheTypes
<1>3. Head(channel[n]) \in Versions /\ Head(channel[n]) <= db
  <2>1. Len(channel[n]) \in Nat \ {0} /\ Head(channel[n]) = channel[n][1] BY <1>1, <1>2, EmptySeq
  <2> QED BY <1>0, <1>2, <2>1 DEF PastInv
<1>4. /\ born' \in [Versions -> Versions]
      /\ \A v \in Versions : born'[v] <= db' /\ (l2'[v] # -1 => v <= version' /\ l2'[v] >= born'[v])
      /\ \A o \in Nodes : memo'[o] <= version' /\ noted'[o] <= db'
      /\ Cache!LoadedIsFresh' /\ \A k \in Lookups : LookInv(k)'
  BY <1>1, <1>3, InvalidatedCache
<1>5. ASSUME NEW o \in Nodes
      PROVE  channel'[o] \in Seq(Versions) /\ \A i \in 1..Len(channel'[o]) : channel'[o][i] <= db
  <2>1. channel[o] \in Seq(Versions) /\ \A i \in 1..Len(channel[o]) : channel[o][i] <= db
    BY <1>0 DEF CacheTypes, PastInv
  <2>2. CASE o # n BY <1>0, <1>1, <2>1, <2>2 DEF CacheTypes
  <2>3. CASE o = n
    <3>1. channel'[o] = Tail(channel[o]) BY <1>0, <1>1, <2>3 DEF CacheTypes
    <3>2. /\ channel'[o] \in Seq(Versions) /\ Len(channel'[o]) = Len(channel[o]) - 1
          /\ \A i \in 1..Len(channel'[o]) : channel'[o][i] = channel[o][i + 1]
      <4>1. /\ Tail(channel[o]) \in Seq(Versions) /\ Len(Tail(channel[o])) = Len(channel[o]) - 1
            /\ \A i \in 1..Len(Tail(channel[o])) : Tail(channel[o])[i] = channel[o][i + 1]
        BY <1>1, <2>1, <2>3, HeadTailProperties
      <4> QED BY <3>1, <4>1
    <3>3. Len(channel[o]) \in Nat BY <2>1
    <3>4. ASSUME NEW i \in 1..Len(channel'[o]) PROVE channel'[o][i] <= db
      <4>1. i + 1 \in 1..Len(channel[o]) BY <3>2, <3>3, <3>4
      <4>2. channel'[o][i] = channel[o][i + 1] BY <3>2, <3>4
      <4> QED BY <2>1, <4>1, <4>2
    <3> QED BY <3>2, <3>4
  <2> QED BY <2>2, <2>3
<1>6. channel' \in [Nodes -> Seq(Versions)] BY <1>0, <1>1, <1>5 DEF CacheTypes
<1>7. CacheTypes' BY <1>0, <1>1, <1>3, <1>4, <1>6, ForgetsCache DEF CacheTypes
<1>8. PastInv' BY <1>1, <1>4, <1>5 DEF PastInv
<1> QED BY <1>4, <1>7, <1>8 DEF CacheInv

\* The data changes, an answer of Redis comes, or an entry's time is over.
LEMMA OtherCache ==
  ASSUME CacheConstants, CacheInv,
         Cache!Expire \/ \E n \in Nodes : Cache!Change(n) \/ Cache!Bumped(n)
  PROVE  CacheInv'
<1> USE DEF Cache!Absent, Cache!Empty
<1>0. CacheTypes /\ PastInv /\ Cache!LoadedIsFresh /\ \A k \in Lookups : LookInv(k) BY DEF CacheInv
<1>1. ASSUME NEW n \in Nodes, Cache!Change(n) PROVE CacheInv'
  <2>1. /\ db' = db + 1 /\ db < MaxChanges /\ owed' = owed \cup {n} /\ n \notin owed
        /\ UNCHANGED <<version, l2, l1, memo, epoch, channel, noted, bumping, lost, born, look>>
    BY <1>1 DEF Cache!Change
  <2>2. IsFiniteSet(owed') /\ Cardinality(owed') = Cardinality(owed) + 1 /\ Cardinality(owed) \in Nat
    BY <1>0, <2>1, FS_AddElement, FS_CardinalityType DEF CacheTypes
  <2>3. db' \in Versions /\ db <= db' /\ db \in Int BY <1>0, <2>1 DEF CacheTypes, Versions, CacheConstants
  <2>4. CacheTypes' 
    <3>1. version + Cardinality(owed') <= db' BY <1>0, <2>1, <2>2 DEF CacheTypes, Versions
    <3> QED BY <1>0, <2>1, <2>2, <2>3, <3>1 DEF CacheTypes
  <2>5. PastInv'
    <3>1. ASSUME NEW x \in Versions, x <= db PROVE x <= db' BY <2>3, <3>1 DEF Versions
    <3>2. \A n1 \in Nodes : \A i \in 1..Len(channel[n1]) : channel[n1][i] \in Versions
      BY <1>0, ElementOfSeq DEF CacheTypes
    <3> QED BY <1>0, <2>1, <3>1, <3>2 DEF PastInv, CacheTypes
  <2>6. Cache!LoadedIsFresh' BY <1>0, <2>1 DEF Cache!LoadedIsFresh
  <2>7. \A k \in Lookups : LookInv(k)' BY <1>0, <2>1 DEF LookInv
  <2> QED BY <2>4, <2>5, <2>6, <2>7 DEF CacheInv
<1>2. ASSUME UNCHANGED <<db, version, epoch, channel, noted, owed, born, look>>,
             \/ UNCHANGED <<l2, memo>> /\ \E n \in Nodes : l1' = [l1 EXCEPT ![n] = Cache!Empty]
             \/ UNCHANGED <<l1, l2>> /\ \E n \in Nodes : memo' = [memo EXCEPT ![n] = -1]
             \/ UNCHANGED <<l1, memo>> /\ \E v \in Versions : l2' = [l2 EXCEPT ![v] = -1]
      PROVE  CacheInv'
  <2>1. CacheTypes'
    <3>1. Cache!Empty \in [value : Int, under : MaybeVersions] BY DEF MaybeVersions
    <3> QED BY <1>0, <1>2, <3>1 DEF CacheTypes, MaybeVersions
  <2>2. PastInv'
    <3>1. version \in Nat BY <1>0 DEF CacheTypes, Versions
    <3>2. ASSUME NEW n \in Nodes PROVE memo'[n] = memo[n] \/ memo'[n] = -1 BY <1>0, <1>2 DEF CacheTypes
    <3>3. ASSUME NEW v \in Versions PROVE l2'[v] = l2[v] \/ l2'[v] = -1 BY <1>0, <1>2 DEF CacheTypes
    <3> QED BY <1>0, <1>2, <3>1, <3>2, <3>3 DEF PastInv
  <2>3. Cache!LoadedIsFresh'
    <3>1. ASSUME NEW n \in Nodes PROVE l1'[n] = l1[n] \/ l1'[n].value = -1 BY <1>0, <1>2 DEF CacheTypes
    <3> QED BY <1>0, <1>2, <3>1 DEF Cache!LoadedIsFresh
  <2>4. \A k \in Lookups : LookInv(k)' BY <1>0, <1>2 DEF LookInv
  <2> QED BY <2>1, <2>2, <2>3, <2>4 DEF CacheInv
<1>3. CASE Cache!Expire BY <1>0, <1>2, <1>3 DEF Cache!Expire, CacheTypes
<1>4. ASSUME NEW n \in Nodes, Cache!Bumped(n) PROVE CacheInv' BY <1>2, <1>4 DEF Cache!Bumped
<1> QED BY <1>1, <1>3, <1>4

LEMMA NextCache ==
  ASSUME CacheConstants, CacheInv, [Cache!Next]_(Cache!cacheVars)
  PROVE  CacheInv'
<1>1. CASE UNCHANGED Cache!cacheVars
  BY <1>1 DEF Cache!cacheVars, CacheInv, CacheTypes, PastInv, LookInv, Cache!LoadedIsFresh
<1>2. CASE Cache!Next
  BY <1>2, LookupCache, EmitCache, ReceiveCache, OtherCache DEF Cache!Next
<1> QED BY <1>1, <1>2

\* What the caches keep is as new as the invalidations that were heard of: a version's entry in Redis as
\* the change that made the version, what a process loaded as the last change it was told of
\* (cache.service.ts's epoch and version), for any number of processes, lookups, changes and losses.
THEOREM CachesKeptIsFresh ==
  ASSUME CacheConstants
  PROVE  Cache!Init /\ [][Cache!Next]_(Cache!cacheVars) => []KeptIsFresh
<1>1. Cache!Init => CacheInv BY InitCache
<1>2. CacheInv /\ [Cache!Next]_(Cache!cacheVars) => CacheInv' BY NextCache
<1>3. CacheInv => KeptIsFresh
  BY DEF CacheInv, CacheTypes, PastInv, KeptIsFresh, Cache!KeptIsFresh, Cache!PublishedIsFresh, Cache!Absent
<1> QED BY <1>1, <1>2, <1>3, PTL

-----------------------------------------------------------------------------
(* Access.                                                                 *)

RoleRecords == [active : BOOLEAN, keys : SUBSET Watched]
MemberRecords ==
  [on : BOOLEAN, profileOn : BOOLEAN, session : BOOLEAN, roles : SUBSET Roles, userRoles : SUBSET Roles]

AccessTypes ==
  /\ role \in [Roles -> RoleRecords]
  /\ member \in MemberRecords
  /\ \A a \in Administrators : adm[a].roles \subseteq Roles /\ adm[a].key \in Watched \cup {<<>>}
  /\ DOMAIN adm = Administrators /\ DOMAIN accessReq = StaffRequests
  /\ \A r \in StaffRequests : DOMAIN accessReq[r] = {"pc", "need", "roles"}

\* What is so at this moment is remembered.
Covered(r) ==
  /\ member.on /\ member.session => since[r].signedIn
  /\ member.profileOn => since[r].on
  /\ member.roles \subseteq since[r].held
  /\ \A x \in Roles, k \in Watched : role[x].active /\ k \in role[x].keys => <<x, k>> \in since[r].gives

\* What a request has found so far was so since it started.
ReqInv(r) ==
  /\ accessReq[r].pc \in {"token", "profile", "roles"} => Covered(r) /\ accessReq[r].need \in Watched
  /\ accessReq[r].pc \in {"profile", "roles", "allowed"} => since[r].signedIn
  /\ accessReq[r].pc \in {"roles", "allowed"} => since[r].on
  /\ accessReq[r].pc = "roles" => accessReq[r].roles \subseteq since[r].held \cap Roles
  /\ accessReq[r].pc = "allowed" =>
       \E x \in since[r].held : <<x, accessReq[r].need>> \in since[r].gives

AccessInv == AccessTypes /\ \A r \in StaffRequests : ReqInv(r)

LEMMA InitAccess == Admission!Init => AccessInv
<1> SUFFICES ASSUME Admission!Init PROVE AccessInv
  OBVIOUS
<1>1. role \in [Roles -> RoleRecords] BY DEF Admission!Init, RoleRecords
<1>2. member \in MemberRecords BY DEF Admission!Init, MemberRecords
<1>3. /\ \A a \in Administrators : adm[a].roles \subseteq Roles /\ adm[a].key \in Watched \cup {<<>>}
      /\ DOMAIN adm = Administrators /\ DOMAIN accessReq = StaffRequests
      /\ \A r \in StaffRequests : DOMAIN accessReq[r] = {"pc", "need", "roles"}
  BY DEF Admission!Init, Admission!Quiet, Admission!Fresh
<1>4. ASSUME NEW r \in StaffRequests PROVE ReqInv(r)
  BY DEF Admission!Init, Admission!Fresh, ReqInv
<1> QED BY <1>1, <1>2, <1>3, <1>4 DEF AccessInv, AccessTypes

\* What is remembered after a step, of a request that is neither new nor refused and has no answer.
LEMMA RemembersAccess ==
  ASSUME AccessTypes', NEW r \in StaffRequests, Admission!Remembers,
         accessReq'[r].pc \notin {"new", "refused"}
  PROVE  /\ accessReq[r].pc = "allowed" => since'[r] = since[r]
         /\ accessReq[r].pc # "allowed" =>
              /\ Covered(r)'
              /\ since[r].signedIn => since'[r].signedIn
              /\ since[r].on => since'[r].on
              /\ since[r].held \subseteq since'[r].held /\ since[r].gives \subseteq since'[r].gives
<1>1. CASE accessReq[r].pc = "allowed" BY <1>1 DEF Admission!Remembers
<1>2. CASE accessReq[r].pc # "allowed"
  <2>1. since'[r] = [signedIn |-> since[r].signedIn \/ (member'.on /\ member'.session),
                     on |-> since[r].on \/ member'.profileOn,
                     held |-> since[r].held \cup member'.roles,
                     gives |-> since[r].gives \cup
                       {g \in Roles \X Watched : role'[g[1]].active /\ g[2] \in role'[g[1]].keys}]
    BY <1>2 DEF Admission!Remembers, Admission!And, Admission!Now
  <2>2. /\ since'[r].signedIn <=> since[r].signedIn \/ (member'.on /\ member'.session)
        /\ since'[r].on <=> since[r].on \/ member'.profileOn
    <3>1. since'[r].signedIn = (since[r].signedIn \/ (member'.on /\ member'.session)) BY <2>1
    <3>2. since'[r].on = (since[r].on \/ member'.profileOn) BY <2>1
    <3> QED BY <3>1, <3>2, Zenon
  <2>3. since'[r].held = since[r].held \cup member'.roles BY <2>1
  <2>4. since'[r].gives = since[r].gives \cup
          {g \in Roles \X Watched : role'[g[1]].active /\ g[2] \in role'[g[1]].keys}
    BY <2>1
  <2>5. \A x \in Roles, k \in Watched : role'[x].active /\ k \in role'[x].keys => <<x, k>> \in since'[r].gives
    BY <2>4
  <2> QED BY <1>2, <2>2, <2>3, <2>4, <2>5 DEF Covered
<1> QED BY <1>1, <1>2

\* A step of request r.
LEMMA RequestAccess ==
  ASSUME AccessInv, NEW r \in StaffRequests, Admission!Remembers,
         \/ \E k \in Watched : Admission!Start(r, k)
         \/ Admission!AuthenticateToken(r) \/ Admission!ReadProfile(r) \/ Admission!ResolveAccess(r)
  PROVE  AccessInv'
<1>1. /\ UNCHANGED <<role, member, adm>> /\ DOMAIN accessReq' = StaffRequests
      /\ \A q \in StaffRequests \ {r} : accessReq'[q] = accessReq[q]
      /\ accessReq[r].pc # "allowed" /\ DOMAIN accessReq'[r] = {"pc", "need", "roles"}
  BY DEF Admission!Fresh,  AccessInv, AccessTypes, Admission!Start, Admission!AuthenticateToken, Admission!ReadProfile,
     Admission!ResolveAccess, Admission!Refused
<1>2. AccessTypes' BY <1>1 DEF AccessInv, AccessTypes
<1>3. ASSUME NEW q \in StaffRequests, q # r PROVE ReqInv(q)'
  <2>1. accessReq'[q] = accessReq[q] /\ ReqInv(q) BY <1>1, <1>3 DEF AccessInv
  <2>2. CASE accessReq[q].pc \in {"new", "refused"} BY <2>1, <2>2 DEF ReqInv
  <2>3. CASE accessReq[q].pc \notin {"new", "refused"}
    BY <1>2, <2>1, <2>3, RemembersAccess DEF ReqInv
  <2> QED BY <2>2, <2>3
<1>4. ReqInv(r)'
  <2>1. CASE accessReq'[r].pc = "refused" BY <2>1 DEF ReqInv
  <2>2. CASE accessReq'[r].pc # "refused"
    <3>1. \/ /\ accessReq'[r].pc = "token" /\ accessReq'[r].need \in Watched
          \/ /\ accessReq[r].pc = "token" /\ accessReq'[r].pc = "profile" /\ accessReq'[r].need = accessReq[r].need
             /\ member.session /\ member.on
          \/ /\ accessReq[r].pc = "profile" /\ accessReq'[r].pc = "roles" /\ accessReq'[r].need = accessReq[r].need
             /\ member.profileOn /\ accessReq'[r].roles = member.roles
          \/ /\ accessReq[r].pc = "roles" /\ accessReq'[r].pc = "allowed" /\ accessReq'[r].need = accessReq[r].need
             /\ \E x \in accessReq[r].roles : role[x].active /\ accessReq[r].need \in role[x].keys
      <4> USE <2>2 DEF AccessInv, AccessTypes, Admission!Refused, Admission!Fresh
      <4>1. CASE \E k \in Watched : Admission!Start(r, k)
        <5>1. PICK k \in Watched : accessReq' = [accessReq EXCEPT ![r].pc = "token", ![r].need = k]
          BY <4>1 DEF Admission!Start
        <5>2. accessReq'[r].pc = "token" /\ accessReq'[r].need = k BY <5>1
        <5> QED BY <5>2
      <4>2. CASE Admission!AuthenticateToken(r)
        <5>1. accessReq[r].pc = "token" /\ accessReq'[r].pc = "profile" /\ accessReq'[r].need = accessReq[r].need
          BY <4>2 DEF Admission!AuthenticateToken
        <5>2. member.session /\ member.on BY <4>2 DEF Admission!AuthenticateToken
        <5> QED BY <5>1, <5>2
      <4>3. CASE Admission!ReadProfile(r)
        <5>1. /\ accessReq[r].pc = "profile" /\ accessReq'[r].pc = "roles" /\ accessReq'[r].need = accessReq[r].need
              /\ accessReq'[r].roles = member.roles
          BY <4>3 DEF Admission!ReadProfile
        <5>2. member.profileOn BY <4>3 DEF Admission!ReadProfile
        <5> QED BY <5>1, <5>2
      <4>4. CASE Admission!ResolveAccess(r)
        <5>1. accessReq[r].pc = "roles" BY <4>4 DEF Admission!ResolveAccess
        <5>2. accessReq' = [accessReq EXCEPT ![r].pc = "allowed"]
              /\ accessReq[r].need \in Admission!PermissionsOf(accessReq[r].roles)
          BY <4>4 DEF Admission!ResolveAccess, Admission!Fresh
        <5>3. \E x \in accessReq[r].roles : role[x].active /\ accessReq[r].need \in role[x].keys
          BY <5>2 DEF Admission!PermissionsOf
        <5> QED BY <5>1, <5>2, <5>3
      <4> QED BY <4>1, <4>2, <4>3, <4>4
    <3>2. /\ Covered(r)'
          /\ since[r].signedIn => since'[r].signedIn
          /\ since[r].on => since'[r].on
          /\ since[r].held \subseteq since'[r].held /\ since[r].gives \subseteq since'[r].gives
      BY <1>1, <1>2, <3>1, RemembersAccess
    <3>3. ReqInv(r) /\ member.roles \subseteq Roles BY DEF AccessInv, AccessTypes, MemberRecords
    <3>4. CASE accessReq'[r].pc = "token" BY <3>1, <3>2, <3>4 DEF ReqInv
    <3>5. CASE accessReq'[r].pc = "profile" BY <1>1, <3>1, <3>2, <3>3, <3>5 DEF ReqInv, Covered
    <3>6. CASE accessReq'[r].pc = "roles" BY <1>1, <3>1, <3>2, <3>3, <3>6 DEF ReqInv, Covered
    <3>7. CASE accessReq'[r].pc = "allowed"
      <4>1. PICK x \in accessReq[r].roles : role[x].active /\ accessReq[r].need \in role[x].keys
        BY <3>1, <3>7
      <4>2. x \in since[r].held /\ x \in Roles /\ accessReq[r].need \in Watched /\ Covered(r)
        BY <3>1, <3>3, <3>7, <4>1 DEF ReqInv
      <4>3. <<x, accessReq[r].need>> \in since[r].gives BY <4>1, <4>2 DEF Covered
      <4>4. x \in since'[r].held /\ <<x, accessReq'[r].need>> \in since'[r].gives BY <3>1, <3>2, <3>7, <4>2, <4>3
      <4>5. since'[r].signedIn /\ since'[r].on BY <3>1, <3>2, <3>3, <3>7 DEF ReqInv
      <4> QED BY <3>7, <4>4, <4>5 DEF ReqInv
    <3> QED BY <3>1, <3>4, <3>5, <3>6, <3>7
  <2> QED BY <2>1, <2>2
<1> QED BY <1>2, <1>3, <1>4 DEF AccessInv

\* A step of an administrator, of the member, or of a process that starts.
LEMMA EditAccess ==
  ASSUME AccessInv, Admission!Remembers, UNCHANGED accessReq, AccessTypes'
  PROVE  AccessInv'
<1>1. ASSUME NEW q \in StaffRequests PROVE ReqInv(q)'
  <2>1. accessReq'[q] = accessReq[q] /\ ReqInv(q) BY DEF AccessInv
  <2>2. CASE accessReq[q].pc \in {"new", "refused"} BY <2>1, <2>2 DEF ReqInv
  <2>3. CASE accessReq[q].pc \notin {"new", "refused"}
    BY <2>1, <2>3, RemembersAccess DEF ReqInv
  <2> QED BY <2>2, <2>3
<1> QED BY <1>1 DEF AccessInv

LEMMA NextAccess ==
  ASSUME AccessInv, [Admission!Next]_(Admission!accessVars)
  PROVE  AccessInv'
<1>1. CASE UNCHANGED Admission!accessVars
  BY <1>1 DEF Admission!accessVars, AccessInv, AccessTypes, ReqInv, Covered
<1>2. CASE Admission!Next
  <2>0. Admission!Remembers BY <1>2 DEF Admission!Next
  <2> USE DEF AccessInv, AccessTypes, MemberRecords, RoleRecords, Admission!Quiet
  <2>1. ASSUME NEW a \in Administrators, NEW x \in Roles, NEW key \in Watched \cup {<<>>}, Admission!CheckRole(a, x, key)
        PROVE  AccessTypes' /\ UNCHANGED accessReq
    BY <2>1 DEF Admission!CheckRole
  <2>2. ASSUME NEW a \in Administrators, Admission!WriteRole(a) PROVE AccessTypes' /\ UNCHANGED accessReq
    <3>1. UNCHANGED <<member, accessReq>> /\ adm' = [adm EXCEPT ![a] = [Admission!Quiet EXCEPT !.pc = "done"]]
      BY <2>2 DEF Admission!WriteRole
    <3>2. PICK x \in adm[a].roles :
            role' = IF adm[a].key = <<>> THEN [role EXCEPT ![x].active = FALSE]
                    ELSE [role EXCEPT ![x] = [active |-> TRUE, keys |-> {adm[a].key}]]
      BY <2>2 DEF Admission!WriteRole
    <3>3. x \in Roles /\ adm[a].key \in Watched \cup {<<>>} /\ role[x] \in RoleRecords OBVIOUS
    <3>4. CASE adm[a].key = <<>> BY <3>1, <3>2, <3>3, <3>4
    <3>5. CASE adm[a].key # <<>>
      <4>1. [active |-> TRUE, keys |-> {adm[a].key}] \in RoleRecords BY <3>3, <3>5
      <4> QED BY <3>1, <3>2, <3>3, <3>5, <4>1
    <3> QED BY <3>4, <3>5
  <2>3. ASSUME NEW a \in Administrators, NEW rs \in SUBSET Roles, Admission!CheckStaff(a, rs)
        PROVE  AccessTypes' /\ UNCHANGED accessReq
    BY <2>3 DEF Admission!CheckStaff
  <2>4. ASSUME NEW a \in Administrators, Admission!WriteStaff(a) PROVE AccessTypes' /\ UNCHANGED accessReq
    <3>1. UNCHANGED <<role, accessReq>> /\ adm[a].roles \subseteq Roles BY <2>4 DEF Admission!WriteStaff
    <3>2. \/ member' = [member EXCEPT !.roles = adm[a].roles] /\ adm' = [adm EXCEPT ![a].writes = {"user"}]
          \/ /\ member' = [member EXCEPT !.userRoles = adm[a].roles]
             /\ adm' = [adm EXCEPT ![a] = [Admission!Quiet EXCEPT !.pc = "done"]]
      BY <2>4 DEF Admission!WriteStaff
    <3>3. member' \in MemberRecords BY <3>1, <3>2
    <3>4. /\ DOMAIN adm' = Administrators
          /\ \A b \in Administrators : adm'[b].roles \subseteq Roles /\ adm'[b].key \in Watched \cup {<<>>}
      <4>1. CASE adm' = [adm EXCEPT ![a].writes = {"user"}] BY <4>1
      <4>2. CASE adm' = [adm EXCEPT ![a] = [Admission!Quiet EXCEPT !.pc = "done"]] BY <4>2
      <4> QED BY <3>2, <4>1, <4>2
    <3> QED BY <3>1, <3>3, <3>4
  <2>5. ASSUME NEW a \in Administrators, NEW to \in {"suspend", "reactivate"}, Admission!ChangeStatus(a, to)
        PROVE  AccessTypes' /\ UNCHANGED accessReq
    BY <2>5 DEF Admission!ChangeStatus
  <2>6. ASSUME NEW a \in Administrators, NEW w \in {"profile", "user", "session"}, Admission!WriteStatus(a, w)
        PROVE  AccessTypes' /\ UNCHANGED accessReq
    <3>1. UNCHANGED <<role, accessReq>> BY <2>6 DEF Admission!WriteStatus
    <3>2. \/ \E on \in BOOLEAN : member' \in {[member EXCEPT !.profileOn = on], [member EXCEPT !.on = on]}
          \/ member' = [member EXCEPT !.session = FALSE]
      BY <2>6 DEF Admission!WriteStatus
    <3>3. member' \in MemberRecords BY <3>2
    <3>4. /\ DOMAIN adm' = Administrators
          /\ \A b \in Administrators : adm'[b].roles \subseteq Roles /\ adm'[b].key \in Watched \cup {<<>>}
      BY <2>6 DEF Admission!WriteStatus
    <3> QED BY <3>1, <3>3, <3>4
  <2>7. ASSUME Admission!SignIn PROVE AccessTypes' /\ UNCHANGED accessReq
    BY <2>7 DEF Admission!SignIn
  <2>8. ASSUME Admission!Boot PROVE AccessTypes' /\ UNCHANGED accessReq
    BY <2>8 DEF Admission!Boot
  <2> USE DEF AccessInv
  <2>9. ASSUME NEW r \in StaffRequests,
               \/ \E k \in Watched : Admission!Start(r, k)
               \/ Admission!AuthenticateToken(r) \/ Admission!ReadProfile(r) \/ Admission!ResolveAccess(r)
        PROVE  AccessInv'
    BY <2>0, <2>9, RequestAccess
  <2>10. ASSUME AccessTypes' /\ UNCHANGED accessReq PROVE AccessInv' BY <2>0, <2>10, EditAccess
  <2> QED BY <1>2, <2>1, <2>2, <2>3, <2>4, <2>5, <2>6, <2>7, <2>8, <2>9, <2>10 DEF Admission!Next
<1> QED BY <1>1, <1>2

\* Who is let through was signed in, active, of a role, and the role gave what is needed, each at some
\* moment since the request started (requireAuth, requirePermission), for any roles, edits and starts.
THEOREM AccessAllowedSinceItStarted ==
  Admission!Init /\ [][Admission!Next]_(Admission!accessVars) => []Admission!AllowedSinceItStarted
<1>1. AccessInv /\ [Admission!Next]_(Admission!accessVars) => AccessInv' BY NextAccess
<1>2. AccessInv => Admission!AllowedSinceItStarted
  BY DEF AccessInv, ReqInv, Admission!AllowedSinceItStarted
<1> QED BY <1>1, <1>2, InitAccess, PTL

-----------------------------------------------------------------------------
(* Access: the tables.  Who may do anything in these domains may view them. *)
Ordinary ==
  {"roles", "staff", "states", "cities", "markets", "hubs", "market_vendors", "partners", "runners",
   "app_releases", "customers", "categories", "logistics", "coupons", "products", "waitlist", "faq",
   "catalog_submission", "catalog_availability", "orders", "commerce_outbox", "commerce_settings",
   "fulfilment", "fulfilment_hub", "returns", "refunds", "deletions", "financials", "ai_negotiation",
   "reports", "settings", "delivery_coverage", "delivery_pricing"}

Fits(held) ==
  /\ \A d \in Ordinary : \A a : <<d, a>> \in held => <<d, "view">> \in held
  /\ <<"market_payments", "reconcile">> \in held => <<"market_collections", "view">> \in held
  /\ <<"settings", "manage">> \in held => <<"audit", "view">> \in held
  /\ <<"credits", "adjust">> \in held => <<"customers", "view">> \in held
  /\ \A d \in {"catalog_negotiation_rules", "catalog_product"}, a \in {"edit", "publish", "pause", "unpublish"} :
       <<d, a>> \in held => <<"products", "view">> \in held
  /\ <<"commerce_pod", "eligibility">> \in held => <<"commerce_pod", "review">> \in held
  /\ <<"finance_refunds", "process">> \in held => <<"refunds", "view">> \in held
  /\ <<"fulfilment", "consolidate">> \in held => <<"fulfilment_hub", "view">> \in held

LEMMA OfDomain == ASSUME NEW d, NEW as, NEW k, k \in Admission!P(d, as) PROVE k[1] = d /\ k[2] \in as /\ k = <<d, k[2]>>
<1>1. k \in {d} \X as BY DEF Admission!P
<1>2. k = <<k[1], k[2]>> BY <1>1
<1>3. k[1] = d /\ k[2] \in as BY <1>1
<1> QED BY <1>2, <1>3

LEMMA ViewsAre == ASSUME NEW d, NEW ds PROVE d \in ds <=> <<d, "view">> \in Admission!Views(ds)
BY DEF Admission!Views

\* A page of one domain.
OpenedBy(p, held) == p.changes \cap held # {} => p.sees \cap held # {}

LEMMA OwnPage ==
  ASSUME NEW held, Fits(held), NEW d \in Ordinary, NEW as
  PROVE  OpenedBy(Admission!Page(Admission!Views({d}), Admission!P(d, as)), held)
<1> SUFFICES ASSUME NEW k \in Admission!P(d, as) \cap held PROVE <<d, "view">> \in Admission!Views({d}) \cap held
  BY DEF OpenedBy, Admission!Page
<1>1. k = <<d, k[2]>> BY OfDomain
<1>2. <<d, "view">> \in held BY <1>1 DEF Fits
<1> QED BY <1>2, ViewsAre

LEMMA PlatformFits == ASSUME NEW held, Fits(held), NEW x \in DOMAIN Admission!PlatformPages PROVE OpenedBy(Admission!PlatformPages[x], held)
<1>1. {"roles", "staff", "states", "cities", "markets", "hubs"} \subseteq Ordinary BY DEF Ordinary
<1>2. DOMAIN Admission!PlatformPages = {"roles", "staff", "states", "cities", "markets", "hubs"} BY DEF Admission!PlatformPages
<1>3. \A d \in Ordinary : \A as : OpenedBy(Admission!Page(Admission!Views({d}), Admission!P(d, as)), held) BY OwnPage
<1> HIDE DEF OpenedBy, Admission!Page, Admission!Views, Admission!P
<1> QED BY <1>1, <1>2, <1>3 DEF Admission!PlatformPages

KeyOf(d, a) == \/ d \in DOMAIN Admission!Domains /\ a \in Admission!Domains[d]
               \/ d \in Admission!Plain /\ a \in {"view", "manage"}
LEMMA KeysAre == ASSUME NEW d, NEW a PROVE <<d, a>> \in Admission!PermissionKeys <=> KeyOf(d, a)
<1>1. <<d, a>> \in Admission!Plain \X {"view", "manage"} <=> d \in Admission!Plain /\ a \in {"view", "manage"} OBVIOUS
<1>2. <<d, a>> \in UNION {Admission!P(e, Admission!Domains[e]) : e \in DOMAIN Admission!Domains} <=> d \in DOMAIN Admission!Domains /\ a \in Admission!Domains[d]
  <2>1. ASSUME NEW e PROVE <<d, a>> \in Admission!P(e, Admission!Domains[e]) <=> d = e /\ a \in Admission!Domains[e] BY DEF Admission!P
  <2> HIDE DEF Admission!Domains
  <2>2. <<d, a>> \in UNION {Admission!P(e, Admission!Domains[e]) : e \in DOMAIN Admission!Domains}
          <=> \E e \in DOMAIN Admission!Domains : <<d, a>> \in Admission!P(e, Admission!Domains[e])
    OBVIOUS
  <2> QED BY <2>1, <2>2
<1> QED BY <1>1, <1>2 DEF Admission!PermissionKeys, KeyOf

LEMMA KeyDomains ==
  ASSUME NEW d
  PROVE d \in DOMAIN Admission!Domains <=> d \in {"staff", "markets", "hubs", "runners", "orders", "products", "catalog_submission",
    "catalog_product", "catalog_pricing", "catalog_negotiation_rules", "catalog_media", "customers", "financials", "reports",
    "audit", "ai_negotiation", "commerce_pod", "commerce_payments", "commerce_outbox", "delivery_pricing", "fulfilment",
    "fulfilment_hub", "logistics", "returns", "finance_refunds", "market_vendors", "market_payments", "catalog_availability",
    "credits", "communications"}
BY DEF Admission!Domains

LEMMA ViewKeys == ASSUME NEW d \in Ordinary PROVE KeyOf(d, "view")
BY KeyDomains DEF KeyOf, Ordinary, Admission!Domains, Admission!Plain

LEMMA VendorFits == ASSUME NEW held, Fits(held), NEW x \in DOMAIN Admission!VendorPages PROVE OpenedBy(Admission!VendorPages[x], held)
<1>1. {"partners", "runners"} \subseteq Ordinary BY DEF Ordinary
<1>2. \A d \in Ordinary : \A as : OpenedBy(Admission!Page(Admission!Views({d}), Admission!P(d, as)), held) BY OwnPage
<1>3. OpenedBy(Admission!Page(Admission!Views({"market_vendors", "market_payments"}), Admission!P("market_vendors", {"manage", "invite"})), held)
  <2> SUFFICES ASSUME NEW k \in Admission!P("market_vendors", {"manage", "invite"}) \cap held
               PROVE  <<"market_vendors", "view">> \in Admission!Views({"market_vendors", "market_payments"}) \cap held
    BY DEF OpenedBy, Admission!Page
  <2>1. k = <<"market_vendors", k[2]>> BY OfDomain
  <2>2. "market_vendors" \in Ordinary BY DEF Ordinary
  <2>3. <<"market_vendors", "view">> \in held BY <2>1, <2>2 DEF Fits
  <2> QED BY <2>3, ViewsAre
<1>4. OpenedBy(Admission!Page(Admission!Views({"market_collections"}), Admission!P("market_payments", {"reconcile"})), held)
  <2> SUFFICES ASSUME NEW k \in Admission!P("market_payments", {"reconcile"}) \cap held
               PROVE  <<"market_collections", "view">> \in Admission!Views({"market_collections"}) \cap held
    BY DEF OpenedBy, Admission!Page
  <2>1. k = <<"market_payments", "reconcile">> BY OfDomain
  <2> QED BY <2>1, ViewsAre DEF Fits
<1>5. OpenedBy(Admission!Page(Admission!P("runners", {"assign"}), Admission!P("runners", {"assign"})), held) BY DEF OpenedBy, Admission!Page
<1>6. OpenedBy(Admission!Page(Admission!Views({"audit"}), Admission!P("settings", {"manage"})), held)
  <2> SUFFICES ASSUME NEW k \in Admission!P("settings", {"manage"}) \cap held
               PROVE  <<"audit", "view">> \in Admission!Views({"audit"}) \cap held
    BY DEF OpenedBy, Admission!Page
  <2>1. k = <<"settings", "manage">> BY OfDomain
  <2> QED BY <2>1, ViewsAre DEF Fits
<1> HIDE DEF OpenedBy, Admission!Page, Admission!Views, Admission!P
<1> QED BY <1>1, <1>2, <1>3, <1>4, <1>5, <1>6 DEF Admission!VendorPages

LEMMA CustomerFits == ASSUME NEW held, Fits(held), NEW x \in DOMAIN Admission!CustomerPages PROVE OpenedBy(Admission!CustomerPages[x], held)
<1>1. {"app_releases", "customers"} \subseteq Ordinary BY DEF Ordinary
<1>2. \A d \in Ordinary : \A as : OpenedBy(Admission!Page(Admission!Views({d}), Admission!P(d, as)), held) BY OwnPage
<1>3. OpenedBy(Admission!Page(Admission!Views({"customers"}), Admission!P("customers", {"edit"}) \cup Admission!P("credits", {"adjust"})), held)
  <2> SUFFICES ASSUME NEW k \in (Admission!P("customers", {"edit"}) \cup Admission!P("credits", {"adjust"})) \cap held
               PROVE  <<"customers", "view">> \in Admission!Views({"customers"}) \cap held
    BY DEF OpenedBy, Admission!Page
  <2>1. k = <<"customers", k[2]>> \/ k = <<"credits", "adjust">> BY OfDomain
  <2>2. <<"customers", "view">> \in held BY <1>1, <2>1 DEF Fits
  <2> QED BY <2>2, ViewsAre
<1> HIDE DEF OpenedBy, Admission!Page, Admission!Views, Admission!P
<1> QED BY <1>1, <1>2, <1>3 DEF Admission!CustomerPages

LEMMA GrowthFits == ASSUME NEW held, Fits(held), NEW x \in DOMAIN Admission!GrowthPages PROVE OpenedBy(Admission!GrowthPages[x], held)
<1>1. {"logistics", "coupons", "waitlist", "faq"} \subseteq Ordinary BY DEF Ordinary
<1>2. \A d \in Ordinary : \A as : OpenedBy(Admission!Page(Admission!Views({d}), Admission!P(d, as)), held) BY OwnPage
<1>3. \A sees : OpenedBy(Admission!Page(sees, sees), held) BY DEF OpenedBy, Admission!Page
<1> HIDE DEF OpenedBy, Admission!Page, Admission!Views, Admission!P
<1> QED BY <1>1, <1>2, <1>3 DEF Admission!GrowthPages

LEMMA CatalogFits == ASSUME NEW held, Fits(held), NEW x \in DOMAIN Admission!CatalogPages PROVE OpenedBy(Admission!CatalogPages[x], held)
<1>1. {"products", "catalog_submission", "catalog_availability"} \subseteq Ordinary BY DEF Ordinary
<1>2. \A d \in Ordinary : \A as : OpenedBy(Admission!Page(Admission!Views({d}), Admission!P(d, as)), held) BY OwnPage
<1> DEFINE products == Admission!P("products", {"create", "edit", "review"}) \cup Admission!P("catalog_negotiation_rules", {"edit"})
                         \cup Admission!P("catalog_product", {"publish", "pause", "unpublish"})
<1>3. OpenedBy(Admission!Page(Admission!Views({"products"}), products), held)
  <2> SUFFICES ASSUME NEW k \in products \cap held PROVE <<"products", "view">> \in Admission!Views({"products"}) \cap held
    BY DEF OpenedBy, Admission!Page
  <2>1. \/ k = <<"products", k[2]>>
        \/ k = <<"catalog_negotiation_rules", "edit">>
        \/ k = <<"catalog_product", k[2]>> /\ k[2] \in {"edit", "publish", "pause", "unpublish"}
    BY OfDomain
  <2>2. <<"products", "view">> \in held BY <1>1, <2>1 DEF Fits
  <2> QED BY <2>2, ViewsAre
<1> HIDE DEF OpenedBy, Admission!Page, Admission!Views, Admission!P
<1> QED BY <1>1, <1>2, <1>3 DEF Admission!CatalogPages

LEMMA OrderFits == ASSUME NEW held, Fits(held), NEW x \in DOMAIN Admission!OrderPages PROVE OpenedBy(Admission!OrderPages[x], held)
<1>1. {"orders", "commerce_outbox"} \subseteq Ordinary BY DEF Ordinary
<1>2. \A d \in Ordinary : \A as : OpenedBy(Admission!Page(Admission!Views({d}), Admission!P(d, as)), held) BY OwnPage
<1>3. OpenedBy(Admission!Page(Admission!P("commerce_pod", {"review"}), Admission!P("commerce_pod", {"review", "eligibility"})), held)
  <2> SUFFICES ASSUME NEW k \in Admission!P("commerce_pod", {"review", "eligibility"}) \cap held
               PROVE  <<"commerce_pod", "review">> \in Admission!P("commerce_pod", {"review"}) \cap held
    BY DEF OpenedBy, Admission!Page
  <2>1. k = <<"commerce_pod", "review">> \/ k = <<"commerce_pod", "eligibility">> BY OfDomain
  <2>2. <<"commerce_pod", "review">> \in held BY <2>1 DEF Fits
  <2> QED BY <2>2 DEF Admission!P
<1>4. \A sees : OpenedBy(Admission!Page(sees, {}), held) BY DEF OpenedBy, Admission!Page
<1> HIDE DEF OpenedBy, Admission!Page, Admission!Views, Admission!P
<1> QED BY <1>1, <1>2, <1>3, <1>4 DEF Admission!OrderPages

LEMMA FulfilmentFits ==
  ASSUME NEW held, Fits(held), NEW x \in DOMAIN Admission!FulfilmentPages PROVE OpenedBy(Admission!FulfilmentPages[x], held)
<1>1. {"fulfilment", "fulfilment_hub", "logistics", "returns", "refunds", "deletions"} \subseteq Ordinary BY DEF Ordinary
<1>2. \A d \in Ordinary : \A as : OpenedBy(Admission!Page(Admission!Views({d}), Admission!P(d, as)), held) BY OwnPage
<1>3. OpenedBy(Admission!Page(Admission!Views({"fulfilment_hub"}),
        Admission!P("fulfilment_hub", {"receive", "qc"}) \cup Admission!P("fulfilment", {"consolidate"})), held)
  <2> SUFFICES ASSUME NEW k \in (Admission!P("fulfilment_hub", {"receive", "qc"}) \cup Admission!P("fulfilment", {"consolidate"})) \cap held
               PROVE  <<"fulfilment_hub", "view">> \in Admission!Views({"fulfilment_hub"}) \cap held
    BY DEF OpenedBy, Admission!Page
  <2>1. k = <<"fulfilment_hub", k[2]>> \/ k = <<"fulfilment", "consolidate">> BY OfDomain
  <2>2. <<"fulfilment_hub", "view">> \in held BY <1>1, <2>1 DEF Fits
  <2> QED BY <2>2, ViewsAre
<1>4. OpenedBy(Admission!Page(Admission!Views({"refunds"}), Admission!P("refunds", {"manage"}) \cup Admission!P("finance_refunds", {"process"})), held)
  <2> SUFFICES ASSUME NEW k \in (Admission!P("refunds", {"manage"}) \cup Admission!P("finance_refunds", {"process"})) \cap held
               PROVE  <<"refunds", "view">> \in Admission!Views({"refunds"}) \cap held
    BY DEF OpenedBy, Admission!Page
  <2>1. k = <<"refunds", k[2]>> \/ k = <<"finance_refunds", "process">> BY OfDomain
  <2>2. <<"refunds", "view">> \in held BY <1>1, <2>1 DEF Fits
  <2> QED BY <2>2, ViewsAre
<1> HIDE DEF OpenedBy, Admission!Page, Admission!Views, Admission!P
<1> QED BY <1>1, <1>2, <1>3, <1>4 DEF Admission!FulfilmentPages

LEMMA OthersFit ==
  ASSUME NEW held, Fits(held),
         NEW g \in {Admission!CategoryPages, Admission!CommerceSettingsPages, Admission!FinancialPages, Admission!SettingsPages}, NEW x \in DOMAIN g
  PROVE  OpenedBy(g[x], held)
<1>1. {"categories", "commerce_settings", "financials", "ai_negotiation", "settings", "delivery_coverage",
       "delivery_pricing"} \subseteq Ordinary
  BY DEF Ordinary
<1>2. \A d \in Ordinary : \A as : OpenedBy(Admission!Page(Admission!Views({d}), Admission!P(d, as)), held) BY OwnPage
<1>3. \A sees : OpenedBy(Admission!Page(sees, sees), held) BY DEF OpenedBy, Admission!Page
<1> HIDE DEF OpenedBy, Admission!Page, Admission!Views, Admission!P
<1>4. CASE g = Admission!CategoryPages BY <1>1, <1>2, <1>4 DEF Admission!CategoryPages
<1>5. CASE g = Admission!CommerceSettingsPages BY <1>1, <1>2, <1>5 DEF Admission!CommerceSettingsPages
<1>6. CASE g = Admission!FinancialPages BY <1>1, <1>2, <1>3, <1>6 DEF Admission!FinancialPages
<1>7. CASE g = Admission!SettingsPages BY <1>1, <1>2, <1>7 DEF Admission!SettingsPages
<1> QED BY <1>4, <1>5, <1>6, <1>7

LEMMA FitsSees == ASSUME NEW held, Fits(held) PROVE Admission!SeesWhatItChanges(held)
<1> SUFFICES ASSUME NEW g \in Admission!PageGroups, NEW x \in DOMAIN g PROVE OpenedBy(g[x], held)
  BY DEF Admission!SeesWhatItChanges, Admission!Pages, OpenedBy
<1> QED BY PlatformFits, VendorFits, CustomerFits, GrowthFits, CatalogFits, OrderFits, FulfilmentFits, OthersFit DEF Admission!PageGroups

-----------------------------------------------------------------------------
(* What the roles hold. *)
LEMMA PartsOfARole ==
  ASSUME NEW d, NEW a
  PROVE  /\ \A e, as : <<d, a>> \in Admission!P(e, as) <=> d = e /\ a \in as
         /\ \A ds : <<d, a>> \in Admission!Views(ds) <=> d \in ds /\ a = "view"
         /\ \A ds : <<d, a>> \in Admission!Of(ds) <=> d \in ds /\ KeyOf(d, a)
<1>1. \A e, as : <<d, a>> \in Admission!P(e, as) <=> d = e /\ a \in as BY DEF Admission!P
<1>2. \A ds : <<d, a>> \in Admission!Views(ds) <=> d \in ds /\ a = "view" BY DEF Admission!Views
<1>3. \A ds : <<d, a>> \in Admission!Of(ds) <=> d \in ds /\ KeyOf(d, a) BY KeysAre DEF Admission!Of
<1> QED BY <1>1, <1>2, <1>3

LEMMA SpecialKeys ==
  /\ KeyOf("commerce_pod", "review") /\ KeyOf("market_collections", "view") /\ KeyOf("audit", "view")
BY KeyDomains DEF KeyOf, Admission!Domains, Admission!Plain

\* What the parts of the roles hold.
LEMMA OperationsPermissionsAre ==
  ASSUME NEW d, NEW a
  PROVE  <<d, a>> \in Admission!OperationsPermissions <=>
           \/ d \in {"states", "cities", "zones", "markets", "hubs", "runners", "partners", "audit", "delivery_coverage", "delivery_pricing"} /\ KeyOf(d, a)
<1>1. \A e, as : <<d, a>> \in Admission!P(e, as) <=> d = e /\ a \in as BY PartsOfARole
<1>2. \A ds : <<d, a>> \in Admission!Views(ds) <=> d \in ds /\ a = "view" BY PartsOfARole
<1>3. \A ds : <<d, a>> \in Admission!Of(ds) <=> d \in ds /\ KeyOf(d, a) BY PartsOfARole
<1> QED BY <1>1, <1>2, <1>3 DEF Admission!OperationsPermissions

LEMMA OrderReadAre ==
  ASSUME NEW d, NEW a
  PROVE  <<d, a>> \in Admission!OrderRead <=>
           \/ d \in {"orders", "customers", "reports"} /\ a = "view"
<1>1. \A e, as : <<d, a>> \in Admission!P(e, as) <=> d = e /\ a \in as BY PartsOfARole
<1>2. \A ds : <<d, a>> \in Admission!Views(ds) <=> d \in ds /\ a = "view" BY PartsOfARole
<1>3. \A ds : <<d, a>> \in Admission!Of(ds) <=> d \in ds /\ KeyOf(d, a) BY PartsOfARole
<1> QED BY <1>1, <1>2, <1>3 DEF Admission!OrderRead

LEMMA OrderOperationsAre ==
  ASSUME NEW d, NEW a
  PROVE  <<d, a>> \in Admission!OrderOperations <=>
           \/ d \in {"orders", "customers", "reports"} /\ a = "view"
           \/ d = "orders" /\ a \in {"create", "edit", "cancel"}
<1>1. \A e, as : <<d, a>> \in Admission!P(e, as) <=> d = e /\ a \in as BY PartsOfARole
<1>2. \A ds : <<d, a>> \in Admission!Views(ds) <=> d \in ds /\ a = "view" BY PartsOfARole
<1>3. \A ds : <<d, a>> \in Admission!Of(ds) <=> d \in ds /\ KeyOf(d, a) BY PartsOfARole
<1> QED BY <1>1, <1>2, <1>3 DEF Admission!OrderOperations, Admission!OrderRead

LEMMA CommerceOperationsAre ==
  ASSUME NEW d, NEW a
  PROVE  <<d, a>> \in Admission!CommerceOperations <=>
           \/ d = "commerce_pod" /\ a \in {"review", "eligibility"}
           \/ d \in {"commerce_outbox"} /\ a = "view"
           \/ d \in {"fulfilment", "fulfilment_hub", "logistics", "custody"} /\ KeyOf(d, a)
           \/ d = "returns" /\ a \in {"view", "review"}
<1>1. \A e, as : <<d, a>> \in Admission!P(e, as) <=> d = e /\ a \in as BY PartsOfARole
<1>2. \A ds : <<d, a>> \in Admission!Views(ds) <=> d \in ds /\ a = "view" BY PartsOfARole
<1>3. \A ds : <<d, a>> \in Admission!Of(ds) <=> d \in ds /\ KeyOf(d, a) BY PartsOfARole
<1> QED BY <1>1, <1>2, <1>3 DEF Admission!CommerceOperations

LEMMA MarketVendorOperationsAre ==
  ASSUME NEW d, NEW a
  PROVE  <<d, a>> \in Admission!MarketVendorOperations <=>
           \/ d \in {"market_vendors", "market_collections"} /\ KeyOf(d, a)
           \/ d = "catalog_availability" /\ a \in {"view", "manage"}
<1>1. \A e, as : <<d, a>> \in Admission!P(e, as) <=> d = e /\ a \in as BY PartsOfARole
<1>2. \A ds : <<d, a>> \in Admission!Views(ds) <=> d \in ds /\ a = "view" BY PartsOfARole
<1>3. \A ds : <<d, a>> \in Admission!Of(ds) <=> d \in ds /\ KeyOf(d, a) BY PartsOfARole
<1> QED BY <1>1, <1>2, <1>3 DEF Admission!MarketVendorOperations

LEMMA CatalogReadAre ==
  ASSUME NEW d, NEW a
  PROVE  <<d, a>> \in Admission!CatalogRead <=>
           \/ d \in {"products", "markets", "categories", "catalog_submission", "catalog_product"} /\ a = "view"
<1>1. \A e, as : <<d, a>> \in Admission!P(e, as) <=> d = e /\ a \in as BY PartsOfARole
<1>2. \A ds : <<d, a>> \in Admission!Views(ds) <=> d \in ds /\ a = "view" BY PartsOfARole
<1>3. \A ds : <<d, a>> \in Admission!Of(ds) <=> d \in ds /\ KeyOf(d, a) BY PartsOfARole
<1> QED BY <1>1, <1>2, <1>3 DEF Admission!CatalogRead

LEMMA CommercialManageAre ==
  ASSUME NEW d, NEW a
  PROVE  <<d, a>> \in Admission!CommercialManage <=>
           \/ d \in {"products", "markets", "categories", "catalog_submission", "catalog_product"} /\ a = "view"
           \/ d \in {"catalog_product", "catalog_pricing", "catalog_negotiation_rules", "ai_negotiation"} /\ KeyOf(d, a)
           \/ d = "categories" /\ a \in {"manage"}
           \/ d = "catalog_media" /\ a \in {"review"}
<1>1. \A e, as : <<d, a>> \in Admission!P(e, as) <=> d = e /\ a \in as BY PartsOfARole
<1>2. \A ds : <<d, a>> \in Admission!Views(ds) <=> d \in ds /\ a = "view" BY PartsOfARole
<1>3. \A ds : <<d, a>> \in Admission!Of(ds) <=> d \in ds /\ KeyOf(d, a) BY PartsOfARole
<1> QED BY <1>1, <1>2, <1>3 DEF Admission!CommercialManage, Admission!CatalogRead

LEMMA SupportAre ==
  ASSUME NEW d, NEW a
  PROVE  <<d, a>> \in Admission!Support <=>
           \/ d \in {"orders", "customers", "reports"} /\ a = "view"
           \/ d = "customers" /\ a \in {"edit"}
           \/ d \in {"refunds"} /\ a = "view"
           \/ d \in {"deletions"} /\ KeyOf(d, a)
           \/ d = "commerce_pod" /\ a \in {"review", "eligibility"}
<1>1. \A e, as : <<d, a>> \in Admission!P(e, as) <=> d = e /\ a \in as BY PartsOfARole
<1>2. \A ds : <<d, a>> \in Admission!Views(ds) <=> d \in ds /\ a = "view" BY PartsOfARole
<1>3. \A ds : <<d, a>> \in Admission!Of(ds) <=> d \in ds /\ KeyOf(d, a) BY PartsOfARole
<1> QED BY <1>1, <1>2, <1>3 DEF Admission!Support, Admission!OrderRead

LEMMA OperationsLeadFits == Fits(Admission!SeededRoles["OPERATIONS_LEAD"])
<1> DEFINE held == Admission!OperationsPermissions \cup Admission!OrderOperations \cup Admission!CommerceOperations \cup Admission!MarketVendorOperations \cup Admission!Views({"staff"}) \cup Admission!P("communications", {"send"})
<1>1. Admission!SeededRoles["OPERATIONS_LEAD"] = held BY DEF Admission!SeededRoles
<1>2. ASSUME NEW d, NEW a
      PROVE  <<d, a>> \in held <=>
               \/ d \in {"states", "cities", "zones", "markets", "hubs", "runners", "partners", "audit", "delivery_coverage", "delivery_pricing"} /\ KeyOf(d, a)
               \/ d \in {"orders", "customers", "reports"} /\ a = "view"
               \/ d = "orders" /\ a \in {"create", "edit", "cancel"}
               \/ d = "commerce_pod" /\ a \in {"review", "eligibility"}
               \/ d \in {"commerce_outbox"} /\ a = "view"
               \/ d \in {"fulfilment", "fulfilment_hub", "logistics", "custody"} /\ KeyOf(d, a)
               \/ d = "returns" /\ a \in {"view", "review"}
               \/ d \in {"market_vendors", "market_collections"} /\ KeyOf(d, a)
               \/ d = "catalog_availability" /\ a \in {"view", "manage"}
               \/ d \in {"staff"} /\ a = "view"
               \/ d = "communications" /\ a \in {"send"}
  BY PartsOfARole, OperationsPermissionsAre, OrderOperationsAre, CommerceOperationsAre, MarketVendorOperationsAre
<1> HIDE DEF held
<1>3. ASSUME NEW d \in Ordinary, NEW a, <<d, a>> \in held PROVE <<d, "view">> \in held
  BY <1>2, <1>3, ViewKeys DEF Ordinary
<1>4. ASSUME NEW d \in {"catalog_negotiation_rules", "catalog_product"}, NEW a \in {"edit", "publish", "pause", "unpublish"},
             <<d, a>> \in held
      PROVE  <<"products", "view">> \in held
  BY <1>2, <1>4
<1>5. /\ <<"market_payments", "reconcile">> \in held => <<"market_collections", "view">> \in held
      /\ <<"settings", "manage">> \in held => <<"audit", "view">> \in held
      /\ <<"credits", "adjust">> \in held => <<"customers", "view">> \in held
      /\ <<"commerce_pod", "eligibility">> \in held => <<"commerce_pod", "review">> \in held
  BY <1>2, SpecialKeys
<1>6. /\ <<"finance_refunds", "process">> \in held => <<"refunds", "view">> \in held
      /\ <<"fulfilment", "consolidate">> \in held => <<"fulfilment_hub", "view">> \in held
  BY <1>2, ViewKeys DEF Ordinary
<1>7. Fits(held) BY <1>3, <1>4, <1>5, <1>6 DEF Fits
<1> QED BY <1>1, <1>7

LEMMA StateOperationsManagerFits == Fits(Admission!SeededRoles["STATE_OPERATIONS_MANAGER"])
<1> DEFINE held == Admission!OperationsPermissions \cup Admission!OrderOperations \cup Admission!CommerceOperations \cup Admission!MarketVendorOperations
<1>1. Admission!SeededRoles["STATE_OPERATIONS_MANAGER"] = held BY DEF Admission!SeededRoles
<1>2. ASSUME NEW d, NEW a
      PROVE  <<d, a>> \in held <=>
               \/ d \in {"states", "cities", "zones", "markets", "hubs", "runners", "partners", "audit", "delivery_coverage", "delivery_pricing"} /\ KeyOf(d, a)
               \/ d \in {"orders", "customers", "reports"} /\ a = "view"
               \/ d = "orders" /\ a \in {"create", "edit", "cancel"}
               \/ d = "commerce_pod" /\ a \in {"review", "eligibility"}
               \/ d \in {"commerce_outbox"} /\ a = "view"
               \/ d \in {"fulfilment", "fulfilment_hub", "logistics", "custody"} /\ KeyOf(d, a)
               \/ d = "returns" /\ a \in {"view", "review"}
               \/ d \in {"market_vendors", "market_collections"} /\ KeyOf(d, a)
               \/ d = "catalog_availability" /\ a \in {"view", "manage"}
  BY PartsOfARole, OperationsPermissionsAre, OrderOperationsAre, CommerceOperationsAre, MarketVendorOperationsAre
<1> HIDE DEF held
<1>3. ASSUME NEW d \in Ordinary, NEW a, <<d, a>> \in held PROVE <<d, "view">> \in held
  BY <1>2, <1>3, ViewKeys DEF Ordinary
<1>4. ASSUME NEW d \in {"catalog_negotiation_rules", "catalog_product"}, NEW a \in {"edit", "publish", "pause", "unpublish"},
             <<d, a>> \in held
      PROVE  <<"products", "view">> \in held
  BY <1>2, <1>4
<1>5. /\ <<"market_payments", "reconcile">> \in held => <<"market_collections", "view">> \in held
      /\ <<"settings", "manage">> \in held => <<"audit", "view">> \in held
      /\ <<"credits", "adjust">> \in held => <<"customers", "view">> \in held
      /\ <<"commerce_pod", "eligibility">> \in held => <<"commerce_pod", "review">> \in held
  BY <1>2, SpecialKeys
<1>6. /\ <<"finance_refunds", "process">> \in held => <<"refunds", "view">> \in held
      /\ <<"fulfilment", "consolidate">> \in held => <<"fulfilment_hub", "view">> \in held
  BY <1>2, ViewKeys DEF Ordinary
<1>7. Fits(held) BY <1>3, <1>4, <1>5, <1>6 DEF Fits
<1> QED BY <1>1, <1>7

LEMMA CommercialManagerFits == Fits(Admission!SeededRoles["COMMERCIAL_MANAGER"])
<1> DEFINE held == Admission!CommercialManage \cup Admission!P("products", {"create", "review", "edit"}) \cup Admission!P("catalog_availability", {"view", "manage"}) \cup Admission!Views({"market_vendors", "audit"})
<1>1. Admission!SeededRoles["COMMERCIAL_MANAGER"] = held BY DEF Admission!SeededRoles
<1>2. ASSUME NEW d, NEW a
      PROVE  <<d, a>> \in held <=>
               \/ d \in {"products", "markets", "categories", "catalog_submission", "catalog_product"} /\ a = "view"
               \/ d \in {"catalog_product", "catalog_pricing", "catalog_negotiation_rules", "ai_negotiation"} /\ KeyOf(d, a)
               \/ d = "categories" /\ a \in {"manage"}
               \/ d = "catalog_media" /\ a \in {"review"}
               \/ d = "products" /\ a \in {"create", "review", "edit"}
               \/ d = "catalog_availability" /\ a \in {"view", "manage"}
               \/ d \in {"market_vendors", "audit"} /\ a = "view"
  BY PartsOfARole, CommercialManageAre
<1> HIDE DEF held
<1>3. ASSUME NEW d \in Ordinary, NEW a, <<d, a>> \in held PROVE <<d, "view">> \in held
  BY <1>2, <1>3, ViewKeys DEF Ordinary
<1>4. ASSUME NEW d \in {"catalog_negotiation_rules", "catalog_product"}, NEW a \in {"edit", "publish", "pause", "unpublish"},
             <<d, a>> \in held
      PROVE  <<"products", "view">> \in held
  BY <1>2, <1>4
<1>5. /\ <<"market_payments", "reconcile">> \in held => <<"market_collections", "view">> \in held
      /\ <<"settings", "manage">> \in held => <<"audit", "view">> \in held
      /\ <<"credits", "adjust">> \in held => <<"customers", "view">> \in held
      /\ <<"commerce_pod", "eligibility">> \in held => <<"commerce_pod", "review">> \in held
  BY <1>2, SpecialKeys
<1>6. /\ <<"finance_refunds", "process">> \in held => <<"refunds", "view">> \in held
      /\ <<"fulfilment", "consolidate">> \in held => <<"fulfilment_hub", "view">> \in held
  BY <1>2, ViewKeys DEF Ordinary
<1>7. Fits(held) BY <1>3, <1>4, <1>5, <1>6 DEF Fits
<1> QED BY <1>1, <1>7

LEMMA CommercialOfficerFits == Fits(Admission!SeededRoles["COMMERCIAL_OFFICER"])
<1> DEFINE held == Admission!CatalogRead \cup Admission!P("catalog_product", {"edit"}) \cup Admission!Of({"catalog_pricing"}) \cup Admission!P("catalog_availability", {"view", "manage"})
<1>1. Admission!SeededRoles["COMMERCIAL_OFFICER"] = held BY DEF Admission!SeededRoles
<1>2. ASSUME NEW d, NEW a
      PROVE  <<d, a>> \in held <=>
               \/ d \in {"products", "markets", "categories", "catalog_submission", "catalog_product"} /\ a = "view"
               \/ d = "catalog_product" /\ a \in {"edit"}
               \/ d \in {"catalog_pricing"} /\ KeyOf(d, a)
               \/ d = "catalog_availability" /\ a \in {"view", "manage"}
  BY PartsOfARole, CatalogReadAre
<1> HIDE DEF held
<1>3. ASSUME NEW d \in Ordinary, NEW a, <<d, a>> \in held PROVE <<d, "view">> \in held
  BY <1>2, <1>3, ViewKeys DEF Ordinary
<1>4. ASSUME NEW d \in {"catalog_negotiation_rules", "catalog_product"}, NEW a \in {"edit", "publish", "pause", "unpublish"},
             <<d, a>> \in held
      PROVE  <<"products", "view">> \in held
  BY <1>2, <1>4
<1>5. /\ <<"market_payments", "reconcile">> \in held => <<"market_collections", "view">> \in held
      /\ <<"settings", "manage">> \in held => <<"audit", "view">> \in held
      /\ <<"credits", "adjust">> \in held => <<"customers", "view">> \in held
      /\ <<"commerce_pod", "eligibility">> \in held => <<"commerce_pod", "review">> \in held
  BY <1>2, SpecialKeys
<1>6. /\ <<"finance_refunds", "process">> \in held => <<"refunds", "view">> \in held
      /\ <<"fulfilment", "consolidate">> \in held => <<"fulfilment_hub", "view">> \in held
  BY <1>2, ViewKeys DEF Ordinary
<1>7. Fits(held) BY <1>3, <1>4, <1>5, <1>6 DEF Fits
<1> QED BY <1>1, <1>7

LEMMA CatalogReviewerFits == Fits(Admission!SeededRoles["CATALOG_REVIEWER"])
<1> DEFINE held == Admission!CatalogRead \cup Admission!Of({"catalog_submission"}) \cup Admission!P("products", {"create", "review"}) \cup Admission!P("catalog_media", {"review"}) \cup Admission!Views({"catalog_availability"})
<1>1. Admission!SeededRoles["CATALOG_REVIEWER"] = held BY DEF Admission!SeededRoles
<1>2. ASSUME NEW d, NEW a
      PROVE  <<d, a>> \in held <=>
               \/ d \in {"products", "markets", "categories", "catalog_submission", "catalog_product"} /\ a = "view"
               \/ d \in {"catalog_submission"} /\ KeyOf(d, a)
               \/ d = "products" /\ a \in {"create", "review"}
               \/ d = "catalog_media" /\ a \in {"review"}
               \/ d \in {"catalog_availability"} /\ a = "view"
  BY PartsOfARole, CatalogReadAre
<1> HIDE DEF held
<1>3. ASSUME NEW d \in Ordinary, NEW a, <<d, a>> \in held PROVE <<d, "view">> \in held
  BY <1>2, <1>3, ViewKeys DEF Ordinary
<1>4. ASSUME NEW d \in {"catalog_negotiation_rules", "catalog_product"}, NEW a \in {"edit", "publish", "pause", "unpublish"},
             <<d, a>> \in held
      PROVE  <<"products", "view">> \in held
  BY <1>2, <1>4
<1>5. /\ <<"market_payments", "reconcile">> \in held => <<"market_collections", "view">> \in held
      /\ <<"settings", "manage">> \in held => <<"audit", "view">> \in held
      /\ <<"credits", "adjust">> \in held => <<"customers", "view">> \in held
      /\ <<"commerce_pod", "eligibility">> \in held => <<"commerce_pod", "review">> \in held
  BY <1>2, SpecialKeys
<1>6. /\ <<"finance_refunds", "process">> \in held => <<"refunds", "view">> \in held
      /\ <<"fulfilment", "consolidate">> \in held => <<"fulfilment_hub", "view">> \in held
  BY <1>2, ViewKeys DEF Ordinary
<1>7. Fits(held) BY <1>3, <1>4, <1>5, <1>6 DEF Fits
<1> QED BY <1>1, <1>7

LEMMA DispatchHubManagerFits == Fits(Admission!SeededRoles["DISPATCH_HUB_MANAGER"])
<1> DEFINE held == Admission!Views({"hubs", "markets", "runners"}) \cup Admission!P("runners", {"assign"}) \cup Admission!OrderOperations
<1>1. Admission!SeededRoles["DISPATCH_HUB_MANAGER"] = held BY DEF Admission!SeededRoles
<1>2. ASSUME NEW d, NEW a
      PROVE  <<d, a>> \in held <=>
               \/ d \in {"hubs", "markets", "runners"} /\ a = "view"
               \/ d = "runners" /\ a \in {"assign"}
               \/ d \in {"orders", "customers", "reports"} /\ a = "view"
               \/ d = "orders" /\ a \in {"create", "edit", "cancel"}
  BY PartsOfARole, OrderOperationsAre
<1> HIDE DEF held
<1>3. ASSUME NEW d \in Ordinary, NEW a, <<d, a>> \in held PROVE <<d, "view">> \in held
  BY <1>2, <1>3, ViewKeys DEF Ordinary
<1>4. ASSUME NEW d \in {"catalog_negotiation_rules", "catalog_product"}, NEW a \in {"edit", "publish", "pause", "unpublish"},
             <<d, a>> \in held
      PROVE  <<"products", "view">> \in held
  BY <1>2, <1>4
<1>5. /\ <<"market_payments", "reconcile">> \in held => <<"market_collections", "view">> \in held
      /\ <<"settings", "manage">> \in held => <<"audit", "view">> \in held
      /\ <<"credits", "adjust">> \in held => <<"customers", "view">> \in held
      /\ <<"commerce_pod", "eligibility">> \in held => <<"commerce_pod", "review">> \in held
  BY <1>2, SpecialKeys
<1>6. /\ <<"finance_refunds", "process">> \in held => <<"refunds", "view">> \in held
      /\ <<"fulfilment", "consolidate">> \in held => <<"fulfilment_hub", "view">> \in held
  BY <1>2, ViewKeys DEF Ordinary
<1>7. Fits(held) BY <1>3, <1>4, <1>5, <1>6 DEF Fits
<1> QED BY <1>1, <1>7

LEMMA DispatchHubOfficerFits == Fits(Admission!SeededRoles["DISPATCH_HUB_OFFICER"])
<1> DEFINE held == Admission!Views({"hubs", "markets", "runners"}) \cup Admission!P("orders", {"view", "edit"})
<1>1. Admission!SeededRoles["DISPATCH_HUB_OFFICER"] = held BY DEF Admission!SeededRoles
<1>2. ASSUME NEW d, NEW a
      PROVE  <<d, a>> \in held <=>
               \/ d \in {"hubs", "markets", "runners"} /\ a = "view"
               \/ d = "orders" /\ a \in {"view", "edit"}
  BY PartsOfARole
<1> HIDE DEF held
<1>3. ASSUME NEW d \in Ordinary, NEW a, <<d, a>> \in held PROVE <<d, "view">> \in held
  BY <1>2, <1>3, ViewKeys DEF Ordinary
<1>4. ASSUME NEW d \in {"catalog_negotiation_rules", "catalog_product"}, NEW a \in {"edit", "publish", "pause", "unpublish"},
             <<d, a>> \in held
      PROVE  <<"products", "view">> \in held
  BY <1>2, <1>4
<1>5. /\ <<"market_payments", "reconcile">> \in held => <<"market_collections", "view">> \in held
      /\ <<"settings", "manage">> \in held => <<"audit", "view">> \in held
      /\ <<"credits", "adjust">> \in held => <<"customers", "view">> \in held
      /\ <<"commerce_pod", "eligibility">> \in held => <<"commerce_pod", "review">> \in held
  BY <1>2, SpecialKeys
<1>6. /\ <<"finance_refunds", "process">> \in held => <<"refunds", "view">> \in held
      /\ <<"fulfilment", "consolidate">> \in held => <<"fulfilment_hub", "view">> \in held
  BY <1>2, ViewKeys DEF Ordinary
<1>7. Fits(held) BY <1>3, <1>4, <1>5, <1>6 DEF Fits
<1> QED BY <1>1, <1>7

LEMMA LogisticsOfficerFits == Fits(Admission!SeededRoles["LOGISTICS_OFFICER"])
<1> DEFINE held == Admission!Views({"hubs", "markets", "runners"}) \cup Admission!P("orders", {"view", "edit"}) \cup Admission!Of({"logistics"})
<1>1. Admission!SeededRoles["LOGISTICS_OFFICER"] = held BY DEF Admission!SeededRoles
<1>2. ASSUME NEW d, NEW a
      PROVE  <<d, a>> \in held <=>
               \/ d \in {"hubs", "markets", "runners"} /\ a = "view"
               \/ d = "orders" /\ a \in {"view", "edit"}
               \/ d \in {"logistics"} /\ KeyOf(d, a)
  BY PartsOfARole
<1> HIDE DEF held
<1>3. ASSUME NEW d \in Ordinary, NEW a, <<d, a>> \in held PROVE <<d, "view">> \in held
  BY <1>2, <1>3, ViewKeys DEF Ordinary
<1>4. ASSUME NEW d \in {"catalog_negotiation_rules", "catalog_product"}, NEW a \in {"edit", "publish", "pause", "unpublish"},
             <<d, a>> \in held
      PROVE  <<"products", "view">> \in held
  BY <1>2, <1>4
<1>5. /\ <<"market_payments", "reconcile">> \in held => <<"market_collections", "view">> \in held
      /\ <<"settings", "manage">> \in held => <<"audit", "view">> \in held
      /\ <<"credits", "adjust">> \in held => <<"customers", "view">> \in held
      /\ <<"commerce_pod", "eligibility">> \in held => <<"commerce_pod", "review">> \in held
  BY <1>2, SpecialKeys
<1>6. /\ <<"finance_refunds", "process">> \in held => <<"refunds", "view">> \in held
      /\ <<"fulfilment", "consolidate">> \in held => <<"fulfilment_hub", "view">> \in held
  BY <1>2, ViewKeys DEF Ordinary
<1>7. Fits(held) BY <1>3, <1>4, <1>5, <1>6 DEF Fits
<1> QED BY <1>1, <1>7

LEMMA CustomerSupportOfficerFits == Fits(Admission!SeededRoles["CUSTOMER_SUPPORT_OFFICER"])
<1> DEFINE held == Admission!Support
<1>1. Admission!SeededRoles["CUSTOMER_SUPPORT_OFFICER"] = held BY DEF Admission!SeededRoles
<1>2. ASSUME NEW d, NEW a
      PROVE  <<d, a>> \in held <=>
               \/ d \in {"orders", "customers", "reports"} /\ a = "view"
               \/ d = "customers" /\ a \in {"edit"}
               \/ d \in {"refunds"} /\ a = "view"
               \/ d \in {"deletions"} /\ KeyOf(d, a)
               \/ d = "commerce_pod" /\ a \in {"review", "eligibility"}
  BY PartsOfARole, SupportAre
<1> HIDE DEF held
<1>3. ASSUME NEW d \in Ordinary, NEW a, <<d, a>> \in held PROVE <<d, "view">> \in held
  BY <1>2, <1>3, ViewKeys DEF Ordinary
<1>4. ASSUME NEW d \in {"catalog_negotiation_rules", "catalog_product"}, NEW a \in {"edit", "publish", "pause", "unpublish"},
             <<d, a>> \in held
      PROVE  <<"products", "view">> \in held
  BY <1>2, <1>4
<1>5. /\ <<"market_payments", "reconcile">> \in held => <<"market_collections", "view">> \in held
      /\ <<"settings", "manage">> \in held => <<"audit", "view">> \in held
      /\ <<"credits", "adjust">> \in held => <<"customers", "view">> \in held
      /\ <<"commerce_pod", "eligibility">> \in held => <<"commerce_pod", "review">> \in held
  BY <1>2, SpecialKeys
<1>6. /\ <<"finance_refunds", "process">> \in held => <<"refunds", "view">> \in held
      /\ <<"fulfilment", "consolidate">> \in held => <<"fulfilment_hub", "view">> \in held
  BY <1>2, ViewKeys DEF Ordinary
<1>7. Fits(held) BY <1>3, <1>4, <1>5, <1>6 DEF Fits
<1> QED BY <1>1, <1>7

LEMMA SuperAdminFits == Fits(Admission!SeededRoles["SUPER_ADMIN"])
<1>1. Admission!SeededRoles["SUPER_ADMIN"] = Admission!PermissionKeys BY DEF Admission!SeededRoles
<1>2. \A d \in Ordinary : <<d, "view">> \in Admission!PermissionKeys BY ViewKeys, KeysAre
<1>3. {"customers", "products", "refunds", "fulfilment_hub"} \subseteq Ordinary BY DEF Ordinary
<1>4. /\ <<"commerce_pod", "review">> \in Admission!PermissionKeys /\ <<"market_collections", "view">> \in Admission!PermissionKeys
      /\ <<"audit", "view">> \in Admission!PermissionKeys
  BY KeysAre, SpecialKeys
<1>5. Fits(Admission!PermissionKeys) BY <1>2, <1>3, <1>4 DEF Fits
<1> QED BY <1>1, <1>5

\* Who only reads changes nothing but a saved view, and what assigns, sends or reports opens itself.
LEMMA ManagementViewerFits == Fits(Admission!SeededRoles["MANAGEMENT_VIEWER"])
<1>1. Admission!SeededRoles["MANAGEMENT_VIEWER"] = Admission!ReadPermissions BY DEF Admission!SeededRoles
<1>2. ASSUME NEW d, NEW a PROVE <<d, a>> \in Admission!ReadPermissions <=> KeyOf(d, a) /\ a \in {"view", "transcript_view"} /\ d \notin {"market_payments", "app_releases"}
  BY KeysAre DEF Admission!ReadPermissions
<1>3. ASSUME NEW d \in Ordinary, NEW a, <<d, a>> \in Admission!ReadPermissions PROVE <<d, "view">> \in Admission!ReadPermissions
  BY <1>2, <1>3, ViewKeys
<1>4. Fits(Admission!ReadPermissions) BY <1>2, <1>3 DEF Fits
<1> QED BY <1>1, <1>4

\* The routes demand keys.
LEMMA DomainKeys == ASSUME NEW d, NEW as, \A a \in as : KeyOf(d, a) PROVE Admission!P(d, as) \subseteq Admission!PermissionKeys
<1>1. \A k \in Admission!P(d, as) : k = <<d, k[2]>> /\ k[2] \in as BY OfDomain
<1> QED BY <1>1, KeysAre

LEMMA ViewsKeys == ASSUME NEW ds, \A d \in ds : KeyOf(d, "view") PROVE Admission!Views(ds) \subseteq Admission!PermissionKeys
<1>1. \A k \in Admission!Views(ds) : k \in ds \X {"view"} BY DEF Admission!Views
<1>2. \A k \in Admission!Views(ds) : k = <<k[1], "view">> /\ k[1] \in ds BY <1>1
<1> QED BY <1>2, KeysAre

AreKeys(p) == p.sees \cup p.changes \subseteq Admission!PermissionKeys
LEMMA PlatformPagesAreKeys == ASSUME NEW x \in DOMAIN Admission!PlatformPages PROVE AreKeys(Admission!PlatformPages[x])
<1>1. /\ \A a \in {"manage"} : KeyOf("roles", a)
      /\ \A a \in {"create", "edit", "suspend", "revoke_sessions"} : KeyOf("staff", a)
      /\ \A a \in {"manage"} : KeyOf("states", a)
      /\ \A a \in {"manage"} : KeyOf("cities", a)
      /\ \A a \in {"manage", "assign_hub"} : KeyOf("markets", a)
      /\ \A a \in {"manage", "assign_markets"} : KeyOf("hubs", a)
  BY KeyDomains DEF KeyOf, Admission!Domains, Admission!Plain
<1>2. {"cities", "hubs", "markets", "roles", "staff", "states"} \subseteq Ordinary BY DEF Ordinary
<1>3. /\ Admission!P("roles", {"manage"}) \subseteq Admission!PermissionKeys
      /\ Admission!P("staff", {"create", "edit", "suspend", "revoke_sessions"}) \subseteq Admission!PermissionKeys
      /\ Admission!P("states", {"manage"}) \subseteq Admission!PermissionKeys
      /\ Admission!P("cities", {"manage"}) \subseteq Admission!PermissionKeys
      /\ Admission!P("markets", {"manage", "assign_hub"}) \subseteq Admission!PermissionKeys
      /\ Admission!P("hubs", {"manage", "assign_markets"}) \subseteq Admission!PermissionKeys
  BY <1>1, DomainKeys
<1>4. /\ Admission!Views({"roles"}) \subseteq Admission!PermissionKeys
      /\ Admission!Views({"staff"}) \subseteq Admission!PermissionKeys
      /\ Admission!Views({"states"}) \subseteq Admission!PermissionKeys
      /\ Admission!Views({"cities"}) \subseteq Admission!PermissionKeys
      /\ Admission!Views({"markets"}) \subseteq Admission!PermissionKeys
      /\ Admission!Views({"hubs"}) \subseteq Admission!PermissionKeys
  BY <1>1, <1>2, ViewKeys, ViewsKeys
<1> HIDE DEF Admission!P, Admission!Views, Admission!PermissionKeys
<1> QED BY <1>3, <1>4 DEF Admission!PlatformPages, Admission!Page, AreKeys

LEMMA VendorPagesAreKeys == ASSUME NEW x \in DOMAIN Admission!VendorPages PROVE AreKeys(Admission!VendorPages[x])
<1>1. /\ \A a \in {"manage", "invite"} : KeyOf("market_vendors", a)
      /\ \A a \in {"reconcile"} : KeyOf("market_payments", a)
      /\ \A a \in {"manage"} : KeyOf("partners", a)
      /\ \A a \in {"manage"} : KeyOf("runners", a)
      /\ \A a \in {"assign"} : KeyOf("runners", a)
      /\ \A a \in {"manage"} : KeyOf("settings", a)
      /\ \A d \in {"market_vendors", "market_payments"} : KeyOf(d, "view")
      /\ \A d \in {"market_collections"} : KeyOf(d, "view")
      /\ \A d \in {"audit"} : KeyOf(d, "view")
  BY KeyDomains DEF KeyOf, Admission!Domains, Admission!Plain
<1>2. {"partners", "runners"} \subseteq Ordinary BY DEF Ordinary
<1>3. /\ Admission!P("market_vendors", {"manage", "invite"}) \subseteq Admission!PermissionKeys
      /\ Admission!P("market_payments", {"reconcile"}) \subseteq Admission!PermissionKeys
      /\ Admission!P("partners", {"manage"}) \subseteq Admission!PermissionKeys
      /\ Admission!P("runners", {"manage"}) \subseteq Admission!PermissionKeys
      /\ Admission!P("runners", {"assign"}) \subseteq Admission!PermissionKeys
      /\ Admission!P("settings", {"manage"}) \subseteq Admission!PermissionKeys
  BY <1>1, DomainKeys
<1>4. /\ Admission!Views({"market_vendors", "market_payments"}) \subseteq Admission!PermissionKeys
      /\ Admission!Views({"market_collections"}) \subseteq Admission!PermissionKeys
      /\ Admission!Views({"partners"}) \subseteq Admission!PermissionKeys
      /\ Admission!Views({"runners"}) \subseteq Admission!PermissionKeys
      /\ Admission!Views({"audit"}) \subseteq Admission!PermissionKeys
  BY <1>1, <1>2, ViewKeys, ViewsKeys
<1> HIDE DEF Admission!P, Admission!Views, Admission!PermissionKeys
<1> QED BY <1>3, <1>4 DEF Admission!VendorPages, Admission!Page, AreKeys

LEMMA CustomerPagesAreKeys == ASSUME NEW x \in DOMAIN Admission!CustomerPages PROVE AreKeys(Admission!CustomerPages[x])
<1>1. /\ \A a \in {"manage"} : KeyOf("app_releases", a)
      /\ \A a \in {"edit"} : KeyOf("customers", a)
      /\ \A a \in {"adjust"} : KeyOf("credits", a)
  BY KeyDomains DEF KeyOf, Admission!Domains, Admission!Plain
<1>2. {"app_releases", "customers"} \subseteq Ordinary BY DEF Ordinary
<1>3. /\ Admission!P("app_releases", {"manage"}) \subseteq Admission!PermissionKeys
      /\ Admission!P("customers", {"edit"}) \subseteq Admission!PermissionKeys
      /\ Admission!P("credits", {"adjust"}) \subseteq Admission!PermissionKeys
  BY <1>1, DomainKeys
<1>4. /\ Admission!Views({"app_releases"}) \subseteq Admission!PermissionKeys
      /\ Admission!Views({"customers"}) \subseteq Admission!PermissionKeys
  BY <1>1, <1>2, ViewKeys, ViewsKeys
<1> HIDE DEF Admission!P, Admission!Views, Admission!PermissionKeys
<1> QED BY <1>3, <1>4 DEF Admission!CustomerPages, Admission!Page, AreKeys

LEMMA CategoryPagesAreKeys == ASSUME NEW x \in DOMAIN Admission!CategoryPages PROVE AreKeys(Admission!CategoryPages[x])
<1>1. /\ \A a \in {"manage"} : KeyOf("categories", a)
  BY KeyDomains DEF KeyOf, Admission!Domains, Admission!Plain
<1>2. {"categories"} \subseteq Ordinary BY DEF Ordinary
<1>3. /\ Admission!P("categories", {"manage"}) \subseteq Admission!PermissionKeys
  BY <1>1, DomainKeys
<1>4. /\ Admission!Views({"categories"}) \subseteq Admission!PermissionKeys
  BY <1>1, <1>2, ViewKeys, ViewsKeys
<1> HIDE DEF Admission!P, Admission!Views, Admission!PermissionKeys
<1> QED BY <1>3, <1>4 DEF Admission!CategoryPages, Admission!Page, AreKeys

LEMMA GrowthPagesAreKeys == ASSUME NEW x \in DOMAIN Admission!GrowthPages PROVE AreKeys(Admission!GrowthPages[x])
<1>1. /\ \A a \in {"manage"} : KeyOf("logistics", a)
      /\ \A a \in {"manage"} : KeyOf("coupons", a)
      /\ \A a \in {"manage"} : KeyOf("waitlist", a)
      /\ \A a \in {"send"} : KeyOf("communications", a)
      /\ \A a \in {"manage"} : KeyOf("faq", a)
  BY KeyDomains DEF KeyOf, Admission!Domains, Admission!Plain
<1>2. {"coupons", "faq", "logistics", "products", "waitlist"} \subseteq Ordinary BY DEF Ordinary
<1>3. /\ Admission!P("logistics", {"manage"}) \subseteq Admission!PermissionKeys
      /\ Admission!P("coupons", {"manage"}) \subseteq Admission!PermissionKeys
      /\ Admission!P("waitlist", {"manage"}) \subseteq Admission!PermissionKeys
      /\ Admission!P("communications", {"send"}) \subseteq Admission!PermissionKeys
      /\ Admission!P("faq", {"manage"}) \subseteq Admission!PermissionKeys
  BY <1>1, DomainKeys
<1>4. /\ Admission!Views({"logistics"}) \subseteq Admission!PermissionKeys
      /\ Admission!Views({"coupons"}) \subseteq Admission!PermissionKeys
      /\ Admission!Views({"products"}) \subseteq Admission!PermissionKeys
      /\ Admission!Views({"waitlist"}) \subseteq Admission!PermissionKeys
      /\ Admission!Views({"faq"}) \subseteq Admission!PermissionKeys
  BY <1>1, <1>2, ViewKeys, ViewsKeys
<1> HIDE DEF Admission!P, Admission!Views, Admission!PermissionKeys
<1> QED BY <1>3, <1>4 DEF Admission!GrowthPages, Admission!Page, AreKeys

LEMMA CatalogPagesAreKeys == ASSUME NEW x \in DOMAIN Admission!CatalogPages PROVE AreKeys(Admission!CatalogPages[x])
<1>1. /\ \A a \in {"review", "request_changes", "approve", "reject"} : KeyOf("catalog_submission", a)
      /\ \A a \in {"create", "edit", "review"} : KeyOf("products", a)
      /\ \A a \in {"edit"} : KeyOf("catalog_negotiation_rules", a)
      /\ \A a \in {"publish", "pause", "unpublish"} : KeyOf("catalog_product", a)
      /\ \A a \in {"manage"} : KeyOf("catalog_availability", a)
  BY KeyDomains DEF KeyOf, Admission!Domains, Admission!Plain
<1>2. {"catalog_availability", "catalog_submission", "products"} \subseteq Ordinary BY DEF Ordinary
<1>3. /\ Admission!P("catalog_submission", {"review", "request_changes", "approve", "reject"}) \subseteq Admission!PermissionKeys
      /\ Admission!P("products", {"create", "edit", "review"}) \subseteq Admission!PermissionKeys
      /\ Admission!P("catalog_negotiation_rules", {"edit"}) \subseteq Admission!PermissionKeys
      /\ Admission!P("catalog_product", {"publish", "pause", "unpublish"}) \subseteq Admission!PermissionKeys
      /\ Admission!P("catalog_availability", {"manage"}) \subseteq Admission!PermissionKeys
  BY <1>1, DomainKeys
<1>4. /\ Admission!Views({"catalog_submission"}) \subseteq Admission!PermissionKeys
      /\ Admission!Views({"products"}) \subseteq Admission!PermissionKeys
      /\ Admission!Views({"catalog_availability"}) \subseteq Admission!PermissionKeys
  BY <1>1, <1>2, ViewKeys, ViewsKeys
<1> HIDE DEF Admission!P, Admission!Views, Admission!PermissionKeys
<1> QED BY <1>3, <1>4 DEF Admission!CatalogPages, Admission!Page, AreKeys

LEMMA OrderPagesAreKeys == ASSUME NEW x \in DOMAIN Admission!OrderPages PROVE AreKeys(Admission!OrderPages[x])
<1>1. /\ \A a \in {"edit", "cancel"} : KeyOf("orders", a)
      /\ \A a \in {"review"} : KeyOf("commerce_pod", a)
      /\ \A a \in {"review", "eligibility"} : KeyOf("commerce_pod", a)
      /\ \A a \in {"view", "reconcile"} : KeyOf("commerce_payments", a)
      /\ \A a \in {"replay"} : KeyOf("commerce_outbox", a)
  BY KeyDomains DEF KeyOf, Admission!Domains, Admission!Plain
<1>2. {"commerce_outbox", "orders"} \subseteq Ordinary BY DEF Ordinary
<1>3. /\ Admission!P("orders", {"edit", "cancel"}) \subseteq Admission!PermissionKeys
      /\ Admission!P("commerce_pod", {"review"}) \subseteq Admission!PermissionKeys
      /\ Admission!P("commerce_pod", {"review", "eligibility"}) \subseteq Admission!PermissionKeys
      /\ Admission!P("commerce_payments", {"view", "reconcile"}) \subseteq Admission!PermissionKeys
      /\ Admission!P("commerce_outbox", {"replay"}) \subseteq Admission!PermissionKeys
  BY <1>1, DomainKeys
<1>4. /\ Admission!Views({"orders"}) \subseteq Admission!PermissionKeys
      /\ Admission!Views({"commerce_outbox"}) \subseteq Admission!PermissionKeys
  BY <1>1, <1>2, ViewKeys, ViewsKeys
<1> HIDE DEF Admission!P, Admission!Views, Admission!PermissionKeys
<1> QED BY <1>3, <1>4 DEF Admission!OrderPages, Admission!Page, AreKeys

LEMMA CommerceSettingsPagesAreKeys == ASSUME NEW x \in DOMAIN Admission!CommerceSettingsPages PROVE AreKeys(Admission!CommerceSettingsPages[x])
<1>1. /\ \A a \in {"manage"} : KeyOf("commerce_settings", a)
  BY KeyDomains DEF KeyOf, Admission!Domains, Admission!Plain
<1>2. {"commerce_settings"} \subseteq Ordinary BY DEF Ordinary
<1>3. /\ Admission!P("commerce_settings", {"manage"}) \subseteq Admission!PermissionKeys
  BY <1>1, DomainKeys
<1>4. /\ Admission!Views({"commerce_settings"}) \subseteq Admission!PermissionKeys
  BY <1>1, <1>2, ViewKeys, ViewsKeys
<1> HIDE DEF Admission!P, Admission!Views, Admission!PermissionKeys
<1> QED BY <1>3, <1>4 DEF Admission!CommerceSettingsPages, Admission!Page, AreKeys

LEMMA FulfilmentPagesAreKeys == ASSUME NEW x \in DOMAIN Admission!FulfilmentPages PROVE AreKeys(Admission!FulfilmentPages[x])
<1>1. /\ \A a \in {"assign"} : KeyOf("fulfilment", a)
      /\ \A a \in {"receive", "qc"} : KeyOf("fulfilment_hub", a)
      /\ \A a \in {"consolidate"} : KeyOf("fulfilment", a)
      /\ \A a \in {"book", "manage"} : KeyOf("logistics", a)
      /\ \A a \in {"review"} : KeyOf("returns", a)
      /\ \A a \in {"manage"} : KeyOf("refunds", a)
      /\ \A a \in {"process"} : KeyOf("finance_refunds", a)
      /\ \A a \in {"manage"} : KeyOf("deletions", a)
  BY KeyDomains DEF KeyOf, Admission!Domains, Admission!Plain
<1>2. {"deletions", "fulfilment", "fulfilment_hub", "logistics", "refunds", "returns"} \subseteq Ordinary BY DEF Ordinary
<1>3. /\ Admission!P("fulfilment", {"assign"}) \subseteq Admission!PermissionKeys
      /\ Admission!P("fulfilment_hub", {"receive", "qc"}) \subseteq Admission!PermissionKeys
      /\ Admission!P("fulfilment", {"consolidate"}) \subseteq Admission!PermissionKeys
      /\ Admission!P("logistics", {"book", "manage"}) \subseteq Admission!PermissionKeys
      /\ Admission!P("returns", {"review"}) \subseteq Admission!PermissionKeys
      /\ Admission!P("refunds", {"manage"}) \subseteq Admission!PermissionKeys
      /\ Admission!P("finance_refunds", {"process"}) \subseteq Admission!PermissionKeys
      /\ Admission!P("deletions", {"manage"}) \subseteq Admission!PermissionKeys
  BY <1>1, DomainKeys
<1>4. /\ Admission!Views({"fulfilment"}) \subseteq Admission!PermissionKeys
      /\ Admission!Views({"fulfilment_hub"}) \subseteq Admission!PermissionKeys
      /\ Admission!Views({"logistics"}) \subseteq Admission!PermissionKeys
      /\ Admission!Views({"returns"}) \subseteq Admission!PermissionKeys
      /\ Admission!Views({"refunds"}) \subseteq Admission!PermissionKeys
      /\ Admission!Views({"deletions"}) \subseteq Admission!PermissionKeys
  BY <1>1, <1>2, ViewKeys, ViewsKeys
<1> HIDE DEF Admission!P, Admission!Views, Admission!PermissionKeys
<1> QED BY <1>3, <1>4 DEF Admission!FulfilmentPages, Admission!Page, AreKeys

LEMMA FinancialPagesAreKeys == ASSUME NEW x \in DOMAIN Admission!FinancialPages PROVE AreKeys(Admission!FinancialPages[x])
<1>1. /\ \A a \in {"reconcile"} : KeyOf("financials", a)
      /\ \A a \in {"manage"} : KeyOf("ai_negotiation", a)
  BY KeyDomains DEF KeyOf, Admission!Domains, Admission!Plain
<1>2. {"ai_negotiation", "financials", "reports"} \subseteq Ordinary BY DEF Ordinary
<1>3. /\ Admission!P("financials", {"reconcile"}) \subseteq Admission!PermissionKeys
      /\ Admission!P("ai_negotiation", {"manage"}) \subseteq Admission!PermissionKeys
  BY <1>1, DomainKeys
<1>4. /\ Admission!Views({"financials"}) \subseteq Admission!PermissionKeys
      /\ Admission!Views({"ai_negotiation"}) \subseteq Admission!PermissionKeys
      /\ Admission!Views({"reports"}) \subseteq Admission!PermissionKeys
  BY <1>1, <1>2, ViewKeys, ViewsKeys
<1> HIDE DEF Admission!P, Admission!Views, Admission!PermissionKeys
<1> QED BY <1>3, <1>4 DEF Admission!FinancialPages, Admission!Page, AreKeys

LEMMA SettingsPagesAreKeys == ASSUME NEW x \in DOMAIN Admission!SettingsPages PROVE AreKeys(Admission!SettingsPages[x])
<1>1. /\ \A a \in {"manage"} : KeyOf("settings", a)
      /\ \A a \in {"manage"} : KeyOf("delivery_coverage", a)
      /\ \A a \in {"manage", "preview"} : KeyOf("delivery_pricing", a)
  BY KeyDomains DEF KeyOf, Admission!Domains, Admission!Plain
<1>2. {"delivery_coverage", "delivery_pricing", "settings"} \subseteq Ordinary BY DEF Ordinary
<1>3. /\ Admission!P("settings", {"manage"}) \subseteq Admission!PermissionKeys
      /\ Admission!P("delivery_coverage", {"manage"}) \subseteq Admission!PermissionKeys
      /\ Admission!P("delivery_pricing", {"manage", "preview"}) \subseteq Admission!PermissionKeys
  BY <1>1, DomainKeys
<1>4. /\ Admission!Views({"settings"}) \subseteq Admission!PermissionKeys
      /\ Admission!Views({"delivery_coverage"}) \subseteq Admission!PermissionKeys
      /\ Admission!Views({"delivery_pricing"}) \subseteq Admission!PermissionKeys
  BY <1>1, <1>2, ViewKeys, ViewsKeys
<1> HIDE DEF Admission!P, Admission!Views, Admission!PermissionKeys
<1> QED BY <1>3, <1>4 DEF Admission!SettingsPages, Admission!Page, AreKeys

LEMMA DemandedAreKeys == Admission!Demanded \subseteq Admission!PermissionKeys
<1>1. \A g \in Admission!PageGroups : \A x \in DOMAIN g : AreKeys(g[x])
  BY PlatformPagesAreKeys, VendorPagesAreKeys, CustomerPagesAreKeys, CategoryPagesAreKeys, GrowthPagesAreKeys, CatalogPagesAreKeys,
     OrderPagesAreKeys, CommerceSettingsPagesAreKeys, FulfilmentPagesAreKeys, FinancialPagesAreKeys, SettingsPagesAreKeys DEF Admission!PageGroups
<1>2. \A p \in Admission!Pages : AreKeys(p) BY <1>1 DEF Admission!Pages
<1> QED BY <1>2 DEF Admission!Demanded, AreKeys

\* What the routes demand can be given, and a seeded role that may change something of a page may
\* open it, but for the finance officer (platform-bootstrap against the routes).
LEMMA TablesFit == Admission!RolesFitTheRoutes
<1>1. DOMAIN Admission!SeededRoles \ {"FINANCE_OFFICER"} = {"SUPER_ADMIN", "OPERATIONS_LEAD", "STATE_OPERATIONS_MANAGER",
        "COMMERCIAL_MANAGER", "COMMERCIAL_OFFICER", "CATALOG_REVIEWER", "DISPATCH_HUB_MANAGER",
        "DISPATCH_HUB_OFFICER", "LOGISTICS_OFFICER", "CUSTOMER_SUPPORT_OFFICER", "MANAGEMENT_VIEWER"}
  BY DEF Admission!SeededRoles
<1>2. \A x \in DOMAIN Admission!SeededRoles \ {"FINANCE_OFFICER"} : Fits(Admission!SeededRoles[x])
  BY <1>1, SuperAdminFits, OperationsLeadFits, StateOperationsManagerFits, CommercialManagerFits, CommercialOfficerFits,
     CatalogReviewerFits, DispatchHubManagerFits, DispatchHubOfficerFits, LogisticsOfficerFits, CustomerSupportOfficerFits,
     ManagementViewerFits
<1> QED BY <1>2, DemandedAreKeys, FitsSees DEF Admission!RolesFitTheRoutes

\* Who is let through could be at some moment since the request started, and the
\* seeded roles fit what the routes demand, in every state.
THEOREM AccessLetThroughWas ==
  Admission!Init /\ [][Admission!Next]_accessVars => []LetThroughWas
<1>1. AccessInv => LetThroughWas
  BY TablesFit DEF AccessInv, ReqInv, Admission!AllowedSinceItStarted, LetThroughWas
<1>2. AccessInv /\ [Admission!Next]_accessVars => AccessInv' BY NextAccess DEF accessVars, Admission!accessVars
<1> QED BY <1>1, <1>2, InitAccess, PTL

-----------------------------------------------------------------------------
(* The outbox.                                                             *)

\* A row carries a lockToken exactly while it is being processed, and has
\* counted no attempt before it is emitted.
LockInv == \A e \in Events :
  /\ status[e] = "processing" <=> lock[e] # NoWorker
  /\ status[e] = "none" => attempts[e] = 0

\* A worker past its claim has an emitted event in hand; while its token is
\* still on the row, nobody has counted another attempt.
HandInv == \A w \in Workers : at[w] # "idle" =>
  /\ cur[w] \in Events
  /\ status[cur[w]] # "none"
  /\ at[w] \in {"handling", "handled"} /\ lock[cur[w]] = w => seen[w] = attempts[cur[w]]
  /\ at[w] = "handled" => delivered[cur[w]]

\* The inductive invariant: BudgetDecides and PublishedWasDelivered are about
\* rows, and rows change on what workers remember of them.
OutboxIInv == OutboxTypeOK /\ LockInv /\ HandInv /\ BudgetDecides /\ PublishedWasDelivered

USE MaxAttemptsAssumption, BoundsAssumption, NullAssumption

LEMMA InitOutbox == OutboxInit => OutboxIInv
  BY DEF OutboxInit, OutboxIInv, OutboxTypeOK, LockInv, HandInv, BudgetDecides, PublishedWasDelivered, Statuses

LEMMA NextType == OutboxTypeOK /\ HandInv /\ [OutboxNext]_outboxVars => OutboxTypeOK'
<1> SUFFICES ASSUME OutboxTypeOK, HandInv, [OutboxNext]_outboxVars PROVE OutboxTypeOK'
  OBVIOUS
<1> USE DEF OutboxTypeOK, Statuses, rowVars, workerVars, budgetsSpent
<1>1. ASSUME NEW e \in Events, Emit(e) \/ BackoffElapses(e) \/ LeaseRunsOut(e) \/ LeaseOutlived(e)
      PROVE OutboxTypeOK'
  <2>1. CASE Emit(e) BY <2>1 DEF Emit
  <2>2. CASE BackoffElapses(e) BY <2>2 DEF BackoffElapses
  <2>3. CASE LeaseRunsOut(e) BY <2>3 DEF LeaseRunsOut
  <2>4. CASE LeaseOutlived(e) BY <2>4 DEF LeaseOutlived
  <2> QED BY <1>1, <2>1, <2>2, <2>3, <2>4
<1>2. ASSUME NEW w \in Workers, NEW e \in Events, Claim(w, e) PROVE OutboxTypeOK'
  BY <1>2 DEF Claim
<1>3. ASSUME NEW w \in Workers, HandlerReturns(w) \/ Publish(w) PROVE OutboxTypeOK'
  <2>0. cur[w] \in Events BY <1>3 DEF HandlerReturns, Publish, PublishIf, HandInv
  <2>1. CASE HandlerReturns(w) BY <2>0, <2>1 DEF HandlerReturns
  <2>2. CASE Publish(w) /\ lock[cur[w]] = w BY <2>0, <2>2 DEF Publish, PublishIf
  <2>3. CASE Publish(w) /\ lock[cur[w]] # w BY <2>0, <2>3 DEF Publish, PublishIf
  <2> QED BY <1>3, <2>1, <2>2, <2>3
<1>4. ASSUME NEW w \in Workers, Fail(w) PROVE OutboxTypeOK'
  <2>0. cur[w] \in Events BY <1>4 DEF Fail, FailIf, NextStep, Exhausted, HandInv
  <2>1. CASE lock[cur[w]] = w BY <1>4, <2>0, <2>1 DEF Fail, FailIf, NextStep, Exhausted
  <2>2. CASE lock[cur[w]] # w BY <1>4, <2>0, <2>2 DEF Fail, FailIf, NextStep, Exhausted
  <2> QED BY <2>1, <2>2
<1>5. ASSUME NEW w \in Workers, RecordDeadLetter(w) \/ CrashWorker(w) PROVE OutboxTypeOK'
  BY <1>5 DEF RecordDeadLetter, RecordAs, CrashWorker, HandInv
<1>6. ASSUME NEW a \in Admins, NEW e \in Events, ResetDeadLetter(a, e) PROVE OutboxTypeOK'
  BY <1>6 DEF ResetDeadLetter
<1>7. ASSUME NEW a \in Admins, MarkReplayed(a) \/ CrashReplay(a) PROVE OutboxTypeOK'
  BY <1>7 DEF MarkReplayed, CrashReplay
<1>8. CASE UNCHANGED outboxVars
  BY <1>8 DEF outboxVars
<1>9. QED
  BY <1>1, <1>2, <1>3, <1>4, <1>5, <1>6, <1>7, <1>8 DEF OutboxNext

\* The rest of the invariant, one step per action.
LEMMA NextOutbox == OutboxIInv /\ [OutboxNext]_outboxVars => OutboxIInv'
<1> SUFFICES ASSUME OutboxIInv, [OutboxNext]_outboxVars PROVE OutboxIInv'
  OBVIOUS
<1>t. OutboxTypeOK /\ OutboxTypeOK'
  BY NextType DEF OutboxIInv
<1> SUFFICES LockInv' /\ HandInv' /\ BudgetDecides' /\ PublishedWasDelivered'
  BY <1>t DEF OutboxIInv
<1> USE <1>t DEF OutboxIInv, OutboxTypeOK, Statuses, LockInv, HandInv, BudgetDecides, PublishedWasDelivered,
            rowVars, workerVars, budgetsSpent
<1>1. ASSUME NEW e \in Events, Emit(e)
      PROVE LockInv' /\ HandInv' /\ BudgetDecides' /\ PublishedWasDelivered'
  <2>1. /\ UNCHANGED <<at, cur, seen, lock, attempts, delivered>>
        /\ status' = [status EXCEPT ![e] = "pending"]
        /\ status[e] = "none"
    BY <1>1, Zenon DEF Emit
  <2>2. LockInv' /\ PublishedWasDelivered'
    BY <2>1
  <2>3. BudgetDecides'
    BY <2>1
  <2>4. HandInv'
    BY <2>1
  <2> QED BY <2>2, <2>3, <2>4
<1>2. ASSUME NEW e \in Events, BackoffElapses(e) \/ LeaseRunsOut(e) \/ LeaseOutlived(e)
      PROVE LockInv' /\ HandInv' /\ BudgetDecides' /\ PublishedWasDelivered'
  <2>1. CASE BackoffElapses(e) BY <2>1 DEF BackoffElapses
  <2>2. CASE LeaseRunsOut(e) BY <2>2 DEF LeaseRunsOut
  <2>3. CASE LeaseOutlived(e) BY <2>3 DEF LeaseOutlived
  <2> QED BY <1>2, <2>1, <2>2, <2>3
<1>3. ASSUME NEW w \in Workers, NEW e \in Events, Claim(w, e)
      PROVE LockInv' /\ HandInv' /\ BudgetDecides' /\ PublishedWasDelivered'
  <2>1. LockInv' /\ BudgetDecides' /\ PublishedWasDelivered'
    BY <1>3 DEF Claim, Claimable
  <2>2. HandInv'
    BY <1>3 DEF Claim, Claimable
  <2> QED BY <2>1, <2>2
<1>4. ASSUME NEW w \in Workers, HandlerReturns(w)
      PROVE LockInv' /\ HandInv' /\ BudgetDecides' /\ PublishedWasDelivered'
  BY <1>4 DEF HandlerReturns
<1>5. ASSUME NEW w \in Workers, Publish(w)
      PROVE LockInv' /\ HandInv' /\ BudgetDecides' /\ PublishedWasDelivered'
  BY <1>5 DEF Publish, PublishIf
<1>6. ASSUME NEW w \in Workers, Fail(w)
      PROVE LockInv' /\ HandInv' /\ BudgetDecides' /\ PublishedWasDelivered'
  <2>1. CASE lock[cur[w]] = w
    \* The token is still w's: seen[w] is the row's own attempt count.
    <3>1. LockInv' /\ PublishedWasDelivered'
      BY <1>6, <2>1 DEF Fail, FailIf, NextStep, Exhausted
    <3>2. BudgetDecides'
      BY <1>6, <2>1 DEF Fail, FailIf, NextStep, Exhausted
    <3>3. HandInv'
      BY <1>6, <2>1 DEF Fail, FailIf, NextStep, Exhausted
    <3> QED BY <3>1, <3>2, <3>3
  <2>2. CASE lock[cur[w]] # w
    BY <1>6, <2>2 DEF Fail, FailIf, NextStep, Exhausted
  <2> QED BY <2>1, <2>2
<1>7. ASSUME NEW w \in Workers, RecordDeadLetter(w) \/ CrashWorker(w)
      PROVE LockInv' /\ HandInv' /\ BudgetDecides' /\ PublishedWasDelivered'
  BY <1>7 DEF RecordDeadLetter, RecordAs, CrashWorker
<1>8. ASSUME NEW a \in Admins, NEW e \in Events, ResetDeadLetter(a, e)
      PROVE LockInv' /\ HandInv' /\ BudgetDecides' /\ PublishedWasDelivered'
  BY <1>8 DEF ResetDeadLetter
<1>9. ASSUME NEW a \in Admins, MarkReplayed(a) \/ CrashReplay(a)
      PROVE LockInv' /\ HandInv' /\ BudgetDecides' /\ PublishedWasDelivered'
  BY <1>9 DEF MarkReplayed, CrashReplay
<1>10. CASE UNCHANGED outboxVars
  BY <1>10 DEF outboxVars
<1>11. QED
  BY <1>1, <1>2, <1>3, <1>4, <1>5, <1>6, <1>7, <1>8, <1>9, <1>10 DEF OutboxNext

\* The inductive invariant holds in every reachable state.
THEOREM OutboxInvariant == OutboxSpec => []OutboxIInv
  BY InitOutbox, NextOutbox, PTL DEF OutboxSpec

\* Every row, lease and worker stays within its type.
THEOREM OutboxTypeCorrect == OutboxSpec => []OutboxTypeOK
<1>1. OutboxIInv => OutboxTypeOK
  BY DEF OutboxIInv
<1> QED BY <1>1, OutboxInvariant, PTL

\* The row of e is in processing and nobody is at work on it, or not for long:
\* a claim of it would be a takeover.
Lapsed(e) == status[e] = "processing" /\ (~leased[e] \/ \A w \in Workers : ~Holding(w, e))

\* Each takeover was paid for by a death or an outlived lease, one to come too.
PaidInv == \A e \in Events :
  attempts[e] + (IF Lapsed(e) THEN 1 ELSE 0) <= MaxAttempts + deaths + stalls

LEMMA InitPaid == OutboxInit => PaidInv
  BY DEF OutboxInit, PaidInv, Lapsed

\* What is paid for stays paid for.
LEMMA StillPaid ==
  ASSUME NEW a \in Nat, NEW b \in Nat, NEW c \in Nat, NEW d \in Nat, NEW s \in Nat, NEW t \in Nat,
         NEW x \in {0, 1}, NEW y \in {0, 1}, b <= a, a + y <= MaxAttempts + c + s,
         (x <= y /\ d + t = c + s) \/ d + t = c + s + 1
  PROVE  b + x <= MaxAttempts + d + t
  BY MaxAttemptsAssumption

\* A step that counts no attempt, and after which e has no more lapsed than
\* before, or a death or an outlived lease more was counted.
LEMMA PaidStep ==
  ASSUME OutboxTypeOK, OutboxTypeOK', PaidInv, NEW e \in Events, attempts'[e] <= attempts[e],
         \/ deaths' + stalls' = deaths + stalls /\ (Lapsed(e)' => Lapsed(e))
         \/ deaths' + stalls' = deaths + stalls + 1
  PROVE  attempts'[e] + (IF Lapsed(e)' THEN 1 ELSE 0) <= MaxAttempts + deaths' + stalls'
<1>1. PICK y \in {0, 1} : y = (IF Lapsed(e) THEN 1 ELSE 0) OBVIOUS
<1>2. PICK x \in {0, 1} : x = (IF Lapsed(e)' THEN 1 ELSE 0) OBVIOUS
<1>3. attempts[e] \in Nat /\ deaths \in Nat /\ stalls \in Nat
  BY DEF OutboxTypeOK
<1>4. attempts'[e] \in Nat /\ deaths' \in Nat /\ stalls' \in Nat
  BY DEF OutboxTypeOK
<1>5. (x <= y /\ deaths' + stalls' = deaths + stalls) \/ deaths' + stalls' = deaths + stalls + 1
  BY <1>1, <1>2
<1>6. attempts[e] + y <= MaxAttempts + deaths + stalls
  BY <1>1 DEF PaidInv
<1>7. attempts'[e] + x <= MaxAttempts + deaths' + stalls'
  BY <1>3, <1>4, <1>5, <1>6, StillPaid
<1> QED BY <1>2, <1>7

LEMMA NextPaid ==
  ASSUME OutboxIInv, PaidInv, [OutboxNext]_outboxVars PROVE PaidInv'
<1>t. OutboxTypeOK /\ OutboxTypeOK' /\ HandInv /\ BudgetDecides
  BY NextType DEF OutboxIInv
<1> SUFFICES ASSUME NEW e \in Events
             PROVE  attempts'[e] + (IF Lapsed(e)' THEN 1 ELSE 0) <= MaxAttempts + deaths' + stalls'
  BY DEF PaidInv
<1>1. ASSUME attempts'[e] <= attempts[e],
             \/ deaths' + stalls' = deaths + stalls /\ (Lapsed(e)' => Lapsed(e))
             \/ deaths' + stalls' = deaths + stalls + 1
      PROVE  attempts'[e] + (IF Lapsed(e)' THEN 1 ELSE 0) <= MaxAttempts + deaths' + stalls'
  BY <1>1, <1>t, PaidStep
<1>n. attempts[e] \in Nat /\ deaths \in Nat /\ stalls \in Nat
  BY <1>t DEF OutboxTypeOK
<1> USE <1>t, <1>n DEF OutboxTypeOK, rowVars, workerVars, budgetsSpent
\* The only step that counts an attempt.
<1>2. ASSUME NEW w \in Workers, Claim(w, e)
      PROVE  attempts'[e] + (IF Lapsed(e)' THEN 1 ELSE 0) <= MaxAttempts + deaths' + stalls'
  <2>1. ~Lapsed(e)' /\ attempts'[e] = attempts[e] + 1 /\ UNCHANGED <<deaths, stalls>>
    BY <1>2 DEF Claim, Lapsed, Holding
  <2>2. CASE status[e] = "pending"
    BY <2>1, <2>2 DEF BudgetDecides
  <2>3. CASE status[e] = "processing" /\ ~leased[e]
    <3>1. Lapsed(e) BY <2>3 DEF Lapsed
    <3>2. attempts[e] + 1 <= MaxAttempts + deaths + stalls BY <3>1 DEF PaidInv
    <3> QED BY <2>1, <3>2
  <2> QED BY <1>2, <2>2, <2>3 DEF Claim, Claimable
<1>3. ASSUME NEW w \in Workers, NEW f \in Events, f # e, Claim(w, f)
      PROVE  attempts'[e] + (IF Lapsed(e)' THEN 1 ELSE 0) <= MaxAttempts + deaths' + stalls'
  <2>0. e # f BY <1>3
  <2>1. /\ attempts'[e] = attempts[e] /\ status'[e] = status[e] /\ leased'[e] = leased[e]
        /\ lock'[e] = lock[e] /\ UNCHANGED <<deaths, stalls>>
    BY <1>3, <2>0 DEF Claim
  <2>2. \A v \in Workers : Holding(v, e) => Holding(v, e)'
    BY <1>3, <2>1 DEF Claim, Holding
  <2>3. Lapsed(e)' => Lapsed(e)
    BY <2>1, <2>2 DEF Lapsed
  <2> QED BY <1>1, <2>1, <2>3
<1>4. ASSUME NEW f \in Events, Emit(f) \/ BackoffElapses(f) \/ LeaseRunsOut(f) \/ LeaseOutlived(f)
      PROVE  attempts'[e] + (IF Lapsed(e)' THEN 1 ELSE 0) <= MaxAttempts + deaths' + stalls'
  <2>1. CASE Emit(f) \/ BackoffElapses(f) \/ LeaseRunsOut(f)
    <3>1. /\ UNCHANGED <<attempts, deaths, stalls>>
          /\ (\A v \in Workers : Holding(v, e)' <=> Holding(v, e))
          /\ (\A v \in Workers : ~Holding(v, e)) \/ leased'[e] = leased[e]
          /\ status'[e] = "processing" => status[e] = "processing"
      BY <2>1 DEF Emit, BackoffElapses, LeaseRunsOut, Holding
    <3>2. Lapsed(e)' => Lapsed(e) BY <3>1 DEF Lapsed
    <3> QED BY <1>1, <3>1, <3>2
  <2>2. CASE LeaseOutlived(f)
    <3>1. UNCHANGED <<attempts, deaths>> /\ stalls' = stalls + 1 BY <2>2 DEF LeaseOutlived
    <3> QED BY <1>1, <3>1
  <2> QED BY <1>4, <2>1, <2>2
\* What a worker does with the event in its hand leaves the others' alone.
<1>5. ASSUME NEW w \in Workers, HandlerReturns(w) \/ Publish(w) \/ Fail(w) \/ RecordDeadLetter(w)
      PROVE  attempts'[e] + (IF Lapsed(e)' THEN 1 ELSE 0) <= MaxAttempts + deaths' + stalls'
  <2>1. UNCHANGED <<attempts, deaths, stalls>>
    BY <1>5 DEF HandlerReturns, Publish, PublishIf, Fail, FailIf, NextStep, RecordDeadLetter, RecordAs
  <2>2. CASE HandlerReturns(w) \/ RecordDeadLetter(w)
    <3>1. /\ UNCHANGED <<status, leased, lock>>
          /\ \A v \in Workers : Holding(v, e) => Holding(v, e)'
      BY <2>2 DEF HandlerReturns, RecordDeadLetter, RecordAs, Holding
    <3>2. Lapsed(e)' => Lapsed(e) BY <3>1 DEF Lapsed
    <3> QED BY <1>1, <2>1, <3>2
  <2>3. CASE Publish(w) \/ Fail(w)
    <3>0. cur[w] \in Events /\ at[w] \in {"handling", "handled"}
      BY <2>3 DEF HandInv, Publish, Fail, FailIf
    <3>1. CASE lock[cur[w]] = w /\ cur[w] = e
      <4>1. status'[e] # "processing"
        BY <2>3, <3>0, <3>1 DEF Publish, PublishIf, Fail, FailIf
      <4> QED BY <1>1, <2>1, <4>1 DEF Lapsed
    <3>2. CASE ~(lock[cur[w]] = w /\ cur[w] = e)
      <4>1. status'[e] = status[e] /\ leased'[e] = leased[e] /\ lock'[e] = lock[e]
        BY <2>3, <3>0, <3>2 DEF Publish, PublishIf, Fail, FailIf
      <4>2. ~Holding(w, e)
        BY <3>2 DEF Holding
      <4>3. \A v \in Workers \ {w} : at'[v] = at[v] /\ cur'[v] = cur[v]
        BY <2>3 DEF Publish, PublishIf, Fail, FailIf, NextStep
      <4>4. \A v \in Workers : Holding(v, e) => Holding(v, e)'
        BY <4>1, <4>2, <4>3 DEF Holding
      <4>5. Lapsed(e)' => Lapsed(e) BY <4>1, <4>4 DEF Lapsed
      <4> QED BY <1>1, <2>1, <4>5
    <3> QED BY <3>1, <3>2
  <2> QED BY <1>5, <2>2, <2>3
<1>6. ASSUME NEW w \in Workers, CrashWorker(w)
      PROVE  attempts'[e] + (IF Lapsed(e)' THEN 1 ELSE 0) <= MaxAttempts + deaths' + stalls'
  <2>1. UNCHANGED <<attempts, stalls>> /\ deaths' = deaths + 1 BY <1>6 DEF CrashWorker
  <2> QED BY <1>1, <2>1
<1>7. ASSUME NEW a \in Admins, MarkReplayed(a) \/ CrashReplay(a) \/ \E f \in Events : ResetDeadLetter(a, f)
      PROVE  attempts'[e] + (IF Lapsed(e)' THEN 1 ELSE 0) <= MaxAttempts + deaths' + stalls'
  <2>1. /\ UNCHANGED <<at, cur, lock, leased, stalls>> /\ deaths' \in {deaths, deaths + 1}
        /\ attempts'[e] <= attempts[e]
        /\ status'[e] = "processing" => status[e] = "processing"
    BY <1>7 DEF MarkReplayed, CrashReplay, ResetDeadLetter
  <2>2. Lapsed(e)' => Lapsed(e) BY <2>1 DEF Lapsed, Holding
  <2>3. deaths' + stalls' = deaths + stalls \/ deaths' + stalls' = deaths + stalls + 1
    <3>1. stalls' = stalls BY <2>1
    <3>2. CASE deaths' = deaths BY <3>1, <3>2
    <3>3. CASE deaths' = deaths + 1 BY <3>1, <3>3
    <3> QED BY <2>1, <3>2, <3>3
  <2> QED BY <1>1, <2>1, <2>2, <2>3
<1>8. CASE UNCHANGED outboxVars
  <2>1. UNCHANGED <<attempts, deaths, stalls>> /\ (Lapsed(e)' => Lapsed(e))
    BY <1>8 DEF outboxVars, Lapsed, Holding
  <2> QED BY <1>1, <2>1
<1> QED BY <1>2, <1>3, <1>4, <1>5, <1>6, <1>7, <1>8 DEF OutboxNext

\* An event waits or is given up as its count says, and between two replays it
\* is tried at most MaxAttempts times and once more for every worker that died
\* and every lease that was outlived: a takeover has no cap of its own
\* (outbox.service.ts:94, 97), and takeovers are all that goes past the budget.
THEOREM OutboxRetryBudget == OutboxSpec => []RetryBudget
<1>1. OutboxInit => OutboxIInv /\ PaidInv BY InitOutbox, InitPaid
<1>2. OutboxIInv /\ PaidInv /\ [OutboxNext]_outboxVars => OutboxIInv' /\ PaidInv'
  BY NextOutbox, NextPaid
<1>3. OutboxIInv /\ PaidInv => RetryBudget
  <2> SUFFICES ASSUME OutboxIInv, PaidInv, NEW e \in Events
               PROVE  attempts[e] <= MaxAttempts + deaths + stalls
    BY DEF OutboxIInv, RetryBudget
  <2>1. attempts[e] \in Nat /\ deaths \in Nat /\ stalls \in Nat BY DEF OutboxIInv, OutboxTypeOK
  <2> QED BY <2>1 DEF PaidInv
<1> QED BY <1>1, <1>2, <1>3, PTL DEF OutboxSpec

\* Published events had their consumer run to completion.
THEOREM OutboxPublishedWasDelivered == OutboxSpec => []PublishedWasDelivered
<1>1. OutboxIInv => PublishedWasDelivered
  BY DEF OutboxIInv
<1> QED BY <1>1, OutboxInvariant, PTL

-----------------------------------------------------------------------------
(* The row of a dead letter.                                               *)

\* A worker that is about to record a dead letter does so as its next step,
\* unless it dies: no other step of anyone touches its hand, and no step takes
\* a DeadLetterEvent away.
LEMMA NextReplayable ==
  OutboxIInv /\ ReplayableUnlessCrashed /\ [OutboxNext]_outboxVars => ReplayableUnlessCrashed'
<1> SUFFICES ASSUME OutboxIInv, ReplayableUnlessCrashed, [OutboxNext]_outboxVars, deaths' = 0,
                    NEW e \in Events, status'[e] = "dead_letter"
             PROVE  \/ deadRow'[e] # "none"
                    \/ \E w \in Workers : at'[w] = "parking" /\ cur'[w] = e
  BY DEF ReplayableUnlessCrashed, DeadLetterIsReplayable
<1> DEFINE Kept == deadRow'[e] # "none" \/ \E w \in Workers : at'[w] = "parking" /\ cur'[w] = e
<1>c. deaths' = deaths => deaths = 0
  OBVIOUS
<1>d. deaths = 0 /\ status[e] = "dead_letter" =>
        deadRow[e] # "none" \/ \E w \in Workers : at[w] = "parking" /\ cur[w] = e
  BY DEF ReplayableUnlessCrashed, DeadLetterIsReplayable
<1> USE DEF OutboxIInv, OutboxTypeOK, Statuses, HandInv, LockInv, rowVars, workerVars, budgetsSpent
<1>1. ASSUME NEW f \in Events, Emit(f) \/ BackoffElapses(f) \/ LeaseRunsOut(f) \/ LeaseOutlived(f)
      PROVE Kept
  <2>1. UNCHANGED <<at, cur, deadRow, deaths>>
    BY <1>1, Zenon DEF Emit, BackoffElapses, LeaseRunsOut, LeaseOutlived
  <2>2. status[e] = "dead_letter"
    BY <1>1 DEF Emit, BackoffElapses, LeaseRunsOut, LeaseOutlived
  <2> QED BY <1>c, <1>d, <2>1, <2>2
<1>2. ASSUME NEW w \in Workers, NEW f \in Events, Claim(w, f) PROVE Kept
  <2>1. /\ UNCHANGED <<deadRow, deaths>> /\ at[w] = "idle"
        /\ \A v \in Workers : v # w => at'[v] = at[v] /\ cur'[v] = cur[v]
        /\ status[e] = "dead_letter"
    BY <1>2 DEF Claim
  <2> QED BY <1>c, <1>d, <2>1
<1>3. ASSUME NEW w \in Workers, HandlerReturns(w) \/ Publish(w) PROVE Kept
  <2>1. /\ UNCHANGED <<deadRow, deaths>> /\ at[w] \in {"handling", "handled"}
        /\ \A v \in Workers : v # w => at'[v] = at[v] /\ cur'[v] = cur[v]
    BY <1>3 DEF HandlerReturns, Publish, PublishIf
  <2>2. status[e] = "dead_letter"
    BY <1>3 DEF HandlerReturns, Publish, PublishIf
  <2> QED BY <1>c, <1>d, <2>1, <2>2
<1>4. ASSUME NEW w \in Workers, Fail(w) PROVE Kept
  <2>1. /\ UNCHANGED <<deadRow, deaths>> /\ at[w] \in {"handling", "handled"} /\ cur[w] \in Events
        /\ \A v \in Workers : v # w => at'[v] = at[v] /\ cur'[v] = cur[v]
    BY <1>4 DEF Fail, FailIf, NextStep
  <2>2. CASE status[e] = "dead_letter"
    BY <1>c, <1>d, <2>1, <2>2
  <2>3. CASE status[e] # "dead_letter"
    \* The event became dead_letter by this very step, so w goes on to record it.
    <3>1. lock[cur[w]] = w /\ e = cur[w] /\ Exhausted(w)
      BY <1>4, <2>1, <2>3 DEF Fail, FailIf
    <3>2. at'[w] = "parking" /\ cur'[w] = e
      BY <1>4, <2>1, <3>1 DEF Fail, NextStep
    <3> QED BY <3>2
  <2> QED BY <2>2, <2>3
<1>5. ASSUME NEW w \in Workers, RecordDeadLetter(w) PROVE Kept
  <2>1. /\ UNCHANGED <<status, deaths>> /\ cur[w] \in Events
        /\ deadRow' = [deadRow EXCEPT ![cur[w]] = "pending"]
        /\ \A v \in Workers : v # w => at'[v] = at[v] /\ cur'[v] = cur[v]
    BY <1>5 DEF RecordDeadLetter, RecordAs
  <2>2. \A f \in Events : deadRow[f] # "none" => deadRow'[f] # "none"
    BY <2>1
  <2>3. deadRow'[cur[w]] # "none"
    BY <2>1
  <2> QED BY <1>c, <1>d, <2>1, <2>2, <2>3
<1>6. ASSUME NEW w \in Workers, CrashWorker(w) PROVE FALSE
  BY <1>6 DEF CrashWorker
<1>7. ASSUME NEW a \in Admins, NEW f \in Events, ResetDeadLetter(a, f) PROVE Kept
  <2>1. UNCHANGED <<at, cur, deadRow, deaths>> /\ status[e] = "dead_letter"
    BY <1>7 DEF ResetDeadLetter
  <2> QED BY <1>c, <1>d, <2>1
<1>8. ASSUME NEW a \in Admins, MarkReplayed(a) PROVE Kept
  <2>1. UNCHANGED <<status, at, cur, deaths>> /\ \A f \in Events : deadRow[f] # "none" => deadRow'[f] # "none"
    BY <1>8 DEF MarkReplayed
  <2> QED BY <1>c, <1>d, <2>1
<1>9. ASSUME NEW a \in Admins, CrashReplay(a) PROVE FALSE
  BY <1>9 DEF CrashReplay
<1>10. CASE UNCHANGED outboxVars
  BY <1>10, <1>c, <1>d DEF outboxVars
<1> QED
  BY <1>1, <1>2, <1>3, <1>4, <1>5, <1>6, <1>7, <1>8, <1>9, <1>10 DEF OutboxNext

\* As long as no process has died between two of its writes, an event that was
\* given up has the row a replay starts from, or the worker that gave it up is
\* about to write it (failOutboxEvent's second write).
THEOREM OutboxReplayableUnlessCrashed == OutboxSpec => []ReplayableUnlessCrashed
<1>1. OutboxInit => ReplayableUnlessCrashed
  BY DEF OutboxInit, ReplayableUnlessCrashed, DeadLetterIsReplayable
<1> QED BY <1>1, NextReplayable, OutboxInvariant, PTL DEF OutboxSpec

-----------------------------------------------------------------------------
(* Steps of the outbox as steps of EventDelivery.                          *)

LEMMA PublishedStays == OutboxIInv /\ [OutboxNext]_outboxVars =>
  \A e \in Events : status[e] = "published" => status'[e] = "published"
<1> SUFFICES ASSUME OutboxIInv, [OutboxNext]_outboxVars, NEW e \in Events, status[e] = "published"
             PROVE status'[e] = "published"
  OBVIOUS
<1> USE DEF OutboxIInv, OutboxTypeOK, LockInv, HandInv, rowVars, workerVars, budgetsSpent
<1>1. ASSUME NEW f \in Events, Emit(f) \/ BackoffElapses(f) \/ LeaseRunsOut(f) \/ LeaseOutlived(f)
      PROVE status'[e] = "published"
  BY <1>1 DEF Emit, BackoffElapses, LeaseRunsOut, LeaseOutlived
<1>2. ASSUME NEW w \in Workers, NEW f \in Events, Claim(w, f) PROVE status'[e] = "published"
  BY <1>2 DEF Claim, Claimable
<1>3. ASSUME NEW w \in Workers, Publish(w) \/ Fail(w) PROVE status'[e] = "published"
  \* A token on the row means the row is processing, so not this event.
  BY <1>3 DEF Publish, PublishIf, Fail, FailIf, NextStep, Exhausted
<1>4. ASSUME NEW w \in Workers, HandlerReturns(w) \/ RecordDeadLetter(w) \/ CrashWorker(w)
      PROVE status'[e] = "published"
  BY <1>4 DEF HandlerReturns, RecordDeadLetter, RecordAs, CrashWorker
<1>5. ASSUME NEW a \in Admins, NEW f \in Events, ResetDeadLetter(a, f) PROVE status'[e] = "published"
  BY <1>5 DEF ResetDeadLetter
<1>6. ASSUME NEW a \in Admins, MarkReplayed(a) \/ CrashReplay(a) PROVE status'[e] = "published"
  BY <1>6 DEF MarkReplayed, CrashReplay
<1>7. CASE UNCHANGED outboxVars
  BY <1>7 DEF outboxVars
<1> QED
  BY <1>1, <1>2, <1>3, <1>4, <1>5, <1>6, <1>7 DEF OutboxNext

\* No step takes an event out of "published".
THEOREM OutboxPublishedIsFinal == OutboxSpec => PublishedIsFinal
<1>1. OutboxIInv /\ [OutboxNext]_outboxVars =>
        [\A e \in Events : status[e] = "published" => status'[e] = "published"]_outboxVars
  BY PublishedStays
<1> QED BY <1>1, OutboxInvariant, PTL DEF OutboxSpec, PublishedIsFinal

\* How a row's status moves decides which abstract step was taken.
PhaseMap == [e \in Events |-> PhaseOf(status[e])]

LEMMA PhaseOfStatus ==
  /\ PhaseOf("none") = "absent"
  /\ PhaseOf("pending") = "queued"
  /\ PhaseOf("processing") = "queued"
  /\ PhaseOf("published") = "delivered"
  /\ PhaseOf("dead_letter") = "parked"
  BY DEF PhaseOf

\* A step that moves one row maps to a step that moves one phase.
LEMMA PhaseStep ==
  ASSUME OutboxTypeOK, NEW f \in Events, NEW s \in Statuses,
         status' = [status EXCEPT ![f] = s]
  PROVE  PhaseMap' = [PhaseMap EXCEPT ![f] = PhaseOf(s)]
<1>1. ASSUME NEW e \in Events PROVE PhaseOf(status'[e]) = IF e = f THEN PhaseOf(s) ELSE PhaseOf(status[e])
  BY DEF OutboxTypeOK
<1>2. PhaseMap' = [e \in Events |-> PhaseOf(status'[e])]
  BY DEF PhaseMap
<1> QED BY <1>1, <1>2 DEF PhaseMap

LEMMA InitDelivers == OutboxInit => Delivery!Init
<1> SUFFICES ASSUME OutboxInit PROVE Delivery!Init
  OBVIOUS
<1>1. \A e \in Events : PhaseOf(status[e]) = "absent"
  BY PhaseOfStatus DEF OutboxInit
<1> QED BY <1>1 DEF OutboxInit, Delivery!Init

LEMMA StepDelivers == OutboxIInv /\ [OutboxNext]_outboxVars => [Delivery!Next]_Delivery!vars
<1> SUFFICES ASSUME OutboxIInv, [OutboxNext]_outboxVars PROVE [Delivery!Next]_Delivery!vars
  OBVIOUS
<1> USE DEF OutboxIInv, Delivery!Next, Delivery!vars
<1>0. SUFFICES \/ UNCHANGED <<PhaseMap, delivered>>
               \/ \E e \in Events :
                    \/ /\ PhaseMap[e] = "absent" /\ UNCHANGED delivered
                       /\ PhaseMap' = [PhaseMap EXCEPT ![e] = "queued"]
                    \/ /\ PhaseMap[e] # "absent" /\ UNCHANGED PhaseMap
                       /\ delivered' = [delivered EXCEPT ![e] = TRUE]
                    \/ /\ PhaseMap[e] = "queued" /\ delivered[e] /\ UNCHANGED delivered
                       /\ PhaseMap' = [PhaseMap EXCEPT ![e] = "delivered"]
                    \/ /\ PhaseMap[e] = "queued" /\ UNCHANGED delivered
                       /\ PhaseMap' = [PhaseMap EXCEPT ![e] = "parked"]
                    \/ /\ PhaseMap[e] = "parked" /\ UNCHANGED delivered
                       /\ PhaseMap' = [PhaseMap EXCEPT ![e] = "queued"]
  BY DEF PhaseMap, Delivery!Enqueue, Delivery!Consume, Delivery!Acknowledge,
         Delivery!Park, Delivery!Requeue
<1>m. \A e \in Events : PhaseMap[e] = PhaseOf(status[e])
  BY DEF PhaseMap
<1>u. status' = status => PhaseMap' = PhaseMap
  BY DEF PhaseMap
<1>1. ASSUME NEW e \in Events, Emit(e)
      PROVE /\ PhaseMap[e] = "absent" /\ UNCHANGED delivered
            /\ PhaseMap' = [PhaseMap EXCEPT ![e] = "queued"]
  BY <1>1, <1>m, PhaseStep, PhaseOfStatus DEF Emit, Statuses
<1>2. ASSUME NEW e \in Events, BackoffElapses(e) \/ LeaseRunsOut(e) \/ LeaseOutlived(e)
      PROVE UNCHANGED <<PhaseMap, delivered>>
  BY <1>2, <1>u DEF BackoffElapses, LeaseRunsOut, LeaseOutlived
<1>3. ASSUME NEW w \in Workers, NEW e \in Events, Claim(w, e)
      PROVE UNCHANGED <<PhaseMap, delivered>>
  <2>1. PhaseMap' = [PhaseMap EXCEPT ![e] = "queued"] /\ PhaseMap[e] = "queued"
    BY <1>3, <1>m, PhaseStep, PhaseOfStatus DEF Claim, Claimable, Statuses
  <2> QED BY <1>3, <2>1 DEF Claim, PhaseMap
<1>4. ASSUME NEW w \in Workers, HandlerReturns(w)
      PROVE /\ cur[w] \in Events /\ PhaseMap[cur[w]] # "absent" /\ UNCHANGED PhaseMap
            /\ delivered' = [delivered EXCEPT ![cur[w]] = TRUE]
  <2>1. cur[w] \in Events /\ status[cur[w]] # "none" /\ UNCHANGED status
    BY <1>4 DEF HandlerReturns, HandInv, rowVars
  <2>2. PhaseOf(status[cur[w]]) # "absent"
    BY <2>1, PhaseOfStatus DEF OutboxTypeOK, Statuses
  <2> QED BY <1>4, <1>m, <1>u, <2>1, <2>2 DEF HandlerReturns
<1>5. ASSUME NEW w \in Workers, Publish(w)
      PROVE \/ UNCHANGED <<PhaseMap, delivered>>
            \/ /\ cur[w] \in Events /\ PhaseMap[cur[w]] = "queued" /\ delivered[cur[w]]
               /\ UNCHANGED delivered /\ PhaseMap' = [PhaseMap EXCEPT ![cur[w]] = "delivered"]
  <2>1. cur[w] \in Events /\ delivered[cur[w]] /\ UNCHANGED delivered
    BY <1>5 DEF Publish, PublishIf, HandInv
  <2>2. CASE lock[cur[w]] = w
    <3>1. status[cur[w]] = "processing" /\ status' = [status EXCEPT ![cur[w]] = "published"]
      BY <1>5, <2>1, <2>2 DEF Publish, PublishIf, LockInv
    <3> QED BY <1>m, <2>1, <3>1, PhaseStep, PhaseOfStatus DEF Statuses
  <2>3. CASE lock[cur[w]] # w
    BY <1>5, <1>u, <2>1, <2>3 DEF Publish, PublishIf
  <2> QED BY <2>2, <2>3
<1>6. ASSUME NEW w \in Workers, Fail(w)
      PROVE \/ UNCHANGED <<PhaseMap, delivered>>
            \/ /\ cur[w] \in Events /\ PhaseMap[cur[w]] = "queued"
               /\ UNCHANGED delivered /\ PhaseMap' = [PhaseMap EXCEPT ![cur[w]] = "parked"]
  <2>1. cur[w] \in Events /\ UNCHANGED delivered
    BY <1>6 DEF Fail, FailIf, NextStep, Exhausted, HandInv
  <2>2. CASE lock[cur[w]] = w
    <3>1. status[cur[w]] = "processing"
      BY <2>1, <2>2 DEF LockInv
    <3>2. CASE seen[w] >= MaxAttempts
      BY <1>6, <1>m, <2>1, <2>2, <3>1, <3>2, PhaseStep, PhaseOfStatus DEF Fail, FailIf, NextStep, Exhausted, Statuses
    <3>3. CASE ~(seen[w] >= MaxAttempts)
      <4>1. PhaseMap' = [PhaseMap EXCEPT ![cur[w]] = "queued"] /\ PhaseMap[cur[w]] = "queued"
        BY <1>6, <1>m, <2>1, <2>2, <3>1, <3>3, PhaseStep, PhaseOfStatus DEF Fail, FailIf, NextStep, Exhausted, Statuses
      <4> QED BY <2>1, <4>1 DEF PhaseMap
    <3> QED BY <3>2, <3>3
  <2>3. CASE lock[cur[w]] # w
    BY <1>6, <1>u, <2>1, <2>3 DEF Fail, FailIf, NextStep, Exhausted
  <2> QED BY <2>2, <2>3
<1>7. ASSUME NEW w \in Workers, RecordDeadLetter(w) \/ CrashWorker(w)
      PROVE UNCHANGED <<PhaseMap, delivered>>
  BY <1>7, <1>u DEF RecordDeadLetter, RecordAs, CrashWorker, rowVars
<1>8. ASSUME NEW a \in Admins, NEW e \in Events, ResetDeadLetter(a, e)
      PROVE /\ PhaseMap[e] = "parked" /\ UNCHANGED delivered
            /\ PhaseMap' = [PhaseMap EXCEPT ![e] = "queued"]
  BY <1>8, <1>m, PhaseStep, PhaseOfStatus DEF ResetDeadLetter, Statuses
<1>9. ASSUME NEW a \in Admins, MarkReplayed(a) \/ CrashReplay(a)
      PROVE UNCHANGED <<PhaseMap, delivered>>
  BY <1>9, <1>u DEF MarkReplayed, CrashReplay, rowVars
<1>10. CASE UNCHANGED outboxVars
  BY <1>10, <1>u DEF outboxVars, rowVars
<1>11. QED
  BY <1>1, <1>2, <1>3, <1>4, <1>5, <1>6, <1>7, <1>8, <1>9, <1>10 DEF OutboxNext

\* The outbox is an at-least-once queue with parking: every step of its
\* workers, leases and replays is a step of EventDelivery or a stutter.
THEOREM OutboxRefinesDelivery == OutboxSpec => DeliverySpec
<1>1. OutboxInit => Delivery!Init
  BY InitDelivers
<1>2. OutboxIInv /\ [OutboxNext]_outboxVars => [Delivery!Next]_Delivery!vars
  BY StepDelivers
<1> QED BY <1>1, <1>2, OutboxInvariant, PTL DEF OutboxSpec, DeliverySpec, Delivery!Spec
=============================================================================
