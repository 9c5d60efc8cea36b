---------------------------- MODULE Negotiation ----------------------------
(***************************************************************************)
(* A customer haggles over one option of a product:                         *)
(*   - NegotiationCommandService.run, a message or an offer with a key;     *)
(*   - NegotiationService: start, offer, accept, close, detail and the job  *)
(*     expireNegotiationsAndQuotes; PricingEngine.decide;                    *)
(*   - NegotiationShoppingService: message, confirm.                        *)
(* A language model answers inside every command, for longer than the       *)
(* command's lock may live.  A write of offer and message finds the version *)
(* it read or fails, and each write of the price bumps the version, so what *)
(* the write needs of the session is what it was when it was read.          *)
(***************************************************************************)
EXTENDS Naturals, FiniteSets, FiniteSetsExt

CONSTANTS Selling, Minimum, MaxDiscount, \* sellingPriceMinor, negotiationRules
          MaxOffers,   \* maximumOffers
          Prices,      \* what a customer offers
          Keys,        \* idempotency keys, one message or offer each
          Starters, Runs, Customers, Confirmers, \* requests, by handler
          MaxCrashes,  \* bound: requests that die
          None

Floor == Max({Minimum, Selling - MaxDiscount})
Words == 0 \* a message without an amount

ASSUME RulesAssumption ==
  /\ {Selling, Minimum, MaxDiscount} \subseteq Nat /\ MaxOffers \in 1..10
  /\ MaxDiscount <= Selling /\ Floor \in 1..Selling
  /\ Prices \subseteq Nat \ {0} /\ IsFiniteSet(Prices)
ASSUME RequestsAssumption ==
  /\ MaxCrashes \in Nat
  /\ None \notin Runs \cup Confirmers \cup Keys
  /\ Starters \cap (Runs \cup Customers \cup Confirmers) = {} /\ Runs \cap (Customers \cup Confirmers) = {}
  /\ Customers \cap Confirmers = {}

VARIABLES
  (* what each key's message carries, an amount or Words; the requests that *)
  (* may outlive their lock or lease: neither changes                       *)
  says, slow,
  (* Negotiation: status, version, offerCount, agreedPriceMinor and           *)
  (* lastCounterPriceMinor (0 for none), the best offer in the transcript,   *)
  (* the keys with a result, the prices hook has named in those results      *)
  ses, late, twins, \* expiresAt has passed; further active sessions
  lock, lockLive,   \* commandLock
  command,          \* NegotiationCommand: status and owner
  quote,            \* NegotiatedQuote: status and price
  action, lease,    \* the shopping action: state, executionId; its lease is live
  inCart,           \* the quoted line lies in the cart
  pc, seen,         \* requests: step; key, and version and price read
  crashes

fixed == <<says, slow>>
sessionVars == <<ses, late, twins>>
commandVars == <<lock, lockLive, command>>
actionVars == <<action, lease, inCart>>
data == <<sessionVars, commandVars, quote, actionVars>>
vars == <<fixed, data, pc, seen, crashes>>

Procs == Starters \cup Runs \cup Customers \cup Confirmers
NoSession == [status |-> "none", version |-> 0, offers |-> 0, agreed |-> 0, counter |-> 0,
              best |-> 0, done |-> {}, told |-> {}]
Unseen == [key |-> None, version |-> 0, price |-> 0]
Goto(p, step) == pc' = [pc EXCEPT ![p] = step]
Leave(p) == Goto(p, "ready") /\ seen' = [seen EXCEPT ![p] = Unseen]

Init ==
  /\ says \in [Keys -> Prices \cup {Words}] /\ slow \in SUBSET (Runs \cup Confirmers)
  /\ ses = NoSession /\ late = FALSE /\ twins = 0
  /\ lock = None /\ lockLive = FALSE
  /\ command = [k \in Keys |-> [status |-> "none", owner |-> None]]
  /\ quote = [status |-> "none", price |-> 0]
  /\ action = [state |-> "none", by |-> None] /\ lease = FALSE /\ inCart = FALSE
  /\ pc = [p \in Procs |-> "ready"] /\ seen = [p \in Procs |-> Unseen]
  /\ crashes = 0

Forget(r) == seen' = [seen EXCEPT ![r].version = 0]

Active == ses.status = "ACTIVE"

-----------------------------------------------------------------------------
(* PricingEngine.decide: the price below which offer n is not accepted      *)
(* mutant: the last offer is measured by the round before                   *)
ThresholdBehind(n) == Selling - ((Selling - Floor) * (n + 1)) \div MaxOffers
Threshold(n) == Selling - ((Selling - Floor) * n) \div MaxOffers

Decide(offer, n, best, counter) ==
  LET stuck == best > 0 /\ offer <= best
      price == IF stuck /\ counter > 0 THEN counter ELSE Threshold(n) IN
  IF ~stuck /\ offer >= Threshold(n)
    THEN [decision |-> "ACCEPT", price |-> Min({offer, Selling})]
  ELSE IF n = MaxOffers THEN [decision |-> "DECLINE", price |-> 0]
  ELSE [decision |-> "COUNTER", price |-> price]

(* the lowest price named so far, 0 for none: what offer and accept lock     *)
(* mutant: the agreed price wins over a lower counter *)
LowestAgreed(prices) == IF prices \ {0} = {} THEN 0 ELSE Max(prices \ {0})
Lowest(prices) == IF prices \ {0} = {} THEN 0 ELSE Min(prices \ {0})

-----------------------------------------------------------------------------
(* start: the look for an active session, the language model's readiness,   *)
(* the record                                                               *)
StartRead(s) ==
  /\ pc[s] = "ready" /\ ses.status = "none" /\ Goto(s, "start")
  /\ UNCHANGED <<fixed, data, seen, crashes>>
StartWrite(s) ==
  /\ pc[s] = "start"
  /\ IF ses.status = "none"
       THEN ses' = [NoSession EXCEPT !.status = "ACTIVE", !.version = 1] /\ UNCHANGED twins
       ELSE twins' = twins + 1 /\ UNCHANGED ses
  /\ Leave(s)
  /\ UNCHANGED <<fixed, late, commandVars, quote, actionVars, crashes>>

-----------------------------------------------------------------------------
(* run: the command record, unless its answer is there already *)
Submit(r, k) ==
  /\ pc[r] = "ready" /\ ses.status # "none" /\ command[k].status # "completed"
  /\ command' = IF command[k].status = "none" THEN [command EXCEPT ![k].status = "pending"] ELSE command
  /\ Goto(r, "lock") /\ seen' = [seen EXCEPT ![r].key = k]
  /\ UNCHANGED <<fixed, sessionVars, lock, lockLive, quote, actionVars, crashes>>

(* the lock of the session, free or lapsed; otherwise the answer is a 409 *)
TakeLock(r) ==
  /\ pc[r] = "lock"
  /\ IF lockLive THEN Leave(r) /\ UNCHANGED <<lock, lockLive>>
     ELSE lock' = r /\ lockLive' = TRUE /\ Goto(r, "process") /\ UNCHANGED seen
  /\ UNCHANGED <<fixed, sessionVars, command, quote, actionVars, crashes>>

MarkProcessing(r) ==
  /\ pc[r] = "process"
  /\ command' = [command EXCEPT ![seen[r].key] = [status |-> "processing", owner |-> r]]
  /\ Goto(r, "read")
  /\ UNCHANGED <<fixed, sessionVars, lock, lockLive, quote, actionVars, seen, crashes>>

(* a result is there for the key *)
(* mutant: the results are not looked at *)
AnsweredNever(k) == FALSE
Answered(k) == k \in ses.done

(* offer and message up to the language model *)
MayAnswer(k) ==
  IF says[k] # Words THEN Active /\ ses.offers < MaxOffers
  ELSE Active \/ ses.status = "AGREED"

ReadSession(r) ==
  LET k == seen[r].key IN
  /\ pc[r] = "read"
  /\ Goto(r, CASE Answered(k) -> "snapshot"
               [] ~Answered(k) /\ Active /\ late -> "stale"
               [] ~Answered(k) /\ ~(Active /\ late) /\ MayAnswer(k) -> "think"
               [] OTHER -> "fail")
  /\ seen' = [seen EXCEPT ![r].version = IF pc'[r] = "think" THEN ses.version ELSE 0]
  /\ UNCHANGED <<fixed, data, crashes>>

(* offer marks what it finds expired, message only refuses *)
RefuseExpired(r) ==
  /\ pc[r] = "stale"
  /\ ses' = IF says[seen[r].key] # Words /\ Active THEN [ses EXCEPT !.status = "EXPIRED"] ELSE ses
  /\ Goto(r, "fail")
  /\ UNCHANGED <<fixed, late, twins, commandVars, quote, actionVars, seen, crashes>>

(* the language model is unavailable, or calls a price what is not one *)
ModelFails(r) ==
  /\ pc[r] = "think" /\ Goto(r, "fail") /\ Forget(r)
  /\ UNCHANGED <<fixed, data, crashes>>

(* the filter of both writes: the version that was read, the fence, the key *)
(* mutants: the version is not in it; the session's id is all there is in it *)
MayWriteAnyVersion(r) == seen[r].key \notin ses.done /\ lock = r /\ lockLive
MayWriteById(r) == pc[r] = "think"
MayWrite(r) ==
  /\ ses.version = seen[r].version /\ seen[r].key \notin ses.done
  /\ lock = r /\ lockLive

Written(r) == [ses EXCEPT !.version = @ + 1, !.done = @ \cup {seen[r].key}]

(* offer's transaction *)
AfterOffer(r, offer) ==
  LET n == ses.offers + 1
      d == Decide(offer, n, ses.best, ses.counter)
      agreed == IF d.decision = "ACCEPT" THEN Lowest({ses.agreed, d.price}) ELSE ses.agreed
      countered == IF d.decision = "COUNTER" THEN d.price ELSE 0
      lowest == Lowest({agreed, ses.counter, countered})
      locks == n >= MaxOffers /\ lowest > 0 IN
  [Written(r) EXCEPT
     !.offers = n, !.best = Max({@, offer}),
     !.told = @ \cup ({d.price, IF locks THEN lowest ELSE agreed} \ {0}),
     !.counter = IF countered > 0 THEN countered ELSE @,
     !.agreed = IF locks THEN lowest ELSE agreed,
     !.status = IF locks THEN "AGREED" ELSE IF d.decision = "DECLINE" THEN "DECLINED" ELSE "ACTIVE"]

(* createQuote: one per negotiation *)
QuoteAt(price) == IF quote.status = "none" THEN [status |-> "ACTIVE", price |-> price] ELSE quote

WriteOffer(r) ==
  LET after == AfterOffer(r, says[seen[r].key]) IN
  /\ pc[r] = "think" /\ says[seen[r].key] # Words
  /\ IF MayWrite(r)
       THEN /\ ses' = after
            /\ quote' = IF after.status = "AGREED" THEN QuoteAt(after.agreed) ELSE quote
            /\ Goto(r, "snapshot")
       ELSE Goto(r, "fail") /\ UNCHANGED <<ses, quote>>
  /\ Forget(r)
  /\ UNCHANGED <<fixed, late, twins, commandVars, actionVars, crashes>>

(* message: words only, or, once a quote is there to use, an action that the *)
(* customer must confirm                                                    *)
WriteMessage(r) ==
  /\ pc[r] = "think" /\ says[seen[r].key] = Words
  /\ IF MayWrite(r)
       THEN /\ ses' = Written(r)
            /\ \/ UNCHANGED action
               \/ /\ action.state = "none" /\ ses.status = "AGREED"
                  /\ quote.status = "ACTIVE"
                  /\ action' = [state |-> "pending", by |-> None]
            /\ Goto(r, "snapshot")
       ELSE Goto(r, "fail") /\ UNCHANGED <<ses, action>>
  /\ Forget(r)
  /\ UNCHANGED <<fixed, late, twins, commandVars, quote, lease, inCart, crashes>>

(* detail: a session found past its time is marked in a write of its own,   *)
(* which looks at nothing                                                   *)
Snapshot(r) ==
  /\ pc[r] = "snapshot"
  /\ Goto(r, IF Active /\ late THEN "expire" ELSE "complete")
  /\ UNCHANGED <<fixed, data, seen, crashes>>
MarkExpired(p) ==
  /\ pc[p] = "expire"
  /\ ses' = [ses EXCEPT !.status = "EXPIRED"]
  /\ IF p \in Runs THEN Goto(p, "complete") /\ UNCHANGED seen ELSE Leave(p)
  /\ UNCHANGED <<fixed, late, twins, commandVars, quote, actionVars, crashes>>

(* the command's record, if it is still this run's (whose name is not used  *)
(* again); then the lock, likewise                                          *)
Record(r) ==
  LET k == seen[r].key
      status == IF pc[r] = "complete" THEN "completed" ELSE "failed" IN
  /\ pc[r] \in {"complete", "fail"}
  /\ command' = IF command[k].owner = r THEN [command EXCEPT ![k] = [status |-> status, owner |-> None]] ELSE command
  /\ Goto(r, "release")
  /\ UNCHANGED <<fixed, sessionVars, lock, lockLive, quote, actionVars, seen, crashes>>
ReleaseLock(r) ==
  /\ pc[r] = "release"
  /\ IF lock = r THEN lock' = None /\ lockLive' = FALSE ELSE UNCHANGED <<lock, lockLive>>
  /\ Leave(r)
  /\ UNCHANGED <<fixed, sessionVars, command, quote, actionVars, crashes>>

-----------------------------------------------------------------------------
(* accept: what it reads, and the transaction *)
AcceptRead(a) ==
  /\ pc[a] = "ready" /\ Active /\ Lowest({ses.agreed, ses.counter}) > 0
  /\ Goto(a, IF late THEN "expire" ELSE "accept")
  /\ seen' = [seen EXCEPT ![a] = [key |-> None, version |-> ses.version, price |-> Lowest({ses.agreed, ses.counter})]]
  /\ UNCHANGED <<fixed, data, crashes>>

MayAccept(a) == Active /\ ses.version = seen[a].version

AcceptWrite(a) ==
  LET price == seen[a].price IN
  /\ pc[a] = "accept"
  /\ IF MayAccept(a)
       THEN /\ ses' = [ses EXCEPT !.status = "AGREED", !.agreed = price, !.version = @ + 1]
            /\ quote' = QuoteAt(price)
       ELSE UNCHANGED <<ses, quote>>
  /\ Leave(a)
  /\ UNCHANGED <<fixed, late, twins, commandVars, actionVars, crashes>>

Close ==
  /\ Active
  /\ ses' = [ses EXCEPT !.status = "CLOSED", !.version = @ + 1]
  /\ UNCHANGED <<fixed, late, twins, commandVars, quote, actionVars, pc, seen, crashes>>

ViewRead(a) ==
  /\ pc[a] = "ready" /\ Active /\ late /\ Goto(a, "expire")
  /\ UNCHANGED <<fixed, data, seen, crashes>>

-----------------------------------------------------------------------------
(* confirm: the lease of the action, addItem, the receipt *)
ConfirmRead(c) ==
  /\ pc[c] = "ready" /\ action.state \in {"pending", "executing"} /\ ses.status = "AGREED"
  /\ Goto(c, "lease")
  /\ UNCHANGED <<fixed, data, seen, crashes>>
TakeLease(c) ==
  /\ pc[c] = "lease"
  /\ IF action.state = "pending" \/ (action.state = "executing" /\ ~lease)
       THEN action' = [state |-> "executing", by |-> c] /\ lease' = TRUE /\ Goto(c, "quote") /\ UNCHANGED seen
       ELSE Leave(c) /\ UNCHANGED <<action, lease>>
  /\ UNCHANGED <<fixed, sessionVars, commandVars, quote, inCart, crashes>>

(* addItem reads the quote, and sets the line to the quote's quantity *)
CheckQuote(c) ==
  /\ pc[c] = "quote"
  /\ Goto(c, IF quote.status = "ACTIVE" THEN "line" ELSE "undo")
  /\ UNCHANGED <<fixed, data, seen, crashes>>
SetLine(c) ==
  /\ pc[c] = "line" /\ inCart' = TRUE /\ Goto(c, "receipt")
  /\ UNCHANGED <<fixed, sessionVars, commandVars, quote, action, lease, seen, crashes>>

(* mutant: an executing action is given back whoever executes it now *)
OwnsAny(c) == action.state # "none"
Owns(c) == action.by = c

Undo(c) ==
  /\ pc[c] = "undo"
  /\ IF Owns(c) THEN action' = [state |-> "pending", by |-> None] /\ lease' = FALSE
               ELSE UNCHANGED <<action, lease>>
  /\ Leave(c)
  /\ UNCHANGED <<fixed, sessionVars, commandVars, quote, inCart, crashes>>
Receipt(c) ==
  /\ pc[c] = "receipt"
  /\ IF Owns(c) /\ action.state = "executing"
       THEN /\ action' = [state |-> "completed", by |-> None] /\ lease' = FALSE
            /\ ses' = [ses EXCEPT !.version = @ + 1]
       ELSE UNCHANGED <<action, lease, ses>>
  /\ Leave(c)
  /\ UNCHANGED <<fixed, late, twins, commandVars, quote, inCart, crashes>>

-----------------------------------------------------------------------------
(* Elsewhere: the job, the checkout and the cart, time, and a crash *)
ExpireSessions ==
  /\ Active /\ late
  /\ ses' = [ses EXCEPT !.status = "EXPIRED"]
  /\ UNCHANGED <<fixed, late, twins, commandVars, quote, actionVars, pc, seen, crashes>>
CheckOut ==
  /\ inCart /\ quote.status = "ACTIVE"
  /\ quote' = [quote EXCEPT !.status = "USED"] /\ inCart' = FALSE
  /\ UNCHANGED <<fixed, sessionVars, commandVars, action, lease, pc, seen, crashes>>
RemoveLine ==
  /\ inCart /\ inCart' = FALSE
  /\ UNCHANGED <<fixed, sessionVars, commandVars, quote, action, lease, pc, seen, crashes>>

SessionEnds ==
  /\ ses.status # "none" /\ ~late /\ late' = TRUE
  /\ UNCHANGED <<fixed, ses, twins, commandVars, quote, actionVars, pc, seen, crashes>>
(* whoever reads a quote looks at its time too, so the job's mark adds nothing *)
QuoteEnds ==
  /\ quote.status = "ACTIVE"
  /\ quote' = [quote EXCEPT !.status = "EXPIRED"]
  /\ UNCHANGED <<fixed, sessionVars, commandVars, actionVars, pc, seen, crashes>>

(* A lock outlives a holder that died, and ends too soon for a slow one *)
Holds(p, step) == p \in Procs /\ pc[p] \notin {"ready", step}
LockLapses ==
  /\ lockLive /\ (Holds(lock, "lock") => lock \in slow)
  /\ lockLive' = FALSE
  /\ UNCHANGED <<fixed, sessionVars, lock, command, quote, actionVars, pc, seen, crashes>>
LeaseLapses ==
  /\ lease /\ action.by \in slow
  /\ lease' = FALSE
  /\ UNCHANGED <<fixed, sessionVars, commandVars, quote, action, inCart, pc, seen, crashes>>

(* A command dies where that leaves something behind; a confirmation, of    *)
(* which no progress is assumed, may stop anywhere as it is.                *)
Crash(r) ==
  /\ pc[r] \in {"think", "complete", "release"} /\ crashes < MaxCrashes
  /\ crashes' = crashes + 1 /\ Leave(r)
  /\ UNCHANGED <<fixed, data>>

RunStep(r) ==
  \/ TakeLock(r) \/ MarkProcessing(r) \/ ReadSession(r) \/ RefuseExpired(r)
  \/ WriteOffer(r) \/ WriteMessage(r) \/ Snapshot(r) \/ MarkExpired(r)
  \/ Record(r) \/ ReleaseLock(r)

Next ==
  \/ \E s \in Starters : StartRead(s) \/ StartWrite(s)
  \/ \E r \in Runs : RunStep(r) \/ ModelFails(r) \/ \E k \in Keys : Submit(r, k)
  \/ \E a \in Customers : AcceptRead(a) \/ AcceptWrite(a) \/ ViewRead(a) \/ MarkExpired(a)
  \/ Close
  \/ \E c \in Confirmers : \/ ConfirmRead(c) \/ TakeLease(c) \/ CheckQuote(c) \/ SetLine(c)
                           \/ Undo(c) \/ Receipt(c)
  \/ ExpireSessions \/ CheckOut \/ RemoveLine \/ SessionEnds \/ QuoteEnds
  \/ LockLapses \/ LeaseLapses
  \/ \E r \in Runs : Crash(r)

Spec == Init /\ [][Next]_vars

-----------------------------------------------------------------------------
Statuses == {"none", "ACTIVE", "AGREED", "DECLINED", "EXPIRED", "CLOSED"}
TypeOK ==
  /\ says \in [Keys -> Prices \cup {Words}] /\ slow \subseteq Runs \cup Confirmers
  /\ ses.status \in Statuses /\ {ses.version, ses.agreed, ses.counter, ses.best} \subseteq Nat
  /\ ses.offers \in 0..MaxOffers /\ ses.done \subseteq Keys /\ ses.told \subseteq Nat
  /\ {late, lockLive, lease, inCart} \subseteq BOOLEAN /\ twins \in Nat
  /\ lock \in Runs \cup {None}
  /\ command \in [Keys -> [status : {"none", "pending", "processing", "failed", "completed"},
                           owner : Runs \cup {None}]]
  /\ quote \in [status : {"none", "ACTIVE", "EXPIRED", "USED"}, price : Nat]
  /\ action \in [state : {"none", "pending", "executing", "completed"}, by : Confirmers \cup {None}]
  /\ pc \in [Procs -> {"ready", "start", "lock", "process", "read", "stale", "think", "snapshot",
                       "expire", "complete", "fail", "release", "accept", "lease", "quote", "line",
                       "undo", "receipt"}]
  /\ seen \in [Procs -> [key : Keys \cup {None}, version : Nat, price : Nat]]
  /\ crashes \in Nat

(* A quote is at the lowest price hook has named, never below what the      *)
(* product's rules allow, whatever offers, acceptances and takeovers race   *)
(* (PricingEngine.decide, bestAvailablePrice of offer, bestPrice of accept).*)
BestPriceHonoured ==
  quote.status # "none" =>
    /\ quote.price \in Floor..Selling
    /\ \A price \in ses.told : quote.price <= price

(* Every agreement has its quote, at the agreed price, and a quote belongs  *)
(* to an agreement (the two are written in one transaction, by offer or by  *)
(* accept, whichever comes first).                                          *)
AgreedIsQuoted ==
  /\ ses.status = "AGREED" => quote.status # "none"
  /\ quote.status # "none" => ses.status \in {"AGREED", "EXPIRED"} /\ ses.agreed = quote.price

(* What was named, agreed and quoted is one price.                          *)
PriceIsKept == BestPriceHonoured /\ AgreedIsQuoted

(* A key is answered once, and its offer counted once, however often the    *)
(* command is run (the results of the session, its version, the fence).     *)
OfferCountedOnce == ses.offers <= Cardinality({k \in ses.done : says[k] # Words})

(* A confirmed action stays confirmed: the failure of an execution that     *)
(* lost its lease does not open it again (executionId).                     *)
ConfirmedStays == [][action.state = "completed" => action'.state = "completed"]_vars

(* A session whose time has passed is not agreed upon any more.             *)
ExpiredStays == [][ses.status = "EXPIRED" => ses'.status = "EXPIRED"]_vars

(* A quote the customer may use is reachable from its negotiation.          *)
QuoteIsReachable == quote.status = "ACTIVE" => ses.status = "AGREED"

(* There is one active session of a customer for an option.                 *)
OneActive == twins = 0
=============================================================================
