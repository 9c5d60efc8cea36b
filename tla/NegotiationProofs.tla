------------------------- MODULE NegotiationProofs -------------------------
(***************************************************************************)
(* Proofs about Negotiation, for any rules of the product, offers, keys and *)
(* requests: what hook names, agrees to and quotes is one price, within the *)
(* rules; an offer is counted once; a confirmed action stays confirmed.     *)
(* Then, what Basket guarantees of identifiers and of a preview that can be *)
(* confirmed, SignUp of the grants to who comes in, Pricing of what was     *)
(* quoted, and Discovery of what a walk through the products shows.         *)
(***************************************************************************)
EXTENDS Negotiation, Storefront, WellFoundedInduction, FiniteSetTheorems, SequenceTheorems, TLAPS

-----------------------------------------------------------------------------
(* Prices: PricingEngine.decide, and the lowest of a few amounts            *)

\* The least of a set of numbers, once somebody has named it.
LEMMA MinIs ==
  ASSUME NEW S \in SUBSET Nat, NEW m \in S, \A y \in S : m <= y
  PROVE  Min(S) \in S /\ \A y \in S : Min(S) <= y
<1> DEFINE P(x) == x \in S /\ \A y \in S : x <= y
<1>1. \E x : P(x) OBVIOUS
<1>2. P(CHOOSE x : P(x)) BY <1>1, Zenon
<1>3. (CHOOSE x : P(x)) = Min(S) BY Zenon DEF Min
<1> QED BY <1>2, <1>3, Zenon

\* bestAvailablePrice and bestPrice: 0 when no amount was named, else the least of them.
IsLowest(l, S) == IF S \ {0} = {} THEN l = 0 ELSE l \in S \ {0} /\ \A y \in S \ {0} : l <= y
LEMMA LowestOfThree ==
  ASSUME NEW a \in Nat, NEW b \in Nat, NEW c \in Nat
  PROVE  IsLowest(Lowest({a, b, c}), {a, b, c})
<1> DEFINE S == {a, b, c} \ {0}
<1>1. S \in SUBSET Nat
  OBVIOUS
<1>2. CASE S = {} BY <1>2 DEF Lowest, IsLowest
<1>3. CASE S # {}
  <2>1. \E m \in S : \A y \in S : m <= y
    <3>1. PICK x \in S : TRUE BY <1>3
    <3>2. CASE \E y \in S : \A z \in S : y <= z BY <3>2
    <3>3. CASE \A y \in S : \E z \in S : ~(y <= z) BY <3>1, <3>3, <1>1
    <3> QED BY <3>2, <3>3
  <2>2. PICK m \in S : \A y \in S : m <= y BY <2>1
  <2>3. Min(S) \in S /\ \A y \in S : Min(S) <= y BY <2>2, <1>1, MinIs
  <2> QED BY <2>3, <1>3 DEF Lowest, IsLowest
<1> QED BY <1>2, <1>3

LEMMA LowestOfTwo ==
  ASSUME NEW a \in Nat, NEW b \in Nat
  PROVE  IsLowest(Lowest({a, b}), {a, b})
<1>1. {a, b, b} = {a, b} OBVIOUS
<1> QED BY <1>1, LowestOfThree

\* The rules: the floor lies between 1 and the selling price.
LEMMA RulesType ==
  /\ Selling \in Nat /\ Minimum \in Nat /\ MaxDiscount \in Nat /\ MaxOffers \in 1..10
  /\ Floor \in 1..Selling /\ Selling \in Floor..Selling
  /\ Prices \subseteq Nat \ {0} /\ Words = 0 /\ Words \notin Prices
<1>1. Floor \in 1..Selling BY RulesAssumption
<1> QED BY <1>1, RulesAssumption DEF Words

\* A round down of the price falls from the selling price to the floor.
LEMMA ThresholdFalls ==
  ASSUME NEW n \in 0..MaxOffers
  PROVE  /\ Threshold(n) \in Floor..Selling
         /\ n + 1 <= MaxOffers => Threshold(n + 1) <= Threshold(n)
<1> DEFINE d == Selling - Floor
<1>1. d \in Nat /\ Floor \in Nat /\ Selling \in Nat BY RulesType
<1>2. /\ d * n \in Nat /\ d * (n + 1) \in Nat /\ d * (n + 1) = d * n + d
      /\ d * n <= d * MaxOffers
  <2>1. PICK k \in Nat : MaxOffers = n + k BY RulesType
  <2>2. d * MaxOffers = d * n + d * k BY <2>1, <1>1
  <2>3. d * n \in Nat /\ d * k \in Nat BY <1>1
  <2> QED BY <1>1, <2>2, <2>3
<1> HIDE DEF d
<1> DEFINE x == d * n  y == d * (n + 1)  z == d * MaxOffers
<1>3. x \in Nat /\ y \in Nat /\ x <= z /\ x <= y /\ z = d * MaxOffers BY <1>1, <1>2
<1>4. \A m \in 1..10 : MaxOffers = m =>
        /\ x \div MaxOffers \in 0..d
        /\ x \div MaxOffers <= y \div MaxOffers
  <2> HIDE DEF x, y, z
  <2> SUFFICES ASSUME NEW m \in 1..10, MaxOffers = m
               PROVE  x \div m \in 0..d /\ x \div m <= y \div m
    OBVIOUS
  <2>1. z = d * m BY <1>3
  <2> QED BY <1>1, <1>3, <2>1
<1>5. x \div MaxOffers \in 0..d /\ x \div MaxOffers <= y \div MaxOffers
  BY <1>4, RulesType
<1> DEFINE a == x \div MaxOffers  b == y \div MaxOffers
<1>6. Threshold(n) = Selling - a /\ Threshold(n + 1) = Selling - b
  BY DEF Threshold, d
<1>7. a \in 0..d /\ (n + 1 <= MaxOffers => a <= b /\ b \in 0..d)
  <2>1. ASSUME n + 1 <= MaxOffers PROVE b \in 0..d
    <3>1. y \in Nat /\ y <= z
      <4>1. PICK k \in Nat : MaxOffers = (n + 1) + k BY <2>1, RulesType
      <4>2. d * MaxOffers = d * (n + 1) + d * k BY <4>1, <1>1
      <4>3. d * (n + 1) \in Nat /\ d * k \in Nat BY <1>1
      <4> QED BY <4>2, <4>3
    <3>2. \A m \in 1..10 : MaxOffers = m => y \div MaxOffers \in 0..d
      <4> HIDE DEF x, y, z
      <4> SUFFICES ASSUME NEW m \in 1..10, MaxOffers = m PROVE y \div m \in 0..d
        OBVIOUS
      <4>1. z = d * m BY <1>3
      <4> QED BY <1>1, <1>3, <3>1, <4>1
    <3> QED BY <3>2, RulesType
  <2> QED BY <1>5, <2>1
<1> HIDE DEF a, b
<1> QED BY <1>1, <1>6, <1>7 DEF d

\* decide: what it accepts and counters lies within the rules, a counter is not above the one
\* before, and every round but the last is answered with a price.
Priced == {0} \cup (Floor..Selling)
LEMMA DecideType ==
  ASSUME NEW offer \in Prices, NEW n \in 1..MaxOffers, NEW best \in Nat, NEW counter \in Priced,
         counter # 0 => counter >= Threshold(n)
  PROVE  LET d == Decide(offer, n, best, counter) IN
         /\ d.decision \in {"ACCEPT", "DECLINE", "COUNTER"}
         /\ d.decision = "DECLINE" => n = MaxOffers /\ d.price = 0
         /\ d.decision = "ACCEPT" => d.price \in Floor..Selling
         /\ d.decision = "COUNTER" => /\ n # MaxOffers
                                      /\ d.price \in Floor..Selling /\ d.price >= Threshold(n)
                                      /\ counter # 0 => d.price <= counter
<1>1. Threshold(n) \in Floor..Selling BY ThresholdFalls, RulesType
<1>2. offer \in Nat /\ Selling \in Nat BY RulesType
<1>3. Min({offer, Selling}) \in {offer, Selling} /\ Min({offer, Selling}) <= offer
      /\ Min({offer, Selling}) <= Selling
  <2>1. CASE offer <= Selling
    BY <2>1, <1>2, MinIs, \A y \in {offer, Selling} : offer <= y, {offer, Selling} \in SUBSET Nat
  <2>2. CASE Selling <= offer
    BY <2>2, <1>2, MinIs, \A y \in {offer, Selling} : Selling <= y, {offer, Selling} \in SUBSET Nat
  <2> QED BY <1>2, <2>1, <2>2
<1>4. offer >= Threshold(n) => Min({offer, Selling}) \in Floor..Selling
  BY <1>1, <1>2, <1>3, RulesType
<1> QED BY <1>1, <1>2, <1>4, RulesType DEF Decide, Priced

-----------------------------------------------------------------------------
(* The invariant *)

SesRecords == [status : Statuses, version : Nat, offers : 0..MaxOffers, agreed : Priced, counter : Priced,
               best : Nat, done : SUBSET Keys, told : SUBSET (Floor..Selling)]
CommandRecords == [status : {"none", "pending", "processing", "failed", "completed"},
                   owner : Runs \cup {None}]
QuoteRecords == [status : {"none", "ACTIVE", "EXPIRED", "USED"}, price : Nat]
ActionRecords == [state : {"none", "pending", "executing", "completed"}, by : Confirmers \cup {None}]
SeenRecords == [key : Keys \cup {None}, version : Nat, price : Nat]
Steps == {"ready", "start", "lock", "process", "read", "stale", "think", "snapshot", "expire", "complete",
          "fail", "release", "accept", "lease", "quote", "line", "undo", "receipt"}

TypeInv ==
  /\ says \in [Keys -> Prices \cup {Words}] /\ slow \subseteq Runs \cup Confirmers
  /\ ses \in SesRecords /\ late \in BOOLEAN /\ twins \in Nat
  /\ lock \in Runs \cup {None} /\ lockLive \in BOOLEAN /\ command \in [Keys -> CommandRecords]
  /\ quote \in QuoteRecords
  /\ action \in ActionRecords /\ lease \in BOOLEAN /\ inCart \in BOOLEAN
  /\ pc \in [Procs -> Steps] /\ seen \in [Procs -> SeenRecords] /\ crashes \in Nat

\* A command at work carries the key it was sent with.
KeyInv == \A r \in Runs : pc[r] # "ready" => seen[r].key \in Keys

\* A command at the language model, or an acceptance, that would still find the version it read
\* would find the prices it read, and for an offer no quote, and a round left.
ThinkInv == \A r \in Runs : pc[r] = "think" =>
  /\ ses.status # "none" /\ seen[r].version <= ses.version
  /\ says[seen[r].key] # Words /\ seen[r].version = ses.version =>
       quote.status = "none" /\ ses.offers < MaxOffers
AcceptInv == \A a \in Customers : pc[a] = "accept" =>
  /\ ses.status # "none" /\ seen[a].version <= ses.version
  /\ seen[a].version = ses.version =>
       seen[a].price # 0 /\ seen[a].price = Lowest({ses.agreed, ses.counter})

\* Whatever hook has named, the price that was agreed on or the last counter is not above it; the
\* counter is one of the rounds so far.
NamedInv ==
  /\ \A price \in ses.told : \E q \in {ses.agreed, ses.counter} : q # 0 /\ q <= price
  /\ ses.counter # 0 => ses.counter >= Threshold(ses.offers)

\* An action that was confirmed is nobody's to give back.
ActionInv == action.state = "completed" => action.by = None

CountInv == IsFiniteSet(ses.done) /\ OfferCountedOnce

IInv == /\ TypeInv /\ KeyInv /\ ThinkInv /\ AcceptInv /\ NamedInv /\ BestPriceHonoured /\ AgreedIsQuoted
        /\ ActionInv /\ CountInv

\* No number is the name of a request or of nobody: who is which.
LEMMA ProcsAre ==
  /\ Starters \subseteq Procs /\ Runs \subseteq Procs /\ Customers \subseteq Procs /\ Confirmers \subseteq Procs
  /\ \A c \in Confirmers : c # None
  /\ \A r \in Runs : r \notin Customers /\ r \notin Confirmers /\ r \notin Starters
  /\ \A a \in Customers : a \notin Confirmers /\ a \notin Starters /\ a \notin Runs
BY RequestsAssumption DEF Procs

LEMMA InitIInv == Init => IInv
<1> SUFFICES ASSUME Init PROVE IInv OBVIOUS
<1>1. NoSession \in SesRecords BY RulesType DEF NoSession, SesRecords, Priced, Statuses
<1>2. Unseen \in SeenRecords BY DEF Unseen, SeenRecords
<1>3. TypeInv
  BY <1>1, <1>2 DEF Init, TypeInv, CommandRecords, QuoteRecords, ActionRecords, Steps
<1>4. KeyInv /\ ThinkInv /\ AcceptInv
  BY ProcsAre DEF Init, KeyInv, ThinkInv, AcceptInv
<1>5. NamedInv /\ BestPriceHonoured /\ AgreedIsQuoted /\ ActionInv
  BY DEF Init, NoSession, NamedInv, BestPriceHonoured, AgreedIsQuoted, ActionInv
<1>6. CountInv
  <2>1. {k \in {} : says[k] # Words} = {} OBVIOUS
  <2> QED BY <2>1, FS_EmptySet DEF Init, NoSession, CountInv, OfferCountedOnce
<1> QED BY <1>3, <1>4, <1>5, <1>6 DEF IInv

-----------------------------------------------------------------------------
(* offer's transaction *)
LEMMA OfferIs ==
  ASSUME IInv, NEW r \in Runs, pc[r] = "think", says[seen[r].key] # Words, MayWrite(r)
  PROVE  LET after == AfterOffer(r, says[seen[r].key]) IN
         /\ quote.status = "none"
         /\ after \in SesRecords
         /\ after.status # "none" /\ after.version = ses.version + 1 /\ after.offers = ses.offers + 1
         /\ after.done = ses.done \cup {seen[r].key}
         /\ \A price \in after.told : \E q \in {after.agreed, after.counter} : q # 0 /\ q <= price
         /\ after.counter # 0 => after.counter >= Threshold(after.offers)
         /\ after.status = "AGREED" => /\ after.agreed \in Floor..Selling
                                       /\ \A price \in after.told : after.agreed <= price
<1> DEFINE k == seen[r].key
           offer == says[k]
           n == ses.offers + 1
           d == Decide(offer, n, ses.best, ses.counter)
           agreed == IF d.decision = "ACCEPT" THEN Lowest({ses.agreed, d.price}) ELSE ses.agreed
           countered == IF d.decision = "COUNTER" THEN d.price ELSE 0
           lowest == Lowest({agreed, ses.counter, countered})
           locks == n >= MaxOffers /\ lowest > 0
           best == Max({ses.best, offer})
           told == ses.told \cup ({d.price, IF locks THEN lowest ELSE agreed} \ {0})
           counter == IF countered > 0 THEN countered ELSE ses.counter
           status == IF locks THEN "AGREED" ELSE IF d.decision = "DECLINE" THEN "DECLINED" ELSE "ACTIVE"
           last == IF locks THEN lowest ELSE agreed
           after == AfterOffer(r, offer)
<1>1. /\ k \in Keys /\ offer \in Prices /\ n \in 1..MaxOffers /\ n - 1 = ses.offers /\ ses.offers \in 0..MaxOffers
      /\ quote.status = "none" /\ ses \in SesRecords /\ r \in Procs
  <2>1. k \in Keys BY DEF IInv, KeyInv
  <2>2. offer \in Prices BY <2>1 DEF IInv, TypeInv
  <2>3. ses.offers \in 0..MaxOffers /\ ses \in SesRecords BY DEF IInv, TypeInv, SesRecords
  <2>4. quote.status = "none" /\ ses.offers < MaxOffers BY DEF IInv, ThinkInv, MayWrite
  <2> QED BY <2>1, <2>2, <2>3, <2>4, RulesType, ProcsAre
<1>2. /\ ses.agreed \in Priced /\ ses.counter \in Priced /\ ses.best \in Nat /\ ses.version \in Nat
      /\ ses.done \subseteq Keys /\ ses.told \subseteq Floor..Selling
  BY <1>1 DEF SesRecords
<1>3. ses.counter # 0 => ses.counter >= Threshold(n)
  <2>1. Threshold(n) <= Threshold(ses.offers) /\ Threshold(n) \in Nat /\ Threshold(ses.offers) \in Nat
    BY <1>1, ThresholdFalls, RulesType
  <2>2. ses.counter # 0 => ses.counter >= Threshold(ses.offers) BY DEF IInv, NamedInv
  <2> HIDE DEF n
  <2> QED BY <2>1, <2>2, <1>2, RulesType DEF Priced
<1>4. after = [ses EXCEPT !.version = @ + 1, !.done = @ \cup {k}, !.offers = n, !.best = best,
                          !.told = told, !.counter = counter, !.agreed = last, !.status = status]
  BY DEF AfterOffer, Written
<1> HIDE DEF offer, n, k, after
<1>5. /\ d.decision \in {"ACCEPT", "DECLINE", "COUNTER"}
      /\ d.decision = "DECLINE" => n = MaxOffers /\ d.price = 0
      /\ d.decision = "ACCEPT" => d.price \in Floor..Selling
      /\ d.decision = "COUNTER" => /\ n # MaxOffers
                                   /\ d.price \in Floor..Selling /\ d.price >= Threshold(n)
                                   /\ ses.counter # 0 => d.price <= ses.counter
  BY <1>1, <1>2, <1>3, DecideType
<1> DEFINE price == d.price  decision == d.decision
<1> HIDE DEF d
<1>6. price \in Priced /\ Priced \subseteq Nat BY <1>5, RulesType DEF Priced
<1>7. agreed \in Priced /\ agreed \in Nat /\ countered \in Priced
      /\ (decision = "ACCEPT" => IsLowest(agreed, {ses.agreed, price}))
  <2>1. countered \in Priced BY <1>6 DEF Priced
  <2>2. IsLowest(Lowest({ses.agreed, price}), {ses.agreed, price}) BY <1>2, <1>6, LowestOfTwo
  <2>3. Lowest({ses.agreed, price}) \in Priced BY <2>2, <1>2, <1>6 DEF IsLowest, Priced
  <2> HIDE DEF price, decision
  <2>4. agreed \in Priced BY <2>3, <1>2 DEF price
  <2>5. decision = "ACCEPT" => IsLowest(agreed, {ses.agreed, price}) BY <2>2 DEF decision, price
  <2> QED BY <2>1, <2>4, <2>5, <1>6
<1> HIDE DEF agreed, price, decision
<1>8. IsLowest(lowest, {agreed, ses.counter, countered}) /\ lowest \in Priced
  <2>1. IsLowest(lowest, {agreed, ses.counter, countered}) BY <1>2, <1>6, <1>7, LowestOfThree
  <2> QED BY <2>1, <1>2, <1>7 DEF IsLowest, Priced
<1> HIDE DEF lowest
<1>9. last \in Priced /\ counter \in Priced /\ best \in Nat /\ told \subseteq Floor..Selling
  <2>1. best \in Nat
    <3>1. offer \in Nat BY <1>1, RulesType
    <3>2. \E x \in {ses.best, offer} : \A y \in {ses.best, offer} : x >= y BY <3>1, <1>2
    <3> DEFINE P(x) == x \in {ses.best, offer} /\ \A y \in {ses.best, offer} : x >= y
    <3>3. P(CHOOSE x : P(x)) BY <3>2, Zenon
    <3>4. (CHOOSE x : P(x)) = best BY Zenon DEF Max
    <3> QED BY <3>1, <3>3, <3>4, <1>2
  <2> QED BY <2>1, <1>2, <1>6, <1>7, <1>8 DEF Priced, price
<1>11. status \in {"AGREED", "DECLINED", "ACTIVE"} OBVIOUS
<1> HIDE DEF status, last, counter, told, best
<1>10. /\ after.status = status /\ after.version = ses.version + 1 /\ after.offers = n
       /\ after.done = ses.done \cup {k} /\ after.told = told /\ after.counter = counter
       /\ after.agreed = last /\ after \in SesRecords
  <2>1. n \in 0..MaxOffers BY <1>1, RulesType
  <2>2. ses.version + 1 \in Nat /\ ses.done \cup {k} \subseteq Keys BY <1>1, <1>2
  <2>3. status \in Statuses BY <1>11 DEF Statuses
  <2>4. after = [status |-> status, version |-> ses.version + 1, offers |-> n, agreed |-> last,
                 counter |-> counter, best |-> best, done |-> ses.done \cup {k}, told |-> told]
    <3> HIDE DEF n
    <3> QED BY <1>1, <1>4 DEF SesRecords
  <2> HIDE DEF n
  <2> QED BY <2>1, <2>2, <2>3, <2>4, <1>9 DEF SesRecords
<1>12. counter # 0 => counter >= Threshold(n)
  BY <1>3, <1>5 DEF price, decision, counter
<1>13. ASSUME NEW q \in told PROVE \E p \in {last, counter} : p # 0 /\ p <= q
  <2>1. CASE q \in ses.told
    <3>1. PICK p \in {ses.agreed, ses.counter} : p # 0 /\ p <= q BY <2>1 DEF IInv, NamedInv
    <3>2. q \in Nat /\ p \in Nat /\ ses.agreed \in Nat /\ ses.counter \in Nat /\ countered \in Nat
      <4>1. q \in Floor..Selling BY <2>1, <1>2
      <4>2. ses.agreed \in Nat /\ ses.counter \in Nat /\ countered \in Nat BY <1>2, <1>6, <1>7
      <4> QED BY <4>1, <4>2, <3>1, RulesType
    <3>3. CASE p = ses.counter
      <4>1. counter # 0 /\ counter <= ses.counter
        BY <3>1, <3>2, <3>3, <1>5 DEF price, decision, counter
      <4> QED BY <4>1, <3>1, <3>2, <3>3, <1>9, <1>6
    <3>4. CASE p = ses.agreed
      <4>1. agreed # 0 /\ agreed <= p
        BY <3>1, <3>2, <3>4, <1>6, <1>7 DEF IsLowest, agreed, decision
      <4>2. last # 0 /\ last <= agreed
        BY <4>1, <1>7, <1>8 DEF IsLowest, last
      <4> QED BY <4>1, <4>2, <3>1, <3>2, <1>6, <1>7, <1>9
    <3> QED BY <3>1, <3>3, <3>4
  <2>2. CASE q = last
    BY <2>2, <1>9, RulesType
  <2>3. CASE q = price
    <3>1. q # 0 /\ q \in Nat BY <1>9, RulesType
    <3>2. CASE decision = "COUNTER"
      BY <3>1, <3>2, <2>3 DEF price, decision, counter
    <3>3. CASE decision = "ACCEPT"
      <4>1. agreed # 0 /\ agreed <= price BY <3>1, <3>3, <2>3, <1>7, <1>6, <1>2 DEF IsLowest
      <4>2. last # 0 /\ last <= agreed BY <4>1, <1>7, <1>8 DEF IsLowest, last
      <4> QED BY <4>1, <4>2, <2>3, <1>6, <1>7, <1>9
    <3> QED BY <3>1, <3>2, <3>3, <2>3, <1>5 DEF price, decision
  <2> QED BY <2>1, <2>2, <2>3 DEF price, told, last
<1>14. ASSUME status = "AGREED"
       PROVE  last \in Floor..Selling /\ \A q \in told : last <= q
  <2>1. locks /\ last = lowest /\ lowest # 0 BY <1>14, RulesType DEF status, last
  <2>2. last \in Floor..Selling BY <2>1, <1>8 DEF Priced
  <2>3. ASSUME NEW q \in told PROVE last <= q
    <3>1. PICK p \in {last, counter} : p # 0 /\ p <= q BY <1>13
    <3>2. counter # 0 => lowest <= counter
      BY <1>2, <1>6, <1>7, <1>8 DEF IsLowest, Priced, counter
    <3>3. q \in Nat /\ p \in Nat /\ last \in Nat BY <1>6, <1>9, <3>1, RulesType
    <3> QED BY <3>1, <3>2, <3>3, <2>1
  <2> QED BY <2>2, <2>3
<1> QED BY <1>1, <1>10, <1>11, <1>12, <1>13, <1>14 DEF n, k, offer, after

-----------------------------------------------------------------------------
(* What a step leaves alone *)

\* Who was at the language model, or about to accept, is there with what was read, or has left.
StayOrLeave ==
  \A p \in Runs \cup Customers :
    pc'[p] \in {"think", "accept"} => pc'[p] = pc[p] /\ seen'[p] = seen[p]

\* A session that was started stays started; without a new version, prices and rounds are the same
\* and there is no new quote.
SessionKept ==
  /\ says' = says /\ slow' = slow /\ ses' \in SesRecords /\ quote' \in QuoteRecords
  /\ ses.status # "none" =>
       /\ ses'.status # "none" /\ ses'.version >= ses.version
       /\ ses'.version = ses.version =>
            /\ ses'.agreed = ses.agreed /\ ses'.counter = ses.counter /\ ses'.offers = ses.offers
            /\ quote.status = "none" => quote'.status = "none"

LEMMA ReadersStay ==
  ASSUME IInv, KeyInv', SessionKept, StayOrLeave
  PROVE  ThinkInv' /\ AcceptInv'
<1>1. ses \in SesRecords /\ ses.version \in Nat /\ ses'.version \in Nat
  BY DEF IInv, TypeInv, SessionKept, SesRecords
<1>2. \A p \in Procs : seen[p].version \in Nat BY DEF IInv, TypeInv, SeenRecords
<1>3. ASSUME NEW r \in Runs, pc'[r] = "think"
      PROVE  /\ ses'.status # "none" /\ seen'[r].version <= ses'.version
             /\ says'[seen'[r].key] # Words /\ seen'[r].version = ses'.version =>
                  quote'.status = "none" /\ ses'.offers < MaxOffers
  <2>1. pc[r] = "think" /\ seen'[r] = seen[r] BY <1>3 DEF StayOrLeave
  <2>2. /\ ses.status # "none" /\ seen[r].version <= ses.version
        /\ says[seen[r].key] # Words /\ seen[r].version = ses.version =>
             quote.status = "none" /\ ses.offers < MaxOffers
    BY <2>1 DEF IInv, ThinkInv
  <2>3. seen[r].version \in Nat BY <1>2, ProcsAre
  <2> QED BY <1>1, <2>1, <2>2, <2>3 DEF SessionKept
<1>4. ASSUME NEW a \in Customers, pc'[a] = "accept"
      PROVE  /\ ses'.status # "none" /\ seen'[a].version <= ses'.version
             /\ seen'[a].version = ses'.version =>
                  seen'[a].price # 0 /\ seen'[a].price = Lowest({ses'.agreed, ses'.counter})
  <2>1. pc[a] = "accept" /\ seen'[a] = seen[a] BY <1>4 DEF StayOrLeave
  <2>2. /\ ses.status # "none" /\ seen[a].version <= ses.version
        /\ seen[a].version = ses.version =>
             seen[a].price # 0 /\ seen[a].price = Lowest({ses.agreed, ses.counter})
    BY <2>1 DEF IInv, AcceptInv
  <2>3. seen[a].version \in Nat BY <1>2, ProcsAre
  <2> QED BY <1>1, <2>1, <2>2, <2>3 DEF SessionKept
<1> QED BY <1>3, <1>4 DEF ThinkInv, AcceptInv

\* A request that goes on, or leaves, and nobody else.
LEMMA Hops ==
  ASSUME IInv, NEW p \in Procs, NEW step \in Steps \ {"think", "accept"}, Goto(p, step),
         \/ seen' = seen
         \/ seen' = [seen EXCEPT ![p] = Unseen]
         \/ seen' = [seen EXCEPT ![p].version = 0],
         step = "ready" \/ (pc[p] # "ready" /\ seen' # [seen EXCEPT ![p] = Unseen]) \/ p \notin Runs
  PROVE  pc' \in [Procs -> Steps] /\ seen' \in [Procs -> SeenRecords] /\ KeyInv' /\ StayOrLeave
<1>1. pc \in [Procs -> Steps] /\ seen \in [Procs -> SeenRecords] BY DEF IInv, TypeInv
<1>2. Unseen \in SeenRecords /\ [seen[p] EXCEPT !.version = 0] \in SeenRecords
  BY <1>1 DEF Unseen, SeenRecords
<1>3. pc' \in [Procs -> Steps] BY <1>1 DEF Goto
<1>4. seen' \in [Procs -> SeenRecords] BY <1>1, <1>2
<1>5. \A q \in Procs \ {p} : pc'[q] = pc[q] /\ seen'[q] = seen[q] BY <1>1 DEF Goto
<1>6. pc'[p] = step BY <1>1 DEF Goto
<1>7. step # "ready" /\ p \in Runs => pc[p] # "ready" /\ seen'[p].key = seen[p].key
  BY <1>1 DEF SeenRecords
<1>8. KeyInv' BY <1>5, <1>6, <1>7, ProcsAre DEF IInv, KeyInv
<1>9. StayOrLeave BY <1>5, <1>6, ProcsAre DEF StayOrLeave
<1> QED BY <1>3, <1>4, <1>8, <1>9

LEMMA NobodyMoves ==
  ASSUME IInv, pc' = pc, seen' = seen
  PROVE  pc' \in [Procs -> Steps] /\ seen' \in [Procs -> SeenRecords] /\ KeyInv' /\ StayOrLeave
BY DEF IInv, TypeInv, KeyInv, StayOrLeave

PriceInv == NamedInv /\ BestPriceHonoured /\ AgreedIsQuoted /\ CountInv

\* Prices, rounds, results and the quote are as they were; a session may be found expired, and its
\* version counted.
LEMMA SameSession ==
  ASSUME IInv, says' = says, slow' = slow, ses' = ses, quote' = quote
  PROVE  SessionKept /\ PriceInv'
<1>1. ses.version \in Nat /\ ses.version >= ses.version BY DEF IInv, TypeInv, SesRecords
<1>2. SessionKept BY <1>1 DEF IInv, TypeInv, SessionKept
<1>3. PriceInv'
  BY DEF IInv, PriceInv, NamedInv, BestPriceHonoured, AgreedIsQuoted, CountInv, OfferCountedOnce
<1> QED BY <1>2, <1>3

LEMMA SamePrices ==
  ASSUME IInv, says' = says, slow' = slow, quote' = quote,
         NEW version \in {ses.version, ses.version + 1}, NEW status \in {"EXPIRED", ses.status, "CLOSED"},
         ses' = [ses EXCEPT !.status = status, !.version = version],
         status = "CLOSED" => quote.status = "none"
  PROVE  SessionKept /\ PriceInv'
<1>1. ses \in SesRecords /\ quote \in QuoteRecords BY DEF IInv, TypeInv
<1>2. version \in Nat /\ version >= ses.version /\ status \in Statuses
  BY <1>1 DEF SesRecords, Statuses
<1>3. ses' = [status |-> status, version |-> version, offers |-> ses.offers, agreed |-> ses.agreed,
              counter |-> ses.counter, best |-> ses.best, done |-> ses.done, told |-> ses.told]
  BY <1>1 DEF SesRecords
<1>4. ses' \in SesRecords BY <1>1, <1>2, <1>3 DEF SesRecords
<1>5. SessionKept BY <1>1, <1>2, <1>3, <1>4 DEF SessionKept
<1>6. NamedInv' BY <1>3 DEF IInv, NamedInv
<1>7. BestPriceHonoured' BY <1>3 DEF IInv, BestPriceHonoured
<1>8. AgreedIsQuoted' BY <1>3 DEF IInv, AgreedIsQuoted
<1>9. CountInv' BY <1>3 DEF IInv, CountInv, OfferCountedOnce
<1> QED BY <1>5, <1>6, <1>7, <1>8, <1>9 DEF PriceInv

\* What a step must show besides the types of what it writes.
Moves == pc' \in [Procs -> Steps] /\ seen' \in [Procs -> SeenRecords] /\ KeyInv' /\ StayOrLeave
Others == /\ lock' \in Runs \cup {None} /\ lockLive' \in BOOLEAN /\ command' \in [Keys -> CommandRecords]
          /\ action' \in ActionRecords /\ lease' \in BOOLEAN /\ inCart' \in BOOLEAN
          /\ late' \in BOOLEAN /\ twins' \in Nat /\ crashes' \in Nat /\ ActionInv'

LEMMA Together ==
  ASSUME IInv, SessionKept, PriceInv', Moves, Others
  PROVE  IInv'
<1>1. TypeInv' BY DEF IInv, TypeInv, SessionKept, Moves, Others
<1>2. ThinkInv' /\ AcceptInv' BY ReadersStay DEF Moves
<1> QED BY <1>1, <1>2 DEF IInv, PriceInv, Moves, Others

\* The variables of the lock, the command and the action, when a step leaves them alone.
LEMMA SameOthers ==
  ASSUME IInv, UNCHANGED <<commandVars, actionVars, late, twins>>, crashes' \in Nat
  PROVE  Others
BY DEF IInv, TypeInv, Others, ActionInv, commandVars, actionVars

-----------------------------------------------------------------------------
(* One step per handler's step *)

\* start: a first session, or one more beside it.
LEMMA StartSteps ==
  ASSUME IInv, NEW s \in Starters, StartRead(s) \/ StartWrite(s)
  PROVE  IInv'
<1> s \in Procs /\ s \notin Runs BY ProcsAre
<1>1. CASE StartRead(s)
  <2>1. Moves BY <1>1, Hops DEF StartRead, Moves, Steps
  <2>2. SessionKept /\ PriceInv'
    BY <1>1, SameSession DEF StartRead, data, sessionVars, fixed
  <2>3. Others BY <1>1, SameOthers DEF StartRead, data, sessionVars, IInv, TypeInv
  <2> QED BY <2>1, <2>2, <2>3, Together
<1>2. CASE StartWrite(s)
  <2>1. Moves BY <1>2, Hops DEF StartWrite, Leave, Moves, Steps
  <2>2. CASE ses.status = "none"
    <3>1. ses' = [NoSession EXCEPT !.status = "ACTIVE", !.version = 1] BY <1>2, <2>2 DEF StartWrite
    <3>2. ses' = [status |-> "ACTIVE", version |-> 1, offers |-> 0, agreed |-> 0, counter |-> 0,
                  best |-> 0, done |-> {}, told |-> {}]
      BY <3>1 DEF NoSession
    <3>3. ses' \in SesRecords BY <3>2, RulesType DEF SesRecords, Statuses, Priced
    <3>4. says' = says /\ slow' = slow /\ quote' = quote BY <1>2 DEF StartWrite, fixed
    <3>5. SessionKept BY <2>2, <3>3, <3>4 DEF SessionKept, IInv, TypeInv
    <3>6. quote.status = "none" BY <2>2 DEF IInv, AgreedIsQuoted
    <3>7. NamedInv' /\ BestPriceHonoured' /\ AgreedIsQuoted'
      BY <3>2, <3>4, <3>6 DEF NamedInv, BestPriceHonoured, AgreedIsQuoted
    <3>8. CountInv'
      <4>1. {k \in ses'.done : says'[k] # Words} = {} BY <3>2
      <4> QED BY <3>2, <4>1, FS_EmptySet DEF CountInv, OfferCountedOnce
    <3>9. Others BY <1>2, <2>2 DEF StartWrite, IInv, TypeInv, Others, ActionInv, commandVars, actionVars
    <3> QED BY <2>1, <3>5, <3>7, <3>8, <3>9, Together DEF PriceInv
  <2>3. CASE ses.status # "none"
    <3>1. SessionKept /\ PriceInv' BY <1>2, <2>3, SameSession DEF StartWrite, fixed
    <3>2. Others BY <1>2, <2>3 DEF StartWrite, IInv, TypeInv, Others, ActionInv, commandVars, actionVars
    <3> QED BY <2>1, <3>1, <3>2, Together
  <2> QED BY <2>2, <2>3
<1> QED BY <1>1, <1>2

LEMMA CommandSteps ==
  ASSUME IInv, NEW r \in Runs,
         \/ \E k \in Keys : Submit(r, k)
         \/ TakeLock(r) \/ MarkProcessing(r) \/ Record(r) \/ ReleaseLock(r)
         \/ Snapshot(r) \/ ModelFails(r) \/ Crash(r)
  PROVE  IInv'
<1> r \in Procs BY ProcsAre
<1>0. /\ pc \in [Procs -> Steps] /\ seen \in [Procs -> SeenRecords] /\ command \in [Keys -> CommandRecords]
      /\ pc[r] # "ready" => seen[r].key \in Keys
  BY DEF IInv, TypeInv, KeyInv
<1>1. ASSUME NEW k \in Keys, Submit(r, k) PROVE IInv'
  <2>1. Moves
    <3>1. seen' = [seen EXCEPT ![r].key = k] /\ pc' = [pc EXCEPT ![r] = "lock"]
      BY <1>1 DEF Submit, Goto
    <3>2. seen' \in [Procs -> SeenRecords] /\ seen'[r].key = k
      BY <3>1, <1>0 DEF SeenRecords
    <3>3. pc' \in [Procs -> Steps] /\ pc'[r] = "lock" BY <3>1, <1>0 DEF Steps
    <3>4. \A q \in Procs \ {r} : pc'[q] = pc[q] /\ seen'[q] = seen[q] BY <3>1, <1>0
    <3> QED BY <3>2, <3>3, <3>4, ProcsAre DEF Moves, KeyInv, StayOrLeave, IInv
  <2>2. SessionKept /\ PriceInv' BY <1>1, SameSession DEF Submit, sessionVars, fixed
  <2>3. command' \in [Keys -> CommandRecords]
    <3>1. [command[k] EXCEPT !.status = "pending"] \in CommandRecords BY <1>0 DEF CommandRecords
    <3> QED BY <1>1, <1>0, <3>1 DEF Submit
  <2>4. Others
    BY <1>1, <2>3 DEF Submit, sessionVars, actionVars, IInv, TypeInv, Others, ActionInv
  <2> QED BY <2>1, <2>2, <2>4, Together
<1>2. CASE TakeLock(r)
  <2>1. Moves
    <3>1. CASE lockLive BY <1>2, <3>1, Hops DEF TakeLock, Leave, Moves, Steps
    <3>2. CASE ~lockLive
      <4>1. seen # [seen EXCEPT ![r] = Unseen]
        BY <1>0, <1>2, RequestsAssumption DEF TakeLock, Unseen
      <4> QED BY <1>2, <3>2, <4>1, Hops DEF TakeLock, Moves, Steps
    <3> QED BY <3>1, <3>2
  <2>2. SessionKept /\ PriceInv' BY <1>2, SameSession DEF TakeLock, sessionVars, fixed
  <2>3. Others
    BY <1>2 DEF TakeLock, sessionVars, actionVars, IInv, TypeInv, Others, ActionInv
  <2> QED BY <2>1, <2>2, <2>3, Together
<1>3. CASE MarkProcessing(r)
  <2>0. seen # [seen EXCEPT ![r] = Unseen]
    BY <1>0, <1>3, RequestsAssumption DEF MarkProcessing, Unseen
  <2>1. Moves BY <1>3, <2>0, Hops DEF MarkProcessing, Moves, Steps
  <2>2. SessionKept /\ PriceInv' BY <1>3, SameSession DEF MarkProcessing, sessionVars, fixed
  <2>3. command' \in [Keys -> CommandRecords]
    <3>1. [status |-> "processing", owner |-> r] \in CommandRecords BY DEF CommandRecords
    <3> QED BY <1>3, <1>0, <3>1 DEF MarkProcessing
  <2>4. Others
    BY <1>3, <2>3 DEF MarkProcessing, sessionVars, actionVars, IInv, TypeInv, Others, ActionInv
  <2> QED BY <2>1, <2>2, <2>4, Together
<1>4. CASE Record(r)
  <2>0. seen # [seen EXCEPT ![r] = Unseen]
    BY <1>0, <1>4, RequestsAssumption DEF Record, Unseen
  <2>1. Moves BY <1>4, <2>0, Hops DEF Record, Moves, Steps
  <2>2. SessionKept /\ PriceInv' BY <1>4, SameSession DEF Record, sessionVars, fixed
  <2>3. command' \in [Keys -> CommandRecords]
    <3> DEFINE status == IF pc[r] = "complete" THEN "completed" ELSE "failed"
    <3>1. [status |-> status, owner |-> None] \in CommandRecords BY DEF CommandRecords
    <3> HIDE DEF status
    <3>2. command' = command
          \/ command' = [command EXCEPT ![seen[r].key] = [status |-> status, owner |-> None]]
      BY <1>4 DEF Record, status
    <3> QED BY <1>0, <3>1, <3>2
  <2>4. Others
    BY <1>4, <2>3 DEF Record, sessionVars, actionVars, IInv, TypeInv, Others, ActionInv
  <2> QED BY <2>1, <2>2, <2>4, Together
<1>5. CASE ReleaseLock(r)
  <2>1. Moves BY <1>5, Hops DEF ReleaseLock, Leave, Moves, Steps
  <2>2. SessionKept /\ PriceInv' BY <1>5, SameSession DEF ReleaseLock, sessionVars, fixed
  <2>3. Others
    BY <1>5 DEF ReleaseLock, sessionVars, actionVars, IInv, TypeInv, Others, ActionInv
  <2> QED BY <2>1, <2>2, <2>3, Together
<1>6. CASE Snapshot(r)
  <2>0. seen # [seen EXCEPT ![r] = Unseen]
    BY <1>0, <1>6, RequestsAssumption DEF Snapshot, Unseen
  <2>1. Moves BY <1>6, <2>0, Hops DEF Snapshot, Moves, Steps
  <2>2. SessionKept /\ PriceInv' BY <1>6, SameSession DEF Snapshot, data, sessionVars, fixed
  <2>3. Others BY <1>6, SameOthers DEF Snapshot, data, sessionVars, IInv, TypeInv
  <2> QED BY <2>1, <2>2, <2>3, Together
<1>7. CASE ModelFails(r)
  <2>0. seen' # [seen EXCEPT ![r] = Unseen]
    BY <1>0, <1>7, RequestsAssumption DEF ModelFails, Forget, Unseen, SeenRecords
  <2>1. Moves BY <1>7, <2>0, Hops DEF ModelFails, Forget, Moves, Steps
  <2>2. SessionKept /\ PriceInv' BY <1>7, SameSession DEF ModelFails, data, sessionVars, fixed
  <2>3. Others BY <1>7, SameOthers DEF ModelFails, data, sessionVars, IInv, TypeInv
  <2> QED BY <2>1, <2>2, <2>3, Together
<1>8. CASE Crash(r)
  <2>1. Moves BY <1>8, Hops DEF Crash, Leave, Moves, Steps
  <2>2. SessionKept /\ PriceInv' BY <1>8, SameSession DEF Crash, data, sessionVars, fixed
  <2>3. crashes' \in Nat BY <1>8 DEF Crash, IInv, TypeInv
  <2>4. Others BY <1>8, <2>3, SameOthers DEF Crash, data, sessionVars
  <2> QED BY <2>1, <2>2, <2>4, Together
<1> QED BY <1>1, <1>2, <1>3, <1>4, <1>5, <1>6, <1>7, <1>8

\* What was read before the language model is asked.
LEMMA ReadSteps ==
  ASSUME IInv, NEW r \in Runs, ReadSession(r)
  PROVE  IInv'
<1> DEFINE k == seen[r].key
<1>0. /\ r \in Procs /\ pc \in [Procs -> Steps] /\ seen \in [Procs -> SeenRecords] /\ k \in Keys
      /\ ses \in SesRecords /\ ses.version \in Nat
  BY ProcsAre DEF IInv, TypeInv, KeyInv, ReadSession, SesRecords
<1>1. SessionKept /\ PriceInv' BY SameSession DEF ReadSession, data, sessionVars, fixed
<1>2. Others BY SameOthers DEF ReadSession, data, sessionVars, IInv, TypeInv
<1>3. PICK step \in {"snapshot", "stale", "think", "fail"} :
        /\ Goto(r, step)
        /\ step = "think" => MayAnswer(k) /\ ~(Active /\ late)
  BY DEF ReadSession
<1>4. pc' = [pc EXCEPT ![r] = step] BY <1>3 DEF Goto
<1>5. pc' \in [Procs -> Steps] /\ pc'[r] = step BY <1>0, <1>3, <1>4 DEF Steps
<1> DEFINE version == IF step = "think" THEN ses.version ELSE 0
<1>6. seen' = [seen EXCEPT ![r].version = version] BY <1>5 DEF ReadSession
<1>7. seen' \in [Procs -> SeenRecords] /\ seen'[r].key = k /\ seen'[r].version = version
  <2>1. version \in Nat BY <1>0
  <2> HIDE DEF version
  <2> QED BY <1>0, <1>6, <2>1 DEF SeenRecords
<1>8. \A q \in Procs \ {r} : pc'[q] = pc[q] /\ seen'[q] = seen[q] BY <1>0, <1>4, <1>6
<1>9. KeyInv' BY <1>0, <1>5, <1>7, <1>8, ProcsAre DEF KeyInv, IInv
<1>10. says' = says /\ ses' = ses /\ quote' = quote BY DEF ReadSession, data, sessionVars, fixed
<1>11. ASSUME step = "think"
       PROVE  ses.status # "none" /\ (says[k] # Words => quote.status = "none" /\ ses.offers < MaxOffers)
  BY <1>3, <1>11 DEF MayAnswer, Active, IInv, AgreedIsQuoted
<1>12. ThinkInv'
  BY <1>0, <1>5, <1>7, <1>8, <1>10, <1>11, ProcsAre DEF ThinkInv, IInv
<1>13. AcceptInv'
  BY <1>8, <1>10, ProcsAre DEF AcceptInv, IInv
<1>14. TypeInv' BY <1>1, <1>2, <1>5, <1>7 DEF IInv, TypeInv, SessionKept, Others
<1> QED BY <1>1, <1>2, <1>9, <1>12, <1>13, <1>14 DEF IInv, PriceInv, Others

\* A session found past its time is marked by whoever found it.
LEMMA MarkSteps ==
  ASSUME IInv, NEW p \in Runs \cup Customers, MarkExpired(p) \/ (p \in Runs /\ RefuseExpired(p))
  PROVE  IInv'
<1> p \in Procs BY ProcsAre
<1>0. /\ seen \in [Procs -> SeenRecords] /\ (p \in Runs /\ pc[p] # "ready" => seen[p].key \in Keys)
      /\ ses \in SesRecords
  BY DEF IInv, TypeInv, KeyInv
<1>1. CASE MarkExpired(p)
  <2>1. Moves
    <3>1. CASE p \in Runs
      <4>1. seen # [seen EXCEPT ![p] = Unseen]
        BY <1>0, <1>1, <3>1, RequestsAssumption DEF MarkExpired, Unseen
      <4> QED BY <1>1, <3>1, <4>1, Hops DEF MarkExpired, Moves, Steps
    <3>2. CASE p \notin Runs BY <1>1, <3>2, Hops DEF MarkExpired, Leave, Moves, Steps
    <3> QED BY <3>1, <3>2
  <2>2. SessionKept /\ PriceInv'
    <3>1. ses' = [ses EXCEPT !.status = "EXPIRED", !.version = ses.version]
      BY <1>0, <1>1 DEF MarkExpired, SesRecords
    <3> QED BY <1>1, <3>1, SamePrices DEF MarkExpired, fixed
  <2>3. Others BY <1>1, SameOthers DEF MarkExpired, IInv, TypeInv
  <2> QED BY <2>1, <2>2, <2>3, Together
<1>2. CASE p \in Runs /\ RefuseExpired(p)
  <2>1. Moves
    <3>1. seen # [seen EXCEPT ![p] = Unseen]
      BY <1>0, <1>2, RequestsAssumption DEF RefuseExpired, Unseen
    <3> QED BY <1>2, <3>1, Hops DEF RefuseExpired, Moves, Steps
  <2>2. SessionKept /\ PriceInv'
    <3>1. CASE ses' = ses BY <1>2, <3>1, SameSession DEF RefuseExpired, fixed
    <3>2. CASE ses' = [ses EXCEPT !.status = "EXPIRED"]
      <4>1. ses' = [ses EXCEPT !.status = "EXPIRED", !.version = ses.version]
        BY <1>0, <3>2 DEF SesRecords
      <4> QED BY <1>2, <4>1, SamePrices DEF RefuseExpired, fixed
    <3> QED BY <1>2, <3>1, <3>2 DEF RefuseExpired
  <2>3. Others BY <1>2, SameOthers DEF RefuseExpired, IInv, TypeInv
  <2> QED BY <2>1, <2>2, <2>3, Together
<1> QED BY <1>1, <1>2

\* The two writes of a command, which find the version they read or nothing.
LEMMA OfferSteps ==
  ASSUME IInv, NEW r \in Runs, WriteOffer(r)
  PROVE  IInv'
<1> DEFINE k == seen[r].key  after == AfterOffer(r, says[k])
<1>0. r \in Procs /\ seen \in [Procs -> SeenRecords] /\ k \in Keys
  BY ProcsAre DEF IInv, TypeInv, KeyInv, WriteOffer
<1>1. Moves
  <2>0. seen' # [seen EXCEPT ![r] = Unseen]
    BY <1>0, RequestsAssumption DEF WriteOffer, Forget, Unseen, SeenRecords
  <2> QED BY <1>0, <2>0, Hops DEF WriteOffer, Forget, Moves, Steps
<1>2. Others BY SameOthers DEF WriteOffer, IInv, TypeInv
<1>3. says' = says /\ slow' = slow BY DEF WriteOffer, fixed
<1>4. CASE ~MayWrite(r) BY <1>1, <1>2, <1>3, <1>4, SameSession, Together DEF WriteOffer
<1>5. CASE MayWrite(r)
  <2>1. /\ quote.status = "none" /\ after \in SesRecords
        /\ after.status # "none" /\ after.version = ses.version + 1 /\ after.offers = ses.offers + 1
        /\ after.done = ses.done \cup {k}
        /\ \A price \in after.told : \E q \in {after.agreed, after.counter} : q # 0 /\ q <= price
        /\ after.counter # 0 => after.counter >= Threshold(after.offers)
        /\ after.status = "AGREED" => /\ after.agreed \in Floor..Selling
                                      /\ \A price \in after.told : after.agreed <= price
    BY <1>5, OfferIs DEF WriteOffer
  <2>2. ses' = after /\ quote' = IF after.status = "AGREED" THEN QuoteAt(after.agreed) ELSE quote
    BY <1>5 DEF WriteOffer
  <2> HIDE DEF after
  <2>3. after.status = "AGREED" => quote' = [status |-> "ACTIVE", price |-> after.agreed]
    BY <2>1, <2>2 DEF QuoteAt
  <2>4. quote' \in QuoteRecords
    BY <2>1, <2>2, <2>3, RulesType DEF QuoteRecords, IInv, TypeInv
  <2>5. ses.version \in Nat /\ ses.offers \in Nat BY DEF IInv, TypeInv, SesRecords
  <2>6. SessionKept BY <1>3, <2>1, <2>2, <2>4, <2>5 DEF SessionKept
  <2>7. NamedInv' BY <2>1, <2>2 DEF NamedInv
  <2>8. BestPriceHonoured' BY <2>1, <2>2, <2>3 DEF BestPriceHonoured
  <2>9. AgreedIsQuoted' BY <2>1, <2>2, <2>3 DEF AgreedIsQuoted
  <2>10. CountInv'
    <3> DEFINE C == {x \in ses.done : says[x] # Words}
    <3>1. {x \in ses'.done : says'[x] # Words} = C \cup {k} BY <1>3, <2>1, <2>2 DEF WriteOffer
    <3>2. k \notin C BY <1>5 DEF MayWrite
    <3>3. IsFiniteSet(ses.done) /\ ses.offers <= Cardinality(C)
      BY DEF IInv, CountInv, OfferCountedOnce
    <3>4. IsFiniteSet(C) BY <3>3, FS_Subset
    <3> HIDE DEF C
    <3>5. Cardinality(C \cup {k}) = Cardinality(C) + 1 /\ Cardinality(C) \in Nat
      BY <3>2, <3>4, FS_AddElement, FS_CardinalityType
    <3>6. IsFiniteSet(ses'.done) BY <2>1, <2>2, <3>3, FS_AddElement
    <3>7. ses'.offers <= Cardinality(C \cup {k}) BY <2>1, <2>2, <2>5, <3>3, <3>5
    <3>8. OfferCountedOnce' BY <3>1, <3>7, Zenon DEF OfferCountedOnce
    <3> QED BY <3>6, <3>8 DEF CountInv
  <2> QED BY <1>1, <1>2, <2>6, <2>7, <2>8, <2>9, <2>10, Together DEF PriceInv
<1> QED BY <1>4, <1>5

LEMMA MessageSteps ==
  ASSUME IInv, NEW r \in Runs, WriteMessage(r)
  PROVE  IInv'
<1> DEFINE k == seen[r].key
<1>0. r \in Procs /\ seen \in [Procs -> SeenRecords] /\ k \in Keys /\ ses \in SesRecords
  BY ProcsAre DEF IInv, TypeInv, KeyInv, WriteMessage
<1>1. Moves
  <2>0. seen' # [seen EXCEPT ![r] = Unseen]
    BY <1>0, RequestsAssumption DEF WriteMessage, Forget, Unseen, SeenRecords
  <2> QED BY <1>0, <2>0, Hops DEF WriteMessage, Forget, Moves, Steps
<1>2. Others
  <2>1. action' \in ActionRecords /\ ActionInv'
    BY DEF WriteMessage, IInv, TypeInv, ActionInv, ActionRecords
  <2> QED BY <2>1 DEF WriteMessage, commandVars, IInv, TypeInv, Others
<1>3. says' = says /\ slow' = slow /\ quote' = quote BY DEF WriteMessage, fixed
<1>4. CASE ~MayWrite(r) BY <1>1, <1>2, <1>3, <1>4, SameSession, Together DEF WriteMessage
<1>5. CASE MayWrite(r)
  <2>1. ses' = [status |-> ses.status, version |-> ses.version + 1, offers |-> ses.offers,
                agreed |-> ses.agreed, counter |-> ses.counter, best |-> ses.best,
                done |-> ses.done \cup {k}, told |-> ses.told]
    BY <1>0, <1>5 DEF WriteMessage, Written, SesRecords
  <2>2. ses' \in SesRecords /\ ses.version \in Nat BY <1>0, <2>1 DEF SesRecords
  <2>3. SessionKept BY <1>3, <2>1, <2>2 DEF SessionKept, IInv, TypeInv
  <2>4. NamedInv' /\ BestPriceHonoured' /\ AgreedIsQuoted'
    BY <1>3, <2>1 DEF IInv, NamedInv, BestPriceHonoured, AgreedIsQuoted
  <2>5. CountInv'
    <3>1. {x \in ses'.done : says'[x] # Words} = {x \in ses.done : says[x] # Words}
      BY <1>3, <2>1 DEF WriteMessage
    <3>2. IsFiniteSet(ses'.done) BY <2>1, FS_AddElement DEF IInv, CountInv
    <3> QED BY <2>1, <3>1, <3>2 DEF IInv, CountInv, OfferCountedOnce
  <2> QED BY <1>1, <1>2, <2>3, <2>4, <2>5, Together DEF PriceInv
<1> QED BY <1>4, <1>5

-----------------------------------------------------------------------------
(* accept, close, and what looks at the session only *)
LEMMA CustomerSteps ==
  ASSUME IInv, NEW a \in Customers, AcceptRead(a) \/ AcceptWrite(a) \/ ViewRead(a)
  PROVE  IInv'
<1>0. /\ a \in Procs /\ a \notin Runs /\ pc \in [Procs -> Steps] /\ seen \in [Procs -> SeenRecords]
      /\ ses \in SesRecords /\ ses.version \in Nat /\ ses.agreed \in Priced /\ ses.counter \in Priced
      /\ Priced \subseteq Nat
  BY ProcsAre, RulesType DEF IInv, TypeInv, SesRecords, Priced
<1>1. IsLowest(Lowest({ses.agreed, ses.counter}), {ses.agreed, ses.counter})
  BY <1>0, LowestOfTwo
<1>2. CASE AcceptRead(a)
  <2> DEFINE price == Lowest({ses.agreed, ses.counter})
             step == IF late THEN "expire" ELSE "accept"
             new == [key |-> None, version |-> ses.version, price |-> price]
  <2>1. price \in Nat /\ price # 0
    <3>1. price > 0 BY <1>2 DEF AcceptRead
    <3>2. price \in {0, ses.agreed, ses.counter} BY <1>1 DEF IsLowest
    <3> HIDE DEF price
    <3> QED BY <1>0, <3>1, <3>2
  <2>2. SessionKept /\ PriceInv' BY <1>2, SameSession DEF AcceptRead, data, sessionVars, fixed
  <2>3. Others BY <1>2, SameOthers DEF AcceptRead, data, sessionVars, IInv, TypeInv
  <2>4. pc' = [pc EXCEPT ![a] = step] /\ seen' = [seen EXCEPT ![a] = new]
    BY <1>2 DEF AcceptRead, Goto
  <2>5. new \in SeenRecords BY <1>0, <2>1 DEF SeenRecords
  <2>6. pc' \in [Procs -> Steps] /\ seen' \in [Procs -> SeenRecords] /\ pc'[a] = step /\ seen'[a] = new
        /\ step \in {"expire", "accept"}
    BY <1>0, <2>4, <2>5 DEF Steps
  <2>7. \A q \in Procs \ {a} : pc'[q] = pc[q] /\ seen'[q] = seen[q] BY <1>0, <2>4
  <2>8. says' = says /\ ses' = ses /\ quote' = quote BY <1>2 DEF AcceptRead, data, sessionVars, fixed
  <2>9. KeyInv' BY <1>0, <2>7, ProcsAre DEF KeyInv, IInv
  <2>10. ThinkInv' BY <1>0, <2>7, <2>8, ProcsAre DEF ThinkInv, IInv
  <2>11. ses.status # "none" BY <1>2 DEF AcceptRead, Active
  <2>12. AcceptInv'
    <3>1. ASSUME NEW b \in Customers, pc'[b] = "accept"
          PROVE  /\ ses'.status # "none" /\ seen'[b].version <= ses'.version
                 /\ seen'[b].version = ses'.version =>
                      seen'[b].price # 0 /\ seen'[b].price = Lowest({ses'.agreed, ses'.counter})
      <4>1. CASE b = a
        <5>1. seen'[b].version = ses.version /\ seen'[b].price = price BY <2>6, <4>1
        <5>2. ses.version <= ses.version BY <1>0
        <5> HIDE DEF price
        <5> QED BY <5>1, <5>2, <2>1, <2>8, <2>11 DEF price
      <4>2. CASE b # a
        BY <2>7, <2>8, <3>1, <4>2, ProcsAre DEF AcceptInv, IInv
      <4> QED BY <4>1, <4>2
    <3> QED BY <3>1 DEF AcceptInv
  <2>13. TypeInv' BY <2>2, <2>3, <2>6 DEF IInv, TypeInv, SessionKept, Others
  <2> QED BY <2>2, <2>3, <2>9, <2>10, <2>12, <2>13 DEF IInv, PriceInv, Others
<1>3. CASE AcceptWrite(a)
  <2> DEFINE price == seen[a].price
  <2>1. Moves BY <1>0, <1>3, Hops DEF AcceptWrite, Leave, Moves, Steps
  <2>2. Others BY <1>3, SameOthers DEF AcceptWrite, IInv, TypeInv
  <2>3. says' = says /\ slow' = slow BY <1>3 DEF AcceptWrite, fixed
  <2>4. CASE ~MayAccept(a) BY <1>3, <2>1, <2>2, <2>3, <2>4, SameSession, Together DEF AcceptWrite
  <2>5. CASE MayAccept(a)
    <3>1. price # 0 /\ price = Lowest({ses.agreed, ses.counter})
      BY <1>3, <2>5 DEF AcceptWrite, MayAccept, IInv, AcceptInv
    <3>2. price \in Floor..Selling /\ price \in Priced
      BY <1>0, <1>1, <3>1 DEF IsLowest, Priced
    <3>3. \A q \in {ses.agreed, ses.counter} : q # 0 => price <= q
      BY <1>1, <3>1 DEF IsLowest
    <3>4. quote.status = "none" BY <2>5 DEF MayAccept, Active, IInv, AgreedIsQuoted
    <3>5. quote' = [status |-> "ACTIVE", price |-> price] BY <1>3, <2>5, <3>4 DEF AcceptWrite, QuoteAt
    <3>6. ses' = [status |-> "AGREED", version |-> ses.version + 1, offers |-> ses.offers,
                  agreed |-> price, counter |-> ses.counter, best |-> ses.best,
                  done |-> ses.done, told |-> ses.told]
      BY <1>0, <1>3, <2>5 DEF AcceptWrite, SesRecords
    <3> HIDE DEF price
    <3>7. ses' \in SesRecords BY <1>0, <3>2, <3>6 DEF SesRecords, Statuses
    <3>8. quote' \in QuoteRecords BY <3>2, <3>5, RulesType DEF QuoteRecords
    <3>9. SessionKept BY <1>0, <2>3, <3>6, <3>7, <3>8 DEF SessionKept
    <3>10. ses.told \subseteq Floor..Selling /\ price \in Nat BY <1>0, <3>2 DEF SesRecords
    <3>11. \A q \in ses.told : price <= q
      <4> SUFFICES ASSUME NEW q \in ses.told PROVE price <= q OBVIOUS
      <4>1. PICK p \in {ses.agreed, ses.counter} : p # 0 /\ p <= q BY DEF IInv, NamedInv
      <4>2. q \in Nat /\ p \in Nat
        <5>1. q \in Floor..Selling BY <3>10
        <5>2. ses.agreed \in Nat /\ ses.counter \in Nat BY <1>0
        <5> QED BY <4>1, <5>1, <5>2, RulesType
      <4> QED BY <3>3, <3>10, <4>1, <4>2
    <3>12. NamedInv' BY <3>1, <3>6, <3>11 DEF NamedInv, IInv, price
    <3>13. BestPriceHonoured' BY <3>2, <3>5, <3>6, <3>11 DEF BestPriceHonoured
    <3>14. AgreedIsQuoted' BY <3>5, <3>6 DEF AgreedIsQuoted
    <3>15. CountInv' BY <2>3, <3>6 DEF IInv, CountInv, OfferCountedOnce
    <3> QED BY <2>1, <2>2, <3>9, <3>12, <3>13, <3>14, <3>15, Together DEF PriceInv
  <2> QED BY <2>4, <2>5
<1>4. CASE ViewRead(a)
  <2>1. Moves BY <1>0, <1>4, Hops DEF ViewRead, Moves, Steps
  <2>2. SessionKept /\ PriceInv' BY <1>4, SameSession DEF ViewRead, data, sessionVars, fixed
  <2>3. Others BY <1>4, SameOthers DEF ViewRead, data, sessionVars, IInv, TypeInv
  <2> QED BY <2>1, <2>2, <2>3, Together
<1> QED BY <1>2, <1>3, <1>4

-----------------------------------------------------------------------------
(* confirm: the lease, the line, the receipt *)
LEMMA ConfirmSteps ==
  ASSUME IInv, NEW c \in Confirmers,
         \/ ConfirmRead(c) \/ TakeLease(c) \/ CheckQuote(c)
         \/ SetLine(c) \/ Undo(c) \/ Receipt(c)
  PROVE  IInv'
<1>0. c \in Procs /\ c \notin Runs /\ ses \in SesRecords /\ c # None BY ProcsAre DEF IInv, TypeInv
<1>1. CASE ConfirmRead(c)
  <2>1. Moves BY <1>0, <1>1, Hops DEF ConfirmRead, Moves, Steps
  <2>2. SessionKept /\ PriceInv' BY <1>1, SameSession DEF ConfirmRead, data, sessionVars, fixed
  <2>3. Others BY <1>1, SameOthers DEF ConfirmRead, data, sessionVars, IInv, TypeInv
  <2> QED BY <2>1, <2>2, <2>3, Together
<1>2. CASE TakeLease(c)
  <2>1. Moves BY <1>0, <1>2, Hops DEF TakeLease, Leave, Moves, Steps
  <2>2. SessionKept /\ PriceInv' BY <1>2, SameSession DEF TakeLease, sessionVars, fixed
  <2>3. Others
    <3>1. action' \in ActionRecords /\ (action'.state # "completed" \/ action' = action)
      <4>1. [state |-> "executing", by |-> c] \in ActionRecords BY DEF ActionRecords
      <4> QED BY <1>2, <4>1 DEF TakeLease, IInv, TypeInv
    <3> QED BY <1>2, <3>1 DEF TakeLease, sessionVars, commandVars, IInv, TypeInv, Others, ActionInv
  <2> QED BY <2>1, <2>2, <2>3, Together
<1>3. CASE CheckQuote(c)
  <2>1. Moves BY <1>0, <1>3, Hops DEF CheckQuote, Moves, Steps
  <2>2. SessionKept /\ PriceInv' BY <1>3, SameSession DEF CheckQuote, data, sessionVars, fixed
  <2>3. Others BY <1>3, SameOthers DEF CheckQuote, data, sessionVars, IInv, TypeInv
  <2> QED BY <2>1, <2>2, <2>3, Together
<1>4. CASE SetLine(c)
  <2>1. Moves BY <1>0, <1>4, Hops DEF SetLine, Moves, Steps
  <2>2. SessionKept /\ PriceInv' BY <1>4, SameSession DEF SetLine, sessionVars, fixed
  <2>3. Others BY <1>4 DEF SetLine, sessionVars, commandVars, IInv, TypeInv, Others, ActionInv
  <2> QED BY <2>1, <2>2, <2>3, Together
<1>5. CASE Undo(c)
  <2>1. Moves BY <1>0, <1>5, Hops DEF Undo, Leave, Moves, Steps
  <2>2. SessionKept /\ PriceInv' BY <1>5, SameSession DEF Undo, sessionVars, fixed
  <2>3. Others
    <3>1. action' \in ActionRecords /\ (action'.state # "completed" \/ action' = action)
      <4>1. [state |-> "pending", by |-> None] \in ActionRecords BY DEF ActionRecords
      <4> QED BY <1>5, <4>1 DEF Undo, IInv, TypeInv
    <3> QED BY <1>5, <3>1 DEF Undo, sessionVars, commandVars, IInv, TypeInv, Others, ActionInv
  <2> QED BY <2>1, <2>2, <2>3, Together
<1>6. CASE Receipt(c)
  <2>1. Moves BY <1>0, <1>6, Hops DEF Receipt, Leave, Moves, Steps
  <2>2. SessionKept /\ PriceInv'
    <3>1. CASE ses' = ses BY <1>6, <3>1, SameSession DEF Receipt, fixed
    <3>2. CASE ses' = [ses EXCEPT !.version = @ + 1]
      <4>1. ses' = [ses EXCEPT !.status = ses.status, !.version = ses.version + 1]
        BY <1>0, <3>2 DEF SesRecords
      <4>2. ses.status = "CLOSED" => quote.status = "none" BY DEF IInv, AgreedIsQuoted
      <4> QED BY <1>6, <4>1, <4>2, SamePrices DEF Receipt, fixed
    <3> QED BY <1>6, <3>1, <3>2 DEF Receipt
  <2>3. Others
    <3>1. action' \in ActionRecords /\ (action'.by = None \/ action' = action)
      <4>1. [state |-> "completed", by |-> None] \in ActionRecords BY DEF ActionRecords
      <4> QED BY <1>6, <4>1 DEF Receipt, IInv, TypeInv
    <3> QED BY <1>6, <3>1 DEF Receipt, commandVars, IInv, TypeInv, Others, ActionInv
  <2> QED BY <2>1, <2>2, <2>3, Together
<1> QED BY <1>1, <1>2, <1>3, <1>4, <1>5, <1>6

-----------------------------------------------------------------------------
(* The owner's close, the job, the checkout and the cart, and time *)
LEMMA OtherSteps ==
  ASSUME IInv,
         \/ Close \/ ExpireSessions \/ CheckOut \/ RemoveLine \/ SessionEnds \/ QuoteEnds
         \/ LockLapses \/ LeaseLapses
  PROVE  IInv'
<1>0. ses \in SesRecords /\ quote \in QuoteRecords BY DEF IInv, TypeInv
<1>1. Moves
  BY NobodyMoves DEF Moves, Close, ExpireSessions, CheckOut, RemoveLine, SessionEnds, QuoteEnds,
     LockLapses, LeaseLapses
<1>2. Others
  BY DEF Close, ExpireSessions, CheckOut, RemoveLine, SessionEnds, QuoteEnds, LockLapses, LeaseLapses,
     sessionVars, commandVars, actionVars, IInv, TypeInv, Others, ActionInv
<1>3. says' = says /\ slow' = slow
  BY DEF Close, ExpireSessions, CheckOut, RemoveLine, SessionEnds, QuoteEnds, LockLapses, LeaseLapses, fixed
<1>4. CASE Close
  <2>1. ses' = [ses EXCEPT !.status = "CLOSED", !.version = ses.version + 1] /\ quote' = quote
    BY <1>0, <1>4 DEF Close, SesRecords
  <2>2. quote.status = "none" BY <1>4 DEF Close, Active, IInv, AgreedIsQuoted
  <2> QED BY <1>1, <1>2, <1>3, <2>1, <2>2, SamePrices, Together
<1>5. CASE ExpireSessions
  <2>1. ses' = [ses EXCEPT !.status = "EXPIRED", !.version = ses.version] /\ quote' = quote
    BY <1>0, <1>5 DEF ExpireSessions, SesRecords
  <2> QED BY <1>1, <1>2, <1>3, <2>1, SamePrices, Together
<1>6. CASE CheckOut \/ QuoteEnds
  <2>1. /\ ses' = ses /\ quote.status = "ACTIVE"
        /\ \E status \in {"USED", "EXPIRED"} : quote' = [quote EXCEPT !.status = status]
    BY <1>6 DEF CheckOut, QuoteEnds, sessionVars
  <2>2. quote' \in QuoteRecords /\ quote'.status # "none" /\ quote'.price = quote.price
    BY <1>0, <2>1 DEF QuoteRecords
  <2>3. SessionKept
    <3>1. ses.version >= ses.version BY <1>0 DEF SesRecords
    <3> QED BY <1>0, <1>3, <2>1, <2>2, <3>1 DEF SessionKept
  <2>4. PriceInv'
    BY <1>3, <2>1, <2>2 DEF IInv, PriceInv, NamedInv, BestPriceHonoured, AgreedIsQuoted, CountInv, OfferCountedOnce
  <2> QED BY <1>1, <1>2, <2>3, <2>4, Together
<1>7. CASE RemoveLine \/ SessionEnds \/ LockLapses \/ LeaseLapses
  <2>1. ses' = ses /\ quote' = quote
    BY <1>7 DEF RemoveLine, SessionEnds, LockLapses, LeaseLapses, sessionVars
  <2> QED BY <1>1, <1>2, <1>3, <2>1, SameSession, Together
<1> QED BY <1>4, <1>5, <1>6, <1>7

LEMMA NextIInv == IInv /\ [Next]_vars => IInv'
<1> SUFFICES ASSUME IInv, [Next]_vars PROVE IInv' OBVIOUS
<1>1. ASSUME NEW s \in Starters, StartRead(s) \/ StartWrite(s) PROVE IInv' BY <1>1, StartSteps
<1>2. ASSUME NEW r \in Runs, RunStep(r) \/ ModelFails(r) \/ Crash(r) \/ \E k \in Keys : Submit(r, k)
      PROVE  IInv'
  BY <1>2, CommandSteps, ReadSteps, MarkSteps, OfferSteps, MessageSteps DEF RunStep
<1>3. ASSUME NEW a \in Customers, AcceptRead(a) \/ AcceptWrite(a) \/ ViewRead(a) \/ MarkExpired(a)
      PROVE  IInv'
  BY <1>3, CustomerSteps, MarkSteps
<1>4. ASSUME NEW c \in Confirmers, \/ ConfirmRead(c) \/ TakeLease(c) \/ CheckQuote(c)
                                   \/ SetLine(c) \/ Undo(c) \/ Receipt(c)
      PROVE  IInv'
  BY <1>4, ConfirmSteps
<1>5. CASE \/ Close \/ ExpireSessions \/ CheckOut \/ RemoveLine \/ SessionEnds \/ QuoteEnds
           \/ LockLapses \/ LeaseLapses
  BY <1>5, OtherSteps
<1>6. CASE UNCHANGED vars
  <2>1. SessionKept /\ PriceInv' BY <1>6, SameSession DEF vars, data, sessionVars, fixed
  <2>2. Others BY <1>6, SameOthers DEF vars, data, sessionVars, IInv, TypeInv
  <2>3. Moves BY <1>6, NobodyMoves DEF vars, Moves
  <2> QED BY <2>1, <2>2, <2>3, Together
<1> QED BY <1>1, <1>2, <1>3, <1>4, <1>5, <1>6 DEF Next

LEMMA NegotiationInductive == Spec => []IInv
<1> QED BY InitIInv, NextIInv, PTL DEF Spec

-----------------------------------------------------------------------------
(* Every state of the negotiation, its commands, quote and action has its   *)
(* type.                                                                    *)
THEOREM NegotiationTypeCorrect == Spec => []TypeOK
<1>1. IInv => TypeOK
  <2> SUFFICES ASSUME IInv PROVE TypeOK OBVIOUS
  <2>1. {ses.version, ses.agreed, ses.counter, ses.best} \subseteq Nat /\ ses.told \subseteq Nat
    BY RulesType DEF IInv, TypeInv, SesRecords, Priced
  <2> QED BY <2>1 DEF IInv, TypeInv, TypeOK, SesRecords, CommandRecords, QuoteRecords, ActionRecords,
             SeenRecords, Steps
<1> QED BY <1>1, NegotiationInductive, PTL

(* The price a customer is quoted lies within the product's rules, is what  *)
(* the session says was agreed, and is not above any price hook has named;  *)
(* an agreement has its quote (offer, accept, createQuote).                 *)
THEOREM NegotiationPriceIsKept == Spec => []PriceIsKept
<1>1. IInv => PriceIsKept BY DEF IInv, PriceIsKept
<1> QED BY <1>1, NegotiationInductive, PTL

(* However often a command is run, taken over or sent again, its offer uses *)
(* up one round (the results, the version and the fence of offer's write).  *)
THEOREM NegotiationOfferCountedOnce == Spec => []OfferCountedOnce
<1>1. IInv => OfferCountedOnce BY DEF IInv, CountInv
<1> QED BY <1>1, NegotiationInductive, PTL

(* No execution that lost its lease gives a confirmed action back, or takes *)
(* it again (confirm's executionId).                                        *)
THEOREM NegotiationConfirmedStays == Spec => ConfirmedStays
<1>1. IInv /\ [Next]_vars => [action.state = "completed" => action'.state = "completed"]_vars
  <2> SUFFICES ASSUME IInv, [Next]_vars, action.state = "completed" PROVE action'.state = "completed"
    OBVIOUS
  <2>1. \A c \in Confirmers : action.by # c BY ProcsAre DEF IInv, ActionInv
  <2>2. CASE action' = action BY <2>2
  <2>3. ASSUME NEW r \in Runs, WriteMessage(r) PROVE action' = action BY <2>3 DEF WriteMessage
  <2>4. ASSUME NEW c \in Confirmers, TakeLease(c) PROVE action' = action BY <2>4 DEF TakeLease
  <2>5. ASSUME NEW c \in Confirmers, Undo(c) \/ Receipt(c) PROVE action' = action
    BY <2>1, <2>5 DEF Undo, Receipt, Owns
  <2>6. CASE \/ UNCHANGED vars
             \/ \E s \in Starters : StartRead(s) \/ StartWrite(s)
             \/ \E r \in Runs : \/ TakeLock(r) \/ MarkProcessing(r) \/ ReadSession(r) \/ RefuseExpired(r)
                                \/ WriteOffer(r) \/ Snapshot(r) \/ MarkExpired(r) \/ Record(r)
                                \/ ReleaseLock(r) \/ ModelFails(r) \/ Crash(r) \/ \E k \in Keys : Submit(r, k)
             \/ \E a \in Customers : AcceptRead(a) \/ AcceptWrite(a) \/ ViewRead(a) \/ MarkExpired(a)
             \/ \E c \in Confirmers : ConfirmRead(c) \/ CheckQuote(c) \/ SetLine(c)
             \/ Close \/ ExpireSessions \/ CheckOut \/ RemoveLine \/ SessionEnds \/ QuoteEnds
             \/ LockLapses \/ LeaseLapses
    BY <2>6 DEF vars, data, actionVars, StartRead, StartWrite, TakeLock, MarkProcessing, ReadSession,
       RefuseExpired, WriteOffer, Snapshot, MarkExpired, Record, ReleaseLock, ModelFails, Crash, Submit,
       AcceptRead, AcceptWrite, ViewRead, ConfirmRead, CheckQuote, SetLine, Close, ExpireSessions,
       CheckOut, RemoveLine, SessionEnds, QuoteEnds, LockLapses, LeaseLapses
  <2> QED BY <2>2, <2>3, <2>4, <2>5, <2>6 DEF Next, RunStep
<1> QED BY <1>1, NegotiationInductive, PTL DEF Spec, ConfirmedStays

-----------------------------------------------------------------------------
(* Basket: requests, and what they are asked for, as Cart!Ask made them.     *)
BasketFields == {"op", "who", "on", "n", "node", "at", "left", "cart", "ids", "seen", "rejected"}
Ids == {1, 2} \X Nat

\* A request is the customer's or the partner's, at a process of the API, and
\* none of them sets the counter of identifiers back.
CartAsked(does) == DOMAIN does = CartRequests /\ \A r \in CartRequests :
  /\ \/ \E op, who, on, n, node : does[r] = Cart!Ask(op, who, on, n, node)
     \/ \E products, n, node : does[r] = Cart!Import(products, n, node)
  /\ does[r].who \in {"self", "partner"} /\ does[r].node \in CartNodes /\ does[r].op # "repair"

\* The records have their fields, and a request stays what was asked.
BasketShape(does) ==
  /\ DOMAIN cartReq = CartRequests /\ DOMAIN preview = CartRequests
  /\ \A r \in CartRequests : DOMAIN cartReq[r] = BasketFields /\ cartReq[r].op = does[r].op /\ cartReq[r].who = does[r].who
                             /\ cartReq[r].node = does[r].node
  /\ DOMAIN cart = Carts
  /\ \A c \in Carts : DOMAIN cart[c] = {"who", "version", "summary"} /\ cart[c].version \in Nat
  /\ DOMAIN line = Carts \X Products

\* What a process has put by for lines, and the years of the counter.
PoolsShape ==
  /\ year \in {1, 2} /\ reserved \in [{1, 2} -> Nat]
  /\ DOMAIN pool = CartNodes
  /\ \A a \in CartNodes :
       DOMAIN pool[a] = {"ids", "year", "filling"} /\ pool[a].ids \in Seq(Ids) /\ pool[a].filling \in {0, 1, 2}

\* Every identifier that a process has by or a line was given is below the
\* counter of its year, and is in one place.
Drawn(id) == id \in Ids /\ id[2] <= reserved[id[1]]
By(a) == {pool[a].ids[i] : i \in 1..Len(pool[a].ids)}
EachOnce(s) == \A i, j \in 1..Len(s) : s[i] = s[j] => i = j
IdsApart ==
  /\ \A a \in CartNodes : EachOnce(pool[a].ids) /\ \A id \in By(a) : Drawn(id)
  /\ \A a, b \in CartNodes : a # b => By(a) \cap By(b) = {}
  /\ \A r \in CartRequests : \A id \in cartReq[r].ids : Drawn(id) /\ \A a \in CartNodes : id \notin By(a)
IdsInv == PoolsShape /\ IdsApart /\ Cart!GivenOnce

\* Lines that were read with a version the cart has had: they are the cart's
\* for as long as that is its version and no change is on its way to count it.
Current(c, version, lines) ==
  /\ c \in Carts /\ cart[c].who # "none" /\ version \in Nat /\ version <= cart[c].version
  /\ version = cart[c].version /\ ~Cart!Midway(c) => lines = Cart!LinesOf(c)
Seen(r) == cartReq[r].seen
Previewing(r) ==
  /\ cartReq[r].op = "preview" /\ cartReq[r].at \in {"lines", "create"} =>
       /\ DOMAIN Seen(r) = {"version", "lines"}
       /\ cartReq[r].cart \in Carts /\ cart[cartReq[r].cart].who # "none"
       /\ Seen(r).version \in Nat /\ Seen(r).version <= cart[cartReq[r].cart].version
  /\ cartReq[r].op = "preview" /\ cartReq[r].at = "create" => Current(cartReq[r].cart, Seen(r).version, Seen(r).lines)
Previewed(r) == preview[r].cart # 0 => Current(preview[r].cart, preview[r].version, preview[r].lines)
PreviewsInv == \A r \in CartRequests : Previewing(r) /\ Previewed(r)

BasketInv(does) == BasketShape(does) /\ IdsInv /\ PreviewsInv

-----------------------------------------------------------------------------
\* The first of some carts is one of them.
LEMMA OldestIsOne ==
  ASSUME NEW carts, carts \subseteq Nat, carts # {}
  PROVE  Cart!Oldest(carts) \in carts
<1>1. \E c \in carts : \A d \in carts : ~(<<d, c>> \in OpToRel(<, Nat))
  BY NatLessThanWellFounded, WFMin
<1>2. PICK c \in carts : \A d \in carts : ~(<<d, c>> \in OpToRel(<, Nat)) BY <1>1
<1>3. ASSUME NEW d \in carts PROVE c <= d
  <2>1. ~(<<d, c>> \in OpToRel(<, Nat)) BY <1>2
  <2>2. ~(d < c) BY <2>1 DEF OpToRel
  <2> QED BY <2>2
<1> QED BY <1>3 DEF Cart!Oldest

LEMMA FoundIsTheirs ==
  ASSUME Carts \subseteq Nat, NEW who, Cart!Found(who) # 0
  PROVE  Cart!Found(who) \in Carts /\ cart[Cart!Found(who)].who = who
<1>1. Cart!CartsOf(who) # {} /\ Cart!CartsOf(who) \subseteq Nat BY DEF Cart!Found, Cart!CartsOf
<1>2. Cart!Found(who) \in Cart!CartsOf(who) BY <1>1, OldestIsOne DEF Cart!Found
<1> QED BY <1>2 DEF Cart!CartsOf

LEMMA NewCartIsNew ==
  ASSUME Carts \subseteq Nat, \E c \in Carts : cart[c].who = "none"
  PROVE  Cart!NewCart \in Carts /\ cart[Cart!NewCart].who = "none"
<1> DEFINE unmade == {d \in Carts : cart[d].who = "none"}
<1>1. unmade # {} /\ unmade \subseteq Nat OBVIOUS
<1>2. Cart!Oldest(unmade) \in unmade BY <1>1, OldestIsOne
<1> QED BY <1>2 DEF Cart!NewCart

-----------------------------------------------------------------------------
(* A request goes on: what it was asked stays, the others are not touched.   *)
BasketGoes(r, at) ==
  /\ DOMAIN cartReq' = CartRequests /\ DOMAIN cartReq'[r] = BasketFields
  /\ cartReq'[r].op = cartReq[r].op /\ cartReq'[r].who = cartReq[r].who /\ cartReq'[r].node = cartReq[r].node
  /\ \A q \in CartRequests \ {r} : cartReq'[q] = cartReq[q]
  /\ cartReq'[r].at = at
Elsewise == {"done", "likes", "begin"}

LEMMA BasketBe ==
  ASSUME NEW does, BasketShape(does), NEW r \in CartRequests, NEW record, Cart!Be(r, record),
         DOMAIN record = BasketFields, record.op = cartReq[r].op, record.who = cartReq[r].who,
         record.node = cartReq[r].node
  PROVE  BasketGoes(r, record.at) /\ cartReq'[r] = record
  BY DEF BasketShape, Cart!Be, BasketGoes

LEMMA BasketTo ==
  ASSUME NEW does, BasketShape(does), NEW r \in CartRequests, NEW at
  PROVE  /\ DOMAIN Cart!To(r, at) = BasketFields /\ Cart!To(r, at).at = at
         /\ \A f \in BasketFields \ {"at"} : Cart!To(r, at)[f] = cartReq[r][f]
  BY DEF BasketShape, Cart!To, BasketFields

LEMMA BasketGoto ==
  ASSUME NEW does, BasketShape(does), NEW r \in CartRequests, NEW at, Cart!Goto(r, at)
  PROVE  BasketGoes(r, at) /\ \A f \in BasketFields \ {"at"} : cartReq'[r][f] = cartReq[r][f]
<1>1. Cart!Be(r, Cart!To(r, at)) BY DEF Cart!Goto
<1>2. /\ DOMAIN Cart!To(r, at) = BasketFields /\ Cart!To(r, at).at = at
      /\ \A f \in BasketFields \ {"at"} : Cart!To(r, at)[f] = cartReq[r][f]
  BY BasketTo
<1>3. "op" \in BasketFields \ {"at"} /\ "who" \in BasketFields \ {"at"} /\ "node" \in BasketFields \ {"at"}
  BY DEF BasketFields
<1> QED BY <1>1, <1>2, <1>3, BasketBe

\* What has ended keeps the identifiers it drew and the cart it was of.
LEMMA BasketEnded ==
  ASSUME NEW does, BasketShape(does), NEW r \in CartRequests, NEW record,
         DOMAIN record = BasketFields, record.op = cartReq[r].op, record.who = cartReq[r].who,
         record.node = cartReq[r].node, record.ids = cartReq[r].ids, record.cart = cartReq[r].cart,
         Cart!Be(r, Cart!Ended(r, record))
  PROVE  \E at \in Elsewise : BasketGoes(r, at) /\ cartReq'[r].ids = cartReq[r].ids
<1>1. /\ DOMAIN Cart!Ended(r, record) = BasketFields /\ Cart!Ended(r, record).op = cartReq[r].op
      /\ Cart!Ended(r, record).who = cartReq[r].who /\ Cart!Ended(r, record).node = cartReq[r].node
      /\ Cart!Ended(r, record).ids = cartReq[r].ids /\ Cart!Ended(r, record).at \in Elsewise
  BY DEF Cart!Ended, BasketFields, Elsewise
<1> QED BY <1>1, BasketBe

LEMMA BasketRefuse ==
  ASSUME NEW does, BasketShape(does), NEW r \in CartRequests, Cart!Refuse(r)
  PROVE  \E at \in Elsewise : BasketGoes(r, at) /\ cartReq'[r].ids = cartReq[r].ids
<1> DEFINE record == [cartReq[r] EXCEPT !.rejected = TRUE]
<1>1. /\ DOMAIN record = BasketFields /\ record.op = cartReq[r].op /\ record.who = cartReq[r].who
      /\ record.node = cartReq[r].node /\ record.ids = cartReq[r].ids /\ record.cart = cartReq[r].cart
  BY DEF BasketShape, BasketFields
<1>2. Cart!Be(r, Cart!Ended(r, record)) BY DEF Cart!Refuse
<1> HIDE DEF record
<1> QED BY <1>1, <1>2, BasketEnded

-----------------------------------------------------------------------------
(* Identifiers: none is drawn, a process that has none waits for a refill,   *)
(* one is taken, a refill adds those above the counter.                      *)
LEMMA IdsRest ==
  ASSUME IdsInv, UNCHANGED <<pool, reserved>>, year' \in {1, 2},
         \A r \in CartRequests : cartReq'[r].ids = cartReq[r].ids
  PROVE  IdsInv'
<1>1. \A a : By(a)' = By(a) BY DEF By
<1>2. \A id : Drawn(id)' = Drawn(id) BY DEF Drawn
<1>3. PoolsShape' BY DEF IdsInv, PoolsShape
<1>4. IdsApart' BY <1>1, <1>2 DEF IdsInv, IdsApart
<1>5. Cart!GivenOnce' BY DEF IdsInv, Cart!GivenOnce
<1> QED BY <1>3, <1>4, <1>5 DEF IdsInv

PoolGoes(a) ==
  /\ DOMAIN pool' = CartNodes /\ DOMAIN pool'[a] = {"ids", "year", "filling"} /\ pool'[a].filling \in {0, 1, 2}
  /\ \A b \in CartNodes \ {a} : pool'[b] = pool[b]

LEMMA IdsDropped ==
  ASSUME IdsInv, NEW a \in CartNodes, PoolGoes(a), pool'[a].ids = <<>>, reserved' = reserved, year' = year,
         \A r \in CartRequests : cartReq'[r].ids = cartReq[r].ids
  PROVE  IdsInv'
<1>1. By(a)' = {} BY DEF By
<1>2. \A b \in CartNodes \ {a} : By(b)' = By(b) BY DEF By, PoolGoes
<1>3. \A id : Drawn(id)' = Drawn(id) BY DEF Drawn
<1>4. PoolsShape'
  <2>1. pool'[a].ids \in Seq(Ids) OBVIOUS
  <2> QED BY <2>1 DEF IdsInv, PoolsShape, PoolGoes
<1>5. IdsApart'
  <2>1. \A b \in CartNodes : EachOnce(pool[b].ids)' BY DEF IdsInv, IdsApart, EachOnce, PoolGoes
  <2> QED BY <1>1, <1>2, <1>3, <2>1 DEF IdsInv, IdsApart
<1>6. Cart!GivenOnce' BY DEF IdsInv, Cart!GivenOnce
<1> QED BY <1>4, <1>5, <1>6 DEF IdsInv

LEMMA IdTaken ==
  ASSUME IdsInv, NEW a \in CartNodes, PoolGoes(a), pool[a].ids # <<>>, pool'[a].ids = Tail(pool[a].ids),
         reserved' = reserved, year' = year, NEW r \in CartRequests,
         cartReq'[r].ids = cartReq[r].ids \cup {Head(pool[a].ids)},
         \A q \in CartRequests \ {r} : cartReq'[q].ids = cartReq[q].ids
  PROVE  IdsInv'
<1> DEFINE s == pool[a].ids  id == Head(pool[a].ids)
<1>0. s \in Seq(Ids) /\ EachOnce(s) BY DEF IdsInv, PoolsShape, IdsApart
<1>1. /\ Tail(s) \in Seq(Ids) /\ Len(Tail(s)) = Len(s) - 1 /\ Len(s) \in Nat /\ Len(s) > 0 /\ id = s[1]
      /\ \A i \in 1..Len(Tail(s)) : Tail(s)[i] = s[i + 1]
  BY <1>0, HeadTailProperties
<1>2. id \in By(a) BY <1>1 DEF By
<1>3. By(a)' = By(a) \ {id}
  <2>1. ASSUME NEW x \in By(a)' PROVE x \in By(a) \ {id}
    <3>1. PICK i \in 1..Len(Tail(s)) : x = Tail(s)[i] BY <2>1 DEF By
    <3>2. i + 1 \in 1..Len(s) /\ x = s[i + 1] /\ i + 1 # 1 BY <1>1, <3>1
    <3> QED BY <1>0, <1>1, <3>2 DEF By, EachOnce
  <2>2. ASSUME NEW x \in By(a), x # id PROVE x \in By(a)'
    <3>1. PICK i \in 1..Len(s) : x = s[i] BY DEF By
    <3>2. i # 1 BY <1>1, <2>2, <3>1
    <3>3. i - 1 \in 1..Len(Tail(s)) BY <1>1, <3>1, <3>2
    <3>4. Tail(s)[i - 1] = s[i - 1 + 1] BY <1>1, <3>3
    <3>5. i - 1 + 1 = i BY <3>1
    <3>6. x = Tail(s)[i - 1] BY <3>1, <3>4, <3>5
    <3> QED BY <3>3, <3>6 DEF By
  <2> QED BY <2>1, <2>2
<1>4. EachOnce(pool[a].ids)'
  <2> SUFFICES ASSUME NEW i \in 1..Len(Tail(s)), NEW j \in 1..Len(Tail(s)), Tail(s)[i] = Tail(s)[j] PROVE i = j
    BY DEF EachOnce
  <2>1. s[i + 1] = s[j + 1] /\ i + 1 \in 1..Len(s) /\ j + 1 \in 1..Len(s) BY <1>1
  <2>2. i + 1 = j + 1 BY <1>0, <2>1 DEF EachOnce
  <2> QED BY <2>2
<1> HIDE DEF id
<1>5. \A b \in CartNodes \ {a} : By(b)' = By(b) /\ (EachOnce(pool[b].ids)' <=> EachOnce(pool[b].ids))
  BY DEF By, EachOnce, PoolGoes
<1>6. \A x : Drawn(x)' = Drawn(x) BY DEF Drawn
<1>7. PoolsShape' BY <1>1 DEF IdsInv, PoolsShape, PoolGoes
<1>8. IdsApart'
  <2>1. \A b \in CartNodes : EachOnce(pool[b].ids)' /\ \A x \in By(b)' : Drawn(x)'
    BY <1>3, <1>4, <1>5, <1>6 DEF IdsInv, IdsApart
  <2>2. \A b, c \in CartNodes : b # c => By(b)' \cap By(c)' = {} BY <1>3, <1>5 DEF IdsInv, IdsApart
  <2>3. \A b \in CartNodes : id \notin By(b)' BY <1>2, <1>3, <1>5 DEF IdsInv, IdsApart
  <2>4. ASSUME NEW q \in CartRequests, NEW x \in cartReq'[q].ids
        PROVE  Drawn(x)' /\ \A b \in CartNodes : x \notin By(b)'
    <3>1. x = id \/ x \in cartReq[q].ids BY DEF id
    <3>2. CASE x = id BY <1>2, <1>6, <2>3, <3>2 DEF IdsInv, IdsApart
    <3>3. CASE x \in cartReq[q].ids BY <1>3, <1>5, <1>6, <3>3 DEF IdsInv, IdsApart
    <3> QED BY <3>1, <3>2, <3>3
  <2> QED BY <2>1, <2>2, <2>4 DEF IdsApart
<1>9. Cart!GivenOnce'
  <2>1. \A q \in CartRequests : id \notin cartReq[q].ids BY <1>2 DEF IdsInv, IdsApart
  <2> QED BY <2>1 DEF IdsInv, Cart!GivenOnce, id
<1> QED BY <1>7, <1>8, <1>9 DEF IdsInv

LEMMA Refilled ==
  ASSUME Batch \in Nat, IdsInv, NEW a \in CartNodes, Cart!Refill(a)
  PROVE  IdsInv'
<1> DEFINE y == pool[a].filling  s == pool[a].ids
<1>0. PICK new : new = Cart!NextPublicIds(y) OBVIOUS
<1>1. /\ y \in {1, 2} /\ reserved' = [reserved EXCEPT ![y] = @ + Batch] /\ year' = year /\ cartReq' = cartReq
      /\ pool' = [pool EXCEPT ![a].filling = 0, ![a].ids = IF pool[a].year = y THEN @ \o new ELSE @]
  BY <1>0 DEF Cart!Refill, Cart!Reserve, IdsInv, PoolsShape
<1>2. s \in Seq(Ids) /\ reserved[y] \in Nat BY <1>1 DEF IdsInv, PoolsShape
<1>3. /\ new \in Seq(Ids) /\ Len(new) = Batch /\ \A i \in 1..Batch : new[i] = <<y, reserved[y] + i>>
  <2>1. new = [i \in 1..Batch |-> <<y, reserved[y] + i>>] BY <1>0 DEF Cart!NextPublicIds
  <2>2. \A i \in 1..Batch : <<y, reserved[y] + i>> \in Ids BY <1>1, <1>2 DEF Ids
  <2>3. new \in [1..Batch -> Ids] BY <2>1, <2>2
  <2>4. new \in Seq(Ids) BY <2>3
  <2> QED BY <2>1, <2>3, <2>4
<1>4. /\ reserved' \in [{1, 2} -> Nat] /\ \A x \in {1, 2} : reserved'[x] >= reserved[x]
      /\ reserved'[y] = reserved[y] + Batch
  BY <1>1, <1>2 DEF IdsInv, PoolsShape
<1>5. \A x : Drawn(x) => Drawn(x)'
  <2>1. \A x \in Ids : x[1] \in {1, 2} /\ x[2] \in Nat BY DEF Ids
  <2> QED BY <1>4, <2>1 DEF Drawn, IdsInv, PoolsShape
<1>6. \A i \in 1..Batch : Drawn(new[i])' /\ ~Drawn(new[i])
  <2> SUFFICES ASSUME NEW i \in 1..Batch PROVE Drawn(new[i])' /\ ~Drawn(new[i]) OBVIOUS
  <2>1. new[i] = <<y, reserved[y] + i>> /\ new[i] \in Ids BY <1>1, <1>2, <1>3 DEF Ids
  <2>2. new[i][1] = y /\ new[i][2] = reserved[y] + i BY <2>1
  <2> QED BY <1>2, <1>4, <2>1, <2>2 DEF Drawn
<1>7. PoolGoes(a) /\ pool'[a].ids \in {s, s \o new}
  <2>1. DOMAIN pool = CartNodes /\ DOMAIN pool[a] = {"ids", "year", "filling"} BY DEF IdsInv, PoolsShape
  <2>3. DOMAIN pool'[a] = {"ids", "year", "filling"} /\ pool'[a].filling = 0
        /\ pool'[a].ids = IF pool[a].year = y THEN s \o new ELSE s
    BY <1>1, <2>1
  <2> QED BY <1>1, <2>1, <2>3 DEF PoolGoes
<1>8. /\ pool'[a].ids \in Seq(Ids) /\ EachOnce(pool[a].ids)' /\ \A id \in By(a)' : Drawn(id)'
      /\ \A id \in By(a)' : id \in By(a) \/ ~Drawn(id)
  <2>1. CASE pool'[a].ids = s BY <1>2, <1>5, <2>1 DEF IdsInv, IdsApart, By, EachOnce
  <2>2. CASE pool'[a].ids = s \o new
    <3>1. /\ s \o new \in Seq(Ids) /\ Len(s \o new) = Len(s) + Batch /\ Len(s) \in Nat
          /\ \A i \in 1..Len(s) + Batch : (s \o new)[i] = IF i <= Len(s) THEN s[i] ELSE new[i - Len(s)]
      <4>1. Len(s \o new) = Len(s) + Len(new) /\ s \o new \in Seq(Ids)
            /\ \A i \in 1..Len(s) + Len(new) : (s \o new)[i] = IF i <= Len(s) THEN s[i] ELSE new[i - Len(s)]
        BY <1>2, <1>3, ConcatProperties
      <4>2. Len(s) \in Nat BY <1>2
      <4>3. Len(new) = Batch BY <1>3
      <4> QED BY <4>1, <4>2, <4>3
    <3>2. ASSUME NEW i \in 1..Len(s) + Batch
          PROVE  \/ i \in 1..Len(s) /\ (s \o new)[i] = s[i] /\ Drawn(s[i]) /\ s[i] \in By(a)
                 \/ i - Len(s) \in 1..Batch /\ (s \o new)[i] = new[i - Len(s)]
      <4>1. CASE i <= Len(s) BY <3>1, <4>1 DEF IdsInv, IdsApart, By
      <4>2. CASE i > Len(s) BY <3>1, <4>2
      <4> QED BY <3>1, <4>1, <4>2
    <3>3. \A i, j \in 1..Batch : new[i] = new[j] => i = j
      <4> SUFFICES ASSUME NEW i \in 1..Batch, NEW j \in 1..Batch, new[i] = new[j] PROVE i = j OBVIOUS
      <4>1. <<y, reserved[y] + i>> = <<y, reserved[y] + j>> BY <1>3
      <4>2. reserved[y] + i = reserved[y] + j BY <4>1
      <4> QED BY <1>2, <4>2
    <3>4. EachOnce(s \o new)
      <4> SUFFICES ASSUME NEW i \in 1..Len(s) + Batch, NEW j \in 1..Len(s) + Batch, (s \o new)[i] = (s \o new)[j]
                   PROVE  i = j
        BY <3>1 DEF EachOnce
      <4>1. \A m, n \in 1..Len(s) : s[m] = s[n] => m = n BY DEF IdsInv, IdsApart, EachOnce
      <4>2. (i \in 1..Len(s) /\ j \in 1..Len(s)) \/ (i - Len(s) \in 1..Batch /\ j - Len(s) \in 1..Batch)
        BY <1>6, <3>2
      <4> QED BY <3>1, <3>2, <3>3, <4>1, <4>2
    <3>5. \A id \in By(a)' : \E i \in 1..Len(s) + Batch : id = (s \o new)[i] BY <2>2, <3>1 DEF By
    <3>6. ASSUME NEW id \in By(a)' PROVE Drawn(id)' /\ (id \in By(a) \/ ~Drawn(id))
      <4>1. PICK i \in 1..Len(s) + Batch : id = (s \o new)[i] BY <3>5
      <4> QED BY <1>5, <1>6, <3>2, <4>1
    <3>7. EachOnce(pool[a].ids)' BY <2>2, <3>4 DEF EachOnce
    <3> QED BY <2>2, <3>1, <3>6, <3>7
  <2> QED BY <1>7, <2>1, <2>2
<1>9. \A b \in CartNodes \ {a} : By(b)' = By(b) /\ (EachOnce(pool[b].ids)' <=> EachOnce(pool[b].ids))
  BY <1>7 DEF By, EachOnce, PoolGoes
<1>10. PoolsShape' BY <1>1, <1>4, <1>7, <1>8 DEF IdsInv, PoolsShape, PoolGoes
<1>11. IdsApart'
  <2>1. \A b \in CartNodes : EachOnce(pool[b].ids)' /\ \A x \in By(b)' : Drawn(x)'
    BY <1>5, <1>8, <1>9 DEF IdsInv, IdsApart
  <2>2. \A b, c \in CartNodes : b # c => By(b)' \cap By(c)' = {} BY <1>8, <1>9 DEF IdsInv, IdsApart
  <2>3. \A q \in CartRequests : \A x \in cartReq'[q].ids : Drawn(x)' /\ \A b \in CartNodes : x \notin By(b)'
    BY <1>1, <1>5, <1>8, <1>9 DEF IdsInv, IdsApart
  <2> QED BY <2>1, <2>2, <2>3 DEF IdsApart
<1>12. Cart!GivenOnce' BY <1>1 DEF IdsInv, Cart!GivenOnce
<1> QED BY <1>10, <1>11, <1>12 DEF IdsInv

-----------------------------------------------------------------------------
(* Versions only grow, and a cart whose version stays, with no change of it  *)
(* on its way, keeps its lines.                                              *)
Onward == \A c \in Carts : cart[c].who # "none" =>
  /\ cart'[c].who # "none" /\ cart'[c].version \in Nat /\ cart[c].version <= cart'[c].version
  /\ cart'[c].version = cart[c].version /\ ~Cart!Midway(c)' => ~Cart!Midway(c) /\ Cart!LinesOf(c)' = Cart!LinesOf(c)
Underway == {"bump", "unbumped"}
Looking == {"lines", "create"}

LEMMA CurrentStays ==
  ASSUME NEW does, BasketShape(does), Onward, NEW c, NEW version, NEW lines, Current(c, version, lines)
  PROVE  Current(c, version, lines)'
  BY DEF BasketShape, Onward, Current

LEMMA PreviewsRest ==
  ASSUME NEW does, BasketShape(does), PreviewsInv, Onward,
         \A r \in CartRequests :
           /\ preview'[r] = preview[r] \/ Previewed(r)'
           /\ \/ cartReq'[r] = cartReq[r] \/ Previewing(r)'
              \/ ~(cartReq'[r].op = "preview" /\ cartReq'[r].at \in Looking)
  PROVE  PreviewsInv'
<1> SUFFICES ASSUME NEW r \in CartRequests PROVE Previewing(r)' /\ Previewed(r)'
  BY DEF PreviewsInv
<1>0. Previewing(r) /\ Previewed(r) BY DEF PreviewsInv
<1>1. Previewed(r)'
  <2>1. \A c, version, lines : Current(c, version, lines) => Current(c, version, lines)' BY CurrentStays
  <2>2. CASE preview'[r] = preview[r] BY <1>0, <2>1, <2>2 DEF Previewed
  <2> QED BY <2>2
<1>2. CASE cartReq'[r] = cartReq[r]
  <2>1. Seen(r)' = Seen(r) BY <1>2 DEF Seen
  <2>2. CASE cartReq[r].op = "preview" /\ cartReq[r].at \in Looking
    <3>1. /\ DOMAIN Seen(r) = {"version", "lines"}
          /\ cartReq[r].cart \in Carts /\ cart[cartReq[r].cart].who # "none"
          /\ Seen(r).version \in Nat /\ Seen(r).version <= cart[cartReq[r].cart].version
      BY <1>0, <2>2 DEF Previewing, Looking
    <3>2. /\ cart'[cartReq[r].cart].who # "none" /\ cart'[cartReq[r].cart].version \in Nat
          /\ cart[cartReq[r].cart].version <= cart'[cartReq[r].cart].version
      BY <3>1 DEF Onward
    <3>3. Seen(r).version <= cart'[cartReq[r].cart].version BY <3>1, <3>2 DEF BasketShape
    <3>4. \A c, version, lines : Current(c, version, lines) => Current(c, version, lines)' BY CurrentStays
    <3> QED BY <1>0, <1>1, <1>2, <2>1, <3>1, <3>2, <3>3, <3>4 DEF Previewing
  <2>3. CASE ~(cartReq[r].op = "preview" /\ cartReq[r].at \in Looking) BY <1>1, <1>2, <2>3 DEF Previewing, Looking
  <2> QED BY <2>2, <2>3
<1>3. CASE ~(cartReq'[r].op = "preview" /\ cartReq'[r].at \in Looking) BY <1>1, <1>3 DEF Previewing, Looking
<1> QED BY <1>1, <1>2, <1>3

\* A request that writes no line, or dies between a line and its version.
LEMMA OnwardQuiet ==
  ASSUME NEW does, BasketShape(does), NEW r \in CartRequests, NEW at, BasketGoes(r, at), line' = line,
         \A c \in Carts : cart'[c].who = cart[c].who /\ cart'[c].version = cart[c].version,
         cartReq[r].at \notin Underway \/ (at = "unbumped" /\ cartReq'[r].cart = cartReq[r].cart)
  PROVE  Onward
<1> SUFFICES ASSUME NEW c \in Carts PROVE (Cart!Midway(c) => Cart!Midway(c)') /\ Cart!LinesOf(c)' = Cart!LinesOf(c)
  BY DEF Onward, BasketShape
<1>1. Cart!LinesOf(c)' = Cart!LinesOf(c) BY DEF Cart!LinesOf, Cart!NoLine
<1>2. Cart!Midway(c) => Cart!Midway(c)' BY DEF Cart!Midway, BasketGoes, Underway
<1> QED BY <1>1, <1>2

\* A request that writes lines of its cart: the version is to follow.
LEMMA OnwardLine ==
  ASSUME NEW does, BasketShape(does), NEW r \in CartRequests, BasketGoes(r, "bump"), cart' = cart,
         \A c \in Carts, p \in Products : c # cartReq'[r].cart => line'[<<c, p>>] = line[<<c, p>>],
         cartReq[r].at \notin Underway
  PROVE  Onward
<1> SUFFICES ASSUME NEW c \in Carts, ~Cart!Midway(c)' PROVE ~Cart!Midway(c) /\ Cart!LinesOf(c)' = Cart!LinesOf(c)
  BY DEF Onward, BasketShape
<1>1. c # cartReq'[r].cart BY DEF Cart!Midway, BasketGoes
<1>2. Cart!LinesOf(c)' = Cart!LinesOf(c) BY <1>1 DEF Cart!LinesOf, Cart!NoLine
<1>3. Cart!Midway(c) => Cart!Midway(c)' BY DEF Cart!Midway, BasketGoes, Underway
<1> QED BY <1>2, <1>3

LEMMA ShapeStays ==
  ASSUME NEW does, BasketShape(does), NEW r \in CartRequests, NEW at, BasketGoes(r, at),
         DOMAIN preview' = CartRequests, cart' = cart, DOMAIN line' = DOMAIN line
  PROVE  BasketShape(does)'
  BY DEF BasketShape, BasketGoes

LEMMA BasketQuiet ==
  ASSUME NEW does, BasketInv(does), NEW r \in CartRequests, NEW at, BasketGoes(r, at),
         cartReq'[r].ids = cartReq[r].ids, UNCHANGED <<cart, line, pool, reserved, year, preview>>,
         cartReq[r].at \notin Underway \/ (at = "unbumped" /\ cartReq'[r].cart = cartReq[r].cart),
         cartReq[r].op = "preview" => at \notin Looking
  PROVE  BasketInv(does)'
<1>1. BasketShape(does) /\ IdsInv /\ PreviewsInv BY DEF BasketInv
<1>2. BasketShape(does)' BY <1>1, ShapeStays DEF BasketShape
<1>3. IdsInv' BY <1>1, IdsRest DEF BasketGoes, IdsInv, PoolsShape
<1>4. Onward BY <1>1, OnwardQuiet
<1>5. PreviewsInv' BY <1>1, <1>4, PreviewsRest DEF BasketGoes
<1> QED BY <1>2, <1>3, <1>5 DEF BasketInv

LEMMA BasketLine ==
  ASSUME NEW does, BasketInv(does), NEW r \in CartRequests, BasketGoes(r, "bump"),
         cartReq'[r].ids = cartReq[r].ids, UNCHANGED <<cart, pool, reserved, year, preview>>,
         DOMAIN line' = DOMAIN line,
         \A c \in Carts, p \in Products : c # cartReq'[r].cart => line'[<<c, p>>] = line[<<c, p>>],
         cartReq[r].at \notin Underway
  PROVE  BasketInv(does)'
<1>1. BasketShape(does) /\ IdsInv /\ PreviewsInv BY DEF BasketInv
<1>2. BasketShape(does)' BY <1>1, ShapeStays DEF BasketShape
<1>3. IdsInv' BY <1>1, IdsRest DEF BasketGoes, IdsInv, PoolsShape
<1>4. Onward BY <1>1, OnwardLine
<1>5. PreviewsInv' BY <1>1, <1>4, PreviewsRest DEF BasketGoes, Looking
<1> QED BY <1>2, <1>3, <1>5 DEF BasketInv

LEMMA BasketRefused ==
  ASSUME NEW does, BasketInv(does), NEW r \in CartRequests, Cart!Refuse(r),
         UNCHANGED <<cart, line, pool, reserved, year, preview>>, cartReq[r].at \notin Underway
  PROVE  BasketInv(does)'
<1>1. PICK at \in Elsewise : BasketGoes(r, at) /\ cartReq'[r].ids = cartReq[r].ids BY BasketRefuse DEF BasketInv
<1>2. at \notin Looking BY DEF Elsewise, Looking
<1> QED BY <1>1, <1>2, BasketQuiet

LEMMA BasketMoved ==
  ASSUME NEW does, BasketInv(does), NEW r \in CartRequests, NEW at, Cart!Goto(r, at),
         UNCHANGED <<cart, line, pool, reserved, year, preview>>,
         cartReq[r].at \notin Underway \/ at = "unbumped", cartReq[r].op = "preview" => at \notin Looking
  PROVE  BasketInv(does)'
<1>1. BasketGoes(r, at) /\ \A f \in BasketFields \ {"at"} : cartReq'[r][f] = cartReq[r][f]
  BY BasketGoto DEF BasketInv
<1>2. cartReq'[r].ids = cartReq[r].ids /\ cartReq'[r].cart = cartReq[r].cart BY <1>1 DEF BasketFields
<1> QED BY <1>1, <1>2, BasketQuiet

LEMMA BasketBecomes ==
  ASSUME NEW does, BasketInv(does), NEW r \in CartRequests, NEW record, Cart!Be(r, record),
         DOMAIN record = BasketFields, record.op = cartReq[r].op, record.who = cartReq[r].who,
         record.node = cartReq[r].node, record.ids = cartReq[r].ids,
         UNCHANGED <<cart, line, pool, reserved, year, preview>>,
         cartReq[r].at \notin Underway, cartReq[r].op = "preview" => record.at \notin Looking
  PROVE  BasketInv(does)'
<1>1. BasketGoes(r, record.at) /\ cartReq'[r] = record BY BasketBe DEF BasketInv
<1> QED BY <1>1, BasketQuiet

-----------------------------------------------------------------------------
(* The steps of a request.                                                   *)
USE DEF Cart!cartVars, Cart!idVars, Cart!Now

LEMMA PartnerStep ==
  ASSUME NEW does, BasketInv(does), NEW r \in CartRequests, Cart!AsPartner(r) \/ Cart!View(r)
  PROVE  BasketInv(does)'
<1>1. CASE Cart!View(r)
  <2>1. Cart!Goto(r, "done") /\ cartReq[r].at \in {"begin", "cart"} BY <1>1 DEF Cart!View, Cart!HasCart
  <2> QED BY <1>1, <2>1, BasketMoved DEF Cart!View, Underway, Looking
<1>2. CASE Cart!AsPartner(r)
  <2>1. CASE Cart!PartnerActive
    <3>1. Cart!Goto(r, "begin") BY <1>2, <2>1 DEF Cart!AsPartner
    <3> QED BY <1>2, <3>1, BasketMoved DEF Cart!AsPartner, Underway, Looking
  <2>2. CASE ~Cart!PartnerActive
    <3> DEFINE to == Cart!To(r, "done")  record == [to EXCEPT !.rejected = TRUE]
    <3>1. Cart!Be(r, record) BY <1>2, <2>2 DEF Cart!AsPartner
    <3>2. DOMAIN to = BasketFields /\ to.at = "done" /\ \A f \in BasketFields \ {"at"} : to[f] = cartReq[r][f]
      BY BasketTo DEF BasketInv
    <3> HIDE DEF to
    <3>3. /\ DOMAIN record = BasketFields /\ record.op = cartReq[r].op /\ record.who = cartReq[r].who
          /\ record.node = cartReq[r].node /\ record.ids = cartReq[r].ids /\ record.at = "done"
      BY <3>2 DEF BasketFields
    <3> HIDE DEF record
    <3> QED BY <1>2, <3>1, <3>3, BasketBecomes DEF Cart!AsPartner, Underway, Looking
  <2> QED BY <2>1, <2>2
<1> QED BY <1>1, <1>2

LEMMA CreateCartStep ==
  ASSUME Carts \subseteq Nat, NEW does, BasketInv(does), CartAsked(does), NEW r \in CartRequests, Cart!CreateCart(r)
  PROVE  BasketInv(does)'
<1> DEFINE new == Cart!NewCart
           at == IF Cart!Quoted(r) THEN "slow" ELSE IF cartReq[r].op \in Cart!Adds THEN "id" ELSE "cart"
           to == Cart!To(r, at)  record == [to EXCEPT !.cart = new]
<1>0. BasketShape(does) /\ IdsInv /\ PreviewsInv BY DEF BasketInv
<1>1. /\ cart' = [cart EXCEPT ![new] = [who |-> cartReq[r].who, version |-> 1, summary |-> 0]]
      /\ Cart!Be(r, record) /\ UNCHANGED <<line, pool, reserved, year, preview>>
      /\ cartReq[r].at \in {"begin", "create"}
  BY DEF Cart!CreateCart
<1>2. new \in Carts /\ cart[new].who = "none" BY NewCartIsNew DEF Cart!CreateCart
<1>3. DOMAIN to = BasketFields /\ to.at = at /\ \A f \in BasketFields \ {"at"} : to[f] = cartReq[r][f]
  BY <1>0, BasketTo
<1> HIDE DEF to
<1>4. /\ DOMAIN record = BasketFields /\ record.op = cartReq[r].op /\ record.who = cartReq[r].who
      /\ record.node = cartReq[r].node /\ record.ids = cartReq[r].ids /\ record.at = at
  BY <1>3 DEF BasketFields
<1> HIDE DEF record
<1>5. BasketGoes(r, at) /\ cartReq'[r].ids = cartReq[r].ids BY <1>0, <1>1, <1>4, BasketBe
<1>6. at \in {"slow", "id", "cart"} OBVIOUS
<1> HIDE DEF at, new
<1>7. \A c \in Carts : cart'[c] = IF c = new THEN [who |-> cartReq[r].who, version |-> 1, summary |-> 0] ELSE cart[c]
  BY <1>0, <1>1 DEF BasketShape
<1>8. BasketShape(does)' BY <1>0, <1>1, <1>5, <1>7 DEF BasketShape, BasketGoes
<1>9. IdsInv' BY <1>0, <1>1, <1>5, IdsRest DEF BasketGoes, IdsInv, PoolsShape
<1>10. Onward
  <2> SUFFICES ASSUME NEW c \in Carts, cart[c].who # "none"
               PROVE  cart'[c] = cart[c] /\ (Cart!Midway(c) => Cart!Midway(c)') /\ Cart!LinesOf(c)' = Cart!LinesOf(c)
    BY <1>0 DEF Onward, BasketShape
  <2>1. cart'[c] = cart[c] BY <1>2, <1>7
  <2>2. Cart!LinesOf(c)' = Cart!LinesOf(c) BY <1>1 DEF Cart!LinesOf, Cart!NoLine
  <2>3. Cart!Midway(c) => Cart!Midway(c)' BY <1>1, <1>5 DEF Cart!Midway, BasketGoes
  <2> QED BY <2>1, <2>2, <2>3
<1>11. PreviewsInv' BY <1>0, <1>1, <1>5, <1>6, <1>10, PreviewsRest DEF BasketGoes, Looking
<1> QED BY <1>8, <1>9, <1>11 DEF BasketInv

LEMMA AddBeginStep ==
  ASSUME NEW does, BasketInv(does), NEW r \in CartRequests, Cart!AddBegin(r)
  PROVE  BasketInv(does)'
<1>0. UNCHANGED <<cart, line, pool, reserved, year, preview>> /\ cartReq[r].at = "begin" /\ cartReq[r].op \in Cart!Adds
  BY DEF Cart!AddBegin
<1>1. \/ Cart!Refuse(r)
      \/ \E at, c, found : Cart!Be(r, [Cart!To(r, at) EXCEPT !.cart = c, !.seen = found])
  BY DEF Cart!AddBegin
<1>2. CASE Cart!Refuse(r) BY <1>0, <1>2, BasketRefused DEF Underway
<1>3. CASE \E at, c, found : Cart!Be(r, [Cart!To(r, at) EXCEPT !.cart = c, !.seen = found])
  <2>1. PICK at, c, found : Cart!Be(r, [Cart!To(r, at) EXCEPT !.cart = c, !.seen = found]) BY <1>3
  <2> DEFINE to == Cart!To(r, at)  record == [to EXCEPT !.cart = c, !.seen = found]
  <2>2. DOMAIN to = BasketFields /\ \A f \in BasketFields \ {"at"} : to[f] = cartReq[r][f]
    BY BasketTo DEF BasketInv
  <2> HIDE DEF to
  <2>3. /\ DOMAIN record = BasketFields /\ record.op = cartReq[r].op /\ record.who = cartReq[r].who
        /\ record.node = cartReq[r].node /\ record.ids = cartReq[r].ids
    BY <2>2 DEF BasketFields
  <2>4. Cart!Be(r, record) BY <2>1 DEF to
  <2> HIDE DEF record
  <2>5. cartReq[r].op # "preview" BY <1>0 DEF Cart!Adds
  <2> QED BY <1>0, <2>3, <2>4, <2>5, BasketBecomes DEF Underway
<1> QED BY <1>1, <1>2, <1>3

\* A request is given the first identifier its process has by.
LEMMA GivenStep ==
  ASSUME NEW does, BasketInv(does), NEW r \in CartRequests, cartReq[r].op \in Cart!Adds,
         cartReq[r].at \in {"id", "wait"}, NEW a \in CartNodes, PoolGoes(a), pool[a].ids # <<>>,
         pool'[a].ids = Tail(pool[a].ids), NEW at, at \in {"insert", "fast"}, Cart!Given(r, Head(pool[a].ids), at),
         UNCHANGED <<cart, line, reserved, year, preview>>
  PROVE  BasketInv(does)'
<1> DEFINE id == Head(pool[a].ids)
           to == Cart!To(r, at)  record == [to EXCEPT !.ids = @ \cup {id}, !.seen.id = id]
<1>0. BasketShape(does) /\ IdsInv /\ PreviewsInv BY DEF BasketInv
<1>1. DOMAIN to = BasketFields /\ to.at = at /\ \A f \in BasketFields \ {"at"} : to[f] = cartReq[r][f]
  BY <1>0, BasketTo
<1>2. Cart!Be(r, record) BY DEF Cart!Given
<1> HIDE DEF to, id
<1>3. /\ DOMAIN record = BasketFields /\ record.op = cartReq[r].op /\ record.who = cartReq[r].who
      /\ record.node = cartReq[r].node /\ record.at = at /\ record.ids = cartReq[r].ids \cup {id}
  BY <1>1 DEF BasketFields
<1> HIDE DEF record
<1>4. BasketGoes(r, at) /\ cartReq'[r].ids = cartReq[r].ids \cup {id} BY <1>0, <1>2, <1>3, BasketBe
<1>5. BasketShape(does)' BY <1>0, <1>4, ShapeStays DEF BasketShape
<1>6. IdsInv' BY <1>0, <1>4, IdTaken DEF id, BasketGoes
<1>7. Onward BY <1>0, <1>4, OnwardQuiet DEF Underway
<1>8. PreviewsInv' BY <1>0, <1>4, <1>7, PreviewsRest DEF BasketGoes, Looking
<1> QED BY <1>5, <1>6, <1>8 DEF BasketInv

\* A request finds that its process has none by.
LEMMA NoneByStep ==
  ASSUME NEW does, BasketInv(does), NEW r \in CartRequests, Cart!Goto(r, "wait"), cartReq[r].at = "id",
         NEW a \in CartNodes, PoolGoes(a), pool'[a].ids = <<>>, UNCHANGED <<cart, line, reserved, year, preview>>
  PROVE  BasketInv(does)'
<1>0. BasketShape(does) /\ IdsInv /\ PreviewsInv BY DEF BasketInv
<1>1. BasketGoes(r, "wait") /\ \A f \in BasketFields \ {"at"} : cartReq'[r][f] = cartReq[r][f] BY <1>0, BasketGoto
<1>2. cartReq'[r].ids = cartReq[r].ids BY <1>1 DEF BasketFields
<1>3. BasketShape(does)' BY <1>0, <1>1, ShapeStays DEF BasketShape
<1>4. IdsInv' BY <1>0, <1>1, <1>2, IdsDropped DEF BasketGoes
<1>5. Onward BY <1>0, <1>1, OnwardQuiet DEF Underway
<1>6. PreviewsInv' BY <1>0, <1>1, <1>5, PreviewsRest DEF BasketGoes, Looking
<1> QED BY <1>3, <1>4, <1>6 DEF BasketInv

LEMMA IdSteps ==
  ASSUME NEW does, BasketInv(does), CartAsked(does), NEW r \in CartRequests, Cart!TakeId(r) \/ Cart!Woken(r)
  PROVE  BasketInv(does)'
<1>a. PICK a \in CartNodes : a = cartReq[r].node BY DEF BasketInv, BasketShape, CartAsked
<1>0. /\ DOMAIN pool = CartNodes /\ DOMAIN pool[a] = {"ids", "year", "filling"}
      /\ pool[a].filling \in {0, 1, 2} /\ year \in {1, 2}
  BY DEF BasketInv, BasketShape, IdsInv, PoolsShape, CartAsked
<1>1. PICK to \in {"insert", "fast"} : to = Cart!WithId(r) BY DEF Cart!WithId
<1>2. CASE Cart!TakeId(r)
  <2> DEFINE mine == Cart!OfThisYear(a)
  <2>1. /\ cartReq[r].at = "id" /\ cartReq[r].op \in Cart!Adds
        /\ UNCHANGED <<cart, line, reserved, year, preview>>
        /\ IF mine.ids # <<>>
           THEN pool' = [pool EXCEPT ![a] = [mine EXCEPT !.ids = Tail(@)]] /\ Cart!Given(r, Head(mine.ids), to)
           ELSE /\ pool' = [pool EXCEPT ![a] = [mine EXCEPT !.filling = IF @ = 0 THEN year ELSE @]]
                /\ Cart!Goto(r, "wait")
    BY <1>a, <1>1, <1>2 DEF Cart!TakeId
  <2>2. /\ DOMAIN mine = {"ids", "year", "filling"} /\ mine.filling = pool[a].filling
        /\ mine.ids # <<>> => mine.ids = pool[a].ids
    BY <1>0 DEF Cart!OfThisYear
  <2> HIDE DEF mine
  <2>3. CASE mine.ids # <<>>
    <3>1. pool'[a] = [mine EXCEPT !.ids = Tail(@)] /\ PoolGoes(a) BY <1>0, <2>1, <2>2, <2>3 DEF PoolGoes
    <3>2. pool'[a].ids = Tail(pool[a].ids) BY <2>2, <2>3, <3>1
    <3>3. Cart!Given(r, Head(pool[a].ids), to) BY <2>1, <2>2, <2>3
    <3>4. pool[a].ids # <<>> BY <2>2, <2>3
    <3>5. /\ cartReq[r].at \in {"id", "wait"} /\ cartReq[r].op \in Cart!Adds /\ PoolGoes(a)
          /\ UNCHANGED <<cart, line, reserved, year, preview>>
      BY <2>1, <3>1
    <3> QED BY <3>2, <3>3, <3>4, <3>5, GivenStep
  <2>4. CASE mine.ids = <<>>
    <3>1. pool'[a] = [mine EXCEPT !.filling = IF @ = 0 THEN year ELSE @] /\ PoolGoes(a)
      BY <1>0, <2>1, <2>2, <2>4 DEF PoolGoes
    <3>2. pool'[a].ids = <<>> BY <2>2, <2>4, <3>1
    <3> QED BY <1>0, <2>1, <2>4, <3>1, <3>2, NoneByStep
  <2> QED BY <2>3, <2>4
<1>3. CASE Cart!Woken(r)
  <2>1. /\ cartReq[r].at = "wait" /\ cartReq[r].op \in Cart!Adds
        /\ UNCHANGED <<cart, line, reserved, year, preview>>
        /\ IF pool[a].ids # <<>>
           THEN pool' = [pool EXCEPT ![a].ids = Tail(@)] /\ Cart!Given(r, Head(pool[a].ids), to)
           ELSE Cart!Refuse(r) /\ UNCHANGED pool
    BY <1>a, <1>1, <1>3 DEF Cart!Woken
  <2>2. CASE pool[a].ids # <<>>
    <3>1. pool'[a] = [pool[a] EXCEPT !.ids = Tail(@)] /\ PoolGoes(a) BY <1>0, <2>1, <2>2 DEF PoolGoes
    <3>2. pool'[a].ids = Tail(pool[a].ids) BY <1>0, <3>1
    <3>3. Cart!Given(r, Head(pool[a].ids), to) BY <2>1, <2>2
    <3> QED BY <2>1, <2>2, <3>1, <3>2, <3>3, GivenStep
  <2>3. CASE pool[a].ids = <<>> BY <2>1, <2>3, BasketRefused DEF Underway
  <2> QED BY <2>2, <2>3
<1> QED BY <1>2, <1>3

-----------------------------------------------------------------------------
LEMMA WriteStep ==
  ASSUME NEW does, BasketInv(does), NEW r \in CartRequests, NEW new, Cart!Write(r, new),
         BasketGoes(r, "bump"), cartReq'[r].ids = cartReq[r].ids, cartReq'[r].cart = cartReq[r].cart,
         UNCHANGED <<cart, pool, reserved, year, preview>>, cartReq[r].at \notin Underway
  PROVE  BasketInv(does)'
<1>1. DOMAIN line' = DOMAIN line BY DEF Cart!Write
<1>2. ASSUME NEW c \in Carts, NEW p \in Products, c # cartReq'[r].cart PROVE line'[<<c, p>>] = line[<<c, p>>]
  <2>1. <<c, p>> # <<cartReq[r].cart, cartReq[r].on>> BY <1>2
  <2>2. <<c, p>> \in DOMAIN line BY DEF BasketInv, BasketShape
  <2> QED BY <2>1, <2>2 DEF Cart!Write
<1> QED BY <1>1, <1>2, BasketLine

LEMMA WriteAndGoto ==
  ASSUME NEW does, BasketInv(does), NEW r \in CartRequests, NEW new, Cart!Write(r, new), Cart!Goto(r, "bump"),
         UNCHANGED <<cart, pool, reserved, year, preview>>, cartReq[r].at \notin Underway
  PROVE  BasketInv(does)'
<1>1. BasketGoes(r, "bump") /\ \A f \in BasketFields \ {"at"} : cartReq'[r][f] = cartReq[r][f]
  BY BasketGoto DEF BasketInv
<1>2. cartReq'[r].ids = cartReq[r].ids /\ cartReq'[r].cart = cartReq[r].cart BY <1>1 DEF BasketFields
<1> QED BY <1>1, <1>2, WriteStep

LEMMA WriteAndForget ==
  ASSUME NEW does, BasketInv(does), NEW r \in CartRequests, NEW new, Cart!Write(r, new), NEW found,
         Cart!Be(r, [Cart!To(r, "bump") EXCEPT !.seen = found]),
         UNCHANGED <<cart, pool, reserved, year, preview>>, cartReq[r].at \notin Underway
  PROVE  BasketInv(does)'
<1> DEFINE to == Cart!To(r, "bump")  record == [to EXCEPT !.seen = found]
<1>1. DOMAIN to = BasketFields /\ to.at = "bump" /\ \A f \in BasketFields \ {"at"} : to[f] = cartReq[r][f]
  BY BasketTo DEF BasketInv
<1> HIDE DEF to
<1>2. /\ DOMAIN record = BasketFields /\ record.op = cartReq[r].op /\ record.who = cartReq[r].who
      /\ record.node = cartReq[r].node /\ record.at = "bump" /\ record.ids = cartReq[r].ids
      /\ record.cart = cartReq[r].cart
  BY <1>1 DEF BasketFields
<1>3. Cart!Be(r, record) BY DEF to
<1> HIDE DEF record
<1>4. BasketGoes(r, "bump") /\ cartReq'[r] = record BY <1>2, <1>3, BasketBe DEF BasketInv
<1> QED BY <1>2, <1>4, WriteStep

LEMMA SeenOnly ==
  ASSUME NEW does, BasketInv(does), NEW r \in CartRequests, NEW at, NEW c, NEW found,
         \/ Cart!Be(r, [Cart!To(r, at) EXCEPT !.seen = found])
         \/ Cart!Be(r, [Cart!To(r, at) EXCEPT !.cart = c, !.seen = found]),
         UNCHANGED <<cart, line, pool, reserved, year, preview>>, cartReq[r].at \notin Underway, at \notin Looking
  PROVE  BasketInv(does)'
<1> DEFINE to == Cart!To(r, at)
<1>1. DOMAIN to = BasketFields /\ to.at = at /\ \A f \in BasketFields \ {"at"} : to[f] = cartReq[r][f]
  BY BasketTo DEF BasketInv
<1>2. PICK record \in {[to EXCEPT !.seen = found], [to EXCEPT !.cart = c, !.seen = found]} : Cart!Be(r, record)
  OBVIOUS
<1> HIDE DEF to
<1>3. /\ DOMAIN record = BasketFields /\ record.op = cartReq[r].op /\ record.who = cartReq[r].who
      /\ record.node = cartReq[r].node /\ record.at = at /\ record.ids = cartReq[r].ids
  BY <1>1, <1>2 DEF BasketFields
<1> QED BY <1>2, <1>3, BasketBecomes

LEMMA AddSteps ==
  ASSUME NEW does, BasketInv(does), NEW r \in CartRequests,
         Cart!FastAdd(r) \/ Cart!SlowRead(r) \/ Cart!Save(r) \/ Cart!Insert(r)
  PROVE  BasketInv(does)'
<1>1. CASE Cart!FastAdd(r)
  <2>1. cartReq[r].at = "fast" /\ UNCHANGED <<cart, pool, reserved, year, preview>> BY <1>1 DEF Cart!FastAdd
  <2>2. CASE Cart!Write(r, Cart!Fresh(r)) /\ Cart!Goto(r, "bump") BY <2>1, <2>2, WriteAndGoto DEF Underway
  <2>3. CASE Cart!Write(r, Cart!Grown(r)) /\ Cart!Goto(r, "bump") BY <2>1, <2>3, WriteAndGoto DEF Underway
  <2>4. CASE Cart!Goto(r, "slow") /\ UNCHANGED line BY <2>1, <2>4, BasketMoved DEF Underway, Looking
  <2> QED BY <1>1, <2>2, <2>3, <2>4 DEF Cart!FastAdd
<1>2. CASE Cart!SlowRead(r)
  <2>1. cartReq[r].at = "slow" /\ UNCHANGED <<cart, line, pool, reserved, year, preview>> BY <1>2 DEF Cart!SlowRead
  <2>2. CASE Cart!Refuse(r) BY <2>1, <2>2, BasketRefused DEF Underway
  <2>3. CASE \E at \in {"id", "insert"} : Cart!Goto(r, at) BY <2>1, <2>3, BasketMoved DEF Underway, Looking
  <2>4. CASE \E found : Cart!Be(r, [Cart!To(r, "save") EXCEPT !.seen = found])
    <3>1. PICK found : Cart!Be(r, [Cart!To(r, "save") EXCEPT !.seen = found]) BY <2>4
    <3>2. cartReq[r].at \notin Underway /\ "save" \notin Looking BY <2>1 DEF Underway, Looking
    <3> QED BY <2>1, <3>1, <3>2, SeenOnly
  <2> QED BY <1>2, <2>2, <2>3, <2>4 DEF Cart!SlowRead
<1>3. CASE Cart!Save(r)
  <2>1. cartReq[r].at = "save" /\ UNCHANGED <<cart, pool, reserved, year, preview>> BY <1>3 DEF Cart!Save
  <2>2. CASE Cart!Refuse(r) /\ UNCHANGED line BY <2>1, <2>2, BasketRefused DEF Underway
  <2>3. CASE \E new, found : Cart!Write(r, new) /\ Cart!Be(r, [Cart!To(r, "bump") EXCEPT !.seen = found])
    BY <2>1, <2>3, WriteAndForget DEF Underway
  <2> QED BY <1>3, <2>2, <2>3 DEF Cart!Save
<1>4. CASE Cart!Insert(r)
  <2>1. cartReq[r].at = "insert" /\ UNCHANGED <<cart, pool, reserved, year, preview>> BY <1>4 DEF Cart!Insert
  <2>2. CASE Cart!Refuse(r) /\ UNCHANGED line BY <2>1, <2>2, BasketRefused DEF Underway
  <2>3. CASE Cart!Write(r, Cart!Fresh(r)) /\ Cart!Goto(r, "bump") BY <2>1, <2>3, WriteAndGoto DEF Underway
  <2> QED BY <1>4, <2>2, <2>3 DEF Cart!Insert
<1> QED BY <1>1, <1>2, <1>3, <1>4

LEMMA EraseStep ==
  ASSUME NEW does, BasketInv(does), NEW r \in CartRequests, NEW c, NEW ps, Cart!Erase(c, ps),
         Cart!Be(r, [Cart!To(r, "bump") EXCEPT !.cart = c]),
         UNCHANGED <<cart, pool, reserved, year, preview>>, cartReq[r].at \notin Underway
  PROVE  BasketInv(does)'
<1> DEFINE to == Cart!To(r, "bump")  record == [to EXCEPT !.cart = c]
<1>1. DOMAIN to = BasketFields /\ to.at = "bump" /\ \A f \in BasketFields \ {"at"} : to[f] = cartReq[r][f]
  BY BasketTo DEF BasketInv
<1> HIDE DEF to
<1>2. /\ DOMAIN record = BasketFields /\ record.op = cartReq[r].op /\ record.who = cartReq[r].who
      /\ record.node = cartReq[r].node /\ record.at = "bump" /\ record.ids = cartReq[r].ids /\ record.cart = c
  BY <1>1 DEF BasketFields
<1>3. Cart!Be(r, record) BY DEF to
<1> HIDE DEF record
<1>4. BasketGoes(r, "bump") /\ cartReq'[r] = record BY <1>2, <1>3, BasketBe DEF BasketInv
<1>5. DOMAIN line' = DOMAIN line BY DEF Cart!Erase
<1>6. ASSUME NEW d \in Carts, NEW p \in Products, d # c PROVE line'[<<d, p>>] = line[<<d, p>>]
  <2>1. <<d, p>> \in DOMAIN line BY DEF BasketInv, BasketShape
  <2>2. <<d, p>>[1] # c BY <1>6
  <2> QED BY <2>1, <2>2 DEF Cart!Erase
<1> QED BY <1>2, <1>4, <1>5, <1>6, BasketLine

LEMMA CartSteps ==
  ASSUME NEW does, BasketInv(does), NEW r \in CartRequests,
         Cart!UpdateRead(r) \/ Cart!SetLine(r) \/ Cart!Remove(r) \/ Cart!Clear(r)
  PROVE  BasketInv(does)'
<1>1. CASE Cart!UpdateRead(r)
  <2>1. cartReq[r].at \notin Underway /\ UNCHANGED <<cart, line, pool, reserved, year, preview>>
    BY <1>1 DEF Cart!UpdateRead, Cart!HasCart, Underway
  <2>2. CASE Cart!Refuse(r) BY <2>1, <2>2, BasketRefused
  <2>3. CASE \E c, found : Cart!Be(r, [Cart!To(r, "set") EXCEPT !.cart = c, !.seen = found])
    <3>1. PICK c, found : Cart!Be(r, [Cart!To(r, "set") EXCEPT !.cart = c, !.seen = found]) BY <2>3
    <3>2. "set" \notin Looking BY DEF Looking
    <3> QED BY <2>1, <3>1, <3>2, SeenOnly
  <2> QED BY <1>1, <2>2, <2>3 DEF Cart!UpdateRead
<1>2. CASE Cart!SetLine(r)
  <2>1. cartReq[r].at = "set" /\ UNCHANGED <<cart, pool, reserved, year, preview>> BY <1>2 DEF Cart!SetLine
  <2>2. CASE Cart!Refuse(r) /\ UNCHANGED line BY <2>1, <2>2, BasketRefused DEF Underway
  <2>3. CASE \E new, found : Cart!Write(r, new) /\ Cart!Be(r, [Cart!To(r, "bump") EXCEPT !.seen = found])
    BY <2>1, <2>3, WriteAndForget DEF Underway
  <2> QED BY <1>2, <2>2, <2>3 DEF Cart!SetLine
<1>3. CASE Cart!Remove(r)
  <2>1. cartReq[r].at \notin Underway /\ UNCHANGED <<cart, pool, reserved, year, preview>>
    BY <1>3 DEF Cart!Remove, Cart!HasCart, Underway
  <2>2. CASE Cart!Refuse(r) /\ UNCHANGED line BY <2>1, <2>2, BasketRefused
  <2>3. CASE \E c, ps : Cart!Erase(c, ps) /\ Cart!Be(r, [Cart!To(r, "bump") EXCEPT !.cart = c])
    BY <2>1, <2>3, EraseStep
  <2> QED BY <1>3, <2>2, <2>3 DEF Cart!Remove, Cart!Erased
<1>4. CASE Cart!Clear(r)
  <2>1. cartReq[r].at \notin Underway /\ UNCHANGED <<cart, pool, reserved, year, preview>>
    BY <1>4 DEF Cart!Clear, Cart!HasCart, Underway
  <2>2. \E c, ps : Cart!Erase(c, ps) /\ Cart!Be(r, [Cart!To(r, "bump") EXCEPT !.cart = c])
    BY <1>4 DEF Cart!Clear, Cart!Erased
  <2> QED BY <2>1, <2>2, EraseStep
<1> QED BY <1>1, <1>2, <1>3, <1>4

\* The version is counted up behind the lines.
LEMMA FinishStep ==
  ASSUME NEW does, BasketInv(does), NEW r \in CartRequests, Cart!FinishMutation(r)
  PROVE  BasketInv(does)'
<1> DEFINE c == cartReq[r].cart
<1>0. BasketShape(does) /\ IdsInv /\ PreviewsInv BY DEF BasketInv
<1>1. /\ cartReq[r].at = "bump" /\ cart' = [cart EXCEPT ![c].version = @ + 1]
      /\ Cart!Be(r, Cart!Ended(r, cartReq[r])) /\ UNCHANGED <<line, pool, reserved, year, preview>>
  BY DEF Cart!FinishMutation
<1>2. PICK at \in Elsewise : BasketGoes(r, at) /\ cartReq'[r].ids = cartReq[r].ids
  BY <1>0, <1>1, BasketEnded DEF BasketShape
<1>3. ASSUME NEW d \in Carts
      PROVE  /\ DOMAIN cart'[d] = {"who", "version", "summary"} /\ cart'[d].who = cart[d].who
             /\ cart'[d].version = IF d = c THEN cart[d].version + 1 ELSE cart[d].version
  BY <1>0, <1>1 DEF BasketShape
<1>4. BasketShape(does)' BY <1>0, <1>1, <1>2, <1>3 DEF BasketShape, BasketGoes
<1>5. IdsInv' BY <1>0, <1>1, <1>2, IdsRest DEF BasketGoes, IdsInv, PoolsShape
<1>6. Onward
  <2> SUFFICES ASSUME NEW d \in Carts, cart[d].who # "none"
               PROVE  /\ cart'[d].who # "none" /\ cart'[d].version \in Nat /\ cart[d].version <= cart'[d].version
                      /\ cart'[d].version = cart[d].version
                           => (Cart!Midway(d) => Cart!Midway(d)') /\ Cart!LinesOf(d)' = Cart!LinesOf(d)
    BY DEF Onward
  <2>1. cart[d].version \in Nat BY <1>0 DEF BasketShape
  <2>2. Cart!LinesOf(d)' = Cart!LinesOf(d) BY <1>1 DEF Cart!LinesOf, Cart!NoLine
  <2>3. d # c => (Cart!Midway(d) => Cart!Midway(d)') BY <1>2 DEF Cart!Midway, BasketGoes
  <2> QED BY <1>3, <2>1, <2>2, <2>3
<1>7. PreviewsInv' BY <1>0, <1>1, <1>2, <1>6, PreviewsRest DEF BasketGoes, Elsewise, Looking
<1> QED BY <1>4, <1>5, <1>7 DEF BasketInv

LEMMA ImportSteps ==
  ASSUME NEW does, BasketInv(does), NEW r \in CartRequests,
         \/ Cart!ImportLookup(r) \/ Cart!ImportLikes(r) \/ Cart!ImportRecord(r) \/ Cart!Like(r) \/ Cart!Unlike(r)
         \/ Cart!Crash(r)
  PROVE  BasketInv(does)'
<1>1. CASE Cart!ImportLookup(r)
  <2>1. cartReq[r].at = "start" /\ UNCHANGED <<cart, line, pool, reserved, year, preview>> BY <1>1 DEF Cart!ImportLookup
  <2>2. CASE Cart!Be(r, Cart!To(r, "done"))
    <3>1. Cart!Goto(r, "done") BY <2>2 DEF Cart!Goto
    <3> QED BY <2>1, <3>1, BasketMoved DEF Underway, Looking
  <2>3. CASE Cart!Be(r, Cart!Ended(r, cartReq[r]))
    <3>1. PICK at \in Elsewise : BasketGoes(r, at) /\ cartReq'[r].ids = cartReq[r].ids
      BY <2>3, BasketEnded DEF BasketInv, BasketShape
    <3>2. at \notin Looking BY DEF Elsewise, Looking
    <3> QED BY <2>1, <3>1, <3>2, BasketQuiet DEF Underway
  <2> QED BY <1>1, <2>2, <2>3 DEF Cart!ImportLookup
<1>2. CASE Cart!ImportLikes(r) \/ Cart!ImportRecord(r) \/ Cart!Like(r) \/ Cart!Unlike(r)
  <2>1. /\ UNCHANGED <<cart, line, pool, reserved, year, preview>> /\ cartReq[r].at \in {"likes", "record", "begin"}
        /\ Cart!Goto(r, "record") \/ Cart!Goto(r, "done")
    BY <1>2 DEF Cart!ImportLikes, Cart!ImportRecord, Cart!Like, Cart!Unlike
  <2> QED BY <2>1, BasketMoved DEF Underway, Looking
<1>3. CASE Cart!Crash(r)
  <2>1. UNCHANGED <<cart, line, pool, reserved, year, preview>> BY <1>3 DEF Cart!Crash
  <2>2. CASE cartReq[r].at = "bump"
    <3>1. Cart!Goto(r, "unbumped") BY <1>3, <2>2 DEF Cart!Crash
    <3> QED BY <2>1, <3>1, BasketMoved DEF Looking
  <2>3. CASE cartReq[r].at # "bump"
    <3>1. Cart!Goto(r, "off") /\ cartReq[r].at # "unbumped" BY <1>3, <2>3 DEF Cart!Crash
    <3> QED BY <2>1, <2>3, <3>1, BasketMoved DEF Underway, Looking
  <2> QED BY <2>2, <2>3
<1> QED BY <1>1, <1>2, <1>3

-----------------------------------------------------------------------------
(* A preview reads the cart, then the lines, and is made.                    *)
LEMMA PreviewCartStep ==
  ASSUME Carts \subseteq Nat, NEW does, BasketInv(does), CartAsked(does), NEW r \in CartRequests, Cart!PreviewCart(r)
  PROVE  BasketInv(does)'
<1>a. PICK c : c = Cart!Found(cartReq[r].who) OBVIOUS
<1>b. PICK found : found = [version |-> cart[c].version, lines |-> {}] OBVIOUS
<1>0. /\ BasketShape(does) /\ IdsInv /\ PreviewsInv /\ cartReq[r].at = "begin"
      /\ UNCHANGED <<cart, line, pool, reserved, year, preview>>
  BY DEF BasketInv, Cart!PreviewCart
<1>1. CASE Cart!Refuse(r) BY <1>0, <1>1, BasketRefused DEF Underway
<1>2. CASE c # 0 /\ Cart!Be(r, [Cart!To(r, "lines") EXCEPT !.cart = c, !.seen = found])
  <2> DEFINE to == Cart!To(r, "lines")  record == [to EXCEPT !.cart = c, !.seen = found]
  <2>1. DOMAIN to = BasketFields /\ to.at = "lines" /\ \A f \in BasketFields \ {"at"} : to[f] = cartReq[r][f]
    BY <1>0, BasketTo
  <2> HIDE DEF to
  <2>2. /\ DOMAIN record = BasketFields /\ record.op = cartReq[r].op /\ record.who = cartReq[r].who
        /\ record.node = cartReq[r].node /\ record.at = "lines" /\ record.ids = cartReq[r].ids
        /\ record.cart = c /\ record.seen = found
    BY <2>1 DEF BasketFields
  <2>3. Cart!Be(r, record) BY <1>2 DEF to
  <2> HIDE DEF record
  <2>4. BasketGoes(r, "lines") /\ cartReq'[r] = record BY <1>0, <2>2, <2>3, BasketBe
  <2>5. BasketShape(does)' BY <1>0, <2>4, ShapeStays DEF BasketShape
  <2>6. IdsInv' BY <1>0, <2>2, <2>4, IdsRest DEF BasketGoes, IdsInv, PoolsShape
  <2>7. Onward BY <1>0, <2>4, OnwardQuiet DEF Underway
  <2>8. c \in Carts /\ cart[c].who = cartReq[r].who BY <1>a, <1>2, FoundIsTheirs
  <2>9. cart[c].who # "none" BY <1>0, <2>8 DEF CartAsked, BasketShape
  <2>10. Previewing(r)' BY <1>b, <1>0, <2>2, <2>4, <2>8, <2>9 DEF Previewing, Seen, BasketShape
  <2>11. PreviewsInv' BY <1>0, <2>4, <2>7, <2>10, PreviewsRest DEF BasketGoes
  <2> QED BY <2>5, <2>6, <2>11 DEF BasketInv
<1> QED BY <1>a, <1>b, <1>1, <1>2 DEF Cart!PreviewCart

LEMMA PreviewLinesStep ==
  ASSUME NEW does, BasketInv(does), NEW r \in CartRequests, Cart!PreviewLines(r)
  PROVE  BasketInv(does)'
<1>a. PICK lines : lines = Cart!LinesOf(cartReq[r].cart) OBVIOUS
<1>0. /\ BasketShape(does) /\ IdsInv /\ PreviewsInv /\ cartReq[r].at = "lines" /\ cartReq[r].op = "preview"
      /\ UNCHANGED <<cart, line, pool, reserved, year, preview>>
  BY DEF BasketInv, Cart!PreviewLines
<1>1. CASE Cart!Refuse(r) BY <1>0, <1>1, BasketRefused DEF Underway
<1>2. CASE Cart!Be(r, [Cart!To(r, "create") EXCEPT !.seen.lines = lines])
  <2> DEFINE to == Cart!To(r, "create")  record == [to EXCEPT !.seen.lines = lines]
  <2>1. DOMAIN to = BasketFields /\ to.at = "create" /\ \A f \in BasketFields \ {"at"} : to[f] = cartReq[r][f]
    BY <1>0, BasketTo
  <2>2. /\ DOMAIN Seen(r) = {"version", "lines"} /\ cartReq[r].cart \in Carts /\ cart[cartReq[r].cart].who # "none"
        /\ Seen(r).version \in Nat /\ Seen(r).version <= cart[cartReq[r].cart].version
    BY <1>0 DEF PreviewsInv, Previewing
  <2> HIDE DEF to
  <2>3. to.seen = Seen(r) BY <2>1 DEF BasketFields, Seen
  <2>4. /\ DOMAIN record = BasketFields /\ record.op = cartReq[r].op /\ record.who = cartReq[r].who
        /\ record.node = cartReq[r].node /\ record.at = "create" /\ record.ids = cartReq[r].ids
        /\ record.cart = cartReq[r].cart /\ record.seen = [to.seen EXCEPT !.lines = lines]
    BY <2>1 DEF BasketFields
  <2>5. Cart!Be(r, record) BY <1>2 DEF to
  <2> HIDE DEF record
  <2>6. /\ DOMAIN record.seen = {"version", "lines"} /\ record.seen.version = Seen(r).version
        /\ record.seen.lines = lines
    BY <2>2, <2>3, <2>4
  <2>7. BasketGoes(r, "create") /\ cartReq'[r] = record BY <1>0, <2>4, <2>5, BasketBe
  <2>8. BasketShape(does)' BY <1>0, <2>7, ShapeStays DEF BasketShape
  <2>9. IdsInv' BY <1>0, <2>4, <2>7, IdsRest DEF BasketGoes, IdsInv, PoolsShape
  <2>10. Onward BY <1>0, <2>7, OnwardQuiet DEF Underway
  <2>11. Current(cartReq[r].cart, Seen(r).version, lines) BY <1>a, <2>2 DEF Current
  <2>12. \A c, version, set : Current(c, version, set) => Current(c, version, set)' BY <1>0, <2>10, CurrentStays
  <2>13. PICK c, version : c = cartReq[r].cart /\ version = Seen(r).version OBVIOUS
  <2>14. Current(c, version, lines)' BY <2>11, <2>12, <2>13
  <2>15. /\ c \in Carts /\ cart'[c].who # "none" /\ version \in Nat /\ version <= cart'[c].version
    BY <2>14 DEF Current
  <2>16. cartReq'[r].cart = c /\ Seen(r)' = record.seen /\ Seen(r)'.version = version /\ Seen(r)'.lines = lines
    BY <2>4, <2>6, <2>7, <2>13 DEF Seen
  <2>17. Current(cartReq[r].cart, Seen(r).version, Seen(r).lines)' BY <2>14, <2>16 DEF Current
  <2>18. Previewing(r)' BY <2>6, <2>15, <2>16, <2>17 DEF Previewing
  <2>19. PreviewsInv' BY <1>0, <2>7, <2>10, <2>18, PreviewsRest DEF BasketGoes
  <2> QED BY <2>8, <2>9, <2>19 DEF BasketInv
<1> QED BY <1>a, <1>1, <1>2 DEF Cart!PreviewLines

LEMMA PreviewCreateStep ==
  ASSUME NEW does, BasketInv(does), NEW r \in CartRequests, Cart!PreviewCreate(r)
  PROVE  BasketInv(does)'
<1>a. PICK c, version, lines : c = cartReq[r].cart /\ version = Seen(r).version /\ lines = Seen(r).lines OBVIOUS
<1>0. /\ BasketShape(does) /\ IdsInv /\ PreviewsInv /\ cartReq[r].at = "create" /\ cartReq[r].op = "preview"
      /\ UNCHANGED <<cart, line, pool, reserved, year>>
      /\ preview' = [preview EXCEPT ![r] = [cart |-> c, version |-> version, lines |-> lines]]
      /\ Cart!Be(r, [Cart!To(r, "done") EXCEPT !.seen = Cart!NoLine])
  BY <1>a DEF BasketInv, Cart!PreviewCreate, Cart!VersionRead, Seen
<1> DEFINE to == Cart!To(r, "done")  record == [to EXCEPT !.seen = Cart!NoLine]
<1>1. DOMAIN to = BasketFields /\ to.at = "done" /\ \A f \in BasketFields \ {"at"} : to[f] = cartReq[r][f]
  BY <1>0, BasketTo
<1> HIDE DEF to
<1>2. /\ DOMAIN record = BasketFields /\ record.op = cartReq[r].op /\ record.who = cartReq[r].who
      /\ record.node = cartReq[r].node /\ record.at = "done" /\ record.ids = cartReq[r].ids
  BY <1>1 DEF BasketFields
<1>3. Cart!Be(r, record) BY <1>0 DEF to
<1> HIDE DEF record
<1>4. BasketGoes(r, "done") /\ cartReq'[r].ids = cartReq[r].ids BY <1>0, <1>2, <1>3, BasketBe
<1>5. BasketShape(does)' BY <1>0, <1>4, ShapeStays DEF BasketShape
<1>6. IdsInv' BY <1>0, <1>4, IdsRest DEF BasketGoes, IdsInv, PoolsShape
<1>7. Onward BY <1>0, <1>4, OnwardQuiet DEF Underway
<1>8. Current(c, version, lines) BY <1>a, <1>0 DEF PreviewsInv, Previewing
<1>9. Current(c, version, lines)' BY <1>0, <1>7, <1>8, CurrentStays
<1>10. preview'[r].cart = c /\ preview'[r].version = version /\ preview'[r].lines = lines BY <1>0 DEF BasketShape
<1>11. Previewed(r)' BY <1>9, <1>10 DEF Previewed, Current
<1>12. \A q \in CartRequests \ {r} : preview'[q] = preview[q] BY <1>0 DEF BasketShape
<1>13. PreviewsInv' BY <1>0, <1>4, <1>7, <1>11, <1>12, PreviewsRest DEF BasketGoes, Looking
<1> QED BY <1>5, <1>6, <1>13 DEF BasketInv

-----------------------------------------------------------------------------
(* What happens beside the requests, and the theorem.                        *)
LEMMA BasketAside ==
  ASSUME NEW does, BasketInv(does), IdsInv', UNCHANGED <<cartReq, line, preview>>,
         DOMAIN cart' = DOMAIN cart,
         \A c \in Carts : DOMAIN cart'[c] = DOMAIN cart[c] /\ cart'[c].who = cart[c].who
                          /\ cart'[c].version = cart[c].version
  PROVE  BasketInv(does)'
<1>0. BasketShape(does) /\ PreviewsInv BY DEF BasketInv
<1>1. BasketShape(does)' BY <1>0 DEF BasketShape
<1>2. Onward
  <2> SUFFICES ASSUME NEW c \in Carts PROVE Cart!Midway(c)' = Cart!Midway(c) /\ Cart!LinesOf(c)' = Cart!LinesOf(c)
    BY <1>0 DEF Onward, BasketShape
  <2> QED BY DEF Cart!Midway, Cart!LinesOf, Cart!NoLine
<1>3. PreviewsInv' BY <1>0, <1>2, PreviewsRest
<1> QED BY <1>1, <1>3 DEF BasketInv

LEMMA BasketAsides ==
  ASSUME Batch \in Nat, NEW does, BasketInv(does),
         \/ \E a \in CartNodes : Cart!Refill(a)
         \/ \E s \in summing : Cart!SumRead(s) \/ Cart!SumWrite(s)
         \/ (\E p \in Products : Cart!ProductMoves(p)) \/ Cart!QuoteEnds \/ Cart!PartnerStops \/ Cart!YearTurns
         \/ UNCHANGED basketVars
  PROVE  BasketInv(does)'
<1>0. IdsInv /\ BasketShape(does) /\ year \in {1, 2} BY DEF BasketInv, IdsInv, PoolsShape
<1>1. CASE \E a \in CartNodes : Cart!Refill(a)
  <2>1. IdsInv' BY <1>0, <1>1, Refilled
  <2>2. UNCHANGED <<cartReq, line, preview, cart>> BY <1>1 DEF Cart!Refill, Cart!Reserve
  <2> QED BY <2>1, <2>2, BasketAside
<1>2. CASE \E s \in summing : Cart!SumWrite(s)
  <2>1. PICK s \in summing : Cart!SumWrite(s) BY <1>2
  <2>2. /\ UNCHANGED <<cartReq, line, preview, pool, reserved, year>>
        /\ cart' = [cart EXCEPT ![s.cart].summary = s.sum]
    BY <2>1 DEF Cart!SumWrite
  <2>3. DOMAIN cart' = DOMAIN cart /\ \A c \in Carts : DOMAIN cart'[c] = DOMAIN cart[c] /\ cart'[c].who = cart[c].who
                                                    /\ cart'[c].version = cart[c].version
    BY <1>0, <2>2 DEF BasketShape
  <2>4. IdsInv' BY <1>0, <2>2, IdsRest
  <2> QED BY <2>2, <2>3, <2>4, BasketAside
<1>3. CASE \/ \E s \in summing : Cart!SumRead(s)
           \/ (\E p \in Products : Cart!ProductMoves(p)) \/ Cart!QuoteEnds \/ Cart!PartnerStops \/ Cart!YearTurns
           \/ UNCHANGED basketVars
  <2>1. UNCHANGED <<cartReq, line, preview, cart, pool, reserved>> /\ year' \in {1, 2}
    BY <1>0, <1>3 DEF Cart!SumRead, Cart!ProductMoves, Cart!QuoteEnds, Cart!PartnerStops, Cart!YearTurns, basketVars
  <2>2. IdsInv' BY <1>0, <2>1, IdsRest
  <2> QED BY <2>1, <2>2, BasketAside
<1> QED BY <1>1, <1>2, <1>3

\* The baskets of one customer, for any number of requests, processes of the
\* API, carts and products, over refills, crashes and the turn of the year:
\* no identifier is given to two lines, and a preview that can still be
\* confirmed is of the lines the cart has.  Nobody sets the counter back.
THEOREM BasketCartHolds ==
  ASSUME NEW does, NEW inOrder, CartAsked(does), Carts \subseteq Nat, Batch \in Nat
  PROVE  Cart!Init(does, inOrder) /\ [][Cart!Next]_basketVars => []CartHolds
<1>1. Cart!Init(does, inOrder) => BasketInv(does)
  <2> SUFFICES ASSUME Cart!Init(does, inOrder) PROVE BasketInv(does)
    OBVIOUS
  <2>1. ASSUME NEW r \in CartRequests
        PROVE  /\ DOMAIN cartReq[r] = BasketFields /\ cartReq[r] = does[r]
               /\ cartReq[r].ids = {} /\ cartReq[r].at \in {"start", "begin"}
    <3>1. cartReq[r] = does[r] BY DEF Cart!Init
    <3>2. CASE \E op, who, on, n, node : does[r] = Cart!Ask(op, who, on, n, node)
      <4>1. PICK op, who, on, n, node : does[r] = Cart!Ask(op, who, on, n, node) BY <3>2
      <4> QED BY <3>1, <4>1 DEF Cart!Ask, BasketFields
    <3>3. CASE \E products, n, node : does[r] = Cart!Import(products, n, node)
      <4>1. PICK products, n, node : does[r] = Cart!Import(products, n, node) BY <3>3
      <4> DEFINE ask == Cart!Ask("import", "self", 0, n, node)
      <4>2. DOMAIN ask = BasketFields /\ ask.ids = {} BY DEF Cart!Ask, BasketFields
      <4>3. does[r] = [ask EXCEPT !.at = "start", !.left = products] BY <4>1 DEF Cart!Import
      <4> HIDE DEF ask
      <4> QED BY <3>1, <4>2, <4>3 DEF BasketFields
    <3> QED BY <3>2, <3>3 DEF CartAsked
  <2>2. BasketShape(does)
    <3>1. DOMAIN cartReq = CartRequests BY DEF Cart!Init, CartAsked
    <3> QED BY <2>1, <3>1 DEF Cart!Init, BasketShape
  <2>3. PoolsShape
    <3>1. <<>> \in Seq(Ids) OBVIOUS
    <3>2. /\ year = 1 /\ reserved = [y \in {1, 2} |-> 0]
          /\ pool = [a \in CartNodes |-> [ids |-> <<>>, year |-> 0, filling |-> 0]]
      BY DEF Cart!Init
    <3> QED BY <3>1, <3>2 DEF PoolsShape
  <2>4. \A a \in CartNodes : pool[a].ids = <<>> /\ By(a) = {} BY DEF Cart!Init, By
  <2>5. IdsApart BY <2>1, <2>4 DEF IdsApart, EachOnce
  <2>6. Cart!GivenOnce BY <2>1 DEF Cart!GivenOnce
  <2>7. PreviewsInv BY <2>1 DEF PreviewsInv, Previewing, Previewed, Cart!Init
  <2> QED BY <2>2, <2>3, <2>5, <2>6, <2>7 DEF BasketInv, IdsInv
<1>2. BasketInv(does) /\ [Cart!Next]_basketVars => BasketInv(does)'
  <2> SUFFICES ASSUME BasketInv(does), [Cart!Next]_basketVars PROVE BasketInv(does)'
    OBVIOUS
  <2>1. CASE UNCHANGED basketVars BY <2>1, BasketAsides
  <2>2. CASE Cart!Next
    <3>1. ASSUME NEW r \in CartRequests, Cart!Step(r) PROVE BasketInv(does)'
      <4>1. CASE Cart!Repair(r) BY <4>1 DEF Cart!Repair, BasketInv, BasketShape, CartAsked
      <4> QED BY <3>1, <4>1, PartnerStep, CreateCartStep, AddBeginStep, IdSteps, AddSteps, CartSteps, FinishStep,
                 ImportSteps, PreviewCartStep, PreviewLinesStep, PreviewCreateStep DEF Cart!Step
    <3> QED BY <2>2, <3>1, BasketAsides DEF Cart!Next
  <2> QED BY <2>1, <2>2
<1>3. BasketInv(does) => CartHolds
  <2> SUFFICES ASSUME BasketInv(does) PROVE CartHolds
    OBVIOUS
  <2>1. Cart!GivenOnce BY DEF BasketInv, IdsInv
  <2>2. Cart!ConfirmableIsCurrent BY DEF BasketInv, PreviewsInv, Previewed, Current, Cart!ConfirmableIsCurrent
  <2> QED BY <2>1, <2>2 DEF CartHolds
<1> QED BY <1>1, <1>2, <1>3, PTL
-----------------------------------------------------------------------------
(* SignUp: the requests that grant, and the keys they grant under.           *)
GrantSteps == {"tidy", "grant", "waitlist", "save", "welcome", "bonus"}
VisitFields == {"op", "on", "ref", "at", "seen", "user"}
UserFields == {"via", "active", "verified", "status", "opened"}

\* A request is of these fields and begins at its start, before it read a user.
ComesIn(does) ==
  \A r \in Visits : DOMAIN does[r] = VisitFields /\ does[r].at = "start" /\ does[r].user = Doors!NoUser

SignShape(does) ==
  /\ DOMAIN visit = Visits /\ mishaps \in Nat
  /\ \A r \in Visits : /\ DOMAIN visit[r] = VisitFields /\ visit[r].op = does[r].op
                       /\ visit[r].at \in GrantSteps => visit[r].op \in Doors!Granting
                       /\ DOMAIN visit[r].user = UserFields
  /\ DOMAIN account = UserFields

\* Each kind of grant has its key, and a key is used once.
KeyFits(key, type) ==
  /\ type = "waitlist_bonus" => key = "waitlist"
  /\ type = "referral_bonus" => key = "referral"
  /\ type = "welcome_bonus" => key \in {"welcome", "welcome-topup"}
  /\ key \in {"welcome", "welcome-topup"} => type = "welcome_bonus"
KeysAreUsedOnce ==
  /\ \A e \in ledger : KeyFits(e.key, e.type)
  /\ \A e, f \in ledger : e.key = f.key => e = f

\* As long as nothing went wrong, an account that a granting door opened was
\* welcomed, or a request that opened it is on its way to welcome it.
OnTheWay(r) == visit[r].at \in GrantSteps \/ (visit[r].op = "otp" /\ visit[r].at = "mark")
Welcomed == Doors!Has("welcome_bonus")
OpenUndisturbed == mishaps = 0 /\ account.opened \cap Doors!Granting # {}
WelcomeComes == OpenUndisturbed => Welcomed \/ \E r \in Visits : OnTheWay(r)

SignInv(does) == SignShape(does) /\ KeysAreUsedOnce /\ WelcomeComes

-----------------------------------------------------------------------------
VisitGoes(r, at) ==
  /\ DOMAIN visit' = Visits /\ DOMAIN visit'[r] = VisitFields /\ visit'[r].op = visit[r].op /\ visit'[r].at = at
  /\ DOMAIN visit'[r].user = UserFields
  /\ \A q \in Visits \ {r} : visit'[q] = visit[q]

LEMMA VisitGoto ==
  ASSUME NEW does, SignShape(does), NEW r \in Visits, NEW at, Doors!Goto(r, at)
  PROVE  VisitGoes(r, at)
<1>1. visit' = [visit EXCEPT ![r] = [visit[r] EXCEPT !.at = at]] BY DEF Doors!Goto
<1> QED BY <1>1 DEF SignShape, VisitGoes, VisitFields

LEMMA VisitWith ==
  ASSUME NEW does, SignShape(does), NEW r \in Visits, NEW at, NEW x,
         \/ visit' = [visit EXCEPT ![r] = [@ EXCEPT !.at = at, !.on = x]]
         \/ visit' = [visit EXCEPT ![r] = [@ EXCEPT !.seen = x, !.at = at]]
         \/ visit' = [visit EXCEPT ![r] = [@ EXCEPT !.at = at, !.seen = x]]
         \/ Doors!WithUser(r, at)
  PROVE  VisitGoes(r, at)
  BY DEF SignShape, VisitGoes, VisitFields, Doors!WithUser

LEMMA SignStep ==
  ASSUME NEW does, SignInv(does), NEW r \in Visits, NEW at, VisitGoes(r, at),
         at \in GrantSteps => visit[r].op \in Doors!Granting,
         mishaps' \in Nat, DOMAIN account' = DOMAIN account, KeysAreUsedOnce', ledger \subseteq ledger',
         OpenUndisturbed' => \/ OnTheWay(r)' \/ Welcomed'
                             \/ OpenUndisturbed /\ ~OnTheWay(r)
  PROVE  SignInv(does)'
<1>1. SignShape(does)' BY DEF SignInv, SignShape, VisitGoes
<1>2. Welcomed => Welcomed' BY DEF Welcomed, Doors!Has
<1>3. \A q \in Visits \ {r} : OnTheWay(q) => OnTheWay(q)' BY DEF OnTheWay, VisitGoes
<1>4. WelcomeComes' BY <1>2, <1>3 DEF SignInv, WelcomeComes
<1> QED BY <1>1, <1>4 DEF SignInv

\* Nothing is granted, no account changes.
LEMMA SignQuiet ==
  ASSUME NEW does, SignInv(does), NEW r \in Visits, NEW at, VisitGoes(r, at), UNCHANGED <<account, ledger, mishaps>>,
         at \in GrantSteps => visit[r].op \in Doors!Granting,
         OnTheWay(r) => at \in GrantSteps \/ Welcomed
  PROVE  SignInv(does)'
<1>1. KeysAreUsedOnce' BY DEF SignInv, KeysAreUsedOnce
<1>2. OpenUndisturbed' = OpenUndisturbed /\ Welcomed' = Welcomed BY DEF OpenUndisturbed, Welcomed, Doors!Has
<1>3. at \in GrantSteps => OnTheWay(r)' BY DEF OnTheWay, VisitGoes
<1>4. mishaps' \in Nat /\ DOMAIN account' = DOMAIN account /\ ledger \subseteq ledger' BY DEF SignInv, SignShape
<1> QED BY <1>1, <1>2, <1>3, <1>4, SignStep

LEMMA KeyRecorded ==
  ASSUME KeysAreUsedOnce, NEW key, NEW type, NEW amount, KeyFits(key, type),
         ledger' = Doors!Recorded(key, type, amount)
  PROVE  KeysAreUsedOnce' /\ ledger \subseteq ledger' /\ \E e \in ledger' : e.key = key
<1>1. CASE \E e \in ledger : e.key = key BY <1>1 DEF Doors!Recorded, KeysAreUsedOnce
<1>2. CASE ~\E e \in ledger : e.key = key
  <2> DEFINE new == [key |-> key, type |-> type, amount |-> amount]
  <2>1. ledger' = ledger \cup {new} BY <1>2 DEF Doors!Recorded
  <2>2. new.key = key /\ new.type = type OBVIOUS
  <2> HIDE DEF new
  <2> QED BY <1>2, <2>1, <2>2 DEF KeysAreUsedOnce
<1> QED BY <1>1, <1>2

-----------------------------------------------------------------------------
USE DEF Doors!Now, Doors!Done, Doors!door, Doors!credit

\* What neither grants nor opens an account.
LEMMA DoorSteps ==
  ASSUME NEW does, SignInv(does), NEW r \in Visits,
         \/ Doors!ReadSignup(r) \/ Doors!DropPrevious(r) \/ Doors!OpenSession(r) \/ Doors!BurnCodes(r)
         \/ Doors!SendCode(r) \/ Doors!Resend(r) \/ Doors!RequestReset(r) \/ Doors!FindCode(r) \/ Doors!VerifySession(r)
         \/ Doors!ReadComplete(r) \/ Doors!ReadProvider(r) \/ Doors!ReadRegister(r)
  PROVE  SignInv(does)'
<1>0. SignShape(does) BY DEF SignInv
<1>1. UNCHANGED <<account, ledger, mishaps>> /\ ~OnTheWay(r)
  BY DEF Doors!ReadSignup, Doors!DropPrevious, Doors!OpenSession, Doors!BurnCodes, Doors!SendCode, Doors!Resend,
         Doors!RequestReset, Doors!FindCode, Doors!VerifySession, Doors!ReadComplete, Doors!ReadProvider, Doors!ReadRegister,
         OnTheWay, GrantSteps
<1>2. \E at : at \notin GrantSteps /\ VisitGoes(r, at)
  <2>1. CASE Doors!ReadSignup(r)
    <3>1. \/ Doors!Goto(r, "done")
          \/ \E x : visit' = [visit EXCEPT ![r] = [@ EXCEPT !.at = "drop", !.on = x]]
      BY <2>1 DEF Doors!ReadSignup
    <3>2. VisitGoes(r, "done") \/ VisitGoes(r, "drop") BY <1>0, <3>1, VisitGoto, VisitWith
    <3> QED BY <3>2 DEF GrantSteps
  <2>2. CASE Doors!FindCode(r) \/ Doors!ReadProvider(r)
    <3>1. \E at \in {"both", "done", "insert", "link"} : Doors!WithUser(r, at)
      BY <2>2 DEF Doors!FindCode, Doors!ReadProvider
    <3> QED BY <1>0, <3>1, VisitWith DEF GrantSteps
  <2>3. CASE ~(Doors!ReadSignup(r) \/ Doors!FindCode(r) \/ Doors!ReadProvider(r))
    <3>1. \E at \in {"open", "burn", "code", "done", "mark", "insert"} : Doors!Goto(r, at)
      BY <2>3 DEF Doors!DropPrevious, Doors!OpenSession, Doors!BurnCodes, Doors!SendCode, Doors!Resend,
         Doors!RequestReset, Doors!FindCode, Doors!VerifySession, Doors!ReadComplete, Doors!ReadProvider, Doors!ReadRegister
    <3> QED BY <1>0, <3>1, VisitGoto DEF GrantSteps
  <2> QED BY <2>1, <2>2, <2>3
<1> QED BY <1>1, <1>2, SignQuiet

LEMMA WaitlistSteps ==
  ASSUME NEW does, SignInv(does), NEW r \in Visits,
         \/ Doors!ReadReferral(r) \/ Doors!CreateReferral(r) \/ Doors!ReadCode(r) \/ Doors!SetCode(r)
         \/ Doors!PayOrder(r) \/ Doors!Redeliver(r) \/ Doors!ReadPending(r) \/ Doors!ClaimReferral(r)
         \/ Doors!ReadJoin(r) \/ Doors!CreateEntry(r) \/ Doors!Unsubscribe(r) \/ Doors!Remove(r)
         \/ Doors!ReadTargets(r) \/ Doors!Mail(r) \/ Doors!ReadGift(r) \/ Doors!KeepGift(r) \/ Doors!SaveGiven(r)
         \/ Doors!ReadBalance(r)
  PROVE  SignInv(does)'
<1>0. SignShape(does) BY DEF SignInv
<1>1. /\ UNCHANGED <<account, ledger, mishaps>> /\ ~OnTheWay(r)
      /\ \E at \in {"referral", "done", "mint", "effects", "claim", "reward", "join", "mail", "give", "keep", "top"} :
           Doors!Goto(r, at)
  <2>1. CASE Doors!ReadReferral(r) \/ Doors!CreateReferral(r) \/ Doors!ReadCode(r) \/ Doors!SetCode(r)
             \/ Doors!PayOrder(r) \/ Doors!Redeliver(r) \/ Doors!ReadPending(r) \/ Doors!ClaimReferral(r)
    BY <2>1 DEF Doors!ReadReferral, Doors!CreateReferral, Doors!ReadCode, Doors!SetCode, Doors!PayOrder,
       Doors!Redeliver, Doors!ReadPending, Doors!ClaimReferral, OnTheWay, GrantSteps
  <2>2. CASE Doors!ReadJoin(r) \/ Doors!CreateEntry(r) \/ Doors!Unsubscribe(r) \/ Doors!Remove(r)
         \/ Doors!ReadTargets(r) \/ Doors!Mail(r) \/ Doors!ReadGift(r) \/ Doors!KeepGift(r) \/ Doors!SaveGiven(r)
         \/ Doors!ReadBalance(r)
    BY <2>2 DEF Doors!ReadBalance, Doors!ReadJoin, Doors!CreateEntry, Doors!Unsubscribe, Doors!Remove, Doors!ReadTargets,
       Doors!Mail, Doors!ReadGift, Doors!KeepGift, Doors!SaveGiven, OnTheWay, GrantSteps
  <2> QED BY <2>1, <2>2
<1> QED BY <1>0, <1>1, VisitGoto, SignQuiet DEF GrantSteps

\* On the way to the welcome.
LEMMA WaySteps ==
  ASSUME NEW does, SignInv(does), NEW r \in Visits,
         \/ Doors!MarkUsed(r) \/ Doors!DeleteSession(r) \/ Doors!ReadEntry(r) \/ Doors!SaveEntry(r)
         \/ Doors!ReadWelcome(r)
  PROVE  SignInv(does)'
<1>0. SignShape(does) /\ (visit[r].at \in GrantSteps => visit[r].op \in Doors!Granting) BY DEF SignInv, SignShape
<1>1. CASE Doors!MarkUsed(r)
  <2>1. PICK at : at = IF visit[r].at = "both" THEN "prove" ELSE Doors!Proven(r) OBVIOUS
  <2>2. UNCHANGED <<account, ledger, mishaps>> /\ Doors!Goto(r, at) /\ visit[r].at \in {"both", "mark"}
    BY <1>1, <2>1 DEF Doors!MarkUsed
  <2>3. at \in GrantSteps => visit[r].op \in Doors!Granting BY <2>1, <2>2 DEF Doors!Proven, GrantSteps, Doors!Granting
  <2>4. OnTheWay(r) => at \in GrantSteps BY <2>1, <2>2 DEF OnTheWay, Doors!Proven, GrantSteps
  <2> QED BY <1>0, <2>2, <2>3, <2>4, VisitGoto, SignQuiet
<1>2. CASE Doors!DeleteSession(r) \/ Doors!SaveEntry(r)
  <2>1. /\ UNCHANGED <<account, ledger, mishaps>> /\ visit[r].at \in GrantSteps
        /\ \E at \in {"grant", "welcome"} : Doors!Goto(r, at)
    BY <1>2 DEF Doors!DeleteSession, Doors!SaveEntry, GrantSteps
  <2>2. \A at \in {"grant", "welcome"} : at \in GrantSteps BY DEF GrantSteps
  <2> QED BY <1>0, <2>1, <2>2, VisitGoto, SignQuiet
<1>3. CASE Doors!ReadEntry(r)
  <2>1. /\ UNCHANGED <<account, ledger, mishaps>> /\ visit[r].at \in GrantSteps
        /\ \E at \in {"welcome", "waitlist", "save"} :
             visit' = [visit EXCEPT ![r] = [@ EXCEPT !.seen = entry, !.at = at]]
    BY <1>3 DEF Doors!ReadEntry, GrantSteps
  <2>2. PICK at \in {"welcome", "waitlist", "save"} :
             visit' = [visit EXCEPT ![r] = [@ EXCEPT !.seen = entry, !.at = at]] BY <2>1
  <2>3. at \in GrantSteps BY DEF GrantSteps
  <2>4. VisitGoes(r, at) BY <1>0, <2>2, VisitWith
  <2> QED BY <1>0, <2>1, <2>3, <2>4, SignQuiet
<1>4. CASE Doors!ReadWelcome(r)
  <2>1. /\ UNCHANGED <<account, ledger, mishaps>> /\ visit[r].at \in GrantSteps
        /\ (Welcomed /\ Doors!Goto(r, "refer")) \/ Doors!Goto(r, "bonus")
    BY <1>4 DEF Doors!ReadWelcome, GrantSteps, Welcomed
  <2>2. "bonus" \in GrantSteps /\ "refer" \notin GrantSteps BY DEF GrantSteps
  <2> QED BY <1>0, <2>1, <2>2, VisitGoto, SignQuiet
<1> QED BY <1>1, <1>2, <1>3, <1>4

-----------------------------------------------------------------------------
LEMMA GrantGoes ==
  ASSUME NEW does, SignInv(does), NEW r \in Visits, NEW at, VisitGoes(r, at), UNCHANGED <<account, mishaps>>,
         at \in GrantSteps => visit[r].op \in Doors!Granting,
         KeysAreUsedOnce', ledger \subseteq ledger', OnTheWay(r) => at \in GrantSteps \/ Welcomed'
  PROVE  SignInv(does)'
<1>1. OpenUndisturbed' = OpenUndisturbed BY DEF OpenUndisturbed
<1>2. at \in GrantSteps => OnTheWay(r)' BY DEF OnTheWay, VisitGoes
<1>3. mishaps' \in Nat /\ DOMAIN account' = DOMAIN account BY DEF SignInv, SignShape
<1> QED BY <1>1, <1>2, <1>3, SignStep

LEMMA WelcomeIsRecorded ==
  ASSUME NEW does, SignInv(does), NEW r \in Visits, Doors!RecordWelcome(r) \/ Doors!RecordWaitlist(r)
  PROVE  SignInv(does)'
<1>0. SignShape(does) /\ KeysAreUsedOnce /\ (visit[r].at \in GrantSteps => visit[r].op \in Doors!Granting)
  BY DEF SignInv, SignShape
<1>1. CASE Doors!RecordWelcome(r)
  <2>1. /\ ledger' = Doors!Recorded("welcome", "welcome_bonus", 1) /\ Doors!Goto(r, "refer")
        /\ UNCHANGED <<account, mishaps>> /\ visit[r].at \in GrantSteps
    BY <1>1 DEF Doors!RecordWelcome, GrantSteps
  <2>3. KeyFits("welcome", "welcome_bonus") BY DEF KeyFits
  <2>4. KeysAreUsedOnce' /\ ledger \subseteq ledger' /\ \E e \in ledger' : e.key = "welcome"
    BY <1>0, <2>1, <2>3, KeyRecorded
  <2>5. Welcomed' BY <2>4 DEF KeysAreUsedOnce, KeyFits, Welcomed, Doors!Has
  <2>6. "refer" \notin GrantSteps BY DEF GrantSteps
  <2> QED BY <1>0, <2>1, <2>4, <2>5, <2>6, VisitGoto, GrantGoes
<1>2. CASE Doors!RecordWaitlist(r)
  <2>1. PICK x, amount : /\ visit' = [visit EXCEPT ![r] = [@ EXCEPT !.at = "save", !.seen = x]]
                         /\ ledger' = Doors!Recorded("waitlist", "waitlist_bonus", amount)
    BY <1>2 DEF Doors!RecordWaitlist
  <2>2. UNCHANGED <<account, mishaps>> /\ visit[r].at \in GrantSteps BY <1>2 DEF Doors!RecordWaitlist, GrantSteps
  <2>3. KeyFits("waitlist", "waitlist_bonus") BY DEF KeyFits
  <2>4. KeysAreUsedOnce' /\ ledger \subseteq ledger' BY <1>0, <2>1, <2>3, KeyRecorded
  <2>5. VisitGoes(r, "save") /\ "save" \in GrantSteps BY <1>0, <2>1, VisitWith DEF GrantSteps
  <2> QED BY <1>0, <2>2, <2>4, <2>5, GrantGoes
<1> QED BY <1>1, <1>2

LEMMA CreditSteps ==
  ASSUME NEW does, SignInv(does), NEW r \in Visits,
         Doors!RecordReward(r) \/ Doors!TopUp(r) \/ Doors!Give(r) \/ Doors!GiftCredit(r)
  PROVE  SignInv(does)'
<1>0. SignShape(does) /\ KeysAreUsedOnce BY DEF SignInv
<1>1. /\ UNCHANGED <<account, mishaps>> /\ ~OnTheWay(r)
      /\ Doors!Goto(r, "done") \/ Doors!Goto(r, "given")
  BY DEF Doors!RecordReward, Doors!TopUp, Doors!Give, Doors!GiveUnder, Doors!GiftCredit, OnTheWay, GrantSteps
<1>2. KeysAreUsedOnce' /\ ledger \subseteq ledger'
  <2>1. CASE Doors!RecordReward(r)
    <3>1. ledger' = Doors!Recorded("referral", "referral_bonus", 1) /\ KeyFits("referral", "referral_bonus")
      BY <2>1 DEF Doors!RecordReward, KeyFits
    <3> QED BY <1>0, <3>1, KeyRecorded
  <2>2. CASE Doors!TopUp(r)
    <3>1. KeyFits("welcome-topup", "welcome_bonus") BY DEF KeyFits
    <3>2. ledger' = Doors!Recorded("welcome-topup", "welcome_bonus", 1) BY <2>2 DEF Doors!TopUp
    <3> QED BY <1>0, <3>1, <3>2, KeyRecorded
  <2>3. CASE Doors!Give(r)
    <3>1. PICK amount : ledger' = Doors!Recorded("waitlist", "waitlist_bonus", amount)
      BY <2>3 DEF Doors!Give, Doors!GiveUnder
    <3>2. KeyFits("waitlist", "waitlist_bonus") BY DEF KeyFits
    <3> QED BY <1>0, <3>1, <3>2, KeyRecorded
  <2>4. CASE Doors!GiftCredit(r)
    <3>1. PICK amount : ledger' = Doors!Recorded("admin", "admin_adjustment", amount) BY <2>4 DEF Doors!GiftCredit
    <3>2. KeyFits("admin", "admin_adjustment") BY DEF KeyFits
    <3> QED BY <1>0, <3>1, <3>2, KeyRecorded
  <2> QED BY <2>1, <2>2, <2>3, <2>4
<1>3. "done" \notin GrantSteps /\ "given" \notin GrantSteps BY DEF GrantSteps
<1> QED BY <1>0, <1>1, <1>2, <1>3, VisitGoto, GrantGoes

-----------------------------------------------------------------------------
(* Accounts are made, opened and linked.                                     *)
LEMMA InsertStep ==
  ASSUME NEW does, SignInv(does), NEW r \in Visits, NEW ops, NEW active, NEW verified, NEW status,
         Doors!Insert(r, ops, active, verified, status),
         active => ops \subseteq {"complete", "google", "apple", "partner", "create"}
  PROVE  SignInv(does)'
<1>0. SignShape(does) /\ KeysAreUsedOnce BY DEF SignInv
<1>1. /\ ledger' = ledger /\ mishaps' = mishaps /\ visit[r].op \in ops /\ visit[r].at = "insert" /\ ~OnTheWay(r)
  BY DEF Doors!Insert, OnTheWay, GrantSteps
<1>2. KeysAreUsedOnce' BY <1>0, <1>1 DEF KeysAreUsedOnce
<1>3. CASE account.via # "none"
  <2>1. account' = account /\ Doors!Goto(r, "done") BY <1>3 DEF Doors!Insert
  <2>2. "done" \notin GrantSteps BY DEF GrantSteps
  <2> QED BY <1>0, <1>1, <2>1, <2>2, VisitGoto, SignQuiet
<1>4. CASE account.via = "none"
  <2>1. PICK at : at = Doors!After(visit[r].op) OBVIOUS
  <2>2. /\ account' = [via |-> visit[r].op, active |-> active, verified |-> verified, status |-> status,
                       opened |-> IF active THEN {visit[r].op} ELSE {}]
        /\ Doors!Goto(r, at)
    BY <1>4, <2>1 DEF Doors!Insert
  <2>3. at \in GrantSteps => visit[r].op \in Doors!Granting
    BY <2>1 DEF Doors!After, Doors!AfterBut, GrantSteps, Doors!Granting
  <2>4. visit[r].op \in {"complete", "google", "apple"} => at \in GrantSteps
    BY <2>1 DEF Doors!After, Doors!AfterBut, GrantSteps
  <2>5. VisitGoes(r, at) BY <1>0, <2>2, VisitGoto
  <2>6. OpenUndisturbed' => OnTheWay(r)'
    <3>1. OpenUndisturbed' => visit[r].op \in {"complete", "google", "apple"}
      BY <1>1, <2>2 DEF OpenUndisturbed, Doors!Granting
    <3> QED BY <2>4, <2>5, <3>1 DEF OnTheWay, VisitGoes
  <2>7. DOMAIN account' = DOMAIN account BY <1>0, <2>2 DEF SignShape, UserFields
  <2> QED BY <1>0, <1>1, <1>2, <2>3, <2>5, <2>6, <2>7, SignStep DEF SignShape
<1> QED BY <1>3, <1>4

LEMMA AccountSteps ==
  ASSUME NEW does, SignInv(does), NEW r \in Visits,
         \/ Doors!LinkProvider(r) \/ Doors!InsertAccount(r) \/ Doors!InsertProvider(r) \/ Doors!Register(r)
         \/ Doors!CreateCustomer(r) \/ Doors!CreateUser(r) \/ Doors!ActivateAccount(r) \/ Doors!ResetPassword(r)
  PROVE  SignInv(does)'
<1>0. SignShape(does) /\ KeysAreUsedOnce BY DEF SignInv
<1>1. CASE Doors!LinkProvider(r)
  <2>1. /\ account' = [visit[r].user EXCEPT !.verified = TRUE, !.opened = account.opened] /\ ledger' = ledger /\ mishaps' = mishaps
        /\ Doors!Goto(r, "done") /\ ~OnTheWay(r)
    BY <1>1 DEF Doors!LinkProvider, OnTheWay, GrantSteps
  <2>2. KeysAreUsedOnce' BY <1>0, <2>1 DEF KeysAreUsedOnce
  <2>3. OpenUndisturbed' = OpenUndisturbed /\ DOMAIN account' = DOMAIN account
    BY <1>0, <2>1 DEF SignShape, OpenUndisturbed, UserFields
  <2>4. "done" \notin GrantSteps BY DEF GrantSteps
  <2> QED BY <1>0, <2>1, <2>2, <2>3, <2>4, VisitGoto, SignStep DEF SignShape
<1>2. CASE Doors!InsertAccount(r) BY <1>2, InsertStep DEF Doors!InsertAccount
<1>3. CASE Doors!InsertProvider(r) BY <1>3, InsertStep DEF Doors!InsertProvider
<1>4. CASE Doors!Register(r) BY <1>4, InsertStep DEF Doors!Register
<1>5. CASE Doors!CreateCustomer(r) BY <1>5, InsertStep DEF Doors!CreateCustomer
<1>6. CASE Doors!ActivateAccount(r)
  <2>1. PICK at : at = IF visit[r].at = "both" THEN "mark" ELSE "grant" OBVIOUS
  <2>2. /\ account' = [visit[r].user EXCEPT !.active = TRUE, !.verified = TRUE, !.status = visit[r].user.status,
                                            !.opened = account.opened \cup {"otp"}]
        /\ ledger' = ledger /\ mishaps' = mishaps /\ visit[r].op = "otp" /\ Doors!Goto(r, at)
    BY <1>6, <2>1 DEF Doors!ActivateAccount, Doors!OpenWith, Doors!Proven
  <2>3. KeysAreUsedOnce' BY <1>0, <2>2 DEF KeysAreUsedOnce
  <2>4. VisitGoes(r, at) BY <1>0, <2>2, VisitGoto
  <2>5. OnTheWay(r)' BY <2>1, <2>2, <2>4 DEF OnTheWay, VisitGoes, GrantSteps
  <2>6. at \in GrantSteps => visit[r].op \in Doors!Granting BY <2>2 DEF Doors!Granting
  <2>7. DOMAIN account' = DOMAIN account BY <1>0, <2>2 DEF SignShape, UserFields
  <2> QED BY <1>0, <2>2, <2>3, <2>4, <2>5, <2>6, <2>7, SignStep DEF SignShape
<1>7. CASE Doors!ResetPassword(r)
  <2>1. PICK at : at = IF visit[r].at = "both" THEN "mark" ELSE "done" OBVIOUS
  <2>2. /\ account' = [visit[r].user EXCEPT !.active = TRUE, !.verified = TRUE, !.status = "active",
                                            !.opened = account.opened \cup {"reset"}]
        /\ ledger' = ledger /\ mishaps' = mishaps /\ Doors!Goto(r, at) /\ ~OnTheWay(r)
    BY <1>7, <2>1 DEF Doors!ResetPassword, Doors!OpenWith, Doors!Proven, OnTheWay, GrantSteps
  <2>3. KeysAreUsedOnce' BY <1>0, <2>2 DEF KeysAreUsedOnce
  <2>4. VisitGoes(r, at) /\ at \notin GrantSteps BY <1>0, <2>1, <2>2, VisitGoto DEF GrantSteps
  <2>5. account'.opened = account.opened \cup {"reset"} BY <1>0, <2>2 DEF SignShape, UserFields
  <2>6. OpenUndisturbed' => OpenUndisturbed BY <2>2, <2>5 DEF OpenUndisturbed, Doors!Granting
  <2>7. DOMAIN account' = DOMAIN account BY <1>0, <2>2 DEF SignShape, UserFields
  <2> QED BY <1>0, <2>2, <2>3, <2>4, <2>6, <2>7, SignStep DEF SignShape
<1>8. CASE Doors!CreateUser(r) BY <1>8, InsertStep DEF Doors!CreateUser
<1> QED BY <1>1, <1>2, <1>3, <1>4, <1>5, <1>6, <1>7, <1>8

\* Once something went wrong, nothing is promised of the welcome.
LEMMA MishapSteps ==
  ASSUME NEW does, SignInv(does), NEW r \in Visits,
         Doors!Crash(r) \/ Doors!Swallow(r) \/ Doors!LapseCode(r) \/ Doors!LapseSession(r)
  PROVE  SignInv(does)'
<1>0. SignShape(does) /\ KeysAreUsedOnce /\ mishaps \in Nat
      /\ (visit[r].at \in GrantSteps => visit[r].op \in Doors!Granting)
  BY DEF SignInv, SignShape
<1>1. UNCHANGED <<account, ledger>> /\ mishaps' = mishaps + 1
  BY DEF Doors!Crash, Doors!Swallow, Doors!LapseCode, Doors!LapseSession
<1>2. KeysAreUsedOnce' BY <1>0, <1>1 DEF KeysAreUsedOnce
<1>3. ~OpenUndisturbed' /\ mishaps' \in Nat BY <1>0, <1>1 DEF OpenUndisturbed
<1>4. CASE UNCHANGED visit
  <2>1. SignShape(does)' BY <1>0, <1>1, <1>3, <1>4 DEF SignShape
  <2>2. WelcomeComes' BY <1>3 DEF WelcomeComes
  <2> QED BY <1>2, <2>1, <2>2 DEF SignInv
<1>5. CASE Doors!Goto(r, "done") \/ (Doors!Swallow(r) /\ \E at \in {"refer", "welcome"} : Doors!Goto(r, at))
  <2>1. PICK at : Doors!Goto(r, at) /\ (at \in GrantSteps => visit[r].op \in Doors!Granting)
    BY <1>0, <1>5 DEF Doors!Swallow, GrantSteps
  <2> QED BY <1>0, <1>1, <1>2, <1>3, <2>1, VisitGoto, SignStep
<1> QED BY <1>4, <1>5 DEF Doors!Crash, Doors!Swallow, Doors!LapseCode, Doors!LapseSession

-----------------------------------------------------------------------------
\* One person at Hook's doors, for any number of requests of every kind, and
\* crashes, failed writes and lapses between them: gift, welcome and referral
\* bonus are credited at most once each (the welcome once more by the script),
\* and whoever came in by a door that grants is welcomed, if nothing went wrong,
\* though the password was reset or another door was taken before or meanwhile.
THEOREM SignUpWelcomedOnce ==
  ASSUME NEW does, NEW joined, ComesIn(does)
  PROVE  Doors!Init(does, joined) /\ [][Doors!Next]_signVars => []WelcomedOnce
<1>1. Doors!Init(does, joined) => SignInv(does)
  <2> SUFFICES ASSUME Doors!Init(does, joined) PROVE SignInv(does)
    OBVIOUS
  <2>1. /\ visit = [r \in Visits |-> does[r]] /\ mishaps = 0 /\ ledger = {} /\ account = Doors!NoUser
        /\ DOMAIN Doors!NoUser = UserFields /\ account.opened = {}
    BY DEF Doors!Init, Doors!NoUser, UserFields
  <2>2. SignShape(does) BY <2>1 DEF SignShape, ComesIn, GrantSteps
  <2>3. KeysAreUsedOnce BY <2>1 DEF KeysAreUsedOnce
  <2>4. WelcomeComes BY <2>1 DEF WelcomeComes, OpenUndisturbed
  <2> QED BY <2>2, <2>3, <2>4 DEF SignInv
<1>2. SignInv(does) /\ [Doors!Next]_signVars => SignInv(does)'
  <2> SUFFICES ASSUME SignInv(does), [Doors!Next]_signVars PROVE SignInv(does)'
    OBVIOUS
  <2>1. CASE UNCHANGED signVars
    <3>1. UNCHANGED <<visit, account, ledger, mishaps>> BY <2>1 DEF signVars
    <3>2. SignShape(does)' /\ KeysAreUsedOnce' BY <3>1 DEF SignInv, SignShape, KeysAreUsedOnce
    <3>3. WelcomeComes' BY <3>1 DEF SignInv, WelcomeComes, OpenUndisturbed, Welcomed, Doors!Has, OnTheWay
    <3> QED BY <3>2, <3>3 DEF SignInv
  <2>2. CASE Doors!Next
    BY <2>2, DoorSteps, WaitlistSteps, WaySteps, WelcomeIsRecorded, CreditSteps, AccountSteps, MishapSteps
    DEF Doors!Next
  <2> QED BY <2>1, <2>2
<1>3. SignInv(does) => WelcomedOnce
  <2> SUFFICES ASSUME SignInv(does) PROVE WelcomedOnce
    OBVIOUS
  <2>1. Doors!GrantedOnce
    <3> SUFFICES ASSUME NEW type \in {"waitlist_bonus", "welcome_bonus", "referral_bonus"}, NEW e \in ledger, NEW f \in ledger,
                        e.type = type, f.type = type
                 PROVE  e = f \/ {e.key, f.key} = {"welcome", "welcome-topup"}
      BY DEF Doors!GrantedOnce
    <3>1. KeyFits(e.key, e.type) /\ KeyFits(f.key, f.type) BY DEF SignInv, KeysAreUsedOnce
    <3>2. e.key = f.key \/ {e.key, f.key} = {"welcome", "welcome-topup"} BY <3>1 DEF KeyFits
    <3> QED BY <3>2 DEF SignInv, KeysAreUsedOnce
  <2>2. Doors!EveryDoorWelcomes
    <3> SUFFICES ASSUME Doors!Quiet, account.opened \cap Doors!Granting # {} PROVE Welcomed
      BY DEF Doors!EveryDoorWelcomes, Welcomed
    <3>1. \A r \in Visits : visit[r].at = "done" /\ mishaps = 0 BY DEF Doors!Quiet
    <3>2. mishaps = 0 BY DEF Doors!Quiet
    <3>3. \A r \in Visits : ~OnTheWay(r) BY <3>1 DEF OnTheWay, GrantSteps
    <3> QED BY <3>2, <3>3 DEF SignInv, WelcomeComes, OpenUndisturbed
  <2> QED BY <2>1, <2>2 DEF WelcomedOnce
<1> QED BY <1>1, <1>2, <1>3, PTL

-----------------------------------------------------------------------------
(* Pricing: sums over the groups of a basket                                 *)

\* Adding up one element after another, from what there is without it.
Step(F, sum, T) == IF T = {} THEN 0 ELSE LET x == CHOOSE x \in T : TRUE IN F[x] + sum[T \ {x}]
Recursion(F, S, sum) == sum = [T \in SUBSET S |-> Step(F, sum, T)]
\* In whatever order the elements are taken, the sum is the same.
SumsUp(F, S, sum) ==
  /\ sum \in [SUBSET S -> Int] /\ sum[{}] = 0
  /\ \A T \in SUBSET S : \A x \in T : sum[T] = F[x] + sum[T \ {x}]

\* What a set has whose smaller ones have it, every subset of a finite set has.
LEMMA SubsetInduction ==
  ASSUME NEW S, IsFiniteSet(S), NEW Good,
         \A T \in SUBSET S : (\A U \in SUBSET T : U # T => U \in Good) => T \in Good
  PROVE  \A T \in SUBSET S : T \in Good
<1> DEFINE Bad == {T \in SUBSET S : T \notin Good}
<1> SUFFICES ASSUME Bad # {} PROVE FALSE
  OBVIOUS
<1>1. SUBSET S = FiniteSubsetsOf(S) BY FS_FiniteSubsetsOfFinite
<1>2. IsWellFoundedOn(StrictSubsetOrdering(S), FiniteSubsetsOf(S)) BY FS_StrictSubsetOrderingWellFounded
<1>3. Bad \subseteq FiniteSubsetsOf(S) /\ Bad # {} BY <1>1
<1> HIDE DEF Bad
<1>5. \E T \in Bad : \A U \in Bad : ~(<<U, T>> \in StrictSubsetOrdering(S)) BY <1>2, <1>3, WFMin
<1>6. PICK T \in Bad : \A U \in Bad : ~(<<U, T>> \in StrictSubsetOrdering(S)) BY <1>5
<1> USE DEF Bad
<1>4. ASSUME NEW U \in SUBSET T, U # T PROVE U \in Good BY <1>4, <1>6 DEF StrictSubsetOrdering
<1> QED BY <1>4, <1>6

\* The numbers up to which something goes on.
LEMMA NumberInduction ==
  ASSUME NEW Good, 0 \in Good, \A n \in Nat : n \in Good => n + 1 \in Good
  PROVE  \A n \in Nat : n \in Good
<1> DEFINE Bad == {n \in Nat : n \notin Good}
<1> SUFFICES ASSUME Bad # {} PROVE FALSE
  OBVIOUS
<1>0. Bad \subseteq Nat OBVIOUS
<1> HIDE DEF Bad
<1>5. \E n \in Bad : \A m \in Bad : ~(<<m, n>> \in OpToRel(<, Nat)) BY <1>0, NatLessThanWellFounded, WFMin
<1>1. PICK n \in Bad : \A m \in Bad : ~(<<m, n>> \in OpToRel(<, Nat)) BY <1>5
<1> USE DEF Bad
<1>6. n \in Nat /\ n \notin Good BY <1>1
<1>2. n # 0 /\ n - 1 \in Nat BY <1>6
<1>3. <<n - 1, n>> \in OpToRel(<, Nat) BY <1>2 DEF OpToRel
<1>4. n - 1 \in Good BY <1>1, <1>2, <1>3
<1>7. (n - 1) + 1 \in Good BY <1>2, <1>4
<1>8. (n - 1) + 1 = n BY <1>6
<1> QED BY <1>6, <1>7, <1>8

\* There is a sum: up to each size, the sets have theirs.
LEMMA SumExists ==
  ASSUME NEW S, IsFiniteSet(S), NEW F
  PROVE  \E sum : Recursion(F, S, sum)
<1> DEFINE UpTo(n, g) == \A T \in SUBSET S : Cardinality(T) <= n => g[T] = Step(F, g, T)
           Good == {n \in Nat : \E g : UpTo(n, g)}
<1>1. \A T \in SUBSET S : IsFiniteSet(T) /\ Cardinality(T) \in Nat BY FS_Subset, FS_CardinalityType
<1>2. \A T \in SUBSET S : \A x \in T : T \ {x} \in SUBSET S /\ Cardinality(T \ {x}) = Cardinality(T) - 1
  BY <1>1, FS_RemoveElement
<1>3. 0 \in Good
  <2> DEFINE g == [T \in SUBSET S |-> 0]
  <2>1. ASSUME NEW T \in SUBSET S, Cardinality(T) <= 0 PROVE T = {} BY <1>1, <2>1, FS_EmptySet
  <2>2. UpTo(0, g) BY <2>1 DEF Step
  <2> QED BY <2>2
<1>4. ASSUME NEW n \in Nat, n \in Good PROVE n + 1 \in Good
  <2>1. PICK g : UpTo(n, g) BY <1>4
  <2> DEFINE h == [T \in SUBSET S |-> IF Cardinality(T) <= n THEN g[T] ELSE Step(F, g, T)]
  <2>2. ASSUME NEW T \in SUBSET S, Cardinality(T) <= n + 1 PROVE h[T] = Step(F, h, T)
    <3>1. h[T] = Step(F, g, T) BY <2>1
    <3>2. CASE T = {} BY <3>1, <3>2 DEF Step
    <3>3. CASE T # {}
      <4> DEFINE x == CHOOSE x \in T : TRUE
      <4>1. x \in T BY <3>3
      <4> HIDE DEF x
      <4>4. T \ {x} \in SUBSET S /\ Cardinality(T \ {x}) = Cardinality(T) - 1 BY <1>2, <4>1
      <4>5. Cardinality(T) \in Nat BY <1>1
      <4>2. T \ {x} \in SUBSET S /\ Cardinality(T \ {x}) <= n BY <2>2, <4>4, <4>5
      <4> USE DEF x
      <4>3. h[T \ {x}] = g[T \ {x}] BY <4>2
      <4> QED BY <3>1, <3>3, <4>3 DEF Step
    <3> QED BY <3>2, <3>3
  <2>3. UpTo(n + 1, h) BY <2>2
  <2> HIDE DEF h
  <2> QED BY <2>3
<1> HIDE DEF Good
<1>5. Cardinality(S) \in Good BY <1>1, <1>3, <1>4, NumberInduction
<1> USE DEF Good
<1>6. PICK g : UpTo(Cardinality(S), g) BY <1>5
<1> DEFINE sum == [T \in SUBSET S |-> g[T]]
<1>7. ASSUME NEW T \in SUBSET S PROVE sum[T] = Step(F, sum, T)
  <2>1. Cardinality(T) <= Cardinality(S) BY FS_Subset
  <2>2. g[T] = Step(F, g, T) BY <1>6, <2>1
  <2>3. \A x \in T : sum[T \ {x}] = g[T \ {x}] OBVIOUS
  <2> QED BY <2>2, <2>3 DEF Step
<1>8. Recursion(F, S, sum) BY <1>7 DEF Recursion
<1> HIDE DEF sum
<1> QED BY <1>8

\* The community modules' sum is one.
LEMMA SumIsRecursive ==
  ASSUME NEW S, IsFiniteSet(S), NEW F
  PROVE  \E sum : Recursion(F, S, sum) /\ Costs!SumFunctionOnSet(F, S) = sum[S]
<1> DEFINE sum == CHOOSE sum : Recursion(F, S, sum)
<1>1. Costs!SumFunctionOnSet(F, S) = sum[S]
  BY DEF Costs!SumFunctionOnSet, Costs!FoldFunctionOnSet, Costs!MapThenFoldSet, Recursion, Step
<1>2. Recursion(F, S, sum) BY SumExists
<1> QED BY <1>1, <1>2

LEMMA SumIsInteger ==
  ASSUME NEW S, IsFiniteSet(S), NEW F, \A x \in S : F[x] \in Int, NEW sum, Recursion(F, S, sum)
  PROVE  \A T \in SUBSET S : sum[T] \in Int
<1> DEFINE Good == {T \in SUBSET S : sum[T] \in Int}
<1>1. ASSUME NEW T \in SUBSET S, \A U \in SUBSET T : U # T => U \in Good PROVE T \in Good
  <2>1. sum[T] = Step(F, sum, T) BY DEF Recursion
  <2>2. CASE T = {} BY <2>1, <2>2 DEF Step
  <2>3. CASE T # {}
    <3> DEFINE x == CHOOSE x \in T : TRUE
    <3>1. x \in T BY <2>3
    <3>2. sum[T] = F[x] + sum[T \ {x}] BY <2>1, <2>3 DEF Step
    <3> HIDE DEF x
    <3>3. T \ {x} \in Good BY <1>1, <3>1
    <3> QED BY <3>1, <3>2, <3>3
  <2> QED BY <2>2, <2>3
<1> HIDE DEF Good
<1>2. \A T \in SUBSET S : T \in Good BY <1>1, SubsetInduction
<1> QED BY <1>2 DEF Good

\* Any element can be taken first.
LEMMA SumInAnyOrder ==
  ASSUME NEW S, IsFiniteSet(S), NEW F, \A x \in S : F[x] \in Int, NEW sum, Recursion(F, S, sum)
  PROVE  SumsUp(F, S, sum)
<1> DEFINE Good == {T \in SUBSET S : \A x \in T : sum[T] = F[x] + sum[T \ {x}]}
<1>0. \A T \in SUBSET S : sum[T] = Step(F, sum, T) /\ sum[T] \in Int BY SumIsInteger DEF Recursion
<1>1. ASSUME NEW T \in SUBSET S, \A U \in SUBSET T : U # T => U \in Good PROVE T \in Good
  <2> SUFFICES ASSUME NEW x \in T PROVE sum[T] = F[x] + sum[T \ {x}]
    OBVIOUS
  <2> DEFINE c == CHOOSE c \in T : TRUE
  <2>1. c \in T /\ sum[T] = F[c] + sum[T \ {c}] BY <1>0 DEF Step
  <2> HIDE DEF c
  <2>2. CASE x = c BY <2>1, <2>2
  <2>3. CASE x # c
    <3>1. T \ {c} \in Good /\ T \ {x} \in Good BY <1>1, <2>1
    <3>2. sum[T \ {c}] = F[x] + sum[(T \ {c}) \ {x}] BY <2>3, <3>1
    <3>3. sum[T \ {x}] = F[c] + sum[(T \ {x}) \ {c}] BY <2>1, <2>3, <3>1
    <3> DEFINE rest == sum[(T \ {x}) \ {c}]
    <3>4. (T \ {c}) \ {x} = (T \ {x}) \ {c} OBVIOUS
    <3>5. F[x] \in Int /\ F[c] \in Int /\ rest \in Int BY <1>0, <2>1
    <3>6. sum[T] = F[c] + (F[x] + rest) BY <2>1, <3>2, <3>4
    <3>7. sum[T \ {x}] = F[c] + rest BY <3>3
    <3> HIDE DEF rest
    <3>8. F[c] + (F[x] + rest) = F[x] + (F[c] + rest) BY <3>5
    <3> QED BY <3>6, <3>7, <3>8
  <2> QED BY <2>2, <2>3
<1> HIDE DEF Good
<1>2. \A T \in SUBSET S : T \in Good BY <1>1, SubsetInduction
<1>3. sum[{}] = 0 BY <1>0 DEF Step
<1>4. sum \in [SUBSET S -> Int] BY <1>0 DEF Recursion
<1> QED BY <1>2, <1>3, <1>4 DEF SumsUp, Good

LEMMA SumHolds ==
  ASSUME NEW S, IsFiniteSet(S), NEW F, \A x \in S : F[x] \in Int
  PROVE  \E sum : SumsUp(F, S, sum) /\ Costs!SumFunctionOnSet(F, S) = sum[S]
BY SumIsRecursive, SumInAnyOrder

\* Sums of what is added and subtracted element by element.
LEMMA SumsAdd ==
  ASSUME NEW S, IsFiniteSet(S), NEW A, NEW B, NEW C, NEW D, NEW a, NEW b, NEW c, NEW d,
         SumsUp(A, S, a), SumsUp(B, S, b), SumsUp(C, S, c), SumsUp(D, S, d),
         \A x \in S : /\ A[x] \in Int /\ B[x] \in Int /\ C[x] \in Int /\ D[x] \in Int
                       /\ D[x] = A[x] + B[x] - C[x]
  PROVE  d[S] = a[S] + b[S] - c[S]
<1> DEFINE Good == {T \in SUBSET S : d[T] = a[T] + b[T] - c[T]}
<1>1. ASSUME NEW T \in SUBSET S, \A U \in SUBSET T : U # T => U \in Good PROVE T \in Good
  <2>1. CASE T = {} BY <2>1 DEF SumsUp
  <2>2. CASE T # {}
    <3>1. PICK x \in T : TRUE BY <2>2
    <3> DEFINE U == T \ {x}
    <3>2. U \in SUBSET S /\ U \in Good BY <1>1, <3>1
    <3>3. a[T] = A[x] + a[U] /\ b[T] = B[x] + b[U] /\ c[T] = C[x] + c[U] /\ d[T] = D[x] + d[U]
      BY <3>1 DEF SumsUp
    <3>4. a[U] \in Int /\ b[U] \in Int /\ c[U] \in Int /\ d[U] \in Int BY <3>2 DEF SumsUp
    <3>5. d[U] = a[U] + b[U] - c[U] BY <3>2
    <3> HIDE DEF U
    <3> QED BY <3>1, <3>3, <3>4, <3>5
  <2> QED BY <2>1, <2>2
<1> HIDE DEF Good
<1>2. \A T \in SUBSET S : T \in Good BY <1>1, SubsetInduction
<1>3. S \in Good BY <1>2
<1> QED BY <1>3 DEF Good

\* Where two agree, their sums do.
LEMMA SumOfSame ==
  ASSUME NEW S, IsFiniteSet(S), NEW R, R \subseteq S, NEW A, NEW B, NEW a, NEW r,
         SumsUp(A, S, a), SumsUp(B, R, r), \A x \in R : A[x] = B[x]
  PROVE  r[R] = a[R]
<1> DEFINE Good == {T \in SUBSET R : r[T] = a[T]}
<1>0. IsFiniteSet(R) BY FS_Subset
<1>1. ASSUME NEW T \in SUBSET R, \A U \in SUBSET T : U # T => U \in Good PROVE T \in Good
  <2>1. CASE T = {} BY <2>1 DEF SumsUp
  <2>2. CASE T # {}
    <3>1. PICK x \in T : TRUE BY <2>2
    <3>2. T \ {x} \in Good BY <1>1, <3>1
    <3>3. a[T] = A[x] + a[T \ {x}] /\ r[T] = B[x] + r[T \ {x}] BY <3>1 DEF SumsUp
    <3> QED BY <3>2, <3>3
  <2> QED BY <2>1, <2>2
<1> HIDE DEF Good
<1>2. \A T \in SUBSET R : T \in Good BY <1>0, <1>1, SubsetInduction
<1>3. R \in Good BY <1>2
<1> QED BY <1>3 DEF Good

-----------------------------------------------------------------------------
\* A part of an amount, rounded down.
LEMMA RoundedDown ==
  ASSUME NEW x \in Nat, NEW y \in Nat, NEW n \in Nat \ {0}
  PROVE  /\ (x * y) \div n \in Nat
         /\ n * ((x * y) \div n) <= x * y
         /\ n * ((x * y) \div n) >= x * y - (n - 1)
<1> DEFINE z == x * y
<1>1. z \in Nat OBVIOUS
<1> HIDE DEF z
<1>2. z \div n \in Nat /\ n * (z \div n) <= z /\ n * (z \div n) >= z - (n - 1) BY <1>1
<1> QED BY <1>2 DEF z

\* What is lost by rounding the parts down is less than one for each.
LEMMA PartsSum ==
  ASSUME NEW S, IsFiniteSet(S), NEW x \in Nat, NEW n \in Nat \ {0}, NEW W, NEW w, NEW P, NEW p,
         SumsUp(W, S, w), SumsUp(P, S, p),
         \A g \in S : W[g] \in Nat /\ P[g] = (x * W[g]) \div n
  PROVE  \A T \in SUBSET S :
           /\ w[T] \in Nat /\ p[T] \in Nat
           /\ n * p[T] <= x * w[T]
           /\ n * p[T] >= x * w[T] - (n - 1) * Cardinality(T)
<1> DEFINE Fits(T) ==
      /\ w[T] \in Nat /\ p[T] \in Nat
      /\ n * p[T] <= x * w[T]
      /\ n * p[T] >= x * w[T] - (n - 1) * Cardinality(T)
    Good == {T \in SUBSET S : Fits(T)}
<1>1. ASSUME NEW T \in SUBSET S, \A U \in SUBSET T : U # T => U \in Good PROVE T \in Good
  <2>1. CASE T = {}
    <3>1. w[T] = 0 /\ p[T] = 0 BY <2>1 DEF SumsUp
    <3>2. Cardinality(T) = 0 BY <2>1, FS_EmptySet
    <3> QED BY <3>1, <3>2
  <2>2. CASE T # {}
    <3>1. PICK g \in T : TRUE BY <2>2
    <3> DEFINE U == T \ {g}
    <3>2. IsFiniteSet(T) /\ Cardinality(U) = Cardinality(T) - 1 /\ Cardinality(T) \in Nat
      BY <3>1, FS_Subset, FS_RemoveElement, FS_CardinalityType
    <3>3. Fits(U) BY <1>1, <3>1
    <3>4. w[T] = W[g] + w[U] /\ p[T] = P[g] + p[U] BY <3>1 DEF SumsUp
    <3> DEFINE k == Cardinality(T)  v == W[g]  q == P[g]  wU == w[U]  pU == p[U]
    <3>5. v \in Nat /\ q \in Nat /\ n * q <= x * v /\ n * q >= x * v - (n - 1) BY <3>1, RoundedDown
    <3>6. wU \in Nat /\ pU \in Nat /\ n * pU <= x * wU /\ n * pU >= x * wU - (n - 1) * (k - 1)
      BY <3>2, <3>3
    <3>7. k \in Nat /\ w[T] = v + wU /\ p[T] = q + pU BY <3>2, <3>4
    <3> HIDE DEF k, v, q, wU, pU, U
    <3>8. n * (q + pU) = n * q + n * pU /\ x * (v + wU) = x * v + x * wU BY <3>5, <3>6
    <3>9. (n - 1) * k = (n - 1) * (k - 1) + (n - 1) BY <3>7
    <3>10. n * (q + pU) <= x * (v + wU) BY <3>5, <3>6, <3>8
    <3>11. n * (q + pU) >= x * (v + wU) - (n - 1) * k BY <3>5, <3>6, <3>7, <3>8, <3>9
    <3> QED BY <3>5, <3>6, <3>7, <3>10, <3>11 DEF k
  <2> QED BY <2>1, <2>2
<1> HIDE DEF Good
<1>2. \A T \in SUBSET S : T \in Good BY <1>1, SubsetInduction
<1> QED BY <1>2 DEF Good

-----------------------------------------------------------------------------
(* What the doors ask adds up.                                               *)
OtherParts == Sources \ {Costs!Last}
Whole == Costs!Higher(costed.money.subtotal, 1)
Shares(total) == [g \in Sources |-> Costs!Share(total, g)]

\* Groups are numbered, a basket is of them, and the quote is of the basket.
BasketFits == Sources # {} /\ (\E n \in Nat : Sources = 1..n) /\ basket \in [Sources -> Nat]

LEMMA LastOfGroups ==
  ASSUME BasketFits
  PROVE  /\ IsFiniteSet(Sources) /\ Costs!Last \in Sources /\ IsFiniteSet(OtherParts)
         /\ Cardinality(OtherParts) = Cardinality(Sources) - 1 /\ Cardinality(Sources) \in Nat
<1>1. PICK n \in Nat : Sources = 1..n BY DEF BasketFits
<1>2. n >= 1 BY <1>1 DEF BasketFits
<1>3. IsFiniteSet(Sources) BY <1>1, FS_Interval
<1>4. n \in Sources /\ \A h \in Sources : h <= n BY <1>1, <1>2
<1>5. Costs!Last \in Sources BY <1>4 DEF Costs!Last
<1> QED BY <1>3, <1>5, FS_RemoveElement, FS_CardinalityType DEF OtherParts

\* The parts of an amount are the amount, none is negative, and but for the
\* last they are rounded down: w is the sums of the basket, z those of the
\* parts, and p what the others have.
Splits(x, w, z, p) ==
  /\ SumsUp(basket, Sources, w) /\ w[Sources] = Costs!Subtotal /\ w[Sources] \in Nat
  /\ w[Sources] = basket[Costs!Last] + w[OtherParts] /\ w[OtherParts] \in Nat
  /\ SumsUp(Shares(x), Sources, z) /\ z[Sources] = x
  /\ p \in Nat /\ Costs!Share(x, Costs!Last) = x - p /\ p <= x
  /\ Whole * p >= x * w[OtherParts] - (Whole - 1) * Cardinality(OtherParts)
  /\ \A g \in OtherParts : Costs!Share(x, g) \in Nat /\ Whole * Costs!Share(x, g) <= x * basket[g]

LEMMA SharesSum ==
  ASSUME BasketFits, costed.money.subtotal = Costs!Subtotal, NEW x \in Nat
  PROVE  \E w, z, p : Splits(x, w, z, p)
<1> DEFINE last == Costs!Last
           parts == Costs!Parts(x)
<1>0. IsFiniteSet(Sources) /\ last \in Sources /\ IsFiniteSet(OtherParts) BY LastOfGroups
<1>1. \A g \in Sources : basket[g] \in Nat BY DEF BasketFits
<1>2. PICK w : SumsUp(basket, Sources, w) /\ Costs!Subtotal = w[Sources]
  BY <1>0, <1>1, SumHolds DEF Costs!Subtotal
<1>3. w[Sources] = basket[last] + w[OtherParts] /\ OtherParts \in SUBSET Sources BY <1>0, <1>2 DEF SumsUp, OtherParts
<1>4. PICK v : SumsUp(basket, OtherParts, v) /\ TRUE BY <1>0, <1>1, <1>3, SumHolds
<1>5. v[OtherParts] = w[OtherParts] BY <1>0, <1>2, <1>3, <1>4, SumOfSame
<1>6. w[Sources] \in Int BY <1>2 DEF SumsUp
<1>7. Whole \in Nat \ {0} /\ w[Sources] <= Whole BY <1>2, <1>6 DEF Whole, Costs!Higher
<1>8. \A g \in Sources : parts[g] = (x * basket[g]) \div Whole BY DEF Costs!Parts, Whole
<1>9. \A g \in Sources : parts[g] \in Nat /\ Whole * parts[g] <= x * basket[g] BY <1>1, <1>7, <1>8, RoundedDown
<1>10. PICK q : SumsUp(parts, OtherParts, q) /\ Costs!SumFunctionOnSet(parts, OtherParts) = q[OtherParts]
  BY <1>0, <1>3, <1>9, SumHolds
<1>11. /\ v[OtherParts] \in Nat /\ q[OtherParts] \in Nat /\ Whole * q[OtherParts] <= x * v[OtherParts]
       /\ Whole * q[OtherParts] >= x * v[OtherParts] - (Whole - 1) * Cardinality(OtherParts)
  <2>1. \A g \in OtherParts : basket[g] \in Nat /\ parts[g] = (x * basket[g]) \div Whole BY <1>1, <1>3, <1>8
  <2> HIDE DEF parts
  <2> QED BY <1>0, <1>4, <1>7, <1>10, <2>1, PartsSum
<1> HIDE DEF parts
<1>12. /\ Costs!Share(x, last) = x - q[OtherParts]
       /\ \A g \in OtherParts : Costs!Share(x, g) = parts[g]
  BY <1>3, <1>10 DEF Costs!Share, OtherParts, parts
<1>13. q[OtherParts] <= x
  <2> DEFINE a == q[OtherParts]  c == w[OtherParts]  whole == Whole
  <2>1. a \in Nat /\ c \in Nat /\ whole \in Nat \ {0} /\ whole * a <= x * c BY <1>5, <1>7, <1>11
  <2>2. c <= whole BY <1>0, <1>1, <1>3, <1>6, <1>7, <2>1
  <2> HIDE DEF a, c, whole
  <2>3. x * c <= x * whole BY <2>1, <2>2
  <2>4. whole * a <= whole * x BY <2>1, <2>3
  <2>5. a <= x BY <2>1, <2>4
  <2> QED BY <2>5 DEF a
<1>14. \A g \in Sources : Shares(x)[g] \in Int
  <2>1. \A g \in OtherParts : Shares(x)[g] \in Int BY <1>3, <1>9, <1>12 DEF Shares
  <2>2. Shares(x)[last] \in Int BY <1>0, <1>11, <1>12 DEF Shares
  <2> QED BY <2>1, <2>2 DEF OtherParts
<1>15. PICK z : SumsUp(Shares(x), Sources, z) /\ TRUE BY <1>0, <1>14, SumHolds
<1>16. z[OtherParts] = q[OtherParts]
  <2>1. \A g \in OtherParts : Shares(x)[g] = parts[g] BY <1>3, <1>12 DEF Shares
  <2>2. OtherParts \subseteq Sources /\ SumsUp(Shares(x), Sources, z) /\ SumsUp(parts, OtherParts, q) BY <1>3, <1>10, <1>15
  <2> QED BY ONLY <1>0, <2>1, <2>2, SumOfSame
<1>17. z[Sources] = Shares(x)[last] + z[OtherParts] BY <1>0, <1>15 DEF SumsUp, OtherParts
<1>18. z[Sources] = x
  <2>1. Shares(x)[last] = x - q[OtherParts] BY <1>0, <1>12 DEF Shares
  <2> QED BY <1>11, <1>16, <1>17, <2>1
<1>19. w[Sources] \in Nat BY <1>0, <1>1, <1>3, <1>5, <1>11
<1>20. \A g \in OtherParts : Costs!Share(x, g) \in Nat /\ Whole * Costs!Share(x, g) <= x * basket[g]
  BY <1>3, <1>9, <1>12
<1>21. Splits(x, w, z, q[OtherParts])
  BY <1>2, <1>3, <1>5, <1>11, <1>12, <1>13, <1>15, <1>18, <1>19, <1>20 DEF Splits
<1> QED BY <1>21

\* The last part of a discount is not more than the last group, if enough is left of it.
LEMMA LastFits ==
  ASSUME NEW s \in Nat, NEW d \in Nat, NEW b \in Nat, NEW u \in Nat, NEW p \in Nat, NEW n \in Nat \ {0}, NEW whole \in Nat,
         d <= s, s = b + u, whole = (IF s > 1 THEN s ELSE 1),
         n = 1 => u = 0,
         b * (s - d) >= (n - 2) * s,
         whole * p >= d * u - (whole - 1) * (n - 1)
  PROVE  d - p <= b
<1>1. CASE n = 1 BY <1>1
<1>2. CASE s = 0 BY <1>2
<1>3. CASE n >= 2 /\ s >= 1
  <2>1. whole = s BY <1>3
  <2>2. b * (s - d) = b * s - b * d /\ d * u = d * s - d * b
    <3>1. u = s - b OBVIOUS
    <3>2. d * (s - b) = d * s - d * b OBVIOUS
    <3> QED BY <3>1, <3>2
  <2>3. (s - 1) * (n - 1) = s * n - s - n + 1 /\ (n - 2) * s = s * n - 2 * s OBVIOUS
  <2>4. b * d <= b * s - (s * n - 2 * s) BY <2>2, <2>3
  <2>5. s * p >= d * s - d * b - (s * n - s - n + 1) BY <2>1, <2>2, <2>3
  <2>6. s * d - s * p <= b * s + s - (n - 1) BY <2>4, <2>5
  <2>7. s * (d - p) = s * d - s * p /\ s * (b + 1) = b * s + s OBVIOUS
  <2>8. s * (d - p) < s * (b + 1) BY <1>3, <2>6, <2>7
  <2>9. d - p < b + 1
    <3> SUFFICES ASSUME d - p >= b + 1 PROVE FALSE
      OBVIOUS
    <3>1. s * (d - p) >= s * (b + 1) BY <1>3
    <3> QED BY <2>8, <3>1
  <2> QED BY <2>9
<1> QED BY <1>1, <1>2, <1>3

LEMMA DoorsAddUp ==
  ASSUME BasketFits, costed.money.subtotal = Costs!Subtotal,
         costed.money.vat \in Nat, costed.money.discount \in Nat, costed.money.onDelivery \in BOOLEAN,
         ~costed.money.onDelivery => costed.money.discount <= Costs!Subtotal /\ Costs!LeavesEnough
  PROVE  Costs!SumFunctionOnSet([g \in Sources |-> Costs!AtTheDoor(g)], Sources)
           = Costs!Subtotal + costed.money.vat - (IF costed.money.onDelivery THEN 0 ELSE costed.money.discount)
<1> DEFINE last == Costs!Last
           tax == costed.money.vat
           off == IF costed.money.onDelivery THEN 0 ELSE costed.money.discount
           doors == [g \in Sources |-> Costs!AtTheDoor(g)]
<1>1. /\ IsFiniteSet(Sources) /\ last \in Sources /\ IsFiniteSet(OtherParts)
      /\ Cardinality(OtherParts) = Cardinality(Sources) - 1 /\ Cardinality(Sources) \in Nat
  BY LastOfGroups
<1>2. off \in Nat OBVIOUS
<1>3. PICK w, z, p : Splits(tax, w, z, p) BY SharesSum
<1> HIDE DEF off
<1>4. PICK v, y, q : Splits(off, v, y, q) BY <1>2, SharesSum
<1> USE DEF Splits
<1>5. \A g \in Sources : basket[g] \in Nat BY DEF BasketFits
<1>6. Costs!Subtotal \in Nat /\ off <= Costs!Subtotal BY <1>4 DEF off
<1>7. Whole = (IF Costs!Subtotal > 1 THEN Costs!Subtotal ELSE 1) BY DEF Whole, Costs!Higher
<1>8. Costs!Share(off, last) <= basket[last]
  <2>1. CASE costed.money.onDelivery BY <1>1, <1>2, <1>4, <1>5, <2>1 DEF off
  <2>2. CASE ~costed.money.onDelivery
    <3>1. off = costed.money.discount BY <2>2 DEF off
    <3>2. basket[last] * (Costs!Subtotal - off) >= (Cardinality(Sources) - 2) * Costs!Subtotal
      <4>1. basket[last] * (costed.money.subtotal - costed.money.discount) >=
              (Cardinality(Sources) - 2) * costed.money.subtotal
        BY <2>2 DEF Costs!LeavesEnough, Costs!Cardinality, Cardinality
      <4> QED BY ONLY <3>1, <4>1, costed.money.subtotal = Costs!Subtotal, Zenon
    <3>3. Cardinality(Sources) # 0 BY <1>1, FS_EmptySet
    <3>4. Cardinality(Sources) = 1 => v[OtherParts] = 0
      <4>1. SUFFICES ASSUME Cardinality(Sources) = 1 PROVE v[OtherParts] = 0
        OBVIOUS
      <4>2. OtherParts = {} BY <1>1, <4>1, FS_EmptySet
      <4> QED BY <1>4, <4>2 DEF SumsUp
    <3> DEFINE s == Costs!Subtotal  b == basket[last]  u == v[OtherParts]  n == Cardinality(Sources)  whole == Whole
    <3>5. s \in Nat /\ b \in Nat /\ u \in Nat /\ n \in Nat \ {0} /\ whole \in Nat /\ s = b + u
      BY <1>1, <1>4, <1>5, <1>6, <1>7, <3>3
    <3>6. /\ off \in Nat /\ off <= s /\ q \in Nat /\ whole = (IF s > 1 THEN s ELSE 1) /\ (n = 1 => u = 0)
          /\ b * (s - off) >= (n - 2) * s /\ whole * q >= off * u - (whole - 1) * (n - 1)
      BY <1>1, <1>2, <1>4, <1>6, <1>7, <3>2, <3>4
    <3> HIDE DEF s, b, u, n, whole
    <3>7. off - q <= b BY <3>5, <3>6, LastFits
    <3> QED BY <1>4, <3>7 DEF b
  <2> QED BY <2>1, <2>2
<1>9. ASSUME NEW g \in OtherParts PROVE Costs!Share(off, g) <= basket[g]
  <2> DEFINE a == Costs!Share(off, g)  b == basket[g]  whole == Whole
  <2>0. a \in Nat /\ b \in Nat /\ whole * a <= off * b BY <1>4, <1>5, <1>9 DEF OtherParts
  <2>1. whole \in Nat \ {0} /\ off <= whole BY <1>2, <1>6, <1>7
  <2> HIDE DEF a, b, whole
  <2>2. off * b <= whole * b BY <1>2, <2>0, <2>1
  <2>3. whole * a <= whole * b BY <1>2, <2>0, <2>1, <2>2
  <2>4. a <= b BY <2>0, <2>1, <2>3
  <2> QED BY <2>4 DEF a, b
<1>10. ASSUME NEW g \in Sources
       PROVE  /\ basket[g] \in Int /\ Shares(tax)[g] \in Int /\ Shares(off)[g] \in Int
              /\ doors[g] = basket[g] + Shares(tax)[g] - Shares(off)[g] /\ doors[g] \in Int
  <2>1. Costs!Share(tax, g) \in Nat BY <1>3 DEF OtherParts
  <2>2. Costs!Share(off, g) \in Int /\ Costs!Share(off, g) <= basket[g] BY <1>2, <1>4, <1>8, <1>9 DEF OtherParts
  <2>3. costed.money.onDelivery => Costs!Share(off, g) = 0
    <3> SUFFICES ASSUME costed.money.onDelivery PROVE Costs!Share(off, g) = 0
      OBVIOUS
    <3>1. off = 0 BY DEF off
    <3>2. CASE g = last BY <1>4, <3>1, <3>2
    <3>3. CASE g \in OtherParts
      <4> DEFINE a == Costs!Share(off, g)  whole == Whole
      <4> DEFINE b == basket[g]
      <4>3. a \in Nat /\ b \in Nat /\ whole * a <= off * b BY <1>4, <1>5, <3>3
      <4>4. whole \in Nat \ {0} BY <1>6, <1>7
      <4> HIDE DEF a, b, whole
      <4>1. a \in Nat /\ whole \in Nat \ {0} /\ whole * a <= 0 BY <3>1, <4>3, <4>4
            <4>2. a = 0 BY <4>1
      <4> QED BY <4>2 DEF a
    <3> QED BY <3>2, <3>3 DEF OtherParts
  <2>4. Costs!AtTheDoor(g) = Costs!Higher(0, basket[g] + Costs!Share(tax, g) - Costs!Share(off, g))
    <3>1. CASE costed.money.onDelivery BY <2>3, <3>1 DEF Costs!AtTheDoor
    <3>2. CASE ~costed.money.onDelivery BY <3>2 DEF Costs!AtTheDoor, off
    <3> QED BY <3>1, <3>2
  <2> DEFINE b == basket[g]  t == Costs!Share(tax, g)  o == Costs!Share(off, g)
  <2>5. b \in Nat /\ t \in Nat /\ o \in Int /\ o <= b BY <1>5, <2>1, <2>2
  <2>6. doors[g] = Costs!Higher(0, b + t - o) /\ Shares(tax)[g] = t /\ Shares(off)[g] = o BY <2>4 DEF Shares
  <2> HIDE DEF b, t, o, doors
  <2>7. Costs!Higher(0, b + t - o) = b + t - o BY <2>5 DEF Costs!Higher
  <2>8. b \in Int /\ doors[g] = b + t - o BY <2>5, <2>6, <2>7
  <2> QED BY <2>5, <2>6, <2>8 DEF b
<1> HIDE DEF doors
<1>11. PICK d : SumsUp(doors, Sources, d) /\ Costs!SumFunctionOnSet(doors, Sources) = d[Sources]
  BY <1>1, <1>10, SumHolds
<1>12. d[Sources] = w[Sources] + z[Sources] - y[Sources]
  <2>1. SumsUp(basket, Sources, w) /\ SumsUp(Shares(tax), Sources, z) /\ SumsUp(Shares(off), Sources, y)
    BY <1>3, <1>4
  <2> QED BY ONLY <1>1, <1>10, <1>11, <2>1, SumsAdd
<1> QED BY <1>3, <1>4, <1>11, <1>12 DEF doors, off

-----------------------------------------------------------------------------
(* Pricing: what the prices are of, the quote, and the order placed of it    *)
MoneyFields == {"subtotal", "discount", "onDelivery", "fee", "vat", "credits", "total"}
QuoteFields == {"at", "money", "rate", "surcharge", "version", "dueNow"}
Number(f, d) == f \in DOMAIN d => d[f] \in Nat

\* What administrators set are amounts and percentages, none negative, and an
\* address is in a State; where they start is so, too.
PricesAsked(does) == \A r \in Repricings :
  LET to == does[r].to IN
  /\ does[r].op = "settings" => Number("fee", to) /\ Number("vat", to) /\ Number("surcharge", to)
  /\ does[r].op = "default" => to.fee \in Nat
  /\ does[r].op = "place" => Number("fee", to) \/ to.fee = Costs!Free
  /\ does[r].op = "rule" => does[r].on \in Rules /\ Number("fee", to)
  /\ does[r].op = "coupon" =>
       /\ "kind" \in DOMAIN to => to.kind \in {"percentage", "fixed", "free_delivery"}
       /\ Number("value", to) /\ Number("cap", to)
  /\ does[r].op = "balance" => Number("amount", to) /\ Number("percent", to)
  /\ does[r].op = "address" => to.address \in Places
SettingsFit(s) == {"fee", "vat", "surcharge"} \subseteq DOMAIN s /\ s.fee \in Nat /\ s.vat \in Nat /\ s.surcharge \in Nat
PlacesFit(s) == DOMAIN s = Places /\ \A p \in Places : "fee" \in DOMAIN s[p] /\ s[p].fee \in Nat \cup {Costs!Free}
RulesFit(s) ==
  /\ DOMAIN s = Rules
  /\ \A r \in Rules : {"fee", "version"} \subseteq DOMAIN s[r] /\ s[r].fee \in Nat /\ s[r].version \in Nat
CouponFits(c) ==
  /\ {"kind", "value", "cap"} \subseteq DOMAIN c
  /\ c.kind \in {"percentage", "fixed", "free_delivery"} /\ c.value \in Nat /\ c.cap \in Nat
BalanceFits(b) == {"amount", "percent"} \subseteq DOMAIN b /\ b.amount \in Nat /\ b.percent \in Nat
WishFits(w) ==
  /\ {"coupon", "credits", "address", "method"} \subseteq DOMAIN w
  /\ w.coupon \in BOOLEAN /\ w.credits \in BOOLEAN /\ w.address \in Places
PricesFit(start) ==
  /\ SettingsFit(start.settings) /\ PlacesFit(start.place) /\ RulesFit(start.rule)
  /\ CouponFits(start.coupon) /\ BalanceFits(start.balance) /\ WishFits(start.wish)
  /\ start.basket \in [Sources -> Nat]

AskedFits(does) ==
  /\ DOMAIN asked = Repricings
  /\ \A r \in Repricings :
       /\ DOMAIN asked[r] = {"op", "on", "to", "at", "read"}
       /\ asked[r].op = does[r].op /\ asked[r].on = does[r].on /\ asked[r].to = does[r].to
       /\ asked[r].op = "rule" /\ asked[r].at = "save" => asked[r].read.version \in Nat
PriceTypes(does) ==
  /\ BasketFits /\ SettingsFit(settings) /\ (\A s \in cached : SettingsFit(s))
  /\ PlacesFit(place) /\ RulesFit(rule) /\ CouponFits(coupon) /\ BalanceFits(balance) /\ WishFits(wish)
  /\ AskedFits(does)

\* Money that was computed: what is paid adds up, and a coupon takes no more
\* than the goods, or the delivery.
Computed(money, fee, surcharge) ==
  /\ DOMAIN money = MoneyFields
  /\ money.subtotal = Costs!Subtotal /\ money.onDelivery \in BOOLEAN
  /\ money.discount \in Nat /\ (~money.onDelivery => money.discount <= money.subtotal)
  /\ money.vat \in Nat /\ money.fee = (IF money.onDelivery THEN 0 ELSE fee)
  /\ money.credits \in Int /\ money.total \in Nat
  /\ money.total = money.subtotal - (IF money.onDelivery THEN 0 ELSE money.discount) + money.vat + money.fee
                     + surcharge - money.credits

\* A quote that was shown: Pay on Delivery takes no credit and the delivery
\* in advance, and only it has a surcharge.
Shown ==
  /\ DOMAIN costed = QuoteFields /\ costed.at \in {"shown", "agreed", "refused", "consumed"}
  /\ DOMAIN costed.money = MoneyFields /\ costed.money.credits \in Int
  /\ costed.rate \in Nat /\ costed.surcharge \in Nat
  /\ Costs!Pod => costed.money.credits = 0 /\ costed.dueNow = costed.money.fee + costed.surcharge
  /\ ~Costs!Pod => costed.surcharge = 0
QuoteInv ==
  /\ costed = Costs!NoQuote \/ Shown
  /\ costed.at \in {"agreed", "consumed"} => priced \in Nat /\ Computed(costed.money, priced, costed.surcharge)
  /\ Costs!Placed => costed.at = "consumed" /\ Costs!AskedIsQuoted /\ Costs!FeeIsInForce
PricingInv(does) == PriceTypes(does) /\ QuoteInv

-----------------------------------------------------------------------------
\* Of rules in force, one comes first.
LEMMA FirstRuleIsOne ==
  ASSUME IsFiniteSet(Rules), Rules \subseteq Int, RulesFit(rule), NEW rs, rs \subseteq Rules, rs # {}
  PROVE  Costs!FirstRule(rs) \in rs
<1> DEFINE Before(a, b) == rule[a].version < rule[b].version \/ (rule[a].version = rule[b].version /\ a <= b)
           Good == {T \in SUBSET Rules : T = {} \/ \E r \in T : \A t \in T : Before(t, r)}
<1>0. \A r \in Rules : r \in Int /\ rule[r].version \in Nat BY DEF RulesFit
<1>1. ASSUME NEW T \in SUBSET Rules, \A U \in SUBSET T : U # T => U \in Good PROVE T \in Good
  <2> SUFFICES ASSUME T # {} PROVE \E r \in T : \A t \in T : Before(t, r)
    OBVIOUS
  <2>1. PICK x \in T : TRUE OBVIOUS
  <2>2. T \ {x} \in Good BY <1>1, <2>1
  <2>3. CASE T \ {x} = {}
    <3>1. \A t \in T : t = x BY <2>3
    <3>2. Before(x, x)
      <4>1. x \in Rules BY <2>1
      <4>2. x <= x BY <1>0, <4>1
      <4> QED BY <4>2
    <3> QED BY <2>1, <3>1, <3>2
  <2>4. CASE T \ {x} # {}
    <3>1. PICK y \in T \ {x} : \A t \in T \ {x} : Before(t, y) BY <2>2, <2>4
    <3>2. CASE Before(x, y) BY <3>1, <3>2
    <3>3. CASE ~Before(x, y)
      <4>1. \A t \in T : Before(t, x) BY <1>0, <2>1, <3>1, <3>3
      <4> QED BY <2>1, <4>1
    <3> QED BY <3>2, <3>3
  <2> QED BY <2>3, <2>4
<1> HIDE DEF Good
<1>4. \A T \in SUBSET Rules : T \in Good BY <1>1, SubsetInduction
<1>2. rs \in Good BY <1>4
<1>3. \E r \in rs : \A t \in rs : Before(t, r) BY <1>2 DEF Good
<1> QED BY <1>3 DEF Costs!FirstRule

\* The price of delivery is one.
LEMMA DeliveryHasPrice ==
  ASSUME IsFiniteSet(Rules), Rules \subseteq Int, PlacesFit(place), RulesFit(rule), NEW p \in Places, NEW fee \in Nat
  PROVE  Costs!DeliveryPrice(p, fee).fee \in Nat
<1>1. \A rs \in SUBSET Rules : rs # {} => Costs!RulePrice(rs).fee \in Nat
  BY FirstRuleIsOne DEF Costs!RulePrice, RulesFit
<1>2. \A scope : Costs!InForce(scope) \in SUBSET Rules BY DEF Costs!InForce
<1>3. place[p].fee = Costs!Free \/ place[p].fee \in Nat BY DEF PlacesFit
<1> QED BY <1>1, <1>2, <1>3 DEF Costs!DeliveryPrice

LEMMA SubtotalIsNumber ==
  ASSUME BasketFits
  PROVE  Costs!Subtotal \in Nat
<1>1. IsFiniteSet(Sources) /\ \A g \in Sources : basket[g] \in Nat BY LastOfGroups DEF BasketFits
<1>2. PICK w : SumsUp(basket, Sources, w) /\ Costs!Subtotal = w[Sources]
  BY <1>1, SumHolds DEF Costs!Subtotal
<1> DEFINE p == [g \in Sources |-> (0 * basket[g]) \div 1]
<1>3. \A g \in Sources : p[g] \in Int BY <1>1
<1> HIDE DEF p
<1>4. PICK q : SumsUp(p, Sources, q) /\ TRUE BY <1>1, <1>3, SumHolds
<1>5. w[Sources] \in Nat BY <1>1, <1>2, <1>4, PartsSum DEF p
<1> QED BY <1>2, <1>5

LEMMA MoneyIsComputed ==
  ASSUME BasketFits, CouponFits(coupon), BalanceFits(balance), WishFits(wish),
         NEW fee \in Nat, NEW vat \in Nat, NEW surcharge \in Nat, NEW withCredits \in BOOLEAN
  PROVE  /\ Computed(Costs!Money(fee, vat, surcharge, withCredits), fee, surcharge)
         /\ ~withCredits => Costs!Money(fee, vat, surcharge, withCredits).credits = 0
<1> DEFINE money == Costs!Money(fee, vat, surcharge, withCredits)
           s == Costs!Subtotal
           discount == IF wish.coupon THEN Costs!Discount(fee) ELSE 0
           delivery == wish.coupon /\ coupon.kind = "free_delivery"
           net == IF delivery THEN Costs!Higher(0, fee - discount) ELSE fee
           goods == IF delivery THEN s ELSE s - discount
           tax == Costs!Rounded(goods, vat)
           payable == goods + tax + net + surcharge
           spendable == Costs!Spendable
           credits == IF withCredits THEN Costs!Lower(spendable, payable) ELSE 0
<1>1. s \in Nat BY SubtotalIsNumber
<1>2. \A x, y \in Nat : Costs!Rounded(x, y) \in Nat
  <2> SUFFICES ASSUME NEW x \in Nat, NEW y \in Nat PROVE Costs!Rounded(x, y) \in Nat
    OBVIOUS
  <2> DEFINE z == 2 * x * y + 100
  <2>1. z \in Nat OBVIOUS
  <2> HIDE DEF z
  <2>2. z \div 200 \in Nat BY <2>1
  <2> QED BY <2>2 DEF Costs!Rounded, z
<1>3. spendable \in Int
  <2> DEFINE x == s  y == balance.percent  z == x * y
  <2>1. balance.amount \in Nat /\ x \in Nat /\ y \in Nat BY <1>1 DEF BalanceFits
  <2> HIDE DEF x, y
  <2>2. z \in Nat BY <2>1
  <2> HIDE DEF z
  <2>3. z \div 100 \in Nat BY <2>2
  <2> QED BY <2>1, <2>3 DEF Costs!Spendable, Costs!Lower, x, y, z
<1> HIDE DEF s
<1>4. coupon.kind = "free_delivery" => Costs!Discount(fee) = fee BY DEF Costs!Discount
<1>5. coupon.kind # "free_delivery" => Costs!Discount(fee) \in Nat /\ Costs!Discount(fee) <= s
  <2>1. Costs!Rounded(s, coupon.value) \in Nat /\ coupon.value \in Nat /\ coupon.cap \in Nat BY <1>1, <1>2 DEF CouponFits
  <2>2. CASE coupon.kind = "percentage" BY <1>1, <2>1, <2>2 DEF Costs!Discount, Costs!Lower, s
  <2>3. CASE coupon.kind = "fixed" BY <1>1, <2>1, <2>3 DEF Costs!Discount, Costs!Lower, s
  <2> QED BY <2>2, <2>3 DEF CouponFits
<1>6. discount \in Nat /\ (~delivery => discount <= s) /\ delivery \in BOOLEAN /\ net = (IF delivery THEN 0 ELSE fee)
  BY <1>1, <1>4, <1>5 DEF WishFits, Costs!Higher
<1>7. money = [subtotal |-> s, discount |-> discount, onDelivery |-> delivery, fee |-> net, vat |-> tax,
               credits |-> credits, total |-> payable - credits]
  BY DEF Costs!Money, s
<1> HIDE DEF discount, delivery, net
<1>8. goods \in Nat /\ goods = s - (IF delivery THEN 0 ELSE discount) BY <1>1, <1>6
<1> HIDE DEF goods
<1>9. tax \in Nat /\ net \in Nat BY <1>2, <1>6, <1>8
<1> HIDE DEF tax
<1>10. payable \in Nat BY <1>8, <1>9
<1> HIDE DEF spendable
<1>11. credits \in Int /\ credits <= payable /\ (~withCredits => credits = 0) BY <1>3, <1>10 DEF Costs!Lower
<1> HIDE DEF credits, money
<1>12. money.total \in Nat /\ money.total = goods + tax + net + surcharge - credits BY <1>7, <1>8, <1>9, <1>10, <1>11
<1>13. DOMAIN money = MoneyFields BY <1>7 DEF MoneyFields
<1>14. Computed(money, fee, surcharge) BY <1>1, <1>6, <1>7, <1>8, <1>9, <1>11, <1>12, <1>13 DEF Computed, s
<1> QED BY <1>7, <1>11, <1>14 DEF money

-----------------------------------------------------------------------------
(* Steps: what is set in between, then the quote and the order.              *)
LEMMA QuoteStays ==
  ASSUME QuoteInv, UNCHANGED <<costed, order, priced, basket>>, wish'.method = wish.method
  PROVE  QuoteInv'
<1>1. Costs!Subtotal' = Costs!Subtotal /\ (Costs!Pod' <=> Costs!Pod) BY DEF Costs!Subtotal, Costs!Pod
<1>2. Costs!LeavesEnough' <=> Costs!LeavesEnough BY DEF Costs!LeavesEnough
<1> QED BY <1>1, <1>2 DEF QuoteInv, Shown, Computed, Costs!Placed, Costs!AskedIsQuoted, Costs!FeeIsInForce

LEMMA Merged ==
  ASSUME NEW d, NEW to
  PROVE  /\ DOMAIN Costs!With(d, to) = DOMAIN d
         /\ \A f \in DOMAIN d : Costs!With(d, to)[f] = (IF f \in DOMAIN to THEN to[f] ELSE d[f])
BY DEF Costs!With

LEMMA AskedDone ==
  ASSUME NEW does, AskedFits(does), NEW r \in Repricings, Costs!Done(r)
  PROVE  AskedFits(does)'
<1>1. \A q \in Repricings : asked'[q] = (IF q = r THEN [asked[r] EXCEPT !.at = "done"] ELSE asked[q])
  BY DEF AskedFits, Costs!Done
<1>2. DOMAIN asked' = Repricings BY DEF AskedFits, Costs!Done
<1>3. \A q \in Repricings :
        /\ DOMAIN asked'[q] = DOMAIN asked[q] /\ asked'[q].op = asked[q].op
        /\ asked'[q].on = asked[q].on /\ asked'[q].to = asked[q].to /\ asked'[q].read = asked[q].read
        /\ asked'[q].at = "save" => asked[q].at = "save"
  BY <1>1 DEF AskedFits
<1> QED BY <1>2, <1>3 DEF AskedFits

LEMMA EditSettings ==
  ASSUME NEW does, PricesAsked(does), PriceTypes(does), NEW r \in Repricings,
         Costs!UpdateSettings(r) \/ Costs!UpdateDefaultFee(r)
  PROVE  PriceTypes(does)'
<1>0. AskedFits(does) /\ asked[r].to = does[r].to /\ asked[r].op = does[r].op BY DEF PriceTypes, AskedFits
<1>1. UNCHANGED <<place, rule, coupon, balance, basket, wish>> /\ Costs!Done(r)
  BY DEF Costs!UpdateSettings, Costs!UpdateDefaultFee, Costs!prices
<1>2. AskedFits(does)' BY <1>0, <1>1, AskedDone
<1>3. SettingsFit(settings)'
  <2>1. CASE Costs!UpdateSettings(r)
    <3> DEFINE to == asked[r].to
    <3>1. settings' = Costs!With(settings, to) BY <2>1 DEF Costs!UpdateSettings
    <3>2. Number("fee", to) /\ Number("vat", to) /\ Number("surcharge", to)
      BY <1>0, <2>1 DEF Costs!UpdateSettings, Costs!Due, PricesAsked
    <3> HIDE DEF to
    <3> QED BY <3>1, <3>2, Merged DEF PriceTypes, SettingsFit, Number
  <2>2. CASE Costs!UpdateDefaultFee(r)
    <3>1. asked[r].to.fee \in Nat BY <1>0, <2>2 DEF Costs!UpdateDefaultFee, Costs!Due, PricesAsked
    <3> QED BY <2>2, <3>1 DEF Costs!UpdateDefaultFee, PriceTypes, SettingsFit
  <2> QED BY <2>1, <2>2
<1>4. cached' \subseteq cached BY DEF Costs!UpdateSettings, Costs!UpdateDefaultFee
<1>5. \A s \in cached' : SettingsFit(s) BY <1>4 DEF PriceTypes
<1> QED BY <1>1, <1>2, <1>3, <1>5
        DEF PriceTypes, BasketFits, PlacesFit, RulesFit, CouponFits, BalanceFits, WishFits, SettingsFit

LEMMA EditPlace ==
  ASSUME NEW does, PricesAsked(does), PriceTypes(does), NEW r \in Repricings, Costs!PricePlace(r)
  PROVE  PriceTypes(does)'
<1>0. AskedFits(does) /\ asked[r].to = does[r].to /\ asked[r].op = does[r].op BY DEF PriceTypes, AskedFits
<1>1. UNCHANGED <<settings, cached, rule, coupon, balance, basket, wish>> /\ Costs!Done(r) BY DEF Costs!PricePlace
<1>2. AskedFits(does)' BY <1>0, <1>1, AskedDone
<1> DEFINE to == asked[r].to
<1>3. Number("fee", to) \/ to.fee = Costs!Free BY <1>0 DEF Costs!PricePlace, Costs!Due, PricesAsked
<1>4. place' = [place EXCEPT ![asked[r].on] = Costs!With(@, to)] BY DEF Costs!PricePlace
<1> HIDE DEF to
<1>5. \A p \in Places : place'[p] = place[p] \/ place'[p] = Costs!With(place[p], to) BY <1>4 DEF PriceTypes, PlacesFit
<1>6. \A p \in Places : "fee" \in DOMAIN place'[p] /\ place'[p].fee \in Nat \cup {Costs!Free}
  BY <1>3, <1>5, Merged DEF PriceTypes, PlacesFit, Number
<1>7. DOMAIN place' = Places BY <1>4 DEF PriceTypes, PlacesFit
<1> QED BY <1>1, <1>2, <1>6, <1>7
        DEF PriceTypes, BasketFits, PlacesFit, RulesFit, CouponFits, BalanceFits, WishFits, SettingsFit

LEMMA EditRule ==
  ASSUME NEW does, PricesAsked(does), PriceTypes(does), NEW r \in Repricings,
         Costs!CreateRule(r) \/ Costs!ReadRule(r) \/ Costs!SaveRule(r)
  PROVE  PriceTypes(does)'
<1>0. AskedFits(does) /\ asked[r].to = does[r].to /\ asked[r].op = does[r].op /\ asked[r].on = does[r].on
  BY DEF PriceTypes, AskedFits
<1> DEFINE to == asked[r].to  on == asked[r].on
<1>1. UNCHANGED <<settings, cached, place, coupon, balance, basket, wish>>
  BY DEF Costs!CreateRule, Costs!ReadRule, Costs!SaveRule, Costs!prices
<1>2. on \in Rules /\ Number("fee", to)
  BY <1>0 DEF Costs!CreateRule, Costs!ReadRule, Costs!SaveRule, Costs!Due, PricesAsked
<1> HIDE DEF to
<1>3. RulesFit(rule)'
  <2>0. RulesFit(rule) BY DEF PriceTypes
  <2>1. CASE Costs!CreateRule(r)
    <3>1. rule' = [rule EXCEPT ![on] = [Costs!With(Costs!NoRule, to) EXCEPT !.version = 1]]
      BY <2>1 DEF Costs!CreateRule, to
    <3> DEFINE new == [Costs!With(Costs!NoRule, to) EXCEPT !.version = 1]
    <3>2. {"fee", "version"} \subseteq DOMAIN new /\ new.fee \in Nat /\ new.version \in Nat
      BY <1>2, Merged DEF Costs!NoRule, Number
    <3> HIDE DEF new
    <3>3. rule' = [rule EXCEPT ![on] = new] BY <3>1 DEF new
    <3>4. \A q \in Rules : rule'[q] = (IF q = on THEN new ELSE rule[q]) BY <2>0, <3>3 DEF RulesFit
    <3> QED BY <2>0, <3>2, <3>3, <3>4 DEF RulesFit
  <2>2. CASE Costs!ReadRule(r) BY <2>0, <2>2 DEF Costs!ReadRule, Costs!prices, RulesFit
  <2>3. CASE Costs!SaveRule(r)
    <3>1. rule' = [rule EXCEPT ![on] = [Costs!With(@, to) EXCEPT !.version = asked[r].read.version + 1]]
      BY <2>3 DEF Costs!SaveRule, to
    <3> DEFINE new == [Costs!With(rule[on], to) EXCEPT !.version = asked[r].read.version + 1]
    <3>2. asked[r].read.version \in Nat BY <1>0, <2>3 DEF Costs!SaveRule, AskedFits
    <3>3. {"fee", "version"} \subseteq DOMAIN new /\ new.fee \in Nat /\ new.version \in Nat
      BY <1>2, <2>0, <3>2, Merged DEF RulesFit, Number
    <3> HIDE DEF new
    <3>4. rule' = [rule EXCEPT ![on] = new] BY <1>2, <2>0, <3>1 DEF new, RulesFit
    <3>5. \A q \in Rules : rule'[q] = (IF q = on THEN new ELSE rule[q]) BY <2>0, <3>4 DEF RulesFit
    <3> QED BY <2>0, <3>3, <3>4, <3>5 DEF RulesFit
  <2> QED BY <2>1, <2>2, <2>3
<1>4. AskedFits(does)'
  <2>1. CASE Costs!CreateRule(r) BY <1>0, <2>1, AskedDone DEF Costs!CreateRule
  <2>2. CASE Costs!ReadRule(r) \/ Costs!SaveRule(r)
    <3>1. \A q \in Repricings : q # r => asked'[q] = asked[q] BY <1>0, <2>2 DEF Costs!ReadRule, Costs!SaveRule, AskedFits
    <3>2. DOMAIN asked' = Repricings BY <1>0, <2>2 DEF Costs!ReadRule, Costs!SaveRule, AskedFits
    <3>3. \/ asked'[r] = [asked[r] EXCEPT !.at = "save", !.read = rule[on]]
          \/ asked'[r] = [asked[r] EXCEPT !.at = "done", !.read = Costs!NoRule]
      BY <1>0, <2>2 DEF Costs!ReadRule, Costs!SaveRule, AskedFits
    <3>4. rule[on].version \in Nat BY <1>2 DEF PriceTypes, RulesFit
    <3> HIDE DEF on
    <3>5. /\ DOMAIN asked'[r] = {"op", "on", "to", "at", "read"} /\ asked'[r].op = does[r].op
          /\ asked'[r].on = does[r].on /\ asked'[r].to = does[r].to
          /\ asked'[r].at = "save" => asked'[r].read.version \in Nat
      BY <1>0, <3>3, <3>4 DEF AskedFits
    <3> QED BY <1>0, <3>1, <3>2, <3>5 DEF AskedFits
  <2> QED BY <2>1, <2>2
<1> QED BY <1>1, <1>3, <1>4 DEF PriceTypes, BasketFits, PlacesFit, CouponFits, BalanceFits, WishFits, SettingsFit

LEMMA EditWorth ==
  ASSUME NEW does, PricesAsked(does), PriceTypes(does), NEW r \in Repricings,
         Costs!UpdateCoupon(r) \/ Costs!ChangeBalance(r) \/ Costs!MoveAddress(r)
  PROVE  PriceTypes(does)'
<1>0. AskedFits(does) /\ asked[r].to = does[r].to /\ asked[r].op = does[r].op BY DEF PriceTypes, AskedFits
<1> DEFINE to == asked[r].to
<1>1. UNCHANGED <<settings, cached, place, rule, basket>> /\ Costs!Done(r)
  BY DEF Costs!UpdateCoupon, Costs!ChangeBalance, Costs!MoveAddress, Costs!prices
<1>2. AskedFits(does)' BY <1>0, <1>1, AskedDone
<1>3. CouponFits(coupon)'
  <2>1. coupon' = coupon \/ (asked[r].op = "coupon" /\ coupon' = Costs!With(coupon, to))
    <3>1. CASE Costs!UpdateCoupon(r) BY <3>1 DEF Costs!UpdateCoupon, Costs!Due
    <3>2. CASE Costs!ChangeBalance(r) BY <3>2 DEF Costs!ChangeBalance, Costs!Due
    <3>3. CASE Costs!MoveAddress(r) BY <3>3 DEF Costs!MoveAddress, Costs!prices, Costs!Due
    <3> QED BY <3>1, <3>2, <3>3
  <2>2. asked[r].op = "coupon" =>
          /\ "kind" \in DOMAIN to => to.kind \in {"percentage", "fixed", "free_delivery"}
          /\ Number("value", to) /\ Number("cap", to)
    BY <1>0 DEF PricesAsked
  <2> HIDE DEF to
  <2> QED BY <2>1, <2>2, Merged DEF PriceTypes, CouponFits, Number
<1>4. BalanceFits(balance)'
  <2>1. balance' = balance \/ (asked[r].op = "balance" /\ balance' = Costs!With(balance, to))
    <3>1. CASE Costs!UpdateCoupon(r) BY <3>1 DEF Costs!UpdateCoupon, Costs!Due
    <3>2. CASE Costs!ChangeBalance(r) BY <3>2 DEF Costs!ChangeBalance, Costs!Due
    <3>3. CASE Costs!MoveAddress(r) BY <3>3 DEF Costs!MoveAddress, Costs!prices, Costs!Due
    <3> QED BY <3>1, <3>2, <3>3
  <2>2. asked[r].op = "balance" => Number("amount", to) /\ Number("percent", to) BY <1>0 DEF PricesAsked
  <2> HIDE DEF to
  <2> QED BY <2>1, <2>2, Merged DEF PriceTypes, BalanceFits, Number
<1>5. WishFits(wish)'
  <2>1. wish' = wish \/ (asked[r].op = "address" /\ wish' = [wish EXCEPT !.address = to.address])
    <3>1. CASE Costs!UpdateCoupon(r) BY <3>1 DEF Costs!UpdateCoupon, Costs!Due
    <3>2. CASE Costs!ChangeBalance(r) BY <3>2 DEF Costs!ChangeBalance, Costs!Due
    <3>3. CASE Costs!MoveAddress(r) BY <3>3 DEF Costs!MoveAddress, Costs!prices, Costs!Due
    <3> QED BY <3>1, <3>2, <3>3
  <2>2. asked[r].op = "address" => to.address \in Places BY <1>0 DEF PricesAsked
  <2> HIDE DEF to
  <2> QED BY <2>1, <2>2 DEF PriceTypes, WishFits
<1> QED BY <1>1, <1>2, <1>3, <1>4, <1>5 DEF PriceTypes, BasketFits, PlacesFit, RulesFit, SettingsFit

LEMMA EditKeepsMethod ==
  ASSUME NEW does, PriceTypes(does), NEW r \in Repricings,
         \/ Costs!UpdateSettings(r) \/ Costs!UpdateDefaultFee(r) \/ Costs!PricePlace(r)
         \/ Costs!CreateRule(r) \/ Costs!ReadRule(r) \/ Costs!SaveRule(r)
         \/ Costs!UpdateCoupon(r) \/ Costs!ChangeBalance(r) \/ Costs!MoveAddress(r)
  PROVE  UNCHANGED <<costed, order, priced, basket>> /\ wish'.method = wish.method
<1>1. wish' = wish \/ wish' = [wish EXCEPT !.address = asked[r].to.address]
  BY DEF Costs!UpdateSettings, Costs!UpdateDefaultFee, Costs!PricePlace, Costs!CreateRule, Costs!ReadRule,
         Costs!SaveRule, Costs!UpdateCoupon, Costs!ChangeBalance, Costs!MoveAddress, Costs!prices
<1>2. wish'.method = wish.method BY <1>1 DEF PriceTypes, WishFits
<1>3. UNCHANGED <<costed, order, priced, basket>>
  BY DEF Costs!UpdateSettings, Costs!UpdateDefaultFee, Costs!PricePlace, Costs!CreateRule, Costs!ReadRule,
         Costs!SaveRule, Costs!UpdateCoupon, Costs!ChangeBalance, Costs!MoveAddress, Costs!prices
<1> QED BY <1>2, <1>3

LEMMA KeptSettings ==
  ASSUME NEW does, PriceTypes(does), Costs!GetSettings \/ Costs!SettingsLapse
  PROVE  PriceTypes(does)' /\ UNCHANGED <<costed, order, priced, basket>> /\ wish'.method = wish.method
<1>1. UNCHANGED <<settings, place, rule, coupon, balance, basket, wish, costed, order, priced, asked>>
  BY DEF Costs!GetSettings, Costs!SettingsLapse, Costs!prices
<1>2. \A s \in cached' : SettingsFit(s) BY DEF Costs!GetSettings, Costs!SettingsLapse, PriceTypes
<1> QED BY <1>1, <1>2
        DEF PriceTypes, BasketFits, PlacesFit, RulesFit, CouponFits, BalanceFits, WishFits, SettingsFit, AskedFits

LEMMA TypesStay ==
  ASSUME NEW does, PriceTypes(does), UNCHANGED <<settings, cached, place, rule, coupon, balance, basket, wish, asked>>
  PROVE  PriceTypes(does)'
BY DEF PriceTypes, BasketFits, PlacesFit, RulesFit, CouponFits, BalanceFits, WishFits, SettingsFit, AskedFits

LEMMA PreviewKeeps ==
  ASSUME IsFiniteSet(Rules), Rules \subseteq Int, NEW does, PricingInv(does), Costs!Preview
  PROVE  PricingInv(does)'
<1>0. PriceTypes(does) /\ QuoteInv BY DEF PricingInv
<1>1. /\ costed = Costs!NoQuote
      /\ UNCHANGED <<settings, cached, place, rule, coupon, balance, basket, wish, order, priced, asked>>
  BY DEF Costs!Preview, Costs!prices
<1>2. PriceTypes(does)' BY <1>0, <1>1, TypesStay
<1> DEFINE price(s) == Costs!DeliveryPrice(wish.address, s.fee)
           surcharge(s) == IF Costs!Pod THEN s.surcharge ELSE 0
           money(s) == Costs!Money(price(s).fee, s.vat, surcharge(s), wish.credits)
<1>3. PICK s \in cached :
        /\ wish.credits => ~Costs!Pod
        /\ costed' = [at |-> "shown", money |-> money(s), rate |-> s.vat, surcharge |-> surcharge(s),
                      version |-> price(s).version, dueNow |-> IF Costs!Pod THEN money(s).fee + surcharge(s) ELSE 0]
  BY DEF Costs!Preview
<1>4. s.fee \in Nat /\ s.vat \in Nat /\ surcharge(s) \in Nat BY <1>0 DEF PriceTypes, SettingsFit
<1>5. price(s).fee \in Nat BY <1>0, <1>4, DeliveryHasPrice DEF PriceTypes, WishFits
<1>6. /\ Computed(money(s), price(s).fee, surcharge(s))
      /\ ~wish.credits => money(s).credits = 0
  BY <1>0, <1>4, <1>5, MoneyIsComputed DEF PriceTypes, WishFits
<1>7. ~Costs!Placed' BY <1>0, <1>1 DEF QuoteInv, Costs!Placed, Costs!NoQuote
<1> HIDE DEF money, price
<1>8. DOMAIN money(s) = MoneyFields /\ money(s).credits \in Int BY <1>6 DEF Computed
<1>9. Costs!Pod' <=> Costs!Pod BY <1>1 DEF Costs!Pod
<1>10. Shown' BY <1>3, <1>4, <1>6, <1>8, <1>9 DEF Shown, QuoteFields
<1>11. costed'.at = "shown" BY <1>3
<1>12. QuoteInv' BY <1>7, <1>10, <1>11 DEF QuoteInv
<1> QED BY <1>2, <1>12 DEF PricingInv

LEMMA ConfirmKeeps ==
  ASSUME IsFiniteSet(Rules), Rules \subseteq Int, NEW does, PricingInv(does), Costs!Confirm
  PROVE  PricingInv(does)'
<1>0. PriceTypes(does) /\ QuoteInv BY DEF PricingInv
<1>1. /\ costed.at = "shown"
      /\ UNCHANGED <<settings, cached, place, rule, coupon, balance, basket, wish, order, asked>>
  BY DEF Costs!Confirm, Costs!prices
<1>2. PriceTypes(does)' BY <1>0, <1>1, TypesStay
<1>3. Shown /\ ~Costs!Placed BY <1>0, <1>1 DEF QuoteInv, Costs!NoQuote
<1>4. ~Costs!Placed' BY <1>1, <1>3 DEF Costs!Placed
<1> DEFINE now(s) == Costs!PriceNow(s).fee
           money(s) == Costs!CurrentMoney(s)
           agreed(s) == /\ place[wish.address].delivers
                        /\ Costs!CurrentPrice(s).version = costed.version
                        /\ Costs!Subtotal >= s.minimum
                        /\ wish.coupon => Costs!CouponHolds
                        /\ Costs!SameMoney(money(s))
<1>5. PICK s \in cached :
        /\ priced' = now(s)
        /\ costed' = [costed EXCEPT !.at = IF agreed(s) THEN "agreed" ELSE "refused",
                                    !.money.onDelivery = money(s).onDelivery]
  BY DEF Costs!Confirm
<1>6. s.fee \in Nat BY <1>0 DEF PriceTypes, SettingsFit
<1>7. now(s) \in Nat BY <1>0, <1>6, DeliveryHasPrice DEF PriceTypes, WishFits, Costs!PriceNow
<1>8. Computed(money(s), now(s), costed.surcharge)
  <2>1. (costed.money.credits > 0) \in BOOLEAN BY <1>3 DEF Shown
  <2>2. costed.rate \in Nat /\ costed.surcharge \in Nat BY <1>3 DEF Shown
  <2>3. money(s) = Costs!Money(now(s), costed.rate, costed.surcharge, costed.money.credits > 0)
    BY DEF Costs!CurrentMoney, Costs!CurrentPrice
  <2> HIDE DEF money, now
  <2> QED BY <1>0, <1>7, <2>1, <2>2, <2>3, MoneyIsComputed DEF PriceTypes
<1>9. agreed(s) => \A f \in MoneyFields \ {"onDelivery"} : money(s)[f] = costed.money[f]
  BY DEF Costs!SameMoney, MoneyFields
<1> HIDE DEF money, now, agreed
<1>10. /\ DOMAIN costed' = QuoteFields /\ DOMAIN costed'.money = MoneyFields
       /\ costed'.at \in {"agreed", "refused"} /\ (costed'.at = "agreed" => agreed(s))
       /\ costed'.rate = costed.rate /\ costed'.surcharge = costed.surcharge /\ costed'.dueNow = costed.dueNow
       /\ costed'.money.onDelivery = money(s).onDelivery
       /\ \A f \in MoneyFields \ {"onDelivery"} : costed'.money[f] = costed.money[f]
  BY <1>3, <1>5 DEF Shown, QuoteFields, MoneyFields
<1>11. Shown'
  <2>1. Costs!Pod' <=> Costs!Pod BY <1>1 DEF Costs!Pod
  <2>2. costed'.money.credits = costed.money.credits /\ costed'.money.fee = costed.money.fee BY <1>10 DEF MoneyFields
  <2> QED BY <1>3, <1>10, <2>1, <2>2 DEF Shown
<1>12. ASSUME costed'.at = "agreed" PROVE Computed(costed.money, priced, costed.surcharge)'
  <2>1. \A f \in MoneyFields : costed'.money[f] = money(s)[f] BY <1>9, <1>10, <1>12
  <2>2. Costs!Subtotal' = Costs!Subtotal BY <1>1 DEF Costs!Subtotal
  <2>3. /\ costed'.money.subtotal = money(s).subtotal /\ costed'.money.discount = money(s).discount
        /\ costed'.money.onDelivery = money(s).onDelivery /\ costed'.money.fee = money(s).fee
        /\ costed'.money.vat = money(s).vat /\ costed'.money.credits = money(s).credits
        /\ costed'.money.total = money(s).total
    BY <2>1 DEF MoneyFields
  <2> QED BY <1>5, <1>8, <1>10, <2>2, <2>3 DEF Computed
<1>13. QuoteInv' BY <1>4, <1>5, <1>7, <1>10, <1>11, <1>12 DEF QuoteInv
<1> QED BY <1>2, <1>13 DEF PricingInv

LEMMA CommitKeeps ==
  ASSUME NEW does, PricingInv(does), Costs!Commit
  PROVE  PricingInv(does)'
<1>0. PriceTypes(does) /\ QuoteInv BY DEF PricingInv
<1>1. /\ costed.at = "agreed" /\ costed' = [costed EXCEPT !.at = "consumed"]
      /\ UNCHANGED <<settings, cached, place, rule, coupon, balance, basket, wish, priced, asked>>
  BY DEF Costs!Commit, Costs!prices
<1>2. PriceTypes(does)' BY <1>0, <1>1, TypesStay
<1>3. Shown /\ priced \in Nat /\ Computed(costed.money, priced, costed.surcharge) BY <1>0, <1>1 DEF QuoteInv, Costs!NoQuote
<1>4. /\ DOMAIN costed' = QuoteFields /\ costed'.at = "consumed" /\ costed'.money = costed.money
      /\ costed'.rate = costed.rate /\ costed'.surcharge = costed.surcharge /\ costed'.dueNow = costed.dueNow
  BY <1>1, <1>3 DEF Shown, QuoteFields
<1>5. (Costs!Pod' <=> Costs!Pod) /\ Costs!Subtotal' = Costs!Subtotal /\ (Costs!LeavesEnough' <=> Costs!LeavesEnough)
  BY <1>1, <1>4 DEF Costs!Pod, Costs!Subtotal, Costs!LeavesEnough
<1>6. Shown' BY <1>3, <1>4, <1>5 DEF Shown
<1>7. Computed(costed.money, priced, costed.surcharge)' BY <1>1, <1>3, <1>4, <1>5 DEF Computed
<1> DEFINE money == costed.money
           off == IF money.onDelivery THEN 0 ELSE money.discount
           doors == Costs!SumFunctionOnSet([g \in Sources |-> Costs!AtTheDoor(g)], Sources)
<1>8. /\ order'.fee = money.fee
      /\ order'.asks = (IF Costs!Pod THEN doors + costed.dueNow ELSE Costs!Online)
  BY DEF Costs!Commit
<1>9. /\ money.subtotal = Costs!Subtotal /\ Costs!Subtotal \in Nat /\ money.onDelivery \in BOOLEAN
      /\ money.discount \in Nat /\ (~money.onDelivery => money.discount <= Costs!Subtotal)
      /\ money.vat \in Nat /\ money.fee = (IF money.onDelivery THEN 0 ELSE priced) /\ money.fee \in Nat
      /\ money.credits \in Int /\ money.total \in Nat
      /\ money.total = money.subtotal - off + money.vat + money.fee + costed.surcharge - money.credits
  BY <1>0, <1>3, SubtotalIsNumber DEF Computed, PriceTypes
<1>10. Costs!FeeIsInForce' BY <1>1, <1>4, <1>8, <1>9 DEF Costs!FeeIsInForce
<1>11. ASSUME money.onDelivery \/ Costs!LeavesEnough PROVE order'.asks = money.total
  <2>1. CASE Costs!Pod
    <3>1. doors = Costs!Subtotal + money.vat - off BY <1>0, <1>9, <1>11, DoorsAddUp DEF PriceTypes
    <3>2. money.credits = 0 /\ costed.dueNow = money.fee + costed.surcharge /\ costed.surcharge \in Nat
      BY <1>3, <2>1 DEF Shown
    <3>3. off \in Nat BY <1>9
    <3> HIDE DEF money, off, doors
    <3> QED BY <1>8, <1>9, <2>1, <3>1, <3>2, <3>3
  <2>2. CASE ~Costs!Pod
    <3>1. costed.surcharge = 0 BY <1>3, <2>2 DEF Shown
    <3>2. Costs!Online = Costs!Higher(0, money.subtotal + money.vat + money.fee - off - money.credits) BY DEF Costs!Online
    <3>3. off \in Nat BY <1>9
    <3> HIDE DEF money, off
    <3>4. money.subtotal + money.vat + money.fee - off - money.credits = money.total BY <1>9, <3>1, <3>3
    <3> QED BY <1>8, <1>9, <2>2, <3>2, <3>4 DEF Costs!Higher
  <2> QED BY <2>1, <2>2
<1>12. Costs!AskedIsQuoted' BY <1>4, <1>5, <1>11 DEF Costs!AskedIsQuoted
<1>13. QuoteInv' BY <1>1, <1>3, <1>4, <1>6, <1>7, <1>10, <1>12 DEF QuoteInv
<1> QED BY <1>2, <1>13 DEF PricingInv

\* What is paid is what was quoted, at the fee in force at the confirmation,
\* for any settings, rules, coupons, baskets and changes of them in between
\* (preview, confirm and the shares of the groups, checkout.service.ts).
THEOREM PricingQuoteIsKept ==
  ASSUME NEW start, NEW does, PricesFit(start), PricesAsked(does),
         Sources # {}, \E n \in Nat : Sources = 1..n, IsFiniteSet(Rules), Rules \subseteq Int
  PROVE  Costs!Init(start, does) /\ [][Costs!Next]_pricingVars => []QuoteIsKept
<1>1. Costs!Init(start, does) => PricingInv(does)
  <2> SUFFICES ASSUME Costs!Init(start, does) PROVE PricingInv(does)
    OBVIOUS
  <2>1. AskedFits(does) BY DEF Costs!Init, AskedFits
  <2>2. PriceTypes(does) BY <2>1 DEF Costs!Init, PriceTypes, PricesFit, BasketFits
  <2>3. QuoteInv BY DEF Costs!Init, QuoteInv, Costs!NoQuote, Costs!Placed
  <2> QED BY <2>2, <2>3 DEF PricingInv
<1>2. PricingInv(does) /\ [Costs!Next]_pricingVars => PricingInv(does)'
  <2> SUFFICES ASSUME PricingInv(does), [Costs!Next]_pricingVars PROVE PricingInv(does)'
    OBVIOUS
  <2>0. PriceTypes(does) /\ QuoteInv BY DEF PricingInv
  <2>1. CASE UNCHANGED pricingVars
    <3>1. PriceTypes(does)' BY <2>0, <2>1, TypesStay DEF pricingVars
    <3>2. QuoteInv' BY <2>0, <2>1, QuoteStays DEF pricingVars
    <3> QED BY <3>1, <3>2 DEF PricingInv
  <2>2. CASE Costs!GetSettings \/ Costs!SettingsLapse BY <2>0, <2>2, KeptSettings, QuoteStays DEF PricingInv
  <2>3. CASE Costs!Preview BY <2>3, PreviewKeeps
  <2>4. CASE Costs!Confirm BY <2>4, ConfirmKeeps
  <2>5. CASE Costs!Commit BY <2>5, CommitKeeps
  <2>6. ASSUME NEW r \in Repricings,
               \/ Costs!UpdateSettings(r) \/ Costs!UpdateDefaultFee(r) \/ Costs!PricePlace(r)
               \/ Costs!CreateRule(r) \/ Costs!ReadRule(r) \/ Costs!SaveRule(r)
               \/ Costs!UpdateCoupon(r) \/ Costs!ChangeBalance(r) \/ Costs!MoveAddress(r)
        PROVE  PricingInv(does)'
    <3>1. UNCHANGED <<costed, order, priced, basket>> /\ wish'.method = wish.method BY <2>0, <2>6, EditKeepsMethod
    <3>2. QuoteInv' BY <2>0, <3>1, QuoteStays
    <3>3. PriceTypes(does)' BY <2>0, <2>6, EditSettings, EditPlace, EditRule, EditWorth
    <3> QED BY <3>2, <3>3 DEF PricingInv
  <2> QED BY <2>1, <2>2, <2>3, <2>4, <2>5, <2>6 DEF Costs!Next
<1>3. PricingInv(does) => QuoteIsKept
  BY DEF PricingInv, QuoteInv, QuoteIsKept, Costs!AskedIsQuoted, Costs!FeeIsInForce
<1> QED BY <1>1, <1>2, <1>3, PTL

-----------------------------------------------------------------------------
(* Discovery: the products in the order of the query, and a page of them      *)

\* Products are numbered, their values are numbers, and a page has one at least.
ShelfFits == Shelf \subseteq Nat \ {0} /\ IsFiniteSet(Shelf) /\ Worths \subseteq Int /\ PageSize \in Nat \ {0}

LEMMA OnTheShelf == ASSUME ShelfFits PROVE Shelf \subseteq Int /\ 0 \notin Shelf /\ Worths \subseteq Int
<1>1. \A n \in Nat \ {0} : n \in Int /\ n # 0 OBVIOUS
<1> QED BY <1>1 DEF ShelfFits

LEMMA NumbersOf ==
  ASSUME ShelfFits, NEW in \in Walk!Listings, NEW x \in Shelf
  PROVE  in[x].value \in Int /\ x \in Int /\ x # 0
<1>1. in[x] \in [listed : BOOLEAN, value : Worths] BY DEF Walk!Listings
<1>2. in[x].value \in Worths BY <1>1
<1> QED BY <1>2, OnTheShelf

LEMMA QueryOrders ==
  ASSUME ShelfFits, NEW in \in Walk!Listings, NEW by, NEW p \in Shelf, NEW q \in Shelf, NEW r \in Shelf
  PROVE  /\ ~Walk!Precedes(in, by, p, p)
         /\ Walk!Precedes(in, by, p, q) => ~Walk!Precedes(in, by, q, p)
         /\ Walk!Precedes(in, by, p, q) /\ Walk!Precedes(in, by, q, r) => Walk!Precedes(in, by, p, r)
         /\ p # q => Walk!Precedes(in, by, p, q) \/ Walk!Precedes(in, by, q, p)
<1>2. in[p].value \in Int /\ in[q].value \in Int /\ in[r].value \in Int /\ p \in Int /\ q \in Int /\ r \in Int
  BY NumbersOf
<1> QED BY <1>2 DEF Walk!Precedes

\* Whoever is in the order is there once, after those before it.
Ordered(in, by, S, all) ==
  /\ Cardinality(S) \in Nat /\ all \in [1..Cardinality(S) -> S]
  /\ \A p \in S : \E n \in 1..Cardinality(S) : all[n] = p
  /\ \A m, n \in 1..Cardinality(S) : m < n => Walk!Precedes(in, by, all[m], all[n])

LEMMA InOrderIsOrdered ==
  ASSUME ShelfFits, NEW in \in Walk!Listings, NEW by, NEW S, S \subseteq Shelf
  PROVE  Ordered(in, by, S, Walk!InOrder(in, by, S))
<1> DEFINE Upto(p) == {q \in S : ~Walk!Precedes(in, by, p, q)}
           size == Cardinality(S)
           rank == [p \in S |-> Cardinality(Upto(p))]
           all == Walk!InOrder(in, by, S)
<1>1. IsFiniteSet(S) /\ size \in Nat BY FS_Subset, FS_CardinalityType DEF ShelfFits
<1>2. ASSUME NEW p \in S PROVE IsFiniteSet(Upto(p)) /\ rank[p] \in 1..size /\ p \in Upto(p)
  <2>1. p \in Upto(p) /\ Upto(p) \subseteq S BY QueryOrders
  <2>2. IsFiniteSet(Upto(p)) /\ Cardinality(Upto(p)) <= size BY <1>1, <2>1, FS_Subset
  <2>3. Cardinality(Upto(p)) \in Nat /\ Cardinality(Upto(p)) # 0 BY <2>1, <2>2, FS_CardinalityType, FS_EmptySet
  <2> QED BY <1>1, <2>1, <2>2, <2>3
<1>3. ASSUME NEW p \in S, NEW q \in S, Walk!Precedes(in, by, p, q) PROVE rank[p] < rank[q]
  <2>1. Upto(p) \subseteq Upto(q)
    <3> SUFFICES ASSUME NEW r \in S, ~Walk!Precedes(in, by, p, r), Walk!Precedes(in, by, q, r) PROVE FALSE
      OBVIOUS
    <3> QED BY <1>3, QueryOrders
  <2>2. q \in Upto(q) /\ q \notin Upto(p) BY <1>2, <1>3
  <2>3. Upto(p) # Upto(q) BY <2>2
  <2> HIDE DEF Upto
  <2>4. IsFiniteSet(Upto(p)) /\ IsFiniteSet(Upto(q)) BY <1>2
  <2>5. Cardinality(Upto(p)) < Cardinality(Upto(q)) BY <2>1, <2>3, <2>4, FS_Subset, FS_CardinalityType
  <2> QED BY <2>5
<1> HIDE DEF rank
<1>4. ASSUME NEW p \in S, NEW q \in S, rank[p] = rank[q] PROVE p = q
  <2>1. \A r \in S : rank[r] \in 1..size BY <1>2
  <2>2. rank[p] \in Int /\ rank[q] \in Int BY <1>1, <2>1
  <2>3. ~(rank[p] < rank[q]) /\ ~(rank[q] < rank[p]) BY <1>4, <2>2
  <2>4. ~Walk!Precedes(in, by, p, q) /\ ~Walk!Precedes(in, by, q, p) BY <1>3, <2>3
  <2> QED BY <2>4, QueryOrders
<1>5. \A n \in 1..size : \E p \in S : rank[p] = n
  <2>1. rank \in [S -> 1..size] BY <1>2 DEF rank
  <2>2. rank \in Injection(S, 1..size) BY <1>4, <2>1 DEF Injection, IsInjective
  <2>3. IsFiniteSet(1..size) /\ Cardinality(1..size) = size BY <1>1, FS_Interval
  <2>4. rank \in Surjection(S, 1..size) BY <2>2, <2>3, FS_Injection
  <2> QED BY <2>4 DEF Surjection
<1>6. \A p \in S : rank[p] = Cardinality({q \in S : ~Walk!Precedes(in, by, p, q)}) BY DEF rank
<1>7. all = [n \in 1..size |-> CHOOSE p \in S : Cardinality({q \in S : ~Walk!Precedes(in, by, p, q)}) = n]
  BY DEF Walk!InOrder, Walk!Cardinality, Cardinality
<1>8. ASSUME NEW n \in 1..size PROVE all[n] \in S /\ rank[all[n]] = n
  <2> DEFINE Found(p) == Cardinality({q \in S : ~Walk!Precedes(in, by, p, q)}) = n
  <2>1. all[n] = CHOOSE p \in S : Found(p) BY <1>7
  <2>2. \E p \in S : Found(p) BY <1>5, <1>6
  <2>3. \A p \in S : Found(p) => rank[p] = n BY <1>6
  <2> HIDE DEF Found, all
  <2>4. all[n] \in S /\ Found(all[n]) BY <2>1, <2>2
  <2> QED BY <2>3, <2>4
<1>9. all \in [1..size -> S] BY <1>7, <1>8
<1> HIDE DEF all
<1>10. ASSUME NEW p \in S PROVE \E n \in 1..size : all[n] = p
  <2>1. rank[p] \in 1..size BY <1>2
  <2>2. all[rank[p]] = p BY <1>4, <1>8, <2>1
  <2> QED BY <2>1, <2>2
<1>11. ASSUME NEW m \in 1..size, NEW n \in 1..size, m < n PROVE Walk!Precedes(in, by, all[m], all[n])
  <2>1. rank[all[m]] = m /\ rank[all[n]] = n /\ all[m] \in S /\ all[n] \in S BY <1>8
  <2>2. all[m] # all[n] /\ ~Walk!Precedes(in, by, all[n], all[m])
    <3>1. ~(n < m) BY <1>1, <1>11
    <3>2. m # n BY <1>1, <1>11
    <3> QED BY <1>3, <2>1, <3>1, <3>2
  <2> QED BY <2>1, <2>2, QueryOrders
<1> QED BY <1>1, <1>9, <1>10, <1>11 DEF Ordered, all

\* A page of a walk with a cursor: what the filter leaves, or the first of it.
Filter(in) ==
  {p \in Shelf : in[p].listed /\ (walk.cursor = Walk!NoCursor \/ Walk!Beyond(in, walk.by, walk.cursor, p))}
More(in) == Len(Walk!Rows(in)) > PageSize
Page(in) == SubSeq(Walk!Rows(in), 1, IF More(in) THEN PageSize ELSE Len(Walk!Rows(in)))

LEMMA PageOfCursor ==
  ASSUME ShelfFits, NEW in \in Walk!Listings, walk.by # "offset"
  PROVE  /\ Page(in) \in Seq(Filter(in))
         /\ \A m, n \in DOMAIN Page(in) : Page(in)[m] = Page(in)[n] => m = n
         /\ ~More(in) => \A p \in Filter(in) : \E n \in DOMAIN Page(in) : Page(in)[n] = p
         /\ More(in) =>
              /\ Len(Page(in)) = PageSize /\ Page(in)[PageSize] \in Filter(in)
              /\ \A p \in Filter(in) :
                   (\E n \in DOMAIN Page(in) : Page(in)[n] = p) <=> ~Walk!Precedes(in, walk.by, Page(in)[PageSize], p)
<1> DEFINE S == Filter(in)
           size == Cardinality(S)
           all == Walk!InOrder(in, walk.by, S)
           end == IF PageSize + 1 < size THEN PageSize + 1 ELSE size
           k == IF size > PageSize THEN PageSize ELSE size
<1>1. S \subseteq Shelf BY DEF Filter
<1>2. Ordered(in, walk.by, S, all) BY <1>1, InOrderIsOrdered
<1>3. Walk!Rows(in) = SubSeq(all, 0 + 1, IF 0 + PageSize + 1 < Len(all) THEN 0 + PageSize + 1 ELSE Len(all))
  BY DEF Walk!Rows, Filter
<1> HIDE DEF all, S
<1>4. size \in Nat /\ all \in Seq(S) /\ Len(all) = size /\ DOMAIN all = 1..size BY <1>2 DEF Ordered
<1>5. PageSize \in Nat \ {0} BY DEF ShelfFits
<1>6. /\ Walk!Rows(in) \in Seq(S) /\ Len(Walk!Rows(in)) = end
      /\ \A n \in 1..end : Walk!Rows(in)[n] = all[n]
  <2>1. Walk!Rows(in) = SubSeq(all, 1, end) BY <1>3, <1>4, <1>5
  <2>2. end \in 0..size BY <1>4, <1>5
  <2> QED BY <1>4, <2>1, <2>2, SubSeqProperties
<1>7. More(in) <=> size > PageSize BY <1>4, <1>5, <1>6 DEF More
<1>8. /\ Page(in) \in Seq(S) /\ Len(Page(in)) = k /\ DOMAIN Page(in) = 1..k
      /\ \A n \in 1..k : Page(in)[n] = all[n]
  <2>1. Page(in) = SubSeq(Walk!Rows(in), 1, k) BY <1>4, <1>5, <1>6, <1>7 DEF Page
  <2>2. k \in 0..end BY <1>4, <1>5
  <2>3. Page(in) \in Seq(S) /\ Len(Page(in)) = k /\ \A n \in 1..k : Page(in)[n] = Walk!Rows(in)[n]
    BY <1>6, <2>1, <2>2, SubSeqProperties
  <2>4. \A n \in 1..k : n \in 1..end BY <1>4, <1>5
  <2> QED BY <1>6, <2>3, <2>4
<1>9. k \in Nat /\ k <= size BY <1>4, <1>5
<1>10. \A m, n \in 1..size : all[m] = all[n] => m = n
  <2> SUFFICES ASSUME NEW m \in 1..size, NEW n \in 1..size, all[m] = all[n], m # n PROVE FALSE
    OBVIOUS
  <2>1. m < n \/ n < m BY <1>4
  <2>2. all[m] \in Shelf BY <1>1, <1>2 DEF Ordered
  <2> QED BY <1>2, <2>1, <2>2, QueryOrders DEF Ordered
<1>11. \A m, n \in DOMAIN Page(in) : Page(in)[m] = Page(in)[n] => m = n
  <2>1. \A m \in 1..k : m \in 1..size BY <1>4, <1>9
  <2> QED BY <1>8, <1>10, <2>1
<1>12. ASSUME ~More(in) PROVE \A p \in S : \E n \in DOMAIN Page(in) : Page(in)[n] = p
  <2>1. k = size BY <1>4, <1>7, <1>12
  <2> QED BY <1>2, <1>8, <2>1 DEF Ordered
<1>13. ASSUME More(in)
       PROVE  /\ Len(Page(in)) = PageSize /\ Page(in)[PageSize] \in S
              /\ \A p \in S :
                   (\E n \in DOMAIN Page(in) : Page(in)[n] = p) <=> ~Walk!Precedes(in, walk.by, Page(in)[PageSize], p)
  <2>1. k = PageSize /\ k \in 1..size BY <1>4, <1>5, <1>7, <1>13
  <2>2. Page(in)[PageSize] = all[k] /\ all[k] \in S BY <1>2, <1>8, <2>1 DEF Ordered
  <2>3. ASSUME NEW p \in S
        PROVE  (\E n \in 1..k : all[n] = p) <=> ~Walk!Precedes(in, walk.by, all[k], p)
    <3>1. PICK n \in 1..size : all[n] = p BY <1>2 DEF Ordered
    <3>2. CASE n <= k
      <4>1. n \in 1..k BY <3>2
      <4>2. n = k \/ n < k BY <1>4, <1>9, <3>2
      <4>3. all[n] \in Shelf /\ all[k] \in Shelf BY <1>1, <2>2, <3>1
      <4>4. ~Walk!Precedes(in, walk.by, all[k], all[n]) BY <1>2, <2>1, <4>2, <4>3, QueryOrders DEF Ordered
      <4> QED BY <3>1, <4>1, <4>4
    <3>3. CASE k < n
      <4>1. Walk!Precedes(in, walk.by, all[k], all[n]) BY <1>2, <2>1, <3>3 DEF Ordered
      <4>2. ASSUME NEW m \in 1..k, all[m] = p PROVE FALSE
        <5>1. m \in 1..size BY <1>4, <1>9
        <5>2. m = n BY <1>10, <3>1, <4>2, <5>1
        <5> QED BY <1>9, <3>3, <5>2
      <4> QED BY <3>1, <4>1, <4>2
    <3> QED BY <1>4, <1>9, <3>2, <3>3
  <2> QED BY <1>8, <2>1, <2>2, <2>3
<1> QED BY <1>8, <1>11, <1>12, <1>13 DEF S

-----------------------------------------------------------------------------
(* Whatever stayed is among what was shown exactly if the cursor is past it. *)
PassedBy(in, p) == ~Walk!Beyond(in, walk.by, walk.cursor, p)
HasSeen(p) == \E n \in DOMAIN walk.shown : walk.shown[n] = p
SeenOnce(p) == \A m, n \in DOMAIN walk.shown : walk.shown[m] = p /\ walk.shown[n] = p => m = n

WalkInv ==
  /\ items \in Walk!Listings /\ pages \in Walk!Listings /\ stayed \subseteq Shelf
  /\ \A p \in stayed : items[p].listed /\ pages[p] = items[p]
  /\ DOMAIN walk = {"by", "cursor", "shown", "over"}
  /\ walk.by # "offset" =>
       /\ walk.shown \in Seq(Shelf) /\ walk.over \in BOOLEAN
       /\ \A p \in stayed : SeenOnce(p) /\ (walk.over => HasSeen(p))
       /\ walk.cursor = Walk!NoCursor /\ ~walk.over => walk.shown = <<>>
       /\ walk.cursor.value \in Int /\ walk.cursor.id \in Int
       /\ walk.cursor # Walk!NoCursor => \A p \in stayed : HasSeen(p) <=> PassedBy(items, p)

LEMMA CursorGoesOn ==
  ASSUME ShelfFits, NEW in \in Walk!Listings, NEW by, NEW c, c.value \in Int, c.id \in Int,
         NEW p \in Shelf, NEW q \in Shelf, Walk!Beyond(in, by, c, q), ~Walk!Beyond(in, by, c, p)
  PROVE  ~Walk!Precedes(in, by, q, p)
<1>2. in[p].value \in Int /\ in[q].value \in Int /\ p \in Int /\ q \in Int BY NumbersOf
<1> QED BY <1>2 DEF Walk!Precedes, Walk!Beyond

LEMMA WalkStarts == ASSUME ShelfFits, Walk!Init PROVE WalkInv
<1>1. PICK by \in {"asc", "desc", "offset"} :
        walk = [by |-> by, cursor |-> Walk!NoCursor, shown |-> <<>>, over |-> FALSE]
  BY DEF Walk!Init
<1>2. /\ DOMAIN walk = {"by", "cursor", "shown", "over"} /\ walk.shown = <<>> /\ ~walk.over
      /\ walk.over \in BOOLEAN /\ walk.cursor = Walk!NoCursor
  BY <1>1
<1>3. items \in Walk!Listings /\ pages = items /\ stayed = {p \in Shelf : items[p].listed} BY DEF Walk!Init
<1>4. walk.shown \in Seq(Shelf) /\ DOMAIN walk.shown = {} /\ walk.cursor.value = 0 /\ walk.cursor.id = 0
  BY <1>2 DEF Walk!NoCursor
<1> QED BY <1>2, <1>3, <1>4 DEF WalkInv, HasSeen, SeenOnce

\* A page of the catalogue as it is, or as of an earlier one, takes the walk on.
LEMMA WalkGoesOn ==
  ASSUME ShelfFits, WalkInv, NEW in, in = items \/ in = pages, Walk!NextPage(in)
  PROVE  WalkInv'
<1> DEFINE page == Page(in)
           last == page[PageSize]
<1>1. in \in Walk!Listings /\ \A p \in stayed : in[p] = items[p] /\ in[p].listed /\ p \in Shelf BY DEF WalkInv
<1>2. /\ ~walk.over /\ UNCHANGED <<items, pages, updates, stayed>>
      /\ walk' = [walk EXCEPT !.shown = walk.shown \o page, !.over = ~More(in),
           !.cursor = IF More(in) THEN [value |-> in[last].value, id |-> last] ELSE Walk!NoCursor]
  BY DEF Walk!NextPage, Page, More
<1> HIDE DEF page
<1>3. /\ DOMAIN walk' = {"by", "cursor", "shown", "over"} /\ walk'.by = walk.by
      /\ walk'.shown = walk.shown \o page /\ walk'.over = ~More(in)
      /\ walk'.cursor = IF More(in) THEN [value |-> in[last].value, id |-> last] ELSE Walk!NoCursor
  BY <1>2 DEF WalkInv
<1>4. CASE walk.by = "offset" BY <1>2, <1>3, <1>4 DEF WalkInv
<1>5. CASE walk.by # "offset"
  <2>1. /\ page \in Seq(Filter(in))
        /\ \A m, n \in DOMAIN page : page[m] = page[n] => m = n
        /\ ~More(in) => \A p \in Filter(in) : \E n \in DOMAIN page : page[n] = p
        /\ More(in) =>
             /\ Len(page) = PageSize /\ last \in Filter(in)
             /\ \A p \in Filter(in) :
                  (\E n \in DOMAIN page : page[n] = p) <=> ~Walk!Precedes(in, walk.by, last, p)
    BY <1>1, <1>5, PageOfCursor DEF page
  <2>2. Filter(in) \subseteq Shelf BY DEF Filter
  <2>3. walk.shown \in Seq(Shelf) /\ page \in Seq(Shelf) BY <1>5, <2>1, <2>2 DEF WalkInv
  <2> DEFINE s == walk.shown \o page
  <2>4. /\ s \in Seq(Shelf) /\ Len(walk.shown) \in Nat /\ Len(page) \in Nat
        /\ DOMAIN s = 1..(Len(walk.shown) + Len(page))
        /\ DOMAIN walk.shown = 1..Len(walk.shown) /\ DOMAIN page = 1..Len(page)
        /\ \A n \in DOMAIN s : s[n] = IF n <= Len(walk.shown) THEN walk.shown[n] ELSE page[n - Len(walk.shown)]
    BY <2>3
  <2>5. \A p \in stayed : p \in Filter(in) <=> ~HasSeen(p)
    <3> SUFFICES ASSUME NEW p \in stayed PROVE p \in Filter(in) <=> ~HasSeen(p)
      OBVIOUS
    <3>1. CASE walk.cursor = Walk!NoCursor
      <4>1. walk.shown = <<>> BY <1>2, <1>5, <3>1 DEF WalkInv
      <4>2. DOMAIN walk.shown = {} BY <4>1
      <4> QED BY <1>1, <3>1, <4>2 DEF Filter, HasSeen
    <3>2. CASE walk.cursor # Walk!NoCursor
      <4>1. HasSeen(p) <=> ~Walk!Beyond(items, walk.by, walk.cursor, p) BY <1>5, <3>2 DEF WalkInv, PassedBy
      <4>2. Walk!Beyond(items, walk.by, walk.cursor, p) = Walk!Beyond(in, walk.by, walk.cursor, p)
        BY <1>1 DEF Walk!Beyond
      <4> QED BY <1>1, <3>2, <4>1, <4>2 DEF Filter
    <3> QED BY <3>1, <3>2
  <2>6. \A p : (\E n \in DOMAIN s : s[n] = p) <=> HasSeen(p) \/ \E n \in DOMAIN page : page[n] = p
    <3> SUFFICES ASSUME NEW p
                 PROVE  (\E n \in DOMAIN s : s[n] = p) <=> HasSeen(p) \/ \E n \in DOMAIN page : page[n] = p
      OBVIOUS
    <3>1. ASSUME NEW n \in DOMAIN s, s[n] = p PROVE HasSeen(p) \/ \E m \in DOMAIN page : page[m] = p
      <4>1. CASE n <= Len(walk.shown) BY <2>4, <3>1, <4>1 DEF HasSeen
      <4>2. CASE ~(n <= Len(walk.shown))
        <5>1. n - Len(walk.shown) \in DOMAIN page /\ page[n - Len(walk.shown)] = p BY <2>4, <3>1, <4>2
        <5> QED BY <5>1
      <4> QED BY <4>1, <4>2
    <3>2. ASSUME NEW n \in DOMAIN walk.shown, walk.shown[n] = p PROVE \E m \in DOMAIN s : s[m] = p
      <4>1. n \in DOMAIN s /\ s[n] = p BY <2>4, <3>2
      <4> QED BY <4>1
    <3>3. ASSUME NEW n \in DOMAIN page, page[n] = p PROVE \E m \in DOMAIN s : s[m] = p
      <4>1. n + Len(walk.shown) \in DOMAIN s /\ s[n + Len(walk.shown)] = p BY <2>4, <3>3
      <4> QED BY <4>1
    <3> QED BY <3>1, <3>2, <3>3 DEF HasSeen
  <2>7. ASSUME NEW p \in stayed PROVE \A m, n \in DOMAIN s : s[m] = p /\ s[n] = p => m = n
    <3> SUFFICES ASSUME NEW m \in DOMAIN s, NEW n \in DOMAIN s, s[m] = p, s[n] = p PROVE m = n
      OBVIOUS
    <3> DEFINE Old(x) == x <= Len(walk.shown)
    <3>1. m \in Int /\ n \in Int BY <2>4
    <3>2. ASSUME NEW x \in {m, n}, Old(x) PROVE x \in DOMAIN walk.shown /\ walk.shown[x] = p
      BY <2>4, <3>2
    <3>3. ASSUME NEW x \in {m, n}, ~Old(x)
          PROVE  x - Len(walk.shown) \in DOMAIN page /\ page[x - Len(walk.shown)] = p
      BY <2>4, <3>3
    <3>4. ASSUME NEW x \in DOMAIN page, page[x] = p PROVE ~HasSeen(p)
      <4>1. p \in Filter(in) BY <2>1, <3>4
      <4> QED BY <2>5, <4>1
    <3> HIDE DEF Old
    <3>5. CASE Old(m) /\ Old(n) BY <1>5, <3>2, <3>5 DEF WalkInv, SeenOnce
    <3>6. CASE ~Old(m) /\ ~Old(n)
      <4>1. m - Len(walk.shown) = n - Len(walk.shown) BY <2>1, <3>3, <3>6
      <4> QED BY <2>4, <3>1, <4>1
    <3>7. ASSUME NEW x \in {m, n}, NEW y \in {m, n}, Old(x), ~Old(y) PROVE FALSE
      <4>1. HasSeen(p) BY <3>2, <3>7 DEF HasSeen
      <4>2. ~HasSeen(p) BY <3>3, <3>4, <3>7
      <4> QED BY <4>1, <4>2
    <3>8. CASE Old(m) /\ ~Old(n) BY <3>7, <3>8
    <3>9. CASE ~Old(m) /\ Old(n) BY <3>7, <3>9
    <3> QED BY <3>5, <3>6, <3>8, <3>9
  <2> HIDE DEF s
  <2>8. walk'.shown = s /\ (\A p : HasSeen(p)' <=> HasSeen(p) \/ \E n \in DOMAIN page : page[n] = p)
        /\ \A p \in stayed : SeenOnce(p)'
    BY <1>3, <2>6, <2>7 DEF s, HasSeen, SeenOnce
  <2>9. CASE ~More(in)
    <3>1. \A p \in stayed : HasSeen(p)' BY <2>1, <2>5, <2>8, <2>9
    <3>2. walk'.cursor = Walk!NoCursor /\ walk'.cursor.value = 0 /\ walk'.cursor.id = 0
      BY <1>3, <2>9 DEF Walk!NoCursor
    <3>3. walk'.shown \in Seq(Shelf) /\ walk'.over \in BOOLEAN /\ (~walk'.over => walk'.shown = <<>>)
      BY <1>3, <2>4, <2>8, <2>9 DEF s
    <3> QED BY <1>2, <1>3, <2>8, <3>1, <3>2, <3>3 DEF WalkInv
  <2>10. CASE More(in)
    <3>1. last \in Shelf /\ last \in Int /\ last # 0 BY <2>1, <2>2, <2>10, OnTheShelf
    <3>2. walk'.cursor = [value |-> in[last].value, id |-> last] BY <1>3, <2>10
    <3>3. walk'.cursor # Walk!NoCursor
      <4>1. walk'.cursor.id = last /\ Walk!NoCursor.id = 0 BY <3>2 DEF Walk!NoCursor
      <4> QED BY <3>1, <4>1
    <3>4. ASSUME NEW p \in stayed PROVE HasSeen(p)' <=> PassedBy(items, p)'
      <4>1. p \in Shelf /\ p \in Int BY <1>1, OnTheShelf
      <4>2. Walk!Beyond(items, walk.by, walk.cursor, p)' <=> Walk!Precedes(in, walk.by, last, p)
        <5>1. Walk!Beyond(items, walk.by, walk.cursor, p)' <=> Walk!Beyond(in, walk.by, walk'.cursor, p)
          BY <1>1, <1>2, <1>3 DEF Walk!Beyond
        <5>2. walk'.cursor.value = in[last].value /\ walk'.cursor.id = last BY <3>2
        <5>3. in[p].value \in Int /\ in[last].value \in Int
          BY <1>1, <3>1, <4>1, NumbersOf
        <5> QED BY <3>1, <4>1, <5>1, <5>2, <5>3 DEF Walk!Beyond, Walk!Precedes
      <4>3. CASE p \in Filter(in) BY <2>1, <2>5, <2>8, <2>10, <4>2, <4>3 DEF PassedBy
      <4>4. CASE p \notin Filter(in)
        <5>1. HasSeen(p) /\ HasSeen(p)' BY <2>5, <2>8, <4>4
        <5>2. walk.cursor # Walk!NoCursor /\ ~Walk!Beyond(in, walk.by, walk.cursor, p)
          BY <1>1, <4>1, <4>4 DEF Filter
        <5>3. Walk!Beyond(in, walk.by, walk.cursor, last) BY <2>1, <2>10, <5>2 DEF Filter
        <5>4. ~Walk!Precedes(in, walk.by, last, p)
          <6>1. walk.cursor.value \in Int /\ walk.cursor.id \in Int BY <1>5, <5>2 DEF WalkInv
          <6> QED BY <1>1, <3>1, <4>1, <5>2, <5>3, <6>1, CursorGoesOn
        <5> QED BY <4>2, <5>1, <5>4 DEF PassedBy
      <4> QED BY <4>3, <4>4
    <3>5. walk'.cursor.value \in Int /\ walk'.cursor.id \in Int
      <4>1. in[last].value \in Int BY <1>1, <3>1, NumbersOf
      <4> QED BY <3>1, <3>2, <4>1
    <3>6. walk'.shown \in Seq(Shelf) /\ walk'.over \in BOOLEAN /\ ~walk'.over
      BY <1>3, <2>4, <2>8, <2>10 DEF s
    <3> QED BY <1>2, <1>3, <2>8, <3>3, <3>4, <3>5, <3>6 DEF WalkInv
  <2> QED BY <2>9, <2>10
<1> QED BY <1>4, <1>5

\* A change of the catalogue, or of what is cached of it, takes from what stayed.
LEMMA WalkKept ==
  ASSUME ShelfFits, WalkInv, [Walk!Next]_discoveryVars
  PROVE  WalkInv'
<1>1. CASE Walk!NextPage(items) \/ Walk!NextPage(pages) BY <1>1, WalkGoesOn
<1>2. ASSUME NEW p \in Shelf, NEW to \in [listed : BOOLEAN, value : Worths], Walk!Update(p, to) PROVE WalkInv'
  <2>1. /\ items' = [items EXCEPT ![p] = to] /\ stayed' = stayed \ {p} /\ walk' = walk /\ pages' = pages
    BY <1>2 DEF Walk!Update
  <2>2. items' \in Walk!Listings BY <2>1 DEF WalkInv, Walk!Listings
  <2>3. \A q \in stayed' : q \in stayed /\ items'[q] = items[q] BY <2>1 DEF WalkInv, Walk!Listings
  <2>4. \A q \in stayed' : PassedBy(items, q)' = PassedBy(items, q) BY <2>1, <2>3 DEF PassedBy, Walk!Beyond
  <2>5. \A q : HasSeen(q)' = HasSeen(q) /\ SeenOnce(q)' = SeenOnce(q) BY <2>1 DEF HasSeen, SeenOnce
  <2> QED BY <2>1, <2>2, <2>3, <2>4, <2>5 DEF WalkInv
<1>3. CASE Walk!Store
  <2>1. pages' = items /\ UNCHANGED <<items, walk, stayed>> BY <1>3 DEF Walk!Store
  <2>2. \A q : HasSeen(q)' = HasSeen(q) /\ SeenOnce(q)' = SeenOnce(q) /\ PassedBy(items, q)' = PassedBy(items, q)
    BY <2>1 DEF HasSeen, SeenOnce, PassedBy, Walk!Beyond
  <2> QED BY <2>1, <2>2 DEF WalkInv
<1>4. CASE UNCHANGED discoveryVars
  <2>1. UNCHANGED <<items, pages, walk, stayed>> BY <1>4 DEF discoveryVars
  <2>2. \A q : HasSeen(q)' = HasSeen(q) /\ SeenOnce(q)' = SeenOnce(q) /\ PassedBy(items, q)' = PassedBy(items, q)
    BY <2>1 DEF HasSeen, SeenOnce, PassedBy, Walk!Beyond
  <2> QED BY <2>1, <2>2 DEF WalkInv
<1> QED BY <1>1, <1>2, <1>3, <1>4 DEF Walk!Next

LEMMA WalkedOnceOf == ASSUME WalkInv PROVE WalkedOnce
BY DEF WalkInv, WalkedOnce, Walk!ShownOnce, Walk!ShownAt, HasSeen, SeenOnce

\* A walk with cursors shows each product that was listed and unchanged all the
\* while once, and none of them is left out when the walk is over, whatever
\* happens to the others and whichever of the pages come from the cache
\* (public-catalog.controller.ts's cursor and order).
THEOREM DiscoveryWalkedOnce ==
  ASSUME ShelfFits
  PROVE  Walk!Init /\ [][Walk!Next]_discoveryVars => []WalkedOnce
<1>1. Walk!Init => WalkInv BY WalkStarts
<1>2. WalkInv /\ [Walk!Next]_discoveryVars => WalkInv' BY WalkKept
<1>3. WalkInv => WalkedOnce BY WalkedOnceOf
<1> QED BY <1>1, <1>2, <1>3, PTL
============================================================================
