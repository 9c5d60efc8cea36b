------------------------------ MODULE Pricing ------------------------------
(***************************************************************************)
(* What an order costs: CheckoutService computes the money once for the     *)
(* quote a customer is shown (preview) and once more when he confirms, from *)
(* the commerce settings, the price of delivery, a coupon and Hook credit;  *)
(* administrators change each of these in between.  CommerceSettings are    *)
(* kept for some seconds by the process that serves the checkout.  Amounts  *)
(* are whole numbers of the minor unit; one customer, one quote, one order. *)
(***************************************************************************)
EXTENDS Integers, FiniteSets, Functions

CONSTANTS
  Places,   \* the States of delivery
  Rules,    \* identities of DeliveryPricingRules, in the order of creation
  Sources,  \* the groups of the basket: 1 .. n
  Requests  \* requests of administrators and of the customer

VARIABLES
  settings, \* CommerceSettings: fee, vat, surcharge, minimum, pod, podMinimum, policies
  cached,   \* what the process keeps of it: a set of at most one record
  place,    \* [Places -> the State: fee (none: Free), pod, delivers]
  rule,     \* [Rules -> scope, fee, status, version]
  coupon,   \* kind, value, cap, status, minimum
  balance,  \* the customer's Hook credit, and the percentage he may spend
  basket,   \* [Sources -> subtotal]
  wish,     \* how he checks out: method, coupon, credits, policies, address
  quote,    \* the CheckoutPreview
  order,    \* the Order and what its Payments ask
  priced,   \* the delivery price that was in force when confirm looked
  asked     \* [Requests -> op, what is to be set, at]

pricingVars == <<settings, cached, place, rule, coupon, balance, basket, wish, quote, order, priced, asked>>
prices == <<place, rule, coupon, balance, basket>>

Free == -1   \* no price of its own
NoRule == [scope |-> "none", fee |-> 0, status |-> "none", version |-> 0]
NoQuote == [at |-> "none"]
NoOrder == [at |-> "none"]

Init(start, requests) ==
  /\ settings = start.settings /\ place = start.place /\ rule = start.rule /\ coupon = start.coupon
  /\ balance = start.balance /\ basket = start.basket /\ wish = start.wish
  /\ cached = {} /\ quote = NoQuote /\ order = NoOrder /\ priced = 0
  /\ asked = [r \in Requests |-> [op |-> requests[r].op, on |-> requests[r].on, to |-> requests[r].to, at |-> "start", read |-> NoRule]]

With(d, set) == [f \in DOMAIN d |-> IF f \in DOMAIN set THEN set[f] ELSE d[f]]
Lower(a, b) == IF a < b THEN a ELSE b
Higher(a, b) == IF a > b THEN a ELSE b
Rounded(x, percent) == (2 * x * percent + 100) \div 200
Subtotal == SumFunctionOnSet(basket, Sources)

-----------------------------------------------------------------------------
(* The price of delivery: a State's own, then its rule, then the general    *)
(* rule, then the default fee                                               *)
InForce(scope) == {r \in Rules : rule[r].scope = scope /\ rule[r].status = "active"}
(* the rule that was edited most often, of two the newer one                *)
FirstRule(rs) == CHOOSE r \in rs : \A s \in rs :
  rule[s].version < rule[r].version \/ (rule[s].version = rule[r].version /\ s <= r)
RulePrice(rs) == LET r == FirstRule(rs) IN [fee |-> rule[r].fee, version |-> <<"rule", r, rule[r].version>>]
DeliveryPrice(p, default) ==
  IF place[p].fee # Free THEN [fee |-> place[p].fee, version |-> <<"state", p, place[p].fee>>]
  ELSE IF InForce(p) # {} THEN RulePrice(InForce(p))
  ELSE IF InForce("global") # {} THEN RulePrice(InForce("global"))
  ELSE [fee |-> default, version |-> <<"fallback", 1, 1>>]

-----------------------------------------------------------------------------
(* The money of a quote and of an order                                     *)
CouponHolds == coupon.status = "active" /\ Subtotal >= coupon.minimum
Discount(fee) ==
  CASE coupon.kind = "percentage" -> Lower(Lower(Rounded(Subtotal, coupon.value), coupon.cap), Subtotal)
    [] coupon.kind = "fixed" -> Lower(coupon.value, Subtotal)
    [] coupon.kind = "free_delivery" -> fee
Spendable == Lower(balance.amount, (Subtotal * balance.percent) \div 100)
Money(fee, vat, surcharge, withCredits) ==
  LET discount == IF wish.coupon THEN Discount(fee) ELSE 0
      delivery == wish.coupon /\ coupon.kind = "free_delivery"
      net == IF delivery THEN Higher(0, fee - discount) ELSE fee
      goods == IF delivery THEN Subtotal ELSE Subtotal - discount
      tax == Rounded(goods, vat)
      payable == goods + tax + net + surcharge
      credits == IF withCredits THEN Lower(Spendable, payable) ELSE 0 IN
  [subtotal |-> Subtotal, discount |-> discount, onDelivery |-> delivery, fee |-> net, vat |-> tax,
   credits |-> credits, total |-> payable - credits]

(* How Pay on Delivery is allowed: the value of the order without the       *)
(* surcharge                                                                *)
Pod == wish.method = "PAY_AT_HANDOVER"
PodAllowed(s, money) ==
  /\ s.pod /\ place[wish.address].pod
  /\ money.subtotal - (IF money.onDelivery THEN 0 ELSE money.discount) + money.vat + money.fee >= s.podMinimum

-----------------------------------------------------------------------------
(* CommerceSettings as they are read                                        *)
GetSettings ==
  /\ cached = {} /\ cached' = {settings}
  /\ UNCHANGED <<settings, prices, wish, quote, order, priced, asked>>
SettingsLapse ==
  /\ cached # {} /\ cached' = {}
  /\ UNCHANGED <<settings, prices, wish, quote, order, priced, asked>>

Preview ==
  /\ quote = NoQuote
  /\ \E s \in cached :
       LET price == DeliveryPrice(wish.address, s.fee)
           surcharge == IF Pod THEN s.surcharge ELSE 0
           money == Money(price.fee, s.vat, surcharge, wish.credits) IN
       /\ place[wish.address].delivers
       /\ wish.policies = s.policies
       /\ Subtotal >= s.minimum
       /\ wish.coupon => CouponHolds
       /\ wish.credits => ~Pod
       /\ Pod => PodAllowed(s, money)
       /\ quote' = [at |-> "shown", money |-> money, rate |-> s.vat, surcharge |-> surcharge,
                    version |-> price.version,
                    dueNow |-> IF Pod THEN money.fee + surcharge ELSE 0]
  /\ UNCHANGED <<settings, cached, prices, wish, order, priced, asked>>

(* confirm: what was quoted is computed again; the rate of the tax and the  *)
(* surcharge are those of the quote                                         *)
PriceNow(s) == DeliveryPrice(wish.address, s.fee)
(* mutant: the same version means the same price                            *)
QuotedPrice(s) == [PriceNow(s) EXCEPT !.fee = quote.money.fee]
CurrentPrice(s) == PriceNow(s)
CurrentMoney(s) == Money(CurrentPrice(s).fee, quote.rate, quote.surcharge, quote.money.credits > 0)
(* mutant: only what is paid in the end is compared                         *)
SameTotal(money) == money.total = quote.money.total
SameMoney(money) == \A f \in {"subtotal", "vat", "fee", "discount", "credits", "total"} : money[f] = quote.money[f]

Confirm ==
  /\ quote.at = "shown"
  /\ \E s \in cached :
       LET money == CurrentMoney(s)
           agreed == /\ place[wish.address].delivers
                     /\ CurrentPrice(s).version = quote.version
                     /\ Subtotal >= s.minimum
                     /\ wish.coupon => CouponHolds
                     /\ SameMoney(money) IN
       /\ priced' = PriceNow(s).fee
       /\ quote' = [quote EXCEPT !.at = IF agreed THEN "agreed" ELSE "refused", !.money.onDelivery = money.onDelivery]
  /\ UNCHANGED <<settings, cached, prices, wish, order, asked>>

(* The parts of an amount: rounded down, the last group has the rest        *)
Last == CHOOSE g \in Sources : \A h \in Sources : h <= g
Parts(total) == [g \in Sources |-> (total * basket[g]) \div Higher(quote.money.subtotal, 1)]
Share(total, g) ==
  IF g = Last THEN total - SumFunctionOnSet(Parts(total), Sources \ {Last}) ELSE Parts(total)[g]
(* what the payment of a group asks at the door                             *)
AtTheDoor(g) == Higher(0, basket[g] + Share(quote.money.vat, g)
                          - (IF quote.money.onDelivery THEN 0 ELSE Share(quote.money.discount, g)))
(* what the one payment of a prepaid order asks                             *)
Online == Higher(0, quote.money.subtotal + quote.money.vat + quote.money.fee
                    - (IF quote.money.onDelivery THEN 0 ELSE quote.money.discount) - quote.money.credits)
Commit ==
  /\ quote.at = "agreed"
  /\ quote' = [quote EXCEPT !.at = "consumed"]
  /\ order' = [at |-> "placed", total |-> quote.money.total, fee |-> quote.money.fee, method |-> wish.method,
               asks |-> IF Pod THEN SumFunctionOnSet([g \in Sources |-> AtTheDoor(g)], Sources) + quote.dueNow
                        ELSE Online]
  /\ UNCHANGED <<settings, cached, prices, wish, priced, asked>>

-----------------------------------------------------------------------------
(* What changes in between                                                  *)
Due(r, op) == asked[r].op = op /\ asked[r].at = "start"
Done(r) == asked' = [asked EXCEPT ![r].at = "done"]

(* updatePodConfig and updateCheckoutSettings forget what this process kept *)
UpdateSettings(r) ==
  /\ Due(r, "settings")
  /\ settings' = With(settings, asked[r].to)
  /\ \E here \in BOOLEAN : cached' = IF here THEN {} ELSE cached
  /\ Done(r) /\ UNCHANGED <<prices, wish, quote, order, priced>>
(* the default price of delivery: what was kept stays                       *)
UpdateDefaultFee(r) ==
  /\ Due(r, "default")
  /\ settings' = [settings EXCEPT !.fee = asked[r].to.fee]
  /\ Done(r) /\ UNCHANGED <<cached, prices, wish, quote, order, priced>>
PricePlace(r) ==
  /\ Due(r, "place")
  /\ place' = [place EXCEPT ![asked[r].on] = With(@, asked[r].to)]
  /\ Done(r) /\ UNCHANGED <<settings, cached, rule, coupon, balance, basket, wish, quote, order, priced>>

CreateRule(r) ==
  /\ Due(r, "rule") /\ rule[asked[r].on] = NoRule
  /\ asked[r].to.scope \in Places \cup {"global"}
  /\ rule' = [rule EXCEPT ![asked[r].on] = [With(NoRule, asked[r].to) EXCEPT !.version = 1]]
  /\ Done(r) /\ UNCHANGED <<settings, cached, place, coupon, balance, basket, wish, quote, order, priced>>
(* read, then saved: what the request names, and one edit more than was read *)
ReadRule(r) ==
  /\ Due(r, "rule") /\ rule[asked[r].on] # NoRule
  /\ asked' = [asked EXCEPT ![r] = [@ EXCEPT !.at = "save", !.read = rule[asked[r].on]]]
  /\ UNCHANGED <<settings, cached, prices, wish, quote, order, priced>>
SaveRule(r) ==
  /\ asked[r].op = "rule" /\ asked[r].at = "save"
  /\ rule' = [rule EXCEPT ![asked[r].on] = [With(@, asked[r].to) EXCEPT !.version = asked[r].read.version + 1]]
  /\ asked' = [asked EXCEPT ![r] = [@ EXCEPT !.at = "done", !.read = NoRule]]
  /\ UNCHANGED <<settings, cached, place, coupon, balance, basket, wish, quote, order, priced>>

UpdateCoupon(r) ==
  /\ Due(r, "coupon")
  /\ coupon' = With(coupon, asked[r].to)
  /\ Done(r) /\ UNCHANGED <<settings, cached, place, rule, balance, basket, wish, quote, order, priced>>
(* credit is granted or spent elsewhere, or its share of a basket changes   *)
ChangeBalance(r) ==
  /\ Due(r, "balance")
  /\ balance' = With(balance, asked[r].to)
  /\ Done(r) /\ UNCHANGED <<settings, cached, place, rule, coupon, basket, wish, quote, order, priced>>
(* the address, under the same identity, moves to another State             *)
MoveAddress(r) ==
  /\ Due(r, "address")
  /\ wish' = [wish EXCEPT !.address = asked[r].to.address]
  /\ Done(r) /\ UNCHANGED <<settings, cached, prices, quote, order, priced>>

Next ==
  \/ GetSettings \/ SettingsLapse \/ Preview \/ Confirm \/ Commit
  \/ \E r \in Requests :
       \/ UpdateSettings(r) \/ UpdateDefaultFee(r) \/ PricePlace(r)
       \/ CreateRule(r) \/ ReadRule(r) \/ SaveRule(r)
       \/ UpdateCoupon(r) \/ ChangeBalance(r) \/ MoveAddress(r)

-----------------------------------------------------------------------------
Placed == order # NoOrder

(* What the payments of an order ask is what the quote showed as its total, *)
(* whatever changed in between: always of one group or two, and of more as  *)
(* long as the coupon leaves of the last one, which has what is lost by     *)
(* rounding, one unit for each group but two.                               *)
LeavesEnough ==
  basket[Last] * (quote.money.subtotal - quote.money.discount) >=
    (Cardinality(Sources) - 2) * quote.money.subtotal
AskedIsQuoted ==
  Placed /\ (quote.money.onDelivery \/ LeavesEnough) => order.asks = quote.money.total

(* An order pays the price of delivery that was in force when it was        *)
(* confirmed, unless its coupon pays it.                                    *)
FeeIsInForce == Placed => order.fee = (IF quote.money.onDelivery THEN 0 ELSE priced)

(* The payments add up however much the coupon takes.                       *)
AlwaysAddsUp == Placed => order.asks = quote.money.total
(* Pay on Delivery is only given where it is allowed.                       *)
PodIsAllowed == quote.at = "agreed" /\ Pod => settings.pod /\ place[wish.address].pod
(* The default price is the one of the settings.                            *)
DefaultIsCurrent == quote.at = "agreed" /\ quote.version[1] = "fallback" => priced = settings.fee
=============================================================================
