------------------------------ MODULE Checkout ------------------------------
(***************************************************************************)
(* From a cart to an order and back: the line in a cart, the previews      *)
(* taken of it, the requests that confirm a preview, the orders they       *)
(* create, and what an order takes and a cancellation gives back: a        *)
(* negotiated quote, a use of a coupon, Hook credit.                       *)
(*                                                                         *)
(* A confirmation reads for a while (Lookup, Review) and then commits in   *)
(* one transaction (Commit), which is one action: its conflicts are        *)
(* retried until it commits alone.  An order is named after the request    *)
(* that created it.  A cart holds one line, of one product; there is one   *)
(* coupon.                                                                 *)
(***************************************************************************)
EXTENDS Integers, FiniteSets

CONSTANTS Customers, Carts, Quotes, Previews, Keys, Requests,
          Owner,        \* Owner[c]: whom the cart c is for
          Assisted,     \* the carts a partner fills
          QuotedTo,     \* QuotedTo[q]: the customer of a quote
          QuoteQty,     \* the quantity quotes are for
          Grant,        \* Grant[u]: the Hook credit a customer starts with
          Cap,          \* the most credit one order may use
          Coin,         \* the credit an order earns when it is paid
          TotalLimit,   \* the coupon's totalUsageLimit, 0 for none
          PerUserLimit, \* the coupon's perUserLimit
          Uses,         \* bound: what clients do, some of "coupon", "credit" and "payment"
          MaxQty,       \* bound: quantity of a line (99 in the code)
          MaxVersion,   \* bound: version of a cart
          MaxLapses,    \* bound: quotes and previews that expire
          MaxLost,      \* bound: confirmations and restorations that are cut short
          None

ASSUME OwnerAssumption ==
  /\ Owner \in [Carts -> Customers] /\ Assisted \subseteq Carts
  /\ QuotedTo \in [Quotes -> Customers]
ASSUME AmountAssumption ==
  /\ Grant \in [Customers -> Nat] /\ Cap \in Nat /\ Coin \in Nat
  /\ QuoteQty \in Nat \ {0} /\ MaxQty \in Nat
  /\ TotalLimit \in Nat /\ PerUserLimit \in Nat \ {0}
ASSUME BoundAssumption == MaxVersion \in Nat /\ MaxLapses \in Nat /\ MaxLost \in Nat

VARIABLES
  cart,       \* the carts
  quote,      \* the negotiated quotes
  preview,    \* the checkout previews, None before they are taken
  request,    \* the confirmations and how far they are
  order,      \* the orders, None before they are created
  redemption, \* the CouponRedemption of an order
  usedCount,  \* the coupon's usedCount
  ledger,     \* the sum of a customer's CreditLedger entries
  returned,   \* whether an order's credit has its order_refund entry
  coin,       \* the order_earn entries of an order
  admin,      \* an administrator's cancellation of an order and how far it is
  lapses, lost

shopVars == <<cart, quote, preview>>
incentiveVars == <<redemption, usedCount, ledger, returned, coin>>
vars == <<shopVars, request, order, incentiveVars, admin, lapses, lost>>

\* A line is what it sells, how many, and the quote that prices it.
Lines == [qty : 0..MaxQty, quote : Quotes \cup {None}]
NoLine == [qty |-> 0, quote |-> None]
\* edit: a change of the line is written and the version not yet counted up
CartRecords == [version : Nat, line : Lines, edit : BOOLEAN]
QuoteRecords == [status : {"ACTIVE", "USED", "EXPIRED"}, lapsed : BOOLEAN,
                 usedBy : Requests \cup {None}]
PreviewRecords == [cart : Carts, version : Nat, line : Lines, coupon : BOOLEAN,
                   credits : Nat, lapsed : BOOLEAN, consumedBy : Requests \cup {None}]
\* payer: a confirmation of the payment read the order while it stood and has yet to commit, or
\* committed late, when the order was cancelled
Payers == {"none", "read", "late"}
OrderRecords == [key : Keys, preview : Previews, cart : Carts, line : Lines,
                 coupon : BOOLEAN, credits : Nat, cancelled : BOOLEAN,
                 paid : BOOLEAN, payer : Payers]
\* answer: an order, or refused, conflict (another's key), rejected (the catalogue moved), lost
Answers == Requests \cup {"none", "refused", "conflict", "rejected", "lost"}
RequestRecords == [step : {"idle", "review", "commit", "done"}, key : Keys \cup {None},
                   preview : Previews \cup {None}, answer : Answers]
AdminSteps == {"none", "save", "credits", "coin", "quote", "coupon", "count", "done", "failed"}

ASSUME AnswerAssumption ==
  Requests \cap {"none", "refused", "conflict", "rejected", "lost"} = {}
ASSUME NoneAssumption == /\ None \notin Quotes \cup Requests \cup Keys \cup Previews
                         /\ None \notin PreviewRecords \cup OrderRecords

TypeOK ==
  /\ cart \in [Carts -> CartRecords]
  /\ quote \in [Quotes -> QuoteRecords]
  /\ preview \in [Previews -> PreviewRecords \cup {None}]
  /\ request \in [Requests -> RequestRecords]
  /\ order \in [Requests -> OrderRecords \cup {None}]
  /\ redemption \in [Requests -> {"none", "applied", "released"}] /\ usedCount \in Nat
  /\ ledger \in [Customers -> Int]
  /\ returned \in [Requests -> BOOLEAN]
  /\ coin \in [Requests -> {"none", "earned", "reversed"}]
  /\ admin \in [Requests -> AdminSteps]
  /\ lapses \in Nat /\ lost \in Nat

Init ==
  /\ cart = [c \in Carts |-> [version |-> 1, line |-> NoLine, edit |-> FALSE]]
  /\ quote = [q \in Quotes |-> [status |-> "ACTIVE", lapsed |-> FALSE, usedBy |-> None]]
  /\ preview = [p \in Previews |-> None]
  /\ request = [r \in Requests |->
                  [step |-> "idle", key |-> None, preview |-> None, answer |-> "none"]]
  /\ order = [r \in Requests |-> None]
  /\ redemption = [r \in Requests |-> "none"] /\ usedCount = 0
  /\ ledger = Grant
  /\ returned = [r \in Requests |-> FALSE] /\ coin = [r \in Requests |-> "none"]
  /\ admin = [r \in Requests |-> "none"]
  /\ lapses = 0 /\ lost = 0

-----------------------------------------------------------------------------
Ordered == {o \in Requests : order[o] # None}
Standing == {o \in Ordered : ~order[o].cancelled}
CustomerOf(o) == Owner[order[o].cart]
Applied == {o \in Requests : redemption[o] = "applied"}

\* CreditService.balance: never below zero, whatever the entries sum to.
Balance(u) == IF ledger[u] < 0 THEN 0 ELSE ledger[u]
Spendable(u) == IF Balance(u) < Cap THEN Balance(u) ELSE Cap

Usable(q) == quote[q].status = "ACTIVE" /\ ~quote[q].lapsed

\* CouponService.validate: the two limits, counted outside any transaction.
CouponValid(u) ==
  /\ TotalLimit = 0 \/ usedCount < TotalLimit
  /\ Cardinality({o \in Applied : CustomerOf(o) = u}) < PerUserLimit

\* CheckoutService.revalidateLines
LineValid(u, line) ==
  /\ line.qty > 0
  /\ line.quote # None =>
       Usable(line.quote) /\ QuotedTo[line.quote] = u /\ line.qty = QuoteQty

-----------------------------------------------------------------------------
(* CartService: a mutation writes the line, and then counts the version up. *)

Edit(c, line) ==
  /\ ~cart[c].edit /\ cart[c].version < MaxVersion
  /\ line.qty <= MaxQty
  /\ cart' = [cart EXCEPT ![c].line = line, ![c].edit = TRUE]
  /\ UNCHANGED <<quote, preview, request, order, incentiveVars, admin, lapses, lost>>

\* addItem without a quote: a quoted line falls back to the list price.
AddItem(c) == Edit(c, [qty |-> cart[c].line.qty + 1, quote |-> None])

\* addItem with a quote: the quote's quantity, not an increment.
AddQuoted(c, q) ==
  /\ Usable(q) /\ QuotedTo[q] = Owner[c]
  /\ Edit(c, [qty |-> QuoteQty, quote |-> q])

\* updateItem: another quantity than the quote's drops the quote.  The quote is looked up by
\* owner.userId, which a partner does not have, so a partner cannot update a quoted line.
UpdateItem(c, n) ==
  LET line == cart[c].line IN
  /\ line.qty > 0 /\ n > 0
  /\ line.quote # None => Usable(line.quote) /\ c \notin Assisted
  /\ Edit(c, [qty |-> n, quote |-> IF n = QuoteQty THEN line.quote ELSE None])

\* removeItem, and clear, which an empty cart does not stop
RemoveItem(c) == Edit(c, NoLine)

\* finishMutation
FinishMutation(c) ==
  /\ cart[c].edit
  /\ cart' = [cart EXCEPT ![c].version = @ + 1, ![c].edit = FALSE]
  /\ UNCHANGED <<quote, preview, request, order, incentiveVars, admin, lapses, lost>>

-----------------------------------------------------------------------------
(* Previews, and what expires. *)

\* CheckoutService.preview, with or without the coupon and Hook credit
Preview(p, c) ==
  /\ preview[p] = None
  /\ LineValid(Owner[c], cart[c].line)
  /\ \E useCoupon, useCredits \in BOOLEAN :
       /\ useCoupon => "coupon" \in Uses /\ CouponValid(Owner[c])
       /\ useCredits => "credit" \in Uses
       /\ preview' = [preview EXCEPT ![p] =
            [cart |-> c, version |-> cart[c].version, line |-> cart[c].line,
             coupon |-> useCoupon,
             credits |-> IF useCredits THEN Spendable(Owner[c]) ELSE 0,
             lapsed |-> FALSE, consumedBy |-> None]]
  /\ UNCHANGED <<cart, quote, request, order, incentiveVars, admin, lapses, lost>>

PreviewLapses(p) ==
  /\ preview[p] # None /\ ~preview[p].lapsed /\ lapses < MaxLapses
  /\ preview' = [preview EXCEPT ![p].lapsed = TRUE]
  /\ lapses' = lapses + 1
  /\ UNCHANGED <<cart, quote, request, order, incentiveVars, admin, lost>>

QuoteLapses(q) ==
  /\ ~quote[q].lapsed /\ lapses < MaxLapses
  /\ quote' = [quote EXCEPT ![q].lapsed = TRUE]
  /\ lapses' = lapses + 1
  /\ UNCHANGED <<cart, preview, request, order, incentiveVars, admin, lost>>

\* expireNegotiationsAndQuotes
ExpireQuotes ==
  /\ \E q \in Quotes : quote[q].status = "ACTIVE" /\ quote[q].lapsed
  /\ quote' = [q \in Quotes |-> IF quote[q].status = "ACTIVE" /\ quote[q].lapsed
                                  THEN [quote[q] EXCEPT !.status = "EXPIRED"] ELSE quote[q]]
  /\ UNCHANGED <<cart, preview, request, order, incentiveVars, admin, lapses, lost>>

-----------------------------------------------------------------------------
(* CheckoutService.confirm *)

\* (mutant) a guard left out
Unguarded(x) == TRUE

Step(r, step) == request' = [request EXCEPT ![r].step = step]
Answer(r, what) == request' = [request EXCEPT ![r].step = "done", ![r].answer = what]

KeptByConfirm == <<cart, quote, preview, order, incentiveVars, admin, lapses>>

\* The same customer, and the same partner or none: the same cart.
SameActor(p, o) == order[o].cart = preview[p].cart

\* A client confirms a preview of its own; a retry carries its key again, and perhaps a
\* fresh preview.  Order.findOne({ idempotencyKey }) comes first.
Lookup(r, p, k) ==
  LET told == [step |-> "done", key |-> k, preview |-> p, answer |-> "none"]
      held == {o \in Ordered : order[o].key = k}
  IN
  /\ request[r].step = "idle" /\ preview[p] # None
  /\ IF held = {}
       THEN request' = [request EXCEPT ![r] = [told EXCEPT !.step = "review"]]
       ELSE \E o \in held : request' = [request EXCEPT ![r] =
              [told EXCEPT !.answer = IF SameActor(p, o) THEN o ELSE "conflict"]]
  /\ UNCHANGED <<KeptByConfirm, lost>>

\* The money of the preview is computed again and must come out the same.
MoneyUnchanged(u, p) ==
  /\ preview[p].coupon => CouponValid(u)
  /\ preview[p].credits > 0 => preview[p].credits = Spendable(u)

Reviewable(p) ==
  LET c == preview[p].cart IN
  /\ ~preview[p].lapsed /\ preview[p].consumedBy = None
  /\ cart[c].version = preview[p].version
  /\ cart[c].line = preview[p].line
  /\ LineValid(Owner[c], cart[c].line)
  /\ MoneyUnchanged(Owner[c], p)

\* Everything confirm checks before its transaction.  Products, addresses, delivery prices
\* and settings may have changed as well ("rejected").
Review(r) ==
  /\ request[r].step = "review"
  /\ \/ Reviewable(request[r].preview) /\ Step(r, "commit")
     \/ ~Reviewable(request[r].preview) /\ Answer(r, "refused")
     \/ Answer(r, "rejected")
  /\ UNCHANGED <<KeptByConfirm, lost>>

\* The unique indexes on Order.idempotencyKey and Order.checkoutPreviewId
KeyFree(r) == \A o \in Ordered : order[o].key # request[r].key
PreviewFree(p) == \A o \in Ordered : order[o].preview # p

\* The guards of the transaction's other writes
QuoteFree(p) == preview[p].line.quote # None => Usable(preview[p].line.quote)
VersionSame(p) == cart[preview[p].cart].version = preview[p].version
NotConsumed(p) == preview[p].consumedBy = None
UseLeft(p) == preview[p].coupon => TotalLimit = 0 \/ usedCount < TotalLimit
CreditLeft(p) == preview[p].credits > 0 =>
                   preview[p].credits <= Balance(Owner[preview[p].cart])

MayCommit(r, p) ==
  /\ KeyFree(r) /\ PreviewFree(p)
  /\ QuoteFree(p) /\ VersionSame(p) /\ NotConsumed(p)
  /\ UseLeft(p) /\ CreditLeft(p)

Take(q, r) == [quote EXCEPT ![q].status = "USED", ![q].usedBy = r]

CreateOrder(r, p) ==
  LET pv == preview[p] IN
  /\ order' = [order EXCEPT ![r] =
       [key |-> request[r].key, preview |-> p, cart |-> pv.cart, line |-> pv.line,
        coupon |-> pv.coupon, credits |-> pv.credits, cancelled |-> FALSE,
        paid |-> FALSE, payer |-> "none"]]
  /\ quote' = IF pv.line.quote = None THEN quote ELSE Take(pv.line.quote, r)
  /\ cart' = [cart EXCEPT ![pv.cart].line = NoLine, ![pv.cart].version = @ + 1]
  /\ preview' = [preview EXCEPT ![p].consumedBy = r]
  /\ redemption' = [redemption EXCEPT ![r] = IF pv.coupon THEN "applied" ELSE @]
  /\ usedCount' = usedCount + (IF pv.coupon THEN 1 ELSE 0)
  /\ ledger' = [ledger EXCEPT ![Owner[pv.cart]] = @ - pv.credits]

Commit(r) ==
  /\ request[r].step = "commit"
  /\ MayCommit(r, request[r].preview)
  /\ CreateOrder(r, request[r].preview)
  /\ Answer(r, r)
  /\ UNCHANGED <<returned, coin, admin, lapses, lost>>

\* The transaction rolls back.  A duplicate key is answered with the order that has it, if it is
\* the customer's.
CommitRefused(r) ==
  LET p == request[r].preview
      winners == {o \in Ordered : /\ order[o].key = request[r].key
                                  /\ CustomerOf(o) = Owner[preview[p].cart]}
  IN
  /\ request[r].step = "commit"
  /\ ~MayCommit(r, p)
  /\ IF winners = {} THEN Answer(r, "refused") ELSE \E o \in winners : Answer(r, o)
  /\ UNCHANGED <<KeptByConfirm, lost>>

\* The process dies, or the client goes away, before the commit.
ConfirmLost(r) ==
  /\ request[r].step \in {"review", "commit"} /\ lost < MaxLost
  /\ Answer(r, "lost")
  /\ lost' = lost + 1
  /\ UNCHANGED KeptByConfirm

-----------------------------------------------------------------------------
(* restoreOrderIncentives, its parts *)

\* (mutants) the key of the entry is not looked at; the claim of a redemption is not
CreditsAgain(o) == order[o].credits
AnyClaim(o) == order[o].coupon

\* CreditService.refund: one order_refund entry per order
CreditsBack(o) == IF returned[o] THEN 0 ELSE order[o].credits
\* CreditService.reverseEarn: one negative order_earn entry for the positive one
CoinBack(o) == IF coin[o] = "earned" THEN Coin ELSE 0
Reversed(o) == [coin EXCEPT ![o] = IF @ = "earned" THEN "reversed" ELSE @]
\* (mutant) a quote stays with the order
QuotesKept(o) == quote

\* A quote used by the order is handed back while it is still valid.
QuotesBack(o) == [q \in Quotes |->
                    IF quote[q].usedBy = o /\ quote[q].status = "USED" /\ ~quote[q].lapsed
                      THEN [quote[q] EXCEPT !.status = "ACTIVE", !.usedBy = None] ELSE quote[q]]
\* CouponService.release: whoever flips the redemption takes one use off the count.
Released(o) == [redemption EXCEPT ![o] = IF @ = "applied" THEN "released" ELSE @]
CountDown == IF usedCount > 0 THEN usedCount - 1 ELSE 0

\* A cancellation by the customer, by the expiry job or by the account's erasure: one transaction.
Cancel(o) ==
  /\ o \in Standing /\ ~order[o].paid
  /\ order' = [order EXCEPT ![o].cancelled = TRUE]
  /\ ledger' = [ledger EXCEPT ![CustomerOf(o)] = @ + CreditsBack(o) - CoinBack(o)]
  /\ returned' = [returned EXCEPT ![o] = order[o].credits > 0]
  /\ coin' = Reversed(o)
  /\ quote' = QuotesBack(o)
  /\ redemption' = Released(o)
  /\ usedCount' = IF redemption[o] = "applied" THEN CountDown ELSE usedCount
  /\ UNCHANGED <<cart, preview, request, admin, lapses, lost>>

\* confirmPayment reads the order before its transaction ...  (One that reads it cancelled leaves
\* the money to finance, and what an order took and earned alone.)
PayReads(o) ==
  /\ "payment" \in Uses
  /\ o \in Standing /\ ~order[o].paid /\ order[o].payer = "none"
  /\ order' = [order EXCEPT ![o].payer = "read"]
  /\ UNCHANGED <<shopVars, request, incentiveVars, admin, lapses, lost>>

\* CreditService.earnOnOrder: one order_earn entry per order
Earns(o) == IF coin[o] = "none" THEN Coin ELSE 0

\* ... and earns the coin in it.  An order cancelled in between is not activated, but what tells
\* whether it was cancelled is the copy read before, so it earns its coin all the same.
Pay(o) ==
  /\ order[o] # None /\ order[o].payer = "read" /\ ~order[o].paid
  /\ order' = [order EXCEPT ![o].paid = TRUE,
                            ![o].payer = IF order[o].cancelled THEN "late" ELSE "none"]
  /\ ledger' = [ledger EXCEPT ![CustomerOf(o)] = @ + Earns(o)]
  /\ coin' = [coin EXCEPT ![o] = IF Earns(o) > 0 THEN "earned" ELSE @]
  /\ UNCHANGED <<shopVars, request, redemption, usedCount, returned, admin, lapses, lost>>

-----------------------------------------------------------------------------
(* An administrator's cancellation: the order is read, saved without a guard, and restored
   one write after another with no transaction. *)

AdminGoes(o, from, to) == admin[o] = from /\ admin' = [admin EXCEPT ![o] = to]

AdminReads(o) ==
  /\ o \in Standing /\ ~order[o].paid
  /\ AdminGoes(o, "none", "save")
  /\ UNCHANGED <<shopVars, request, order, incentiveVars, lapses, lost>>

AdminSaves(o) ==
  /\ AdminGoes(o, "save", "credits")
  /\ order' = [order EXCEPT ![o].cancelled = TRUE]
  /\ UNCHANGED <<shopVars, request, incentiveVars, lapses, lost>>

RestoreCredits(o) ==
  /\ AdminGoes(o, "credits", "coin")
  /\ ledger' = [ledger EXCEPT ![CustomerOf(o)] = @ + CreditsBack(o)]
  /\ returned' = [returned EXCEPT ![o] = order[o].credits > 0]
  /\ UNCHANGED <<shopVars, request, order, redemption, usedCount, coin, lapses, lost>>

RestoreCoin(o) ==
  /\ AdminGoes(o, "coin", "quote")
  /\ ledger' = [ledger EXCEPT ![CustomerOf(o)] = @ - CoinBack(o)]
  /\ coin' = Reversed(o)
  /\ UNCHANGED <<shopVars, request, order, redemption, usedCount, returned, lapses, lost>>

RestoreQuote(o) ==
  /\ AdminGoes(o, "quote", "coupon")
  /\ quote' = QuotesBack(o)
  /\ UNCHANGED <<cart, preview, request, order, incentiveVars, lapses, lost>>

\* The redemption is claimed, and only a claim counts ...
Claims(o) == redemption[o] = "applied"
ReleaseCoupon(o) ==
  /\ AdminGoes(o, "coupon", IF Claims(o) THEN "count" ELSE "done")
  /\ redemption' = Released(o)
  /\ UNCHANGED <<shopVars, request, order, usedCount, ledger, returned, coin, lapses, lost>>

\* ... and then the count goes down.
ReleaseCount(o) ==
  /\ AdminGoes(o, "count", "done")
  /\ usedCount' = CountDown
  /\ UNCHANGED <<shopVars, request, order, redemption, ledger, returned, coin, lapses, lost>>

\* A write of the restoration fails, which is logged and forgotten, or the process dies.
RestoreFails(o) ==
  /\ admin[o] \in {"save", "credits", "coin", "quote", "coupon", "count"} /\ lost < MaxLost
  /\ admin' = [admin EXCEPT ![o] = "failed"]
  /\ lost' = lost + 1
  /\ UNCHANGED <<shopVars, request, order, incentiveVars, lapses>>

-----------------------------------------------------------------------------
CartNext == \E c \in Carts :
  \/ AddItem(c) \/ RemoveItem(c) \/ FinishMutation(c)
  \/ \E q \in Quotes : AddQuoted(c, q)
  \/ \E n \in 1..MaxQty : UpdateItem(c, n)
PreviewNext ==
  \/ \E p \in Previews : PreviewLapses(p) \/ \E c \in Carts : Preview(p, c)
  \/ \E q \in Quotes : QuoteLapses(q)
  \/ ExpireQuotes
ConfirmNext == \E r \in Requests :
  \/ \E p \in Previews, k \in Keys : Lookup(r, p, k)
  \/ Review(r) \/ Commit(r) \/ CommitRefused(r) \/ ConfirmLost(r)
OrderNext == \E o \in Requests :
  \/ Cancel(o) \/ PayReads(o) \/ Pay(o)
  \/ AdminReads(o) \/ AdminSaves(o) \/ RestoreCredits(o) \/ RestoreCoin(o) \/ RestoreQuote(o)
  \/ ReleaseCoupon(o) \/ ReleaseCount(o) \/ RestoreFails(o)

Next == CartNext \/ PreviewNext \/ ConfirmNext \/ OrderNext

Spec == Init /\ [][Next]_vars

-----------------------------------------------------------------------------
\* Of two orders, neither the keys nor the previews are the same, however many requests carry a
\* key or a preview (the existing-order check, the unique indexes and the consumedAt guard).
OneOrderPerCheckout == \A o1, o2 \in Ordered : o1 # o2 =>
  order[o1].key # order[o2].key /\ order[o1].preview # order[o2].preview

\* A negotiated price backs one order at a time: while an order stands, its quote is marked used
\* by it, though both carts of a customer may hold the quote and cancellations free it again.
QuoteHeld == \A o \in Standing : order[o].line.quote # None =>
  /\ quote[order[o].line.quote].status = "USED"
  /\ quote[order[o].line.quote].usedBy = o

\* A quote that is still valid is not left with a cancelled order: it is only until the
\* cancellation's restoration gets to it, or if that failed.
QuoteGivenBack == \A q \in Quotes : quote[q].status = "USED" /\ ~quote[q].lapsed =>
  quote[q].usedBy \in Standing \/ admin[quote[q].usedBy] \in {"credits", "coin", "quote", "failed"}

\* Applied redemptions never outnumber the uses counted, nor those the coupon's limit; and a
\* release stops counting: but for one between its two writes, or one that failed, every use
\* counted is of an order whose redemption applies.
CouponWithinLimit ==
  /\ Cardinality(Applied) <= usedCount
  /\ TotalLimit > 0 => usedCount <= TotalLimit
  /\ (\A o \in Requests : admin[o] \notin {"count", "failed"}) => usedCount = Cardinality(Applied)

\* A customer has at most perUserLimit redemptions that apply.
PerUserLimitKept == \A u \in Customers :
  Cardinality({o \in Applied : CustomerOf(o) = u}) <= PerUserLimit

\* The credit some orders spent: a sum, as the number of its units.
CreditOf(orders) == Cardinality(UNION {{o} \X (1..order[o].credits) : o \in orders})

\* An order keeps its coin while it stands; a cancelled one only if its payment committed after
\* the cancellation, and after the restoration looked for a coin to take back.
KeepsCoin(o) ==
  /\ order[o].paid
  /\ o \in Standing \/ (order[o].payer = "late" /\ coin[o] = "earned")

\* A customer's credit is what was granted, less what standing orders spent, plus the coins that
\* are kept: nothing is returned twice or not at all, whoever cancels and however often, and a
\* coin earned before the cancellation is taken back.
CreditsAccounted == \A u \in Customers :
  LET mine == {o \in Ordered : CustomerOf(o) = u} IN
  (\A o \in mine : admin[o] \notin {"credits", "coin", "failed"}) =>
    ledger[u] = Grant[u] - CreditOf(mine \cap Standing) + Coin * Cardinality({o \in mine : KeepsCoin(o)})

\* "any Hook credit the order earned is clawed back" (order-restoration.service.ts): not the coin of
\* a payment that was read before the cancellation and committed after it.
CoinClawedBack == \A o \in Ordered \ Standing :
  admin[o] \notin {"credits", "coin", "failed"} => coin[o] # "earned"

\* Orders that race for the balance do not overdraw it: only the reversal of a coin spent
\* meanwhile does.
NotOverdrawn == \A u \in Customers :
  ledger[u] < 0 => \E o \in Ordered : CustomerOf(o) = u /\ coin[o] = "reversed"

\* What an order took, its quote and credit, it keeps while it stands and gives back once after,
\* but for the coin of a payment that was confirmed on a stale read.
TakenOrGivenBack == QuoteGivenBack /\ CreditsAccounted /\ NotOverdrawn

\* A confirmation is answered with an order of the same customer and key only.
AnswerIsOwnOrder == \A r \in Requests : request[r].answer \in Requests =>
  LET o == request[r].answer IN
  /\ o \in Ordered /\ order[o].key = request[r].key
  /\ CustomerOf(o) = Owner[preview[request[r].preview].cart]

\* The line an order takes out of the cart is the line it was made for, unless a change of the
\* cart is half done.
OrderTakesItsLine == [][\A r \in Requests : order[r] = None /\ order'[r] # None =>
  LET c == order'[r].cart IN cart[c].edit \/ cart[c].line = order'[r].line]_vars

\* What was added to the line after the preview stays in the cart (the comment on the deletion).
AddedStays == [][\A r \in Requests : order[r] = None /\ order'[r] # None =>
  cart[order'[r].cart].line.qty <= order'[r].line.qty]_vars

\* A confirmation is not refused when its customer already has the order of its key (the comment
\* on the transaction's catch clause).
RetryGetsTheOrder == [][\A r \in Requests :
  request[r].answer = "none" /\ request'[r].answer = "refused" =>
    ~\E o \in Ordered : /\ order[o].key = request[r].key
                       /\ CustomerOf(o) = Owner[preview[request[r].preview].cart]]_vars
=============================================================================
