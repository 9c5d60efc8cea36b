------------------------------- MODULE Basket -------------------------------
(***************************************************************************)
(* The carts of one customer, filled by themselves and by a Hook Partner    *)
(* for them: the lines and what a request writes of them, the version that  *)
(* is counted up after, the summary that is computed behind the answer, the *)
(* identifiers a process reserves for lines, the import of what was put in  *)
(* a cart before signing in, likes, and the previews of a checkout, which   *)
(* read the cart and then its lines.                                        *)
(***************************************************************************)
EXTENDS Integers, Sequences, FiniteSets
LOCAL INSTANCE FiniteSetsExt

CONSTANTS
  Requests,   \* numbers from 1
  Nodes,      \* processes of the API
  Products,
  Carts,      \* numbers from 1
  Agreed,     \* the price of the quote, which is for the first product
  QuoteQty,   \* and for this quantity
  Batch,      \* CART_ITEM_ID_BATCH_SIZE
  MaxQty,     \* 99
  MaxMoves    \* bound on what happens to the products, the quote, the partner and
              \* the year, and on crashes

VARIABLES
  cart,      \* [Carts -> who, "none" before it is made; version; summary]
  line,      \* [Carts \X Products -> a CartItem, NoLine before there is one]
  product,   \* [Products -> on, version, price, option]
  quoteLive, \* the quote is ACTIVE and has not expired
  standing,  \* what is in order: "customer", "verified", "state", "partner"
  counter,   \* [years -> PublicIdCounter.sequence of cart items]
  pool,      \* [Nodes -> cartItemIdPool, its year, the year of the refill under way or 0]
  year,
  summing,   \* summaries being computed: the cart, and what was read
  likes, imports,
  preview,   \* [Requests -> the CheckoutPreview it made: cart, version, lines]
  req,       \* [Requests -> a request and how far it is]
  moves

cartVars == <<cart, line, summing>>
shopVars == <<product, quoteLive, standing>>
idVars == <<counter, pool, year>>
basketVars == <<cartVars, shopVars, idVars, likes, imports, preview, req, moves>>

NoLine == [id |-> <<0, 0>>, qty |-> 0, unit |-> 0, total |-> 0, quoted |-> FALSE, version |-> 0]
Ask(op, who, on, n, node) ==
  [op |-> op, who |-> who, on |-> on, n |-> n, node |-> node, at |-> IF who = "partner" THEN "start" ELSE "begin", left |-> <<>>,
   cart |-> 0, ids |-> {}, seen |-> NoLine, rejected |-> FALSE]
(* an import brings a sequence of products, of n each, under one key        *)
Import(products, n, node) == [Ask("import", "self", 0, n, node) EXCEPT !.at = "start", !.left = products]

(* the partner has begun a cart, the customer has not                       *)
Init(does, order) ==
  /\ cart = [c \in Carts |-> IF c = 1 THEN [who |-> "partner", version |-> 1, summary |-> 0]
                             ELSE [who |-> "none", version |-> 0, summary |-> 0]]
  /\ line = [i \in Carts \X Products |-> NoLine]
  /\ product = [p \in Products |-> [on |-> TRUE, version |-> 1, price |-> Agreed + 1, option |-> TRUE]]
  /\ quoteLive = TRUE /\ standing = order
  /\ counter = [y \in {1, 2} |-> 0] /\ year = 1
  /\ pool = [a \in Nodes |-> [ids |-> <<>>, year |-> 0, filling |-> 0]]
  /\ summing = {} /\ likes = {} /\ imports = {}
  /\ preview = [r \in Requests |-> [cart |-> 0, version |-> 0, lines |-> {}]]
  /\ req = does /\ moves = 0

-----------------------------------------------------------------------------
Now(r, ops, at) == req[r].op \in ops /\ req[r].at = at
To(r, at) == [req[r] EXCEPT !.at = at]
Be(r, record) == req' = [req EXCEPT ![r] = record]
Goto(r, at) == Be(r, To(r, at))
Adds == {"add", "add_quoted", "import"}
Quoted(r) == req[r].op = "add_quoted"
(* an import goes on with its next line, whatever became of the last        *)
Ended(r, record) ==
  IF record.op # "import" THEN [record EXCEPT !.at = "done", !.seen = NoLine]
  ELSE IF record.left = <<>> THEN [record EXCEPT !.at = "likes"]
  ELSE [record EXCEPT !.at = "begin", !.on = Head(record.left), !.left = Tail(record.left), !.seen = NoLine]
Refuse(r) == Be(r, Ended(r, [req[r] EXCEPT !.rejected = TRUE]))

Line(r) == line[<<req[r].cart, req[r].on>>]
Write(r, record) == line' = [line EXCEPT ![<<req[r].cart, req[r].on>>] = record]
(* Cart.findOne: of several active carts, the oldest                        *)
CartsOf(who) == {c \in Carts : cart[c].who = who}
Oldest(carts) == CHOOSE c \in carts : \A d \in carts : c <= d
Found(who) == IF CartsOf(who) = {} THEN 0 ELSE Oldest(CartsOf(who))

(* a partner must be active and the customer be found; partners' handlers   *)
(* are those of the customer from there on                                  *)
PartnerActive == "partner" \in standing
AsPartner(r) ==
  /\ req[r].at = "start" /\ req[r].who = "partner"
  /\ IF PartnerActive THEN Goto(r, "begin") ELSE Be(r, [To(r, "done") EXCEPT !.rejected = TRUE])
  /\ UNCHANGED <<cartVars, shopVars, idVars, likes, imports, preview, moves>>

(* a request that needs a cart makes one where it found none                *)
Needs == {"get", "update", "remove", "clear"}
NewCart == Oldest({d \in Carts : cart[d].who = "none"})
CreateCart(r) ==
  /\ \/ Now(r, Needs, "begin") /\ Found(req[r].who) = 0
     \/ Now(r, Adds, "create")
  /\ \E c \in Carts : cart[c].who = "none"   \* a bound
  /\ cart' = [cart EXCEPT ![NewCart] = [who |-> req[r].who, version |-> 1, summary |-> 0]]
  /\ Be(r, [To(r, IF Quoted(r) THEN "slow" ELSE IF req[r].op \in Adds THEN "id" ELSE "cart") EXCEPT !.cart = NewCart])
  /\ UNCHANGED <<line, summing, shopVars, idVars, likes, imports, preview, moves>>
(* the cart that is found, by a request that looks now or has made one      *)
TheCart(r) == IF req[r].at = "cart" THEN req[r].cart ELSE Found(req[r].who)
HasCart(r, op) == req[r].op = op /\ req[r].at \in {"begin", "cart"} /\ TheCart(r) # 0
(* getCart answers what it reads                                            *)
View(r) ==
  /\ HasCart(r, "get") /\ Goto(r, "done")
  /\ UNCHANGED <<cartVars, shopVars, idVars, likes, imports, preview, moves>>

-----------------------------------------------------------------------------
(* addItem: the product and the cart are read, the option and the quote     *)
QuoteFits(p, n) == quoteLive /\ p = 1 /\ n = QuoteQty
AddBegin(r) ==
  LET p == product[req[r].on]
      price == IF Quoted(r) THEN Agreed ELSE p.price IN
  /\ Now(r, Adds, "begin")
  /\ IF p.on /\ p.option /\ (Quoted(r) => QuoteFits(req[r].on, req[r].n))
     THEN Be(r, [To(r, IF Found(req[r].who) = 0 THEN "create" ELSE IF Quoted(r) THEN "slow" ELSE "id") EXCEPT
                   !.cart = Found(req[r].who), !.seen = [NoLine EXCEPT !.unit = price, !.version = p.version]])
     ELSE Refuse(r)
  /\ UNCHANGED <<cartVars, shopVars, idVars, likes, imports, preview, moves>>
(* nextCartItemPublicId: from what the process has reserved, of this year;  *)
(* one refill at a time, which all who found nothing wait for               *)
OfThisYear(a) == IF pool[a].year = year THEN pool[a] ELSE [pool[a] EXCEPT !.ids = <<>>, !.year = year]
Given(r, id, at) == Be(r, [To(r, at) EXCEPT !.ids = @ \cup {id}, !.seen.id = id])
WithId(r) == IF Quoted(r) THEN "insert" ELSE "fast"
TakeId(r) ==
  LET a == req[r].node
      mine == OfThisYear(a) IN
  /\ Now(r, Adds, "id")
  /\ IF mine.ids # <<>>
     THEN pool' = [pool EXCEPT ![a] = [mine EXCEPT !.ids = Tail(@)]] /\ Given(r, Head(mine.ids), WithId(r))
     ELSE pool' = [pool EXCEPT ![a] = [mine EXCEPT !.filling = IF @ = 0 THEN year ELSE @]] /\ Goto(r, "wait")
  /\ UNCHANGED <<cartVars, shopVars, counter, year, likes, imports, preview, moves>>
(* nextPublicIds: a range of the counter, reserved in one update            *)
NextPublicIds(y) == [i \in 1..Batch |-> <<y, counter[y] + i>>]
Reserve(a, y, by) ==
  /\ y # 0 /\ counter' = [counter EXCEPT ![y] = @ + by]
  /\ pool' = [pool EXCEPT ![a].filling = 0, ![a].ids = IF pool[a].year = y THEN @ \o NextPublicIds(y) ELSE @]
  /\ UNCHANGED <<cartVars, shopVars, year, likes, imports, preview, req, moves>>
(* mutant: the counter goes up by one, as for a single identifier           *)
RefillByOne(a) == Reserve(a, pool[a].filling, 1)
Refill(a) == Reserve(a, pool[a].filling, Batch)
Woken(r) ==
  LET a == req[r].node IN
  /\ Now(r, Adds, "wait") /\ pool[a].filling = 0
  /\ IF pool[a].ids # <<>>
     THEN pool' = [pool EXCEPT ![a].ids = Tail(@)] /\ Given(r, Head(pool[a].ids), WithId(r))
     ELSE Refuse(r) /\ UNCHANGED pool
  /\ UNCHANGED <<cartVars, shopVars, counter, year, likes, imports, preview, moves>>

(* one update adds to a line that is unquoted and of this price, or makes   *)
(* it; another line of the product and option sends the request the slow way*)
Fresh(r) == [req[r].seen EXCEPT !.qty = req[r].n, !.total = req[r].n * req[r].seen.unit, !.quoted = Quoted(r)]
Grown(r) == [Line(r) EXCEPT !.qty = @ + req[r].n, !.total = @ + req[r].n * req[r].seen.unit]
Fits(r) == ~Line(r).quoted /\ Line(r).unit = req[r].seen.unit /\ Line(r).qty + req[r].n <= MaxQty
FastAdd(r) ==
  /\ Now(r, Adds, "fast")
  /\ \/ Line(r) = NoLine /\ Write(r, Fresh(r)) /\ Goto(r, "bump")
     \/ Line(r) # NoLine /\ Fits(r) /\ Write(r, Grown(r)) /\ Goto(r, "bump")
     \/ Line(r) # NoLine /\ ~Fits(r) /\ Goto(r, "slow") /\ UNCHANGED line
  /\ UNCHANGED <<cart, summing, shopVars, idVars, likes, imports, preview, moves>>
(* the line is read; a quote sets its quantity, and adding again heals a    *)
(* line whose price or version went stale                                   *)
Healed(r) ==
  LET qty == IF Quoted(r) THEN req[r].n ELSE Line(r).qty + req[r].n IN
  [Line(r) EXCEPT !.qty = qty, !.unit = req[r].seen.unit, !.total = qty * req[r].seen.unit, !.quoted = Quoted(r),
                  !.version = IF Quoted(r) \/ Line(r).quoted THEN @ ELSE req[r].seen.version]
SlowRead(r) ==
  /\ Now(r, Adds, "slow")
  /\ \/ /\ Line(r) # NoLine /\ Healed(r).qty <= MaxQty
        /\ Be(r, [To(r, "save") EXCEPT !.seen = [was |-> Line(r), new |-> Healed(r)]])
     \/ Line(r) # NoLine /\ Healed(r).qty > MaxQty /\ Refuse(r)
     \/ Line(r) = NoLine /\ Goto(r, IF Quoted(r) THEN "id" ELSE "insert")
  /\ UNCHANGED <<cartVars, shopVars, idVars, likes, imports, preview, moves>>
(* save writes the fields that it changed, of a line that is still there    *)
Saved(now, was, new) == [f \in DOMAIN now |-> IF new[f] = was[f] THEN now[f] ELSE new[f]]
Save(r) ==
  /\ Now(r, Adds, "save")
  /\ IF Line(r).id = req[r].seen.was.id
     THEN /\ Write(r, Saved(Line(r), req[r].seen.was, req[r].seen.new))
          /\ Be(r, [To(r, "bump") EXCEPT !.seen = NoLine])
     ELSE Refuse(r) /\ UNCHANGED line
  /\ UNCHANGED <<cart, summing, shopVars, idVars, likes, imports, preview, moves>>
Insert(r) ==
  /\ Now(r, Adds, "insert")
  /\ IF Line(r) = NoLine THEN Write(r, Fresh(r)) /\ Goto(r, "bump") ELSE Refuse(r) /\ UNCHANGED line
  /\ UNCHANGED <<cart, summing, shopVars, idVars, likes, imports, preview, moves>>

-----------------------------------------------------------------------------
(* updateItem: the price that goes with the quantity is read first; another *)
(* quantity than the quote's drops the quote.  The quote is looked up by    *)
(* owner.userId, which a partner does not have.                             *)
Reprice(l, p, n) ==
  LET drop == l.quoted /\ n # QuoteQty IN
  [id |-> l.id, drop |-> drop, unit |-> IF drop THEN product[p].price ELSE IF l.quoted THEN Agreed ELSE l.unit]
UpdateRead(r) ==
  LET l == line[<<TheCart(r), req[r].on>>] IN
  /\ HasCart(r, "update")
  /\ IF /\ l # NoLine /\ product[req[r].on].on
        /\ l.quoted => quoteLive /\ req[r].who = "self"
     THEN Be(r, [To(r, "set") EXCEPT !.cart = TheCart(r), !.seen = Reprice(l, req[r].on, req[r].n)])
     ELSE Refuse(r)
  /\ UNCHANGED <<cartVars, shopVars, idVars, likes, imports, preview, moves>>
SetLine(r) ==
  LET new == req[r].seen IN
  /\ Now(r, {"update"}, "set")
  /\ IF Line(r).id = new.id
     THEN /\ Write(r, [Line(r) EXCEPT !.qty = req[r].n, !.unit = new.unit, !.total = req[r].n * new.unit,
                                      !.quoted = @ /\ ~new.drop])
          /\ Be(r, [To(r, "bump") EXCEPT !.seen = NoLine])
     ELSE Refuse(r) /\ UNCHANGED line
  /\ UNCHANGED <<cart, summing, shopVars, idVars, likes, imports, preview, moves>>
Erase(c, ps) == line' = [i \in DOMAIN line |-> IF i[1] = c /\ i[2] \in ps THEN NoLine ELSE line[i]]
Erased(r) == Be(r, [To(r, "bump") EXCEPT !.cart = TheCart(r)])
Remove(r) ==
  /\ HasCart(r, "remove")
  /\ IF line[<<TheCart(r), req[r].on>>] = NoLine THEN Refuse(r) /\ UNCHANGED line
     ELSE Erase(TheCart(r), {req[r].on}) /\ Erased(r)
  /\ UNCHANGED <<cart, summing, shopVars, idVars, likes, imports, preview, moves>>
Clear(r) ==
  /\ HasCart(r, "clear") /\ Erase(TheCart(r), req[r].on) /\ Erased(r)
  /\ UNCHANGED <<cart, summing, shopVars, idVars, likes, imports, preview, moves>>

(* the version, once the lines are written; a customer's own change leaves  *)
(* the summary to be computed behind the answer, a partner's does not       *)
FinishMutation(r) ==
  LET c == req[r].cart IN
  /\ req[r].at = "bump" /\ cart' = [cart EXCEPT ![c].version = @ + 1]
  /\ summing' = IF req[r].who = "self" THEN summing \cup {[by |-> <<r, req[r].left>>, cart |-> c, read |-> FALSE, sum |-> 0]}
                ELSE summing
  /\ Be(r, Ended(r, req[r]))
  /\ UNCHANGED <<line, shopVars, idVars, likes, imports, preview, moves>>
Total(c) == MapThenSumSet(LAMBDA p : line[<<c, p>>].total, Products)
SumRead(s) ==
  /\ s \in summing /\ ~s.read
  /\ summing' = (summing \ {s}) \cup {[s EXCEPT !.read = TRUE, !.sum = Total(s.cart)]}
  /\ UNCHANGED <<cart, line, shopVars, idVars, likes, imports, preview, req, moves>>
SumWrite(s) ==
  /\ s \in summing /\ s.read /\ summing' = summing \ {s} /\ cart' = [cart EXCEPT ![s.cart].summary = s.sum]
  /\ UNCHANGED <<line, shopVars, idVars, likes, imports, preview, req, moves>>

-----------------------------------------------------------------------------
(* CommerceImportService.import: an answer already recorded for the key, or *)
(* every line, the likes, and then the record, which one of two makes       *)
ImportLookup(r) ==
  /\ Now(r, {"import"}, "start") /\ Be(r, IF imports # {} THEN To(r, "done") ELSE Ended(r, req[r]))
  /\ UNCHANGED <<cartVars, shopVars, idVars, likes, imports, preview, moves>>
ImportLikes(r) ==
  /\ Now(r, {"import"}, "likes") /\ likes' = likes \cup {p \in Products : product[p].on} /\ Goto(r, "record")
  /\ UNCHANGED <<cartVars, shopVars, idVars, imports, preview, moves>>
ImportRecord(r) ==
  /\ Now(r, {"import"}, "record") /\ imports' = (IF imports = {} THEN {r} ELSE imports) /\ Goto(r, "done")
  /\ UNCHANGED <<cartVars, shopVars, idVars, likes, preview, moves>>
Likeable(p) == product[p].on
Like(r) ==
  /\ Now(r, {"like"}, "begin") /\ likes' = (IF Likeable(req[r].on) THEN likes \cup {req[r].on} ELSE likes) /\ Goto(r, "done")
  /\ UNCHANGED <<cartVars, shopVars, idVars, imports, preview, moves>>
Unlike(r) ==
  /\ Now(r, {"unlike"}, "begin") /\ likes' = likes \ {req[r].on} /\ Goto(r, "done")
  /\ UNCHANGED <<cartVars, shopVars, idVars, imports, preview, moves>>

(* what the cart shows of a line, and what a preview asks of it             *)
Eligible(l, p) == product[p].on /\ product[p].version = l.version
Acceptable(l, p) ==
  /\ product[p].option /\ product[p].on /\ product[p].version = l.version
  /\ l.quoted => QuoteFits(p, l.qty)
LinesOf(c) == {<<p, line[<<c, p>>]>> : p \in {q \in Products : line[<<c, q>>] # NoLine}}
(* CheckoutService.preview: the cart, with its version; then its lines, which *)
(* are asked again; and in the end the preview, with the version that was read*)
MayCheckOut(who) == {"customer", "state", IF who = "self" THEN "verified" ELSE "partner"} \subseteq standing
PreviewCart(r) ==
  LET c == Found(req[r].who) IN
  /\ Now(r, {"preview"}, "begin")
  /\ IF c = 0 \/ ~MayCheckOut(req[r].who) THEN Refuse(r)
     ELSE Be(r, [To(r, "lines") EXCEPT !.cart = c, !.seen = [version |-> cart[c].version, lines |-> {}]])
  /\ UNCHANGED <<cartVars, shopVars, idVars, likes, imports, preview, moves>>
PreviewLines(r) ==
  LET lines == LinesOf(req[r].cart) IN
  /\ Now(r, {"preview"}, "lines")
  /\ IF lines # {} /\ \A l \in lines : Acceptable(l[2], l[1])
     THEN Be(r, [To(r, "create") EXCEPT !.seen.lines = lines])
     ELSE Refuse(r)
  /\ UNCHANGED <<cartVars, shopVars, idVars, likes, imports, preview, moves>>
(* mutant: the version the cart has by now                                  *)
VersionNow(r) == cart[req[r].cart].version
VersionRead(r) == req[r].seen.version
PreviewCreate(r) ==
  /\ Now(r, {"preview"}, "create")
  /\ preview' = [preview EXCEPT ![r] = [cart |-> req[r].cart, version |-> VersionRead(r), lines |-> req[r].seen.lines]]
  /\ Be(r, [To(r, "done") EXCEPT !.seen = NoLine])
  /\ UNCHANGED <<cartVars, shopVars, idVars, likes, imports, moves>>

(* repairPublicIdCounter, by an administrator                               *)
Repair(r) ==
  /\ Now(r, {"repair"}, "begin") /\ counter' = [counter EXCEPT ![year] = req[r].n] /\ Goto(r, "done")
  /\ UNCHANGED <<cartVars, shopVars, pool, year, likes, imports, preview, moves>>

-----------------------------------------------------------------------------
(* Elsewhere: a product is changed, comes down or goes up, its option is    *)
(* off; the quote is over; the partner is stopped; a new year; a crash      *)
Move == moves < MaxMoves /\ moves' = moves + 1
ProductMoves(p) ==
  /\ \/ \E up \in {0, 1} : product' = [product EXCEPT ![p] = [@ EXCEPT !.version = @ + 1, !.price = @ + up]]
     \/ product' = [product EXCEPT ![p] = [@ EXCEPT !.on = ~@]]
     \/ product' = [product EXCEPT ![p] = [@ EXCEPT !.option = ~@]]
  /\ Move /\ UNCHANGED <<cartVars, quoteLive, standing, idVars, likes, imports, preview, req>>
QuoteEnds == quoteLive /\ quoteLive' = FALSE /\ Move /\ UNCHANGED <<cartVars, product, standing, idVars, likes, imports, preview, req>>
PartnerStops == PartnerActive /\ standing' = standing \ {"partner"} /\ Move /\ UNCHANGED <<cartVars, product, quoteLive, idVars, likes, imports, preview, req>>
YearTurns == year = 1 /\ year' = 2 /\ Move /\ UNCHANGED <<cartVars, shopVars, counter, pool, likes, imports, preview, req>>
Crash(r) ==
  /\ req[r].at \notin {"start", "begin", "done", "off", "unbumped"}
  /\ Goto(r, IF req[r].at = "bump" THEN "unbumped" ELSE "off") /\ Move
  /\ UNCHANGED <<cartVars, shopVars, idVars, likes, imports, preview>>

Step(r) ==
  \/ AsPartner(r) \/ CreateCart(r) \/ View(r)
  \/ AddBegin(r) \/ TakeId(r) \/ Woken(r) \/ FastAdd(r) \/ SlowRead(r) \/ Save(r) \/ Insert(r)
  \/ UpdateRead(r) \/ SetLine(r) \/ Remove(r) \/ Clear(r) \/ FinishMutation(r)
  \/ ImportLookup(r) \/ ImportLikes(r) \/ ImportRecord(r) \/ Like(r) \/ Unlike(r)
  \/ PreviewCart(r) \/ PreviewLines(r) \/ PreviewCreate(r) \/ Repair(r) \/ Crash(r)
Next ==
  \/ \E r \in Requests : Step(r)
  \/ (\E a \in Nodes : Refill(a)) \/ (\E s \in summing : SumRead(s) \/ SumWrite(s))
  \/ (\E p \in Products : ProductMoves(p)) \/ QuoteEnds \/ PartnerStops \/ YearTurns

-----------------------------------------------------------------------------
(* No identifier is given to two lines, of one process or of two, over a    *)
(* refill or the turn of the year                                           *)
GivenOnce == \A r, q \in Requests : r # q => req[r].ids \cap req[q].ids = {}
(* A preview whose version is still the cart's, and so can be confirmed, is *)
(* of the lines the cart has; but for a change that is on its way to count  *)
(* the version up, or died on it                                            *)
Midway(c) == \E r \in Requests : req[r].cart = c /\ req[r].at \in {"bump", "unbumped"}
ConfirmableIsCurrent == \A r \in Requests :
  LET p == preview[r] IN
  p.cart # 0 /\ cart[p.cart].version = p.version /\ ~Midway(p.cart) => p.lines = LinesOf(p.cart)

Quiet == \A r \in Requests : req[r].at \in {"done", "off", "unbumped"}
(* the same without the exception for a change that died                    *)
DeadChangeIsSeen == \A r \in Requests :
  LET p == preview[r] IN
  Quiet /\ p.cart # 0 /\ cart[p.cart].version = p.version => p.lines = LinesOf(p.cart)
(* two adds of one product to one cart add up                               *)
AddedIsCounted ==
  (\A r \in Requests : req[r].op = "add" /\ req[r].at = "done" /\ ~req[r].rejected)
  => \A c \in Carts, p \in Products :
       line[<<c, p>>].qty = MapThenSumSet(LAMBDA r : req[r].n, {r \in Requests : req[r].cart = c /\ req[r].on = p})
(* "adding again is also the way to heal a line whose price or product      *)
(* version went stale"                                                      *)
AddingHeals == [][\A r \in Requests :
  FastAdd(r) /\ line' # line => line'[<<req[r].cart, req[r].on>>].version = req[r].seen.version]_basketVars
(* what came under one key came once                                        *)
ImportedOnce ==
  (\A r \in Requests : req[r].op \in {"import", "like", "unlike"})
  => \A i \in DOMAIN line : line[i].qty <= req[1].n
(* a line the cart calls eligible for checkout is accepted by a preview     *)
EligibleIsAccepted == \A c \in Carts, p \in Products :
  LET l == line[<<c, p>>] IN l # NoLine /\ Eligible(l, p) => Acceptable(l, p)
(* the summary that is left is of the lines that are left                   *)
SummaryIsTheirs ==
  Quiet /\ summing = {} /\ (\A r \in Requests : req[r].at # "unbumped") => \A c \in CartsOf("self") : cart[c].summary = Total(c)
(* a customer has one active cart                                           *)
OneActiveCart == Cardinality(CartsOf("self")) <= 1
(* who waited for identifiers gets one                                      *)
WaiterIsServed == \A r \in Requests : Now(r, {"add"}, "done") /\ req[r].rejected => req[r].ids # {} \/ req[r].cart = 0
=============================================================================
