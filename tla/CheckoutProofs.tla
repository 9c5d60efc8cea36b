--------------------------- MODULE CheckoutProofs ---------------------------
(***************************************************************************)
(* Proofs about Checkout for any customers, carts, quotes, previews, keys  *)
(* and requests: its types, one order per key and per preview, one         *)
(* standing order per quote, answers that are the customer's own order,    *)
(* and orders that take the line they were made for; the coupon's limit,   *)
(* quotes that are given back, and credit that is not overdrawn.           *)
(***************************************************************************)
EXTENDS Checkout, FiniteSetTheorems, TLAPS

\* A request under way has a preview that was taken, and no order yet.
RequestInv == \A r \in Requests :
  /\ request[r].step \in {"review", "commit"} =>
       /\ request[r].key \in Keys /\ request[r].preview \in Previews
       /\ preview[request[r].preview] # None
  /\ order[r] # None => request[r].step = "done"

\* An answered request has a preview that was taken.
AnswerInv == \A r \in Requests : request[r].answer \in Requests =>
  request[r].preview \in Previews /\ preview[request[r].preview] # None

\* An administrator cancels an order there is, and restores one that is cancelled.
AdminInv == \A o \in Requests :
  /\ admin[o] # "none" => order[o] # None
  /\ admin[o] \in {"credits", "coin", "quote", "coupon", "count"} => order[o].cancelled

\* A preview of the cart's version is of the cart's line, but for a change that is half done.
PreviewInv == \A p \in Previews : preview[p] # None =>
  LET c == preview[p].cart IN
  /\ preview[p].version <= cart[c].version
  /\ preview[p].version = cart[c].version /\ ~cart[c].edit => preview[p].line = cart[c].line

IInv == /\ TypeOK /\ RequestInv /\ AnswerInv /\ AdminInv /\ PreviewInv
        /\ OneOrderPerCheckout /\ QuoteHeld /\ AnswerIsOwnOrder

-----------------------------------------------------------------------------
LEMMA InitIInv == Init => IInv
<1> SUFFICES ASSUME Init PROVE IInv
  OBVIOUS
<1> USE NoneAssumption, OwnerAssumption, AmountAssumption
<1>1. TypeOK
  BY DEF Init, TypeOK, CartRecords, Lines, NoLine, QuoteRecords, RequestRecords, Answers, AdminSteps
<1>2. RequestInv /\ AdminInv /\ PreviewInv
  BY DEF Init, RequestInv, AdminInv, PreviewInv
<1>3. AnswerInv /\ AnswerIsOwnOrder
  BY AnswerAssumption DEF Init, AnswerInv, AnswerIsOwnOrder
<1>4. OneOrderPerCheckout /\ QuoteHeld
  BY DEF Init, OneOrderPerCheckout, QuoteHeld, Ordered, Standing
<1> QED BY <1>1, <1>2, <1>3, <1>4 DEF IInv

-----------------------------------------------------------------------------
(* Steps that leave the orders and the requests alone.                     *)

\* What is said of requests and orders depends on these variables only.
Others == <<request, order, redemption, usedCount, ledger, returned, coin, admin>>

LEMMA OthersKept ==
  ASSUME IInv, UNCHANGED Others,
         \A p \in Previews : preview[p] # None =>
           preview'[p] # None /\ preview'[p].cart = preview[p].cart
  PROVE  RequestInv' /\ AnswerInv' /\ AdminInv' /\ OneOrderPerCheckout' /\ AnswerIsOwnOrder'
<1>1. RequestInv' BY DEF Others, IInv, RequestInv
<1>2. AnswerInv' BY DEF Others, IInv, AnswerInv
<1>3. AdminInv' BY DEF Others, IInv, AdminInv
<1>4. OneOrderPerCheckout' BY DEF Others, IInv, OneOrderPerCheckout, Ordered
<1>5. AnswerIsOwnOrder'
  BY DEF Others, IInv, AnswerInv, AnswerIsOwnOrder, Ordered, CustomerOf
<1> QED BY <1>1, <1>2, <1>3, <1>4, <1>5

LEMMA EditIInv ==
  ASSUME IInv, NEW c \in Carts, NEW line \in Lines, Edit(c, line)
  PROVE  IInv'
<1>1. /\ cart \in [Carts -> CartRecords] /\ ~cart[c].edit
      /\ cart' = [cart EXCEPT ![c].line = line, ![c].edit = TRUE]
  BY DEF IInv, TypeOK, Edit
<1>2. cart' \in [Carts -> CartRecords]
  BY <1>1 DEF CartRecords
<1>3. \A d \in Carts : cart'[d].version = cart[d].version /\ (~cart'[d].edit => cart'[d] = cart[d])
  BY <1>1 DEF CartRecords
<1>4. TypeOK'
  BY <1>2 DEF IInv, TypeOK, Edit, incentiveVars
<1>5. PreviewInv'
  BY <1>3 DEF IInv, TypeOK, PreviewInv, Edit, PreviewRecords
<1>6. QuoteHeld'
  BY DEF IInv, QuoteHeld, Standing, Ordered, Edit
<1>7. UNCHANGED Others /\ UNCHANGED preview
  BY DEF Edit, Others, incentiveVars
<1> QED BY <1>4, <1>5, <1>6, <1>7, OthersKept DEF IInv

\* Every mutation writes a line of the right type.
LEMMA EditLines ==
  ASSUME IInv, NEW c \in Carts
  PROVE  /\ AddItem(c) => IInv'
         /\ RemoveItem(c) => IInv'
         /\ \A q \in Quotes : AddQuoted(c, q) => IInv'
         /\ \A n \in 1..MaxQty : UpdateItem(c, n) => IInv'
<1> USE AmountAssumption, NoneAssumption
<1>1. cart[c].line \in Lines BY DEF IInv, TypeOK, CartRecords
<1>2. AddItem(c) => IInv'
  <2>1. AddItem(c) => [qty |-> cart[c].line.qty + 1, quote |-> None] \in Lines
    BY <1>1 DEF AddItem, Edit, Lines
  <2> QED BY <2>1, EditIInv DEF AddItem
<1>3. RemoveItem(c) => IInv'
  <2>1. NoLine \in Lines BY DEF NoLine, Lines
  <2> QED BY <2>1, EditIInv DEF RemoveItem
<1>4. ASSUME NEW q \in Quotes, AddQuoted(c, q) PROVE IInv'
  <2>1. [qty |-> QuoteQty, quote |-> q] \in Lines
    BY <1>4 DEF AddQuoted, Edit, Lines
  <2> QED BY <1>4, <2>1, EditIInv DEF AddQuoted
<1>5. ASSUME NEW n \in 1..MaxQty, UpdateItem(c, n) PROVE IInv'
  <2> DEFINE line == [qty |-> n, quote |-> IF n = QuoteQty THEN cart[c].line.quote ELSE None]
  <2>1. line \in Lines BY <1>1 DEF Lines
  <2>2. Edit(c, line) BY <1>5 DEF UpdateItem
  <2> QED BY <2>1, <2>2, EditIInv
<1> QED BY <1>2, <1>3, <1>4, <1>5

LEMMA FinishIInv ==
  ASSUME IInv, NEW c \in Carts, FinishMutation(c)
  PROVE  IInv'
<1>1. /\ cart \in [Carts -> CartRecords]
      /\ cart' = [cart EXCEPT ![c].version = @ + 1, ![c].edit = FALSE]
  BY DEF IInv, TypeOK, FinishMutation
<1>2. cart' \in [Carts -> CartRecords]
  <2> DEFINE new == [version |-> cart[c].version + 1, line |-> cart[c].line, edit |-> FALSE]
  <2>1. cart[c] \in CartRecords BY <1>1
  <2>2. new \in CartRecords BY <2>1 DEF CartRecords
  <2>3. cart'[c] = new BY <1>1, <2>1 DEF CartRecords
  <2>4. /\ DOMAIN cart' = Carts /\ cart' = [d \in Carts |-> cart'[d]]
        /\ \A d \in Carts \ {c} : cart'[d] = cart[d]
    BY <1>1
  <2> HIDE DEF new
  <2> QED BY <1>1, <2>2, <2>3, <2>4
<1>3. /\ cart[c].version \in Nat /\ cart'[c].version = cart[c].version + 1
      /\ \A d \in Carts \ {c} : cart'[d] = cart[d]
  BY <1>1 DEF CartRecords
<1>4. TypeOK' BY <1>2 DEF IInv, TypeOK, FinishMutation, incentiveVars
<1>5. PreviewInv'
  <2> SUFFICES ASSUME NEW p \in Previews, preview[p] # None
               PROVE  /\ preview[p].version <= cart'[preview[p].cart].version
                      /\ preview[p].version = cart'[preview[p].cart].version
                           /\ ~cart'[preview[p].cart].edit
                         => preview[p].line = cart'[preview[p].cart].line
    BY DEF PreviewInv, FinishMutation
  <2>1. preview[p] \in PreviewRecords BY DEF IInv, TypeOK
  <2>2. preview[p].cart \in Carts /\ preview[p].version \in Nat BY <2>1 DEF PreviewRecords
  <2>3. CASE preview[p].cart = c
    <3>1. preview[p].version <= cart[c].version BY <2>3 DEF IInv, PreviewInv
    <3> QED BY <1>3, <2>2, <2>3, <3>1
  <2>4. CASE preview[p].cart # c BY <1>3, <2>2, <2>4 DEF IInv, PreviewInv
  <2> QED BY <2>3, <2>4
<1>6. QuoteHeld' BY DEF IInv, QuoteHeld, Standing, Ordered, FinishMutation
<1>7. UNCHANGED Others /\ UNCHANGED preview
  BY DEF FinishMutation, Others, incentiveVars
<1> QED BY <1>4, <1>5, <1>6, <1>7, OthersKept DEF IInv

-----------------------------------------------------------------------------
(* Previews and expiry. *)

LEMMA PreviewIInv ==
  ASSUME IInv, NEW p \in Previews, NEW c \in Carts, Preview(p, c)
  PROVE  IInv'
<1>1. PICK useCoupon, useCredits \in BOOLEAN :
        preview' = [preview EXCEPT ![p] =
            [cart |-> c, version |-> cart[c].version, line |-> cart[c].line,
             coupon |-> useCoupon,
             credits |-> IF useCredits THEN Spendable(Owner[c]) ELSE 0,
             lapsed |-> FALSE, consumedBy |-> None]]
  BY DEF Preview
<1> DEFINE new == [cart |-> c, version |-> cart[c].version, line |-> cart[c].line,
                   coupon |-> useCoupon,
                   credits |-> IF useCredits THEN Spendable(Owner[c]) ELSE 0,
                   lapsed |-> FALSE, consumedBy |-> None]
<1>2. new \in PreviewRecords
  <2>1. cart[c].version \in Nat /\ cart[c].line \in Lines BY DEF IInv, TypeOK, CartRecords
  <2>2. Owner[c] \in Customers BY OwnerAssumption
  <2>3. Spendable(Owner[c]) \in Nat
    BY <2>2, AmountAssumption DEF IInv, TypeOK, Spendable, Balance
  <2> QED BY <2>1, <2>3 DEF PreviewRecords
<1>3. /\ new # None /\ new.cart = c /\ new.version = cart[c].version /\ new.line = cart[c].line
      /\ cart[c].version \in Nat
  BY <1>2, NoneAssumption DEF IInv, TypeOK, CartRecords
<1>4. preview \in [Previews -> PreviewRecords \cup {None}] BY DEF IInv, TypeOK
<1> HIDE DEF new
<1>5. /\ preview' = [preview EXCEPT ![p] = new] BY <1>1 DEF new
<1>6. /\ preview[p] = None /\ preview'[p] = new
      /\ \A o \in Previews \ {p} : preview'[o] = preview[o]
      /\ preview' \in [Previews -> PreviewRecords \cup {None}]
  BY <1>2, <1>4, <1>5 DEF Preview
<1>7. /\ UNCHANGED <<cart, quote, lapses, lost>> /\ UNCHANGED Others
  BY DEF Preview, Others, incentiveVars
<1>8. TypeOK' BY <1>6, <1>7 DEF IInv, TypeOK, Others
<1>9. PreviewInv' BY <1>3, <1>6, <1>7 DEF IInv, PreviewInv
<1>10. QuoteHeld' BY <1>7 DEF IInv, QuoteHeld, Standing, Ordered, Others
<1> QED BY <1>6, <1>7, <1>8, <1>9, <1>10, OthersKept DEF IInv

LEMMA PreviewLapsesIInv ==
  ASSUME IInv, NEW p \in Previews, PreviewLapses(p)
  PROVE  IInv'
<1>1. /\ preview \in [Previews -> PreviewRecords \cup {None}] /\ preview[p] # None
      /\ preview' = [preview EXCEPT ![p].lapsed = TRUE]
  BY DEF IInv, TypeOK, PreviewLapses
<1> DEFINE new == [preview[p] EXCEPT !.lapsed = TRUE]
<1>2. preview[p] \in PreviewRecords BY <1>1
<1>3. /\ new \in PreviewRecords /\ new.cart = preview[p].cart
      /\ new.version = preview[p].version /\ new.line = preview[p].line
  BY <1>2 DEF PreviewRecords
<1>4. preview' = [preview EXCEPT ![p] = new] BY <1>1
<1> HIDE DEF new
<1>5. /\ preview'[p] = new /\ \A o \in Previews \ {p} : preview'[o] = preview[o]
      /\ preview' \in [Previews -> PreviewRecords \cup {None}] /\ new # None
  BY <1>1, <1>3, <1>4, NoneAssumption
<1>6. /\ UNCHANGED <<cart, quote, lost>> /\ lapses' \in Nat /\ UNCHANGED Others
  BY DEF IInv, TypeOK, PreviewLapses, Others, incentiveVars
<1>7. TypeOK' BY <1>5, <1>6 DEF IInv, TypeOK, Others
<1>8. PreviewInv' BY <1>1, <1>3, <1>5, <1>6 DEF IInv, PreviewInv
<1>9. QuoteHeld' BY <1>6 DEF IInv, QuoteHeld, Standing, Ordered, Others
<1> QED BY <1>1, <1>3, <1>5, <1>6, <1>7, <1>8, <1>9, OthersKept DEF IInv

\* Expiry changes no quote that is used.
LEMMA QuotesIInv ==
  ASSUME IInv, quote' \in [Quotes -> QuoteRecords], lapses' \in Nat,
         UNCHANGED <<cart, preview, lost>>, UNCHANGED Others,
         \A q \in Quotes : quote[q].status = "USED" =>
           quote'[q].status = "USED" /\ quote'[q].usedBy = quote[q].usedBy
  PROVE  IInv'
<1>1. TypeOK' BY DEF IInv, TypeOK, Others
<1>2. PreviewInv' BY DEF IInv, PreviewInv
<1>3. QuoteHeld'
  <2> SUFFICES ASSUME NEW o \in Standing', order'[o].line.quote # None
               PROVE  /\ quote'[order'[o].line.quote].status = "USED"
                      /\ quote'[order'[o].line.quote].usedBy = o
    BY DEF QuoteHeld
  <2>1. order' = order /\ o \in Standing /\ o \in Requests /\ order[o] # None
    BY DEF Others, Standing, Ordered
  <2>2. order[o].line.quote \in Quotes
    BY <2>1 DEF IInv, TypeOK, OrderRecords, Lines
  <2>3. /\ quote[order[o].line.quote].status = "USED" /\ quote[order[o].line.quote].usedBy = o
    BY <2>1 DEF IInv, QuoteHeld
  <2> QED BY <2>1, <2>2, <2>3
<1> QED BY <1>1, <1>2, <1>3, OthersKept DEF IInv

LEMMA ExpiryIInv ==
  ASSUME IInv
  PROVE  /\ \A q \in Quotes : QuoteLapses(q) => IInv'
         /\ ExpireQuotes => IInv'
<1>1. quote \in [Quotes -> QuoteRecords] BY DEF IInv, TypeOK
<1>2. ASSUME NEW q \in Quotes, QuoteLapses(q) PROVE IInv'
  <2>1. quote' = [quote EXCEPT ![q].lapsed = TRUE] BY <1>2 DEF QuoteLapses
  <2>2. quote' \in [Quotes -> QuoteRecords] BY <1>1, <2>1 DEF QuoteRecords
  <2>3. \A d \in Quotes : quote'[d].status = quote[d].status /\ quote'[d].usedBy = quote[d].usedBy
    BY <1>1, <2>1 DEF QuoteRecords
  <2>4. UNCHANGED <<cart, preview, lost>> /\ lapses' \in Nat /\ UNCHANGED Others
    BY <1>2 DEF QuoteLapses, Others, incentiveVars, IInv, TypeOK
  <2> QED BY <2>2, <2>3, <2>4, QuotesIInv
<1>3. ASSUME ExpireQuotes PROVE IInv'
  <2>1. quote' = [q \in Quotes |-> IF quote[q].status = "ACTIVE" /\ quote[q].lapsed
                                     THEN [quote[q] EXCEPT !.status = "EXPIRED"] ELSE quote[q]]
    BY <1>3 DEF ExpireQuotes
  <2>2. quote' \in [Quotes -> QuoteRecords] BY <1>1, <2>1 DEF QuoteRecords
  <2>3. \A d \in Quotes : quote[d].status = "USED" => quote'[d] = quote[d]
    BY <2>1
  <2>4. UNCHANGED <<cart, preview, lost>> /\ lapses' \in Nat /\ UNCHANGED Others
    BY <1>3 DEF ExpireQuotes, Others, incentiveVars, IInv, TypeOK
  <2> QED BY <2>2, <2>3, <2>4, QuotesIInv
<1> QED BY <1>2, <1>3

-----------------------------------------------------------------------------
(* Confirmations. *)

\* A step of a confirmation that creates no order.
LEMMA RequestIInv ==
  ASSUME IInv, NEW r \in Requests, NEW new \in RequestRecords,
         UNCHANGED KeptByConfirm, lost' \in Nat,
         request' = [request EXCEPT ![r] = new],
         new.step \in {"review", "commit"} =>
           /\ order[r] = None
           /\ new.key \in Keys /\ new.preview \in Previews /\ preview[new.preview] # None,
         order[r] # None => new.step = "done",
         new.answer \in Requests =>
           /\ new.preview \in Previews /\ preview[new.preview] # None
           /\ new.answer \in Ordered /\ order[new.answer].key = new.key
           /\ CustomerOf(new.answer) = Owner[preview[new.preview].cart]
  PROVE  IInv'
<1>1. request \in [Requests -> RequestRecords] BY DEF IInv, TypeOK
<1>2. /\ request' \in [Requests -> RequestRecords] /\ request'[r] = new
      /\ \A s \in Requests \ {r} : request'[s] = request[s]
  BY <1>1
<1>3. UNCHANGED <<cart, quote, preview, order, redemption, usedCount, ledger, returned, coin, admin, lapses>>
  BY DEF KeptByConfirm, incentiveVars
<1>4. TypeOK' BY <1>2, <1>3 DEF IInv, TypeOK
<1>5. RequestInv' BY <1>2, <1>3 DEF IInv, RequestInv
<1>6. AnswerInv' BY <1>2, <1>3 DEF IInv, AnswerInv
<1>7. AdminInv' /\ PreviewInv' BY <1>3 DEF IInv, AdminInv, PreviewInv
<1>8. OneOrderPerCheckout' /\ QuoteHeld'
  BY <1>3 DEF IInv, OneOrderPerCheckout, QuoteHeld, Standing, Ordered
<1>9. AnswerIsOwnOrder'
  <2> SUFFICES ASSUME NEW s \in Requests, request'[s].answer \in Requests
               PROVE  /\ request'[s].answer \in Ordered
                      /\ order[request'[s].answer].key = request'[s].key
                      /\ CustomerOf(request'[s].answer) = Owner[preview[request'[s].preview].cart]
    BY <1>3 DEF AnswerIsOwnOrder, Ordered, CustomerOf
  <2>1. CASE s = r BY <1>2, <2>1
  <2>2. CASE s # r BY <1>2, <2>2 DEF IInv, AnswerIsOwnOrder
  <2> QED BY <2>1, <2>2
<1> QED BY <1>4, <1>5, <1>6, <1>7, <1>8, <1>9 DEF IInv

\* A request that is told what became of it.
LEMMA AnswerIInv ==
  ASSUME IInv, NEW r \in Requests, NEW what \in Answers, Answer(r, what),
         request[r].step \in {"review", "commit"},
         UNCHANGED KeptByConfirm, lost' \in Nat,
         what \in Requests =>
           /\ what \in Ordered /\ order[what].key = request[r].key
           /\ CustomerOf(what) = Owner[preview[request[r].preview].cart]
  PROVE  IInv'
<1> DEFINE new == [step |-> "done", key |-> request[r].key, preview |-> request[r].preview,
                   answer |-> what]
<1>1. request \in [Requests -> RequestRecords] /\ request[r] \in RequestRecords
  BY DEF IInv, TypeOK
<1>2. new \in RequestRecords BY <1>1 DEF RequestRecords
<1>3. request'[r] = new BY <1>1 DEF Answer, RequestRecords
<1>4. /\ DOMAIN request' = Requests /\ request' = [s \in Requests |-> request'[s]]
      /\ \A s \in Requests \ {r} : request'[s] = request[s]
  BY <1>1 DEF Answer
<1>5. /\ new.step = "done" /\ new.key = request[r].key /\ new.preview = request[r].preview
      /\ new.answer = what
  OBVIOUS
<1> HIDE DEF new
<1>6. request' = [request EXCEPT ![r] = new] BY <1>1, <1>3, <1>4
<1>7. request[r].preview \in Previews /\ preview[request[r].preview] # None
  BY DEF IInv, RequestInv
<1> QED BY <1>2, <1>5, <1>6, <1>7, RequestIInv

LEMMA LookupIInv ==
  ASSUME IInv, NEW r \in Requests, NEW p \in Previews, NEW k \in Keys, Lookup(r, p, k)
  PROVE  IInv'
<1> USE AnswerAssumption
<1>1. UNCHANGED KeptByConfirm /\ lost' \in Nat BY DEF Lookup, IInv, TypeOK
<1>2. order[r] = None /\ preview[p] # None
  BY DEF Lookup, IInv, RequestInv
<1>3. preview[p] \in PreviewRecords BY <1>2 DEF IInv, TypeOK
<1>4. CASE {o \in Ordered : order[o].key = k} = {}
  <2> DEFINE new == [step |-> "review", key |-> k, preview |-> p, answer |-> "none"]
  <2>1. request' = [request EXCEPT ![r] = new] BY <1>4 DEF Lookup
  <2>2. new \in RequestRecords BY DEF RequestRecords, Answers
  <2>3. new.step = "review" /\ new.key = k /\ new.preview = p /\ new.answer \notin Requests
    OBVIOUS
  <2> HIDE DEF new
  <2> QED BY <1>1, <1>2, <2>1, <2>2, <2>3, RequestIInv
<1>5. CASE {o \in Ordered : order[o].key = k} # {}
  <2>1. PICK o \in Ordered :
          /\ order[o].key = k
          /\ request' = [request EXCEPT ![r] =
               [step |-> "done", key |-> k, preview |-> p,
                answer |-> IF SameActor(p, o) THEN o ELSE "conflict"]]
    BY <1>5 DEF Lookup
  <2> DEFINE new == [step |-> "done", key |-> k, preview |-> p,
                     answer |-> IF SameActor(p, o) THEN o ELSE "conflict"]
  <2>2. o \in Requests BY <2>1 DEF Ordered
  <2>3. new \in RequestRecords BY <2>2 DEF RequestRecords, Answers
  <2>4. /\ new.step = "done" /\ new.key = k /\ new.preview = p
        /\ new.answer \in Requests => new.answer = o /\ SameActor(p, o)
    OBVIOUS
  <2>5. request' = [request EXCEPT ![r] = new] BY <2>1
  <2> HIDE DEF new
  <2>6. SameActor(p, o) => CustomerOf(o) = Owner[preview[p].cart] BY DEF SameActor, CustomerOf
  <2>7. new.answer \in Requests =>
          /\ new.answer \in Ordered /\ order[new.answer].key = new.key
          /\ CustomerOf(new.answer) = Owner[preview[new.preview].cart]
    BY <2>1, <2>4, <2>6
  <2>8. new.step \notin {"review", "commit"} BY <2>4
  <2>9. new.preview \in Previews /\ preview[new.preview] # None BY <1>2, <2>4
  <2> QED BY <1>1, <2>3, <2>4, <2>5, <2>7, <2>8, <2>9, RequestIInv
<1> QED BY <1>4, <1>5

LEMMA ReviewIInv ==
  ASSUME IInv, NEW r \in Requests, Review(r)
  PROVE  IInv'
<1> USE AnswerAssumption
<1>1. UNCHANGED KeptByConfirm /\ lost' \in Nat /\ request[r].step = "review"
  BY DEF Review, IInv, TypeOK
<1>2. CASE Step(r, "commit")
  <2> DEFINE new == [request[r] EXCEPT !.step = "commit"]
  <2>1. request[r] \in RequestRecords BY DEF IInv, TypeOK
  <2>2. /\ new \in RequestRecords /\ new.step = "commit" /\ new.key = request[r].key
        /\ new.preview = request[r].preview /\ new.answer = request[r].answer
    BY <2>1 DEF RequestRecords
  <2>3. request' = [request EXCEPT ![r] = new] BY <1>2 DEF Step
  <2> HIDE DEF new
  <2>4. /\ order[r] = None /\ request[r].key \in Keys /\ request[r].preview \in Previews
        /\ preview[request[r].preview] # None
    BY <1>1 DEF IInv, RequestInv
  <2>5. request[r].answer \in Requests =>
          /\ request[r].answer \in Ordered /\ order[request[r].answer].key = request[r].key
          /\ CustomerOf(request[r].answer) = Owner[preview[request[r].preview].cart]
    BY DEF IInv, AnswerIsOwnOrder
  <2> QED BY <1>1, <2>2, <2>3, <2>4, <2>5, RequestIInv
<1>3. CASE Answer(r, "refused") BY <1>1, <1>3, AnswerIInv DEF Answers
<1>4. CASE Answer(r, "rejected") BY <1>1, <1>4, AnswerIInv DEF Answers
<1> QED BY <1>2, <1>3, <1>4 DEF Review

LEMMA RefusedIInv ==
  ASSUME IInv, NEW r \in Requests
  PROVE  /\ CommitRefused(r) => IInv'
         /\ ConfirmLost(r) => IInv'
<1> USE AnswerAssumption
<1>1. ASSUME CommitRefused(r) PROVE IInv'
  <2>1. /\ UNCHANGED KeptByConfirm /\ lost' \in Nat /\ request[r].step = "commit"
    BY <1>1 DEF CommitRefused, IInv, TypeOK
  <2>2. CASE Answer(r, "refused") BY <2>1, <2>2, AnswerIInv DEF Answers
  <2>3. ASSUME NEW o \in Ordered, order[o].key = request[r].key,
               CustomerOf(o) = Owner[preview[request[r].preview].cart], Answer(r, o)
        PROVE  IInv'
    <3>1. o \in Answers BY DEF Ordered, Answers
    <3> QED BY <2>1, <2>3, <3>1, AnswerIInv
  <2> QED BY <1>1, <2>2, <2>3 DEF CommitRefused
<1>2. ASSUME ConfirmLost(r) PROVE IInv'
  <2>1. /\ UNCHANGED KeptByConfirm /\ lost' \in Nat /\ request[r].step \in {"review", "commit"}
        /\ Answer(r, "lost")
    BY <1>2 DEF ConfirmLost, IInv, TypeOK
  <2> QED BY <2>1, AnswerIInv DEF Answers
<1> QED BY <1>1, <1>2

\* The transaction: the indexes keep keys and previews apart, the quote is free and becomes the
\* order's, and every older preview of the cart is out of date afterwards.
LEMMA CommitIInv ==
  ASSUME IInv, NEW r \in Requests, Commit(r)
  PROVE  IInv'
<1> DEFINE p == request[r].preview
           pv == preview[p]
           c == pv.cart
           q == pv.line.quote
           o == [key |-> request[r].key, preview |-> p, cart |-> c, line |-> pv.line,
                 coupon |-> pv.coupon, credits |-> pv.credits, cancelled |-> FALSE,
                   paid |-> FALSE, payer |-> "none"]
<1> USE NoneAssumption, OwnerAssumption
<1>1. /\ order[r] = None /\ request[r].key \in Keys /\ p \in Previews /\ preview[p] # None
      /\ request[r].step = "commit"
  BY DEF Commit, IInv, RequestInv
<1>2. pv \in PreviewRecords BY <1>1 DEF IInv, TypeOK
<1>3. /\ c \in Carts /\ q \in Quotes \cup {None} /\ Owner[c] \in Customers
      /\ pv.credits \in Nat /\ pv.coupon \in BOOLEAN
  BY <1>2 DEF PreviewRecords, Lines
<1>4. o \in OrderRecords BY <1>1, <1>2 DEF OrderRecords, Payers, PreviewRecords
<1>5. /\ o.key = request[r].key /\ o.preview = p /\ o.cart = c /\ o.line = pv.line /\ o # None
  BY <1>4
<1>6. /\ order' = [order EXCEPT ![r] = o]
      /\ quote' = IF q = None THEN quote ELSE Take(q, r)
      /\ cart' = [cart EXCEPT ![c].line = NoLine, ![c].version = @ + 1]
      /\ preview' = [preview EXCEPT ![p].consumedBy = r]
      /\ redemption' = [redemption EXCEPT ![r] = IF pv.coupon THEN "applied" ELSE @]
      /\ usedCount' = usedCount + (IF pv.coupon THEN 1 ELSE 0)
      /\ ledger' = [ledger EXCEPT ![Owner[c]] = @ - pv.credits]
  BY DEF Commit, CreateOrder
<1>7. /\ Answer(r, r) /\ UNCHANGED <<returned, coin, admin, lapses, lost>>
      /\ MayCommit(r, p)
  BY DEF Commit
<1> HIDE DEF o
<1>8. /\ order \in [Requests -> OrderRecords \cup {None}] /\ order'[r] = o
      /\ \A s \in Requests \ {r} : order'[s] = order[s]
      /\ order' \in [Requests -> OrderRecords \cup {None}]
  BY <1>4, <1>6 DEF IInv, TypeOK
<1>9. /\ request' \in [Requests -> RequestRecords]
      /\ request'[r].step = "done" /\ request'[r].answer = r
      /\ request'[r].key = request[r].key /\ request'[r].preview = p
      /\ \A s \in Requests \ {r} : request'[s] = request[s]
  <2> DEFINE new == [step |-> "done", key |-> request[r].key, preview |-> p, answer |-> r]
  <2>1. request \in [Requests -> RequestRecords] /\ request[r] \in RequestRecords
    BY DEF IInv, TypeOK
  <2>2. new \in RequestRecords BY <2>1 DEF RequestRecords, Answers
  <2>3. request'[r] = new BY <1>7, <2>1 DEF Answer, RequestRecords
  <2>4. /\ DOMAIN request' = Requests /\ request' = [s \in Requests |-> request'[s]]
        /\ \A s \in Requests \ {r} : request'[s] = request[s]
    BY <1>7, <2>1 DEF Answer
  <2>5. new.step = "done" /\ new.answer = r /\ new.key = request[r].key /\ new.preview = p
    OBVIOUS
  <2> HIDE DEF new
  <2>6. request' \in [Requests -> RequestRecords] BY <2>1, <2>2, <2>3, <2>4
  <2> QED BY <2>3, <2>4, <2>5, <2>6
<1>10. /\ preview' \in [Previews -> PreviewRecords \cup {None}]
       /\ \A d \in Previews : preview'[d] = None <=> preview[d] = None
       /\ \A d \in Previews : preview[d] # None =>
            /\ preview'[d].cart = preview[d].cart
            /\ preview'[d].version = preview[d].version
            /\ preview'[d].line = preview[d].line
  <2> DEFINE new == [pv EXCEPT !.consumedBy = r]
  <2>1. /\ new \in PreviewRecords /\ new.cart = pv.cart /\ new.version = pv.version
        /\ new.line = pv.line
    BY <1>2 DEF PreviewRecords
  <2>2. preview' = [preview EXCEPT ![p] = new] BY <1>6
  <2>3. preview \in [Previews -> PreviewRecords \cup {None}] BY DEF IInv, TypeOK
  <2> HIDE DEF new
  <2> QED BY <1>1, <2>1, <2>2, <2>3
<1>11. /\ cart' \in [Carts -> CartRecords] /\ cart[c].version \in Nat
       /\ cart'[c].version = cart[c].version + 1
       /\ \A d \in Carts \ {c} : cart'[d] = cart[d]
  <2> DEFINE new == [version |-> cart[c].version + 1, line |-> NoLine, edit |-> cart[c].edit]
  <2>1. cart \in [Carts -> CartRecords] /\ cart[c] \in CartRecords
    BY <1>3 DEF IInv, TypeOK
  <2>2. NoLine \in Lines BY AmountAssumption DEF NoLine, Lines
  <2>3. new \in CartRecords /\ cart[c].version \in Nat BY <2>1, <2>2 DEF CartRecords
  <2>4. cart'[c] = new BY <1>3, <1>6, <2>1 DEF CartRecords
  <2>5. /\ DOMAIN cart' = Carts /\ cart' = [d \in Carts |-> cart'[d]]
        /\ \A d \in Carts \ {c} : cart'[d] = cart[d]
    BY <1>3, <1>6, <2>1
  <2>6. new.version = cart[c].version + 1 OBVIOUS
  <2> HIDE DEF new
  <2>7. cart' \in [Carts -> CartRecords] BY <2>1, <2>3, <2>4, <2>5
  <2> QED BY <2>3, <2>4, <2>5, <2>6, <2>7
<1>12. /\ quote' \in [Quotes -> QuoteRecords]
       /\ q # None => quote[q].status = "ACTIVE" /\ quote'[q].status = "USED" /\ quote'[q].usedBy = r
       /\ \A d \in Quotes \ {q} : quote'[d] = quote[d]
  <2>1. quote \in [Quotes -> QuoteRecords] BY DEF IInv, TypeOK
  <2>2. q # None => quote[q].status = "ACTIVE" BY <1>7 DEF MayCommit, QuoteFree, Usable
  <2>3. CASE q = None BY <1>6, <2>1, <2>3
  <2>4. CASE q # None
    <3>1. quote' = [quote EXCEPT ![q].status = "USED", ![q].usedBy = r]
      BY <1>6, <2>4 DEF Take
    <3> DEFINE new == [status |-> "USED", lapsed |-> quote[q].lapsed, usedBy |-> r]
    <3>2. q \in Quotes /\ quote[q] \in QuoteRecords BY <1>3, <2>1, <2>4
    <3>3. new \in QuoteRecords BY <3>2 DEF QuoteRecords
    <3>4. quote'[q] = new BY <2>1, <3>1, <3>2 DEF QuoteRecords
    <3>5. /\ DOMAIN quote' = Quotes /\ quote' = [d \in Quotes |-> quote'[d]]
          /\ \A d \in Quotes \ {q} : quote'[d] = quote[d]
      BY <2>1, <3>1, <3>2
    <3>6. new.status = "USED" /\ new.usedBy = r OBVIOUS
    <3> HIDE DEF new
    <3>7. quote' \in [Quotes -> QuoteRecords] BY <2>1, <3>3, <3>4, <3>5
    <3> QED BY <2>2, <2>4, <3>2, <3>4, <3>5, <3>6, <3>7
  <2> QED BY <2>3, <2>4
<1>13. TypeOK'
  <2>1. redemption' \in [Requests -> {"none", "applied", "released"}] /\ usedCount' \in Nat
    BY <1>3, <1>6 DEF IInv, TypeOK
  <2>2. ledger' \in [Customers -> Int] BY <1>3, <1>6 DEF IInv, TypeOK
  <2> QED BY <1>7, <1>8, <1>9, <1>10, <1>11, <1>12, <2>1, <2>2 DEF IInv, TypeOK
<1> HIDE DEF p, pv, c, q
<1>14. RequestInv'
  <2> SUFFICES ASSUME NEW s \in Requests
               PROVE  /\ request'[s].step \in {"review", "commit"} =>
                           /\ request'[s].key \in Keys /\ request'[s].preview \in Previews
                           /\ preview'[request'[s].preview] # None
                      /\ order'[s] # None => request'[s].step = "done"
    BY DEF RequestInv
  <2>1. CASE s = r BY <1>9, <2>1
  <2>2. CASE s # r BY <1>8, <1>9, <1>10, <2>2 DEF IInv, RequestInv
  <2> QED BY <2>1, <2>2
<1>15. AnswerInv' BY <1>1, <1>9, <1>10 DEF IInv, AnswerInv
<1>16. AdminInv'
  <2>1. admin[r] = "none" BY <1>1 DEF IInv, AdminInv
  <2> QED BY <1>7, <1>8, <2>1 DEF IInv, AdminInv
<1>17. PreviewInv'
  <2> SUFFICES ASSUME NEW d \in Previews, preview'[d] # None
               PROVE  /\ preview'[d].version <= cart'[preview'[d].cart].version
                      /\ preview'[d].version = cart'[preview'[d].cart].version
                           /\ ~cart'[preview'[d].cart].edit
                         => preview'[d].line = cart'[preview'[d].cart].line
    BY DEF PreviewInv
  <2>1. /\ preview[d] # None /\ preview'[d].cart = preview[d].cart
        /\ preview'[d].version = preview[d].version /\ preview'[d].line = preview[d].line
    BY <1>10
  <2>2. preview[d].cart \in Carts /\ preview[d].version \in Nat
    BY <2>1 DEF IInv, TypeOK, PreviewRecords
  <2>3. CASE preview[d].cart = c
    <3>1. preview[d].version <= cart[c].version BY <2>1, <2>3 DEF IInv, PreviewInv
    <3> QED BY <1>11, <2>1, <2>2, <2>3, <3>1
  <2>4. CASE preview[d].cart # c BY <1>11, <2>1, <2>2, <2>4 DEF IInv, PreviewInv
  <2> QED BY <2>3, <2>4
<1>18. OneOrderPerCheckout'
  <2>1. \A s \in Ordered : order[s].key # request[r].key /\ order[s].preview # p
    BY <1>7 DEF MayCommit, KeyFree, PreviewFree
  <2>2. Ordered' = Ordered \cup {r} BY <1>5, <1>8 DEF Ordered
  <2>3. r \notin Ordered BY <1>1 DEF Ordered
  <2>4. \A s \in Ordered : order'[s] = order[s] BY <1>8, <2>3 DEF Ordered
  <2> QED BY <1>5, <1>8, <2>1, <2>2, <2>4 DEF IInv, OneOrderPerCheckout
<1>19. QuoteHeld'
  <2> SUFFICES ASSUME NEW s \in Standing', order'[s].line.quote # None
               PROVE  /\ quote'[order'[s].line.quote].status = "USED"
                      /\ quote'[order'[s].line.quote].usedBy = s
    BY DEF QuoteHeld
  <2>1. s \in Requests /\ order'[s] # None /\ ~order'[s].cancelled BY DEF Standing, Ordered
  <2>2. CASE s = r BY <1>5, <1>8, <1>12, <2>2 DEF q
  <2>3. CASE s # r
    <3>1. order'[s] = order[s] /\ s \in Standing BY <1>8, <2>1, <2>3 DEF Standing, Ordered
    <3>2. /\ quote[order[s].line.quote].status = "USED"
          /\ quote[order[s].line.quote].usedBy = s
      BY <3>1 DEF IInv, QuoteHeld
    <3>3. order[s].line.quote \in Quotes
      BY <2>1, <3>1 DEF IInv, TypeOK, OrderRecords, Lines
    <3>4. order[s].line.quote # q BY <1>12, <3>1, <3>2
    <3> QED BY <1>12, <3>1, <3>2, <3>3, <3>4
  <2> QED BY <2>2, <2>3
<1>20. AnswerIsOwnOrder'
  <2> SUFFICES ASSUME NEW s \in Requests, request'[s].answer \in Requests
               PROVE  /\ order'[request'[s].answer] # None
                      /\ order'[request'[s].answer].key = request'[s].key
                      /\ Owner[order'[request'[s].answer].cart]
                           = Owner[preview'[request'[s].preview].cart]
    BY DEF AnswerIsOwnOrder, Ordered, CustomerOf
  <2>1. CASE s = r BY <1>1, <1>5, <1>8, <1>9, <1>10, <2>1 DEF c, pv
  <2>2. CASE s # r
    <3>1. /\ request'[s] = request[s] /\ request[s].answer \in Ordered
          /\ order[request[s].answer].key = request[s].key
          /\ Owner[order[request[s].answer].cart] = Owner[preview[request[s].preview].cart]
      BY <1>9, <2>2 DEF IInv, AnswerIsOwnOrder, CustomerOf
    <3>2. request[s].answer # r BY <1>1, <3>1 DEF Ordered
    <3>3. request[s].preview \in Previews /\ preview[request[s].preview] # None
      BY <3>1 DEF IInv, AnswerInv, Ordered
    <3> QED BY <1>8, <1>10, <3>1, <3>2, <3>3 DEF Ordered
  <2> QED BY <2>1, <2>2
<1> QED BY <1>13, <1>14, <1>15, <1>16, <1>17, <1>18, <1>19, <1>20 DEF IInv

-----------------------------------------------------------------------------
(* What becomes of an order. *)

\* A step that creates no order, brings none back and leaves the quotes of standing ones alone.
LEMMA OrdersIInv ==
  ASSUME IInv, TypeOK', AdminInv', UNCHANGED <<cart, preview, request>>,
         \A o \in Requests : order'[o] = None <=> order[o] = None,
         \A o \in Requests : order[o] # None =>
           /\ order'[o].key = order[o].key /\ order'[o].preview = order[o].preview
           /\ order'[o].cart = order[o].cart /\ order'[o].line = order[o].line
           /\ order[o].cancelled => order'[o].cancelled,
         \A q \in Quotes : quote[q].status = "USED" /\ quote[q].usedBy \in Standing' =>
           quote'[q] = quote[q]
  PROVE  IInv'
<1>1. RequestInv' BY DEF IInv, RequestInv
<1>2. AnswerInv' /\ PreviewInv' BY DEF IInv, AnswerInv, PreviewInv
<1>3. OneOrderPerCheckout' BY DEF IInv, OneOrderPerCheckout, Ordered
<1>4. AnswerIsOwnOrder' BY DEF IInv, AnswerIsOwnOrder, Ordered, CustomerOf
<1>5. QuoteHeld'
  <2> SUFFICES ASSUME NEW o \in Standing', order'[o].line.quote # None
               PROVE  /\ quote'[order'[o].line.quote].status = "USED"
                      /\ quote'[order'[o].line.quote].usedBy = o
    BY DEF QuoteHeld
  <2>1. o \in Requests /\ order[o] # None /\ order'[o].line = order[o].line /\ o \in Standing
    BY DEF Standing, Ordered
  <2>2. quote[order[o].line.quote].status = "USED" /\ quote[order[o].line.quote].usedBy = o
    BY <2>1 DEF IInv, QuoteHeld
  <2>3. order[o].line.quote \in Quotes BY <2>1 DEF IInv, TypeOK, OrderRecords, Lines
  <2> QED BY <2>1, <2>2, <2>3
<1> QED BY <1>1, <1>2, <1>3, <1>4, <1>5 DEF IInv

\* The confirmation of a payment marks an order paid, in time or late.
Marked(o, payer) == [order EXCEPT ![o].paid = TRUE, ![o].payer = payer]

\* A confirmation reads an order, or marks it.
PayerSet(o) == \E payer \in Payers : \/ order' = [order EXCEPT ![o].payer = payer]
                                     \/ order' = Marked(o, payer)

\* An order that is cancelled, read or paid stays the same order.
LEMMA OrderFieldSet ==
  ASSUME IInv, NEW o \in Requests, order[o] # None,
         order' = [order EXCEPT ![o].cancelled = TRUE] \/ PayerSet(o)
  PROVE  /\ order' \in [Requests -> OrderRecords \cup {None}]
         /\ \A s \in Requests \ {o} : order'[s] = order[s]
         /\ order'[o] # None
         /\ order'[o].key = order[o].key /\ order'[o].preview = order[o].preview
         /\ order'[o].cart = order[o].cart /\ order'[o].line = order[o].line
         /\ order[o].cancelled => order'[o].cancelled
         /\ order[o].paid => order'[o].paid
<1> USE NoneAssumption
<1>1. order \in [Requests -> OrderRecords \cup {None}] /\ order[o] \in OrderRecords
  BY DEF IInv, TypeOK
<1>2. CASE order' = [order EXCEPT ![o].cancelled = TRUE]
  <2> DEFINE new == [order[o] EXCEPT !.cancelled = TRUE]
  <2>1. /\ new \in OrderRecords /\ new.key = order[o].key /\ new.preview = order[o].preview
        /\ new.cart = order[o].cart /\ new.line = order[o].line /\ new.cancelled
        /\ new.paid = order[o].paid
    BY <1>1 DEF OrderRecords
  <2>2. order' = [order EXCEPT ![o] = new] BY <1>2
  <2> HIDE DEF new
  <2> QED BY <1>1, <2>1, <2>2
<1>3. ASSUME NEW payer \in Payers, order' = [order EXCEPT ![o].payer = payer]
      PROVE  /\ order' \in [Requests -> OrderRecords \cup {None}]
             /\ \A s \in Requests \ {o} : order'[s] = order[s]
             /\ order'[o] # None
             /\ order'[o].key = order[o].key /\ order'[o].preview = order[o].preview
             /\ order'[o].cart = order[o].cart /\ order'[o].line = order[o].line
             /\ order[o].cancelled => order'[o].cancelled
             /\ order[o].paid => order'[o].paid
  <2> DEFINE new == [order[o] EXCEPT !.payer = payer]
  <2>1. /\ new \in OrderRecords /\ new.key = order[o].key /\ new.preview = order[o].preview
        /\ new.cart = order[o].cart /\ new.line = order[o].line
        /\ new.cancelled = order[o].cancelled /\ new.paid = order[o].paid
    BY <1>1 DEF OrderRecords
  <2>2. order' = [order EXCEPT ![o] = new] BY <1>3
  <2> HIDE DEF new
  <2> QED BY <1>1, <2>1, <2>2
<1>4. ASSUME NEW payer \in Payers, order' = Marked(o, payer)
      PROVE  /\ order' \in [Requests -> OrderRecords \cup {None}]
             /\ \A s \in Requests \ {o} : order'[s] = order[s]
             /\ order'[o] # None
             /\ order'[o].key = order[o].key /\ order'[o].preview = order[o].preview
             /\ order'[o].cart = order[o].cart /\ order'[o].line = order[o].line
             /\ order[o].cancelled => order'[o].cancelled
             /\ order[o].paid => order'[o].paid
  <2> DEFINE new == [order[o] EXCEPT !.paid = TRUE, !.payer = payer]
  <2>1. /\ new \in OrderRecords /\ new.key = order[o].key /\ new.preview = order[o].preview
        /\ new.cart = order[o].cart /\ new.line = order[o].line
        /\ new.cancelled = order[o].cancelled /\ new.paid
    BY <1>1 DEF OrderRecords
  <2>2. order' = [order EXCEPT ![o] = new] BY <1>4 DEF Marked
  <2> HIDE DEF new
  <2> QED BY <1>1, <2>1, <2>2
<1> QED BY <1>2, <1>3, <1>4 DEF PayerSet

\* Giving an order's quotes back touches no quote of another order.
LEMMA QuotesBackKeeps ==
  ASSUME IInv, NEW o \in Requests, quote' = QuotesBack(o)
  PROVE  /\ quote' \in [Quotes -> QuoteRecords]
         /\ \A q \in Quotes : quote[q].usedBy # o => quote'[q] = quote[q]
<1>1. quote \in [Quotes -> QuoteRecords] BY DEF IInv, TypeOK
<1>2. \A q \in Quotes : quote'[q] = IF quote[q].usedBy = o /\ quote[q].status = "USED" /\ ~quote[q].lapsed
                      THEN [quote[q] EXCEPT !.status = "ACTIVE", !.usedBy = None] ELSE quote[q]
  BY DEF QuotesBack
<1>3. ASSUME NEW q \in Quotes PROVE quote'[q] \in QuoteRecords
  <2>1. quote[q] \in QuoteRecords BY <1>1
  <2> QED BY <1>2, <2>1 DEF QuoteRecords
<1>4. DOMAIN quote' = Quotes /\ quote' = [q \in Quotes |-> quote'[q]] BY DEF QuotesBack
<1> QED BY <1>2, <1>3, <1>4

\* The helpers of a restoration return what the variables hold.
LEMMA RestoreTyped ==
  ASSUME TypeOK, NEW o \in Requests, order[o] # None
  PROVE  /\ CustomerOf(o) \in Customers
         /\ CreditsBack(o) \in Nat /\ CoinBack(o) \in Nat
         /\ Reversed(o) \in [Requests -> {"none", "earned", "reversed"}]
         /\ Released(o) \in [Requests -> {"none", "applied", "released"}]
         /\ CountDown \in Nat
<1>1. order[o] \in OrderRecords BY DEF TypeOK
<1>2. order[o].credits \in Nat /\ order[o].cart \in Carts BY <1>1 DEF OrderRecords
<1>3. CustomerOf(o) \in Customers BY <1>2, OwnerAssumption DEF CustomerOf
<1>4. CreditsBack(o) \in Nat /\ CoinBack(o) \in Nat
  BY <1>2, AmountAssumption DEF CreditsBack, CoinBack
<1>5. Reversed(o) \in [Requests -> {"none", "earned", "reversed"}] BY DEF TypeOK, Reversed
<1>6. Released(o) \in [Requests -> {"none", "applied", "released"}] BY DEF TypeOK, Released
<1>7. CountDown \in Nat BY DEF TypeOK, CountDown
<1> QED BY <1>3, <1>4, <1>5, <1>6, <1>7

LEMMA CancelIInv ==
  ASSUME IInv, NEW o \in Requests, Cancel(o)
  PROVE  IInv'
<1>1. TypeOK /\ order[o] # None BY DEF IInv, Cancel, Standing, Ordered
<1>2. order[o].credits \in Nat BY <1>1 DEF TypeOK, OrderRecords
<1>3. order' = [order EXCEPT ![o].cancelled = TRUE] BY DEF Cancel
<1>4. /\ order' \in [Requests -> OrderRecords \cup {None}]
      /\ \A s \in Requests \ {o} : order'[s] = order[s]
      /\ order'[o] # None
      /\ order'[o].key = order[o].key /\ order'[o].preview = order[o].preview
      /\ order'[o].cart = order[o].cart /\ order'[o].line = order[o].line
  BY <1>1, <1>3, OrderFieldSet
<1>5. order'[o].cancelled
  BY <1>1, <1>3 DEF TypeOK, OrderRecords
<1>6. quote' \in [Quotes -> QuoteRecords] /\ \A q \in Quotes : quote[q].usedBy # o => quote'[q] = quote[q]
  BY QuotesBackKeeps DEF Cancel
<1>7. /\ UNCHANGED <<cart, preview, request, admin, lapses, lost>>
      /\ coin' \in [Requests -> {"none", "earned", "reversed"}]
      /\ redemption' \in [Requests -> {"none", "applied", "released"}]
      /\ usedCount' \in Nat
  BY <1>1, RestoreTyped DEF Cancel, TypeOK
<1>8. ledger' \in [Customers -> Int]
  <2>1. CustomerOf(o) \in Customers /\ CreditsBack(o) \in Nat /\ CoinBack(o) \in Nat
    BY <1>1, RestoreTyped
  <2> HIDE DEF CustomerOf, CreditsBack, CoinBack
  <2> QED BY <1>1, <2>1 DEF Cancel, TypeOK
<1>9. returned' \in [Requests -> BOOLEAN] BY <1>1, <1>2 DEF Cancel, TypeOK
<1>10. TypeOK' BY <1>1, <1>4, <1>6, <1>7, <1>8, <1>9 DEF TypeOK
<1>11. AdminInv' BY <1>1, <1>4, <1>5, <1>7 DEF IInv, AdminInv
<1>12. \A q \in Quotes : quote[q].status = "USED" /\ quote[q].usedBy \in Standing' => quote'[q] = quote[q]
  BY <1>5, <1>6 DEF Standing, Ordered
<1>13. \A s \in Requests : order'[s] = None <=> order[s] = None BY <1>1, <1>4
<1>14. \A s \in Requests : order[s] # None =>
         /\ order'[s].key = order[s].key /\ order'[s].preview = order[s].preview
         /\ order'[s].cart = order[s].cart /\ order'[s].line = order[s].line
         /\ order[s].cancelled => order'[s].cancelled
  BY <1>4, <1>5
<1> QED BY <1>7, <1>10, <1>11, <1>12, <1>13, <1>14, OrdersIInv

\* What a confirmation writes into the order.
LEMMA PayWrites ==
  ASSUME NEW o \in Requests, PayReads(o) \/ Pay(o)
  PROVE  /\ order[o] # None /\ ~order[o].paid /\ PayerSet(o)
         /\ UNCHANGED <<cart, preview, request, admin, lapses, lost>>
         /\ UNCHANGED <<quote, redemption, usedCount, returned>>
<1>1. \A c : (IF c THEN "late" ELSE "none") \in Payers /\ "read" \in Payers BY DEF Payers
<1>2. CASE PayReads(o)
  BY <1>1, <1>2 DEF PayReads, Standing, Ordered, PayerSet, shopVars, incentiveVars
<1>3. CASE Pay(o)
  <2> DEFINE payer == IF order[o].cancelled THEN "late" ELSE "none"
  <2>1. order' = Marked(o, payer) BY <1>3 DEF Pay, Marked
  <2>2. payer \in Payers BY <1>1
  <2> HIDE DEF payer
  <2>3. PayerSet(o) BY <2>1, <2>2 DEF PayerSet
  <2> QED BY <1>3, <2>3 DEF Pay, shopVars
<1> QED BY <1>2, <1>3

LEMMA PayIInv ==
  ASSUME IInv, NEW o \in Requests, PayReads(o) \/ Pay(o)
  PROVE  IInv'
<1>1. TypeOK /\ order[o] # None BY PayWrites DEF IInv
<1>2. PayerSet(o) BY PayWrites
<1>3. /\ order' \in [Requests -> OrderRecords \cup {None}]
      /\ \A s \in Requests \ {o} : order'[s] = order[s]
      /\ order'[o] # None
      /\ order'[o].key = order[o].key /\ order'[o].preview = order[o].preview
      /\ order'[o].cart = order[o].cart /\ order'[o].line = order[o].line
      /\ order[o].cancelled => order'[o].cancelled
  BY <1>1, <1>2, OrderFieldSet
<1>4. /\ UNCHANGED <<cart, preview, request, admin, lapses, lost>>
      /\ UNCHANGED <<quote, redemption, usedCount, returned>>
  BY PayWrites
<1>5. ledger' \in [Customers -> Int]
  <2>1. CASE PayReads(o) BY <1>1, <2>1 DEF PayReads, incentiveVars, TypeOK
  <2>2. CASE Pay(o)
    <3>1. CustomerOf(o) \in Customers BY <1>1, RestoreTyped
    <3>2. Earns(o) \in Nat BY AmountAssumption DEF Earns
    <3>3. ledger' = [ledger EXCEPT ![CustomerOf(o)] = @ + Earns(o)] BY <2>2 DEF Pay
    <3>4. ledger \in [Customers -> Int] BY <1>1 DEF TypeOK
    <3> HIDE DEF Earns
    <3> QED BY <3>1, <3>2, <3>3, <3>4
  <2> QED BY <2>1, <2>2
<1>6. coin' \in [Requests -> {"none", "earned", "reversed"}]
  BY <1>1 DEF PayReads, Pay, TypeOK, incentiveVars
<1>7. TypeOK' BY <1>1, <1>3, <1>4, <1>5, <1>6 DEF TypeOK
<1>8. AdminInv' BY <1>1, <1>3, <1>4 DEF IInv, AdminInv
<1>9. \A s \in Requests : order'[s] = None <=> order[s] = None BY <1>1, <1>3
<1>10. \A s \in Requests : order[s] # None =>
         /\ order'[s].key = order[s].key /\ order'[s].preview = order[s].preview
         /\ order'[s].cart = order[s].cart /\ order'[s].line = order[s].line
         /\ order[s].cancelled => order'[s].cancelled
  BY <1>3
<1> QED BY <1>4, <1>7, <1>8, <1>9, <1>10, OrdersIInv

\* A step of an administrator's cancellation that leaves the order as it is.
LEMMA AdminIInv ==
  ASSUME IInv, NEW o \in Requests, NEW to \in AdminSteps, order[o] # None,
         admin' = [admin EXCEPT ![o] = to],
         to \in {"credits", "coin", "quote", "coupon", "count"} => order[o].cancelled,
         UNCHANGED <<cart, preview, request, order>>,
         UNCHANGED quote \/ (order[o].cancelled /\ quote' = QuotesBack(o)),
         redemption' \in [Requests -> {"none", "applied", "released"}], usedCount' \in Nat,
         ledger' \in [Customers -> Int], returned' \in [Requests -> BOOLEAN],
         coin' \in [Requests -> {"none", "earned", "reversed"}],
         lapses' \in Nat, lost' \in Nat
  PROVE  IInv'
<1>1. /\ quote' \in [Quotes -> QuoteRecords]
      /\ \A q \in Quotes : quote[q].status = "USED" /\ quote[q].usedBy \in Standing' => quote'[q] = quote[q]
  <2>1. CASE UNCHANGED quote BY <2>1 DEF IInv, TypeOK
  <2>2. CASE order[o].cancelled /\ quote' = QuotesBack(o)
    <3>1. o \notin Standing' BY <2>2 DEF Standing
    <3> QED BY <2>2, <3>1, QuotesBackKeeps
  <2> QED BY <2>1, <2>2
<1>2. /\ admin' \in [Requests -> AdminSteps] /\ admin'[o] = to
      /\ \A s \in Requests \ {o} : admin'[s] = admin[s]
  BY DEF IInv, TypeOK
<1>3. TypeOK' BY <1>1, <1>2 DEF IInv, TypeOK
<1>4. AdminInv' BY <1>2 DEF IInv, AdminInv
<1> QED BY <1>1, <1>3, <1>4, OrdersIInv

LEMMA AdminSavesIInv ==
  ASSUME IInv, NEW o \in Requests, AdminSaves(o)
  PROVE  IInv'
<1>1. TypeOK /\ order[o] # None BY DEF IInv, AdminInv, AdminSaves, AdminGoes
<1>2. order' = [order EXCEPT ![o].cancelled = TRUE] BY DEF AdminSaves
<1>3. /\ order' \in [Requests -> OrderRecords \cup {None}]
      /\ \A s \in Requests \ {o} : order'[s] = order[s]
      /\ order'[o] # None
      /\ order'[o].key = order[o].key /\ order'[o].preview = order[o].preview
      /\ order'[o].cart = order[o].cart /\ order'[o].line = order[o].line
      /\ order[o].cancelled => order'[o].cancelled
  BY <1>1, <1>2, OrderFieldSet
<1>4. order'[o].cancelled BY <1>1, <1>2 DEF TypeOK, OrderRecords
<1>5. /\ UNCHANGED <<cart, preview, request, lapses, lost>>
      /\ UNCHANGED <<quote, redemption, usedCount, ledger, returned, coin>>
      /\ admin' = [admin EXCEPT ![o] = "credits"]
  BY DEF AdminSaves, AdminGoes, shopVars, incentiveVars
<1>6. admin' \in [Requests -> AdminSteps] /\ \A s \in Requests \ {o} : admin'[s] = admin[s]
  BY <1>1, <1>5 DEF TypeOK, AdminSteps
<1>7. TypeOK' BY <1>1, <1>3, <1>5, <1>6 DEF TypeOK
<1>8. AdminInv' BY <1>1, <1>3, <1>4, <1>6 DEF IInv, AdminInv
<1>9. \A s \in Requests : order'[s] = None <=> order[s] = None BY <1>1, <1>3
<1>10. \A s \in Requests : order[s] # None =>
         /\ order'[s].key = order[s].key /\ order'[s].preview = order[s].preview
         /\ order'[s].cart = order[s].cart /\ order'[s].line = order[s].line
         /\ order[s].cancelled => order'[s].cancelled
  BY <1>3
<1> QED BY <1>5, <1>7, <1>8, <1>9, <1>10, OrdersIInv

LEMMA RestoreIInv ==
  ASSUME IInv, NEW o \in Requests
  PROVE  /\ AdminReads(o) => IInv'
         /\ RestoreCredits(o) => IInv'
         /\ RestoreCoin(o) => IInv'
         /\ RestoreQuote(o) => IInv'
         /\ ReleaseCoupon(o) => IInv'
         /\ ReleaseCount(o) => IInv'
         /\ RestoreFails(o) => IInv'
<1> DEFINE Rest == {"credits", "coin", "quote", "coupon", "count"}
           LedgersTyped == /\ redemption' \in [Requests -> {"none", "applied", "released"}]
                           /\ usedCount' \in Nat
                           /\ ledger' \in [Customers -> Int]
                           /\ returned' \in [Requests -> BOOLEAN]
                           /\ coin' \in [Requests -> {"none", "earned", "reversed"}]
                           /\ lapses' \in Nat /\ lost' \in Nat
<1>1. TypeOK BY DEF IInv
<1>2. admin[o] # "none" => order[o] # None BY DEF IInv, AdminInv
<1>3. admin[o] \in Rest => order[o] # None /\ order[o].cancelled BY DEF IInv, AdminInv
<1>4. Rest \subseteq AdminSteps /\ {"save", "done", "failed"} \subseteq AdminSteps \ Rest
  BY DEF AdminSteps
<1>5. UNCHANGED <<incentiveVars, lapses, lost>> => LedgersTyped
  BY <1>1 DEF TypeOK, incentiveVars
<1>6. ASSUME AdminReads(o) PROVE IInv'
  <2>1. /\ order[o] # None /\ UNCHANGED <<cart, preview, request, order>> /\ UNCHANGED quote
        /\ admin' = [admin EXCEPT ![o] = "save"] /\ LedgersTyped
    BY <1>5, <1>6 DEF AdminReads, AdminGoes, Standing, Ordered, shopVars
  <2> HIDE DEF Rest
  <2> QED BY <1>4, <2>1, AdminIInv DEF Rest
<1>7. ASSUME RestoreCredits(o) PROVE IInv'
  <2>1. /\ order[o] # None /\ order[o].cancelled
        /\ UNCHANGED <<cart, preview, request, order>> /\ UNCHANGED quote
        /\ UNCHANGED <<redemption, usedCount, coin, lapses, lost>>
        /\ admin' = [admin EXCEPT ![o] = "coin"]
    BY <1>3, <1>7 DEF RestoreCredits, AdminGoes, shopVars
  <2>2. ledger' \in [Customers -> Int]
    <3>1. CustomerOf(o) \in Customers /\ CreditsBack(o) \in Nat BY <1>1, <2>1, RestoreTyped
    <3> QED BY <1>1, <1>7, <3>1 DEF RestoreCredits, TypeOK
  <2>3. returned' \in [Requests -> BOOLEAN]
    <3>1. order[o].credits \in Nat BY <1>1, <2>1 DEF TypeOK, OrderRecords
    <3> QED BY <1>1, <1>7, <3>1 DEF RestoreCredits, TypeOK
  <2>4. LedgersTyped BY <1>1, <2>1, <2>2, <2>3 DEF TypeOK
  <2> QED BY <1>4, <2>1, <2>4, AdminIInv
<1>8. ASSUME RestoreCoin(o) PROVE IInv'
  <2>1. /\ order[o] # None /\ order[o].cancelled
        /\ UNCHANGED <<cart, preview, request, order>> /\ UNCHANGED quote
        /\ UNCHANGED <<redemption, usedCount, returned, lapses, lost>>
        /\ admin' = [admin EXCEPT ![o] = "quote"]
    BY <1>3, <1>8 DEF RestoreCoin, AdminGoes, shopVars
  <2>2. /\ CustomerOf(o) \in Customers /\ CoinBack(o) \in Nat
        /\ Reversed(o) \in [Requests -> {"none", "earned", "reversed"}]
    BY <1>1, <2>1, RestoreTyped
  <2>3. ledger' \in [Customers -> Int] BY <1>1, <1>8, <2>2 DEF RestoreCoin, TypeOK
  <2>4. LedgersTyped BY <1>1, <1>8, <2>1, <2>2, <2>3 DEF RestoreCoin, TypeOK
  <2> QED BY <1>4, <2>1, <2>4, AdminIInv
<1>9. ASSUME RestoreQuote(o) PROVE IInv'
  <2>1. /\ order[o] # None /\ order[o].cancelled
        /\ UNCHANGED <<cart, preview, request, order>> /\ quote' = QuotesBack(o)
        /\ admin' = [admin EXCEPT ![o] = "coupon"] /\ LedgersTyped
    BY <1>3, <1>5, <1>9 DEF RestoreQuote, AdminGoes
  <2> QED BY <1>4, <2>1, AdminIInv
<1>10. ASSUME ReleaseCoupon(o) PROVE IInv'
  <2> DEFINE to == IF Claims(o) THEN "count" ELSE "done"
  <2>1. /\ order[o] # None /\ order[o].cancelled
        /\ UNCHANGED <<cart, preview, request, order>> /\ UNCHANGED quote
        /\ UNCHANGED <<usedCount, ledger, returned, coin, lapses, lost>>
        /\ admin' = [admin EXCEPT ![o] = to] /\ redemption' = Released(o)
    BY <1>3, <1>10 DEF ReleaseCoupon, AdminGoes, shopVars
  <2>2. Released(o) \in [Requests -> {"none", "applied", "released"}]
    BY <1>1, <2>1, RestoreTyped
  <2>3. LedgersTyped BY <1>1, <2>1, <2>2 DEF TypeOK
  <2>4. to \in AdminSteps BY <1>4
  <2> HIDE DEF to
  <2> QED BY <2>1, <2>3, <2>4, AdminIInv
<1>11. ASSUME ReleaseCount(o) PROVE IInv'
  <2>1. /\ order[o] # None /\ order[o].cancelled
        /\ UNCHANGED <<cart, preview, request, order>> /\ UNCHANGED quote
        /\ UNCHANGED <<redemption, ledger, returned, coin, lapses, lost>>
        /\ admin' = [admin EXCEPT ![o] = "done"] /\ usedCount' = CountDown
    BY <1>3, <1>11 DEF ReleaseCount, AdminGoes, shopVars
  <2>2. CountDown \in Nat BY <1>1, <2>1, RestoreTyped
  <2>3. LedgersTyped BY <1>1, <2>1, <2>2 DEF TypeOK
  <2> QED BY <1>4, <2>1, <2>3, AdminIInv
<1>12. ASSUME RestoreFails(o) PROVE IInv'
  <2>1. /\ order[o] # None
        /\ UNCHANGED <<cart, preview, request, order>> /\ UNCHANGED quote
        /\ UNCHANGED <<incentiveVars, lapses>> /\ lost' \in Nat
        /\ admin' = [admin EXCEPT ![o] = "failed"]
    BY <1>1, <1>2, <1>12 DEF RestoreFails, shopVars, TypeOK
  <2>2. LedgersTyped BY <1>1, <2>1 DEF TypeOK, incentiveVars
  <2> QED BY <1>4, <2>1, <2>2, AdminIInv
<1> QED BY <1>6, <1>7, <1>8, <1>9, <1>10, <1>11, <1>12

-----------------------------------------------------------------------------
(* The theorems. *)

LEMMA NextIInv == IInv /\ [Next]_vars => IInv'
<1> SUFFICES ASSUME IInv, [Next]_vars PROVE IInv'
  OBVIOUS
<1>1. CASE CartNext BY <1>1, EditLines, FinishIInv DEF CartNext
<1>2. CASE PreviewNext BY <1>2, PreviewIInv, PreviewLapsesIInv, ExpiryIInv DEF PreviewNext
<1>3. CASE ConfirmNext
  BY <1>3, LookupIInv, ReviewIInv, CommitIInv, RefusedIInv DEF ConfirmNext
<1>4. CASE OrderNext
  <2>1. PICK o \in Requests :
          \/ Cancel(o) \/ PayReads(o) \/ Pay(o) \/ AdminSaves(o)
          \/ AdminReads(o) \/ RestoreCredits(o) \/ RestoreCoin(o) \/ RestoreQuote(o)
          \/ ReleaseCoupon(o) \/ ReleaseCount(o) \/ RestoreFails(o)
    BY <1>4 DEF OrderNext
  <2>2. CASE Cancel(o) \/ PayReads(o) \/ Pay(o) \/ AdminSaves(o)
    BY <2>2, CancelIInv, PayIInv, AdminSavesIInv
  <2>3. /\ AdminReads(o) => IInv'
        /\ RestoreCredits(o) => IInv'
        /\ RestoreCoin(o) => IInv'
        /\ RestoreQuote(o) => IInv'
        /\ ReleaseCoupon(o) => IInv'
        /\ ReleaseCount(o) => IInv'
        /\ RestoreFails(o) => IInv'
    BY RestoreIInv
  <2> QED BY <2>1, <2>2, <2>3
<1>5. CASE UNCHANGED vars
  <2>1. UNCHANGED <<cart, quote, preview, lapses, lost>> /\ UNCHANGED Others
    BY <1>5 DEF vars, shopVars, incentiveVars, Others
  <2>2. lapses' \in Nat /\ quote' \in [Quotes -> QuoteRecords] BY <2>1 DEF IInv, TypeOK
  <2> QED BY <2>1, <2>2, QuotesIInv
<1> QED BY <1>1, <1>2, <1>3, <1>4, <1>5 DEF Next

LEMMA CheckoutInductive == Spec => []IInv
<1> QED BY InitIInv, NextIInv, PTL DEF Spec

\* Every variable has its type: the versions, counts and quantities stay numbers of their
\* range, through every edit, confirmation, cancellation and failure.
THEOREM CheckoutTypeCorrect == Spec => []TypeOK
<1>1. IInv => TypeOK BY DEF IInv
<1> QED BY <1>1, CheckoutInductive, PTL

\* No key and no preview gives two orders, whatever confirmations race
\* (CheckoutService.confirm and the unique indexes of Order).
THEOREM CheckoutOneOrder == Spec => []OneOrderPerCheckout
<1>1. IInv => OneOrderPerCheckout BY DEF IInv
<1> QED BY <1>1, CheckoutInductive, PTL

\* The quote of a standing order is marked used by that order (CheckoutService.confirm,
\* restoreOrderIncentives): no other order takes it and no cancellation frees it.
THEOREM CheckoutQuoteHeld == Spec => []QuoteHeld
<1>1. IInv => QuoteHeld BY DEF IInv
<1> QED BY <1>1, CheckoutInductive, PTL

\* A confirmation is answered with the customer's own order of its key (the existing-order check
\* and the catch clause of CheckoutService.confirm).
THEOREM CheckoutAnswerIsOwnOrder == Spec => []AnswerIsOwnOrder
<1>1. IInv => AnswerIsOwnOrder BY DEF IInv
<1> QED BY <1>1, CheckoutInductive, PTL

\* An order takes the line it was made for out of the cart, unless a change of the cart is half
\* done (the version guard of CheckoutService.confirm's transaction).
THEOREM CheckoutOrderTakesItsLine == Spec => OrderTakesItsLine
<1> DEFINE Takes == \A r \in Requests : order[r] = None /\ order'[r] # None =>
              LET c == order'[r].cart IN cart[c].edit \/ cart[c].line = order'[r].line
<1>1. ASSUME IInv, [Next]_vars PROVE [Takes]_vars
  <2> SUFFICES ASSUME NEW r \in Requests, order[r] = None, order'[r] # None
               PROVE  cart[order'[r].cart].edit \/ cart[order'[r].cart].line = order'[r].line
    OBVIOUS
  <2>1. CASE Next
    <3>1. CASE CartNext
      BY <2>1, <3>1 DEF CartNext, AddItem, RemoveItem, FinishMutation, AddQuoted, UpdateItem, Edit
    <3>2. CASE PreviewNext
      BY <3>2 DEF PreviewNext, PreviewLapses, Preview, QuoteLapses, ExpireQuotes
    <3>3. CASE ConfirmNext
      <4>1. ASSUME NEW s \in Requests, Commit(s)
            PROVE cart[order'[r].cart].edit \/ cart[order'[r].cart].line = order'[r].line
        <5> DEFINE p == request[s].preview
        <5>1. /\ p \in Previews /\ preview[p] # None
              /\ cart[preview[p].cart].version = preview[p].version
          BY <1>1, <4>1 DEF Commit, MayCommit, VersionSame, IInv, RequestInv
        <5>2. order' = [order EXCEPT ![s] =
                [key |-> request[s].key, preview |-> p, cart |-> preview[p].cart,
                 line |-> preview[p].line, coupon |-> preview[p].coupon,
                 credits |-> preview[p].credits, cancelled |-> FALSE,
                   paid |-> FALSE, payer |-> "none"]]
          BY <4>1 DEF Commit, CreateOrder
        <5> HIDE DEF p
        <5>3. order \in [Requests -> OrderRecords \cup {None}] BY <1>1 DEF IInv, TypeOK
        <5>4. s = r BY <5>2, <5>3
        <5>5. order'[r].cart = preview[p].cart /\ order'[r].line = preview[p].line
          BY <5>2, <5>3, <5>4
        <5>6. preview[p].version = cart[preview[p].cart].version /\ ~cart[preview[p].cart].edit
                => preview[p].line = cart[preview[p].cart].line
          BY <1>1, <5>1 DEF IInv, PreviewInv
        <5> QED BY <5>1, <5>5, <5>6
      <4>2. ASSUME NEW s \in Requests,
                   \/ \E p \in Previews, k \in Keys : Lookup(s, p, k)
                   \/ Review(s) \/ CommitRefused(s) \/ ConfirmLost(s)
            PROVE order' = order
        BY <4>2 DEF Lookup, Review, CommitRefused, ConfirmLost, KeptByConfirm
      <4> QED BY <3>3, <4>1, <4>2 DEF ConfirmNext
    <3>4. CASE OrderNext
      <4>1. ASSUME NEW o \in Requests, Cancel(o) \/ PayReads(o) \/ Pay(o) \/ AdminSaves(o)
            PROVE order'[r] = None
        <5>1. order[o] # None
          BY <1>1, <4>1, PayWrites DEF Cancel, AdminSaves, AdminGoes, Standing, Ordered, IInv, AdminInv
        <5>2. order' = [order EXCEPT ![o].cancelled = TRUE] \/ PayerSet(o)
          BY <4>1, PayWrites DEF Cancel, AdminSaves
        <5> QED BY <1>1, <5>1, <5>2, OrderFieldSet
      <4>2. ASSUME NEW o \in Requests,
                   \/ AdminReads(o) \/ RestoreCredits(o) \/ RestoreCoin(o) \/ RestoreQuote(o)
                   \/ ReleaseCoupon(o) \/ ReleaseCount(o) \/ RestoreFails(o)
            PROVE order' = order
        BY <4>2 DEF AdminReads, RestoreCredits, RestoreCoin, RestoreQuote, ReleaseCoupon,
             ReleaseCount, RestoreFails
      <4> QED BY <3>4, <4>1, <4>2 DEF OrderNext
    <3> QED BY <2>1, <3>1, <3>2, <3>3, <3>4 DEF Next
  <2>2. CASE UNCHANGED vars BY <2>2 DEF vars
  <2> QED BY <1>1, <2>1, <2>2
<1> QED BY <1>1, CheckoutInductive, PTL DEF Spec, OrderTakesItsLine

-----------------------------------------------------------------------------
(* The coupon's count. *)

\* The releases between their two writes, and those that failed.
Counting == {o \in Requests : admin[o] = "count"}
NoFailure == \A o \in Requests : admin[o] # "failed"

\* A use counted is of a redemption that applies or of a release that has yet to count down,
\* but for the releases that failed; an order's coupon is redeemed with the order only.
CouponInv ==
  /\ IsFiniteSet(Applied) /\ IsFiniteSet(Counting)
  /\ Cardinality(Applied) + Cardinality(Counting) <= usedCount
  /\ NoFailure => usedCount = Cardinality(Applied) + Cardinality(Counting)
  /\ TotalLimit > 0 => usedCount <= TotalLimit
  /\ \A o \in Requests : redemption[o] # "none" => order[o] # None

LEMMA CouponInit == Init => CouponInv
<1> SUFFICES ASSUME Init PROVE CouponInv
  OBVIOUS
<1>1. Applied = {} /\ Counting = {} BY DEF Init, Applied, Counting
<1>2. IsFiniteSet({}) /\ Cardinality({}) = 0 BY FS_EmptySet
<1> QED BY <1>1, <1>2, AmountAssumption DEF Init, CouponInv

LEMMA CouponSizes ==
  ASSUME CouponInv
  PROVE  Cardinality(Applied) \in Nat /\ Cardinality(Counting) \in Nat
BY FS_CardinalityType DEF CouponInv

\* A step that redeems nothing and releases nothing.
LEMMA CouponKept ==
  ASSUME CouponInv, UNCHANGED <<redemption, usedCount>>,
         Counting' = Counting, NoFailure' => NoFailure,
         \A o \in Requests : order[o] # None => order'[o] # None
  PROVE  CouponInv'
<1>1. Applied' = Applied BY DEF Applied
<1>2. Cardinality(Applied') = Cardinality(Applied) /\ Cardinality(Counting') = Cardinality(Counting)
  BY <1>1
<1> QED BY <1>1, <1>2 DEF CouponInv

\* A use is taken only while one is left, by an order that had none.
LEMMA CouponCommit ==
  ASSUME IInv, CouponInv, NEW r \in Requests, Commit(r)
  PROVE  CouponInv'
<1> DEFINE p == request[r].preview
           uses == preview[p].coupon
<1>1. order[r] = None /\ redemption[r] = "none"
  BY DEF Commit, IInv, RequestInv, TypeOK, CouponInv
<1>2. /\ redemption' = [redemption EXCEPT ![r] = IF uses THEN "applied" ELSE @]
      /\ usedCount' = usedCount + (IF uses THEN 1 ELSE 0)
      /\ uses => TotalLimit = 0 \/ usedCount < TotalLimit
      /\ UNCHANGED admin
  BY DEF Commit, CreateOrder, MayCommit, UseLeft
<1>3. \A o \in Requests \ {r} : order'[o] = order[o]
  BY DEF Commit, CreateOrder, IInv, TypeOK
<1>4. order'[r] # None
  <2>1. preview[p] \in PreviewRecords /\ p \in Previews /\ request[r].key \in Keys
    BY DEF Commit, IInv, RequestInv, TypeOK
  <2>2. [key |-> request[r].key, preview |-> p, cart |-> preview[p].cart, line |-> preview[p].line,
         coupon |-> preview[p].coupon, credits |-> preview[p].credits,
         cancelled |-> FALSE,
                   paid |-> FALSE, payer |-> "none"] \in OrderRecords
    BY <2>1 DEF PreviewRecords, OrderRecords, Payers
  <2> HIDE DEF p
  <2>3. order'[r] = [key |-> request[r].key, preview |-> p, cart |-> preview[p].cart,
         line |-> preview[p].line, coupon |-> preview[p].coupon, credits |-> preview[p].credits,
         cancelled |-> FALSE,
                   paid |-> FALSE, payer |-> "none"]
    BY DEF Commit, CreateOrder, IInv, TypeOK, p
  <2> QED BY <2>2, <2>3, NoneAssumption
<1>5. /\ Counting' = Counting /\ (NoFailure' <=> NoFailure)
  BY <1>2 DEF Counting, NoFailure
<1>6. Cardinality(Applied) \in Nat /\ Cardinality(Counting) \in Nat /\ usedCount \in Nat
  BY CouponSizes DEF IInv, TypeOK
<1>7. redemption \in [Requests -> {"none", "applied", "released"}] BY DEF IInv, TypeOK
<1> HIDE DEF p, uses
<1>8. CASE uses
  <2>1. Applied' = Applied \cup {r} /\ r \notin Applied
    BY <1>1, <1>2, <1>7, <1>8 DEF Applied
  <2>2. IsFiniteSet(Applied') /\ Cardinality(Applied') = Cardinality(Applied) + 1
    BY <2>1, FS_AddElement DEF CouponInv
  <2>3. /\ Cardinality(Counting') = Cardinality(Counting) /\ IsFiniteSet(Counting')
    BY <1>5 DEF CouponInv
  <2>4. \A o \in Requests : redemption'[o] # "none" => order'[o] # None
    BY <1>2, <1>3, <1>4, <1>7 DEF CouponInv
  <2>5. usedCount' = usedCount + 1 BY <1>2, <1>8
  <2>6. TotalLimit > 0 => usedCount' <= TotalLimit
    BY <1>2, <1>6, <1>8, <2>5, AmountAssumption
  <2> QED BY <1>5, <1>6, <2>2, <2>3, <2>4, <2>5, <2>6 DEF CouponInv
<1>9. CASE ~uses
  <2>1. UNCHANGED <<redemption, usedCount>>
    <3>1. redemption' = redemption BY <1>2, <1>7, <1>9
    <3>2. usedCount' = usedCount BY <1>2, <1>6, <1>9
    <3> QED BY <3>1, <3>2
  <2> QED BY <1>3, <1>4, <1>5, <2>1, CouponKept
<1> QED BY <1>8, <1>9

\* One order's redemption is released: no other applies or stops applying.
LEMMA ReleasedOne ==
  ASSUME IInv, CouponInv, NEW o \in Requests, redemption' = Released(o)
  PROVE  /\ Applied' = Applied \ {o}
         /\ IsFiniteSet(Applied')
         /\ redemption[o] = "applied" =>
              Cardinality(Applied') = Cardinality(Applied) - 1 /\ Cardinality(Applied) > 0
         /\ redemption[o] # "applied" => Cardinality(Applied') = Cardinality(Applied)
         /\ \A s \in Requests : redemption'[s] # "none" => redemption[s] # "none"
<1>1. redemption \in [Requests -> {"none", "applied", "released"}] BY DEF IInv, TypeOK
<1>2. Applied' = Applied \ {o} BY <1>1 DEF Applied, Released
<1>3. /\ IsFiniteSet(Applied')
      /\ Cardinality(Applied') = IF o \in Applied THEN Cardinality(Applied) - 1 ELSE Cardinality(Applied)
  BY <1>2, FS_RemoveElement DEF CouponInv
<1>4. o \in Applied <=> redemption[o] = "applied" BY DEF Applied
<1>5. Cardinality(Applied) \in Nat /\ Cardinality(Applied') \in Nat
  BY <1>3, FS_CardinalityType DEF CouponInv
<1>6. \A s \in Requests : redemption'[s] # "none" => redemption[s] # "none"
  BY <1>1 DEF Released
<1> QED BY <1>2, <1>3, <1>4, <1>5, <1>6

\* A cancellation in one transaction releases the use and counts it down at once.
LEMMA CouponCancel ==
  ASSUME IInv, CouponInv, NEW o \in Requests, Cancel(o)
  PROVE  CouponInv'
<1>1. order[o] # None BY DEF Cancel, Standing, Ordered
<1>2. \A s \in Requests : order[s] # None => order'[s] # None
  <2>1. order' = [order EXCEPT ![o].cancelled = TRUE] BY DEF Cancel
  <2> QED BY <1>1, <2>1, OrderFieldSet
<1>3. /\ redemption' = Released(o) /\ UNCHANGED admin
      /\ usedCount' = IF redemption[o] = "applied" THEN CountDown ELSE usedCount
  BY DEF Cancel
<1>4. Counting' = Counting /\ (NoFailure' <=> NoFailure) BY <1>3 DEF Counting, NoFailure
<1>5. Cardinality(Counting') = Cardinality(Counting) /\ IsFiniteSet(Counting')
  BY <1>4 DEF CouponInv
<1>6. Cardinality(Applied) \in Nat /\ Cardinality(Counting) \in Nat /\ usedCount \in Nat
  BY CouponSizes DEF IInv, TypeOK
<1>7. /\ IsFiniteSet(Applied')
      /\ redemption[o] = "applied" =>
              Cardinality(Applied') = Cardinality(Applied) - 1 /\ Cardinality(Applied) > 0
      /\ redemption[o] # "applied" => Cardinality(Applied') = Cardinality(Applied)
      /\ \A s \in Requests : redemption'[s] # "none" => redemption[s] # "none"
  BY <1>3, ReleasedOne
<1>8. Cardinality(Applied) + Cardinality(Counting) <= usedCount BY DEF CouponInv
<1>9. usedCount' = IF redemption[o] = "applied" THEN usedCount - 1 ELSE usedCount
  BY <1>3, <1>6, <1>7, <1>8 DEF CountDown
<1>10. /\ Cardinality(Applied') + Cardinality(Counting') <= usedCount'
       /\ NoFailure' => usedCount' = Cardinality(Applied') + Cardinality(Counting')
  BY <1>4, <1>5, <1>6, <1>7, <1>8, <1>9 DEF CouponInv
<1>11. TotalLimit > 0 => usedCount' <= TotalLimit
  BY <1>6, <1>9, AmountAssumption DEF CouponInv
<1>12. \A s \in Requests : redemption'[s] # "none" => order'[s] # None
  BY <1>2, <1>7 DEF CouponInv
<1> QED BY <1>5, <1>7, <1>10, <1>11, <1>12 DEF CouponInv

\* A restoration releases the use in one write and counts it down in another, if it gets there.
LEMMA CouponRestored ==
  ASSUME IInv, CouponInv, NEW o \in Requests
  PROVE  /\ ReleaseCoupon(o) => CouponInv'
         /\ ReleaseCount(o) => CouponInv'
         /\ RestoreFails(o) => CouponInv'
<1>1. admin \in [Requests -> AdminSteps] BY DEF IInv, TypeOK
<1>2. Cardinality(Applied) \in Nat /\ Cardinality(Counting) \in Nat /\ usedCount \in Nat
  BY CouponSizes DEF IInv, TypeOK
<1>3. Cardinality(Applied) + Cardinality(Counting) <= usedCount BY DEF CouponInv
<1>4. ASSUME ReleaseCoupon(o) PROVE CouponInv'
  <2>1. /\ redemption' = Released(o) /\ UNCHANGED <<order, usedCount>>
        /\ admin[o] = "coupon"
        /\ admin' = [admin EXCEPT ![o] = IF redemption[o] = "applied" THEN "count" ELSE "done"]
    BY <1>4 DEF ReleaseCoupon, AdminGoes, Claims
  <2>2. /\ IsFiniteSet(Applied')
        /\ redemption[o] = "applied" =>
              Cardinality(Applied') = Cardinality(Applied) - 1 /\ Cardinality(Applied) > 0
        /\ redemption[o] # "applied" => Cardinality(Applied') = Cardinality(Applied)
        /\ \A s \in Requests : redemption'[s] # "none" => redemption[s] # "none"
    BY <2>1, ReleasedOne
  <2>3. NoFailure' => NoFailure BY <1>1, <2>1 DEF NoFailure
  <2>4. /\ IsFiniteSet(Counting')
        /\ Cardinality(Counting') = IF redemption[o] = "applied" THEN Cardinality(Counting) + 1
                                                                 ELSE Cardinality(Counting)
    <3>1. o \notin Counting BY <2>1 DEF Counting
    <3>2. CASE redemption[o] = "applied"
      <4>1. Counting' = Counting \cup {o} BY <1>1, <2>1, <3>2 DEF Counting
      <4> QED BY <3>1, <3>2, <4>1, FS_AddElement DEF CouponInv
    <3>3. CASE redemption[o] # "applied"
      <4>1. Counting' = Counting BY <1>1, <2>1, <3>3 DEF Counting
      <4>2. Cardinality(Counting') = Cardinality(Counting) BY <4>1
      <4> QED BY <3>3, <4>1, <4>2 DEF CouponInv
    <3> QED BY <3>2, <3>3
  <2>5. /\ Cardinality(Applied') + Cardinality(Counting') <= usedCount'
        /\ NoFailure' => usedCount' = Cardinality(Applied') + Cardinality(Counting')
    BY <1>2, <1>3, <2>1, <2>2, <2>3, <2>4 DEF CouponInv
  <2> QED BY <2>1, <2>2, <2>4, <2>5 DEF CouponInv
<1>5. ASSUME NEW to \in {"done", "failed"}, admin[o] = "count" \/ o \notin Counting,
             admin' = [admin EXCEPT ![o] = to]
      PROVE  /\ IsFiniteSet(Counting')
             /\ Cardinality(Counting') = IF o \in Counting THEN Cardinality(Counting) - 1
                                                           ELSE Cardinality(Counting)
             /\ Cardinality(Counting') \in Nat
  <2>1. Counting' = Counting \ {o} BY <1>1, <1>5 DEF Counting
  <2>2. /\ IsFiniteSet(Counting')
        /\ Cardinality(Counting') = IF o \in Counting THEN Cardinality(Counting) - 1
                                                      ELSE Cardinality(Counting)
    BY <2>1, FS_RemoveElement DEF CouponInv
  <2> QED BY <2>2, FS_CardinalityType
<1>6. ASSUME ReleaseCount(o) PROVE CouponInv'
  <2>1. /\ UNCHANGED <<order, redemption>> /\ usedCount' = CountDown
        /\ admin[o] = "count" /\ admin' = [admin EXCEPT ![o] = "done"]
    BY <1>6 DEF ReleaseCount, AdminGoes
  <2>2. /\ IsFiniteSet(Counting') /\ Cardinality(Counting') = Cardinality(Counting) - 1
        /\ Cardinality(Counting') \in Nat
    BY <1>5, <2>1 DEF Counting
  <2>3. Applied' = Applied BY <2>1 DEF Applied
  <2>4. Cardinality(Applied') = Cardinality(Applied) /\ IsFiniteSet(Applied')
    BY <2>3 DEF CouponInv
  <2>5. usedCount' = usedCount - 1
    BY <1>2, <1>3, <2>1, <2>2 DEF CountDown
  <2>6. NoFailure' => NoFailure BY <1>1, <2>1 DEF NoFailure
  <2>7. /\ Cardinality(Applied') + Cardinality(Counting') <= usedCount'
        /\ NoFailure' => usedCount' = Cardinality(Applied') + Cardinality(Counting')
    BY <1>2, <1>3, <2>2, <2>4, <2>5, <2>6 DEF CouponInv
  <2>8. TotalLimit > 0 => usedCount' <= TotalLimit
    BY <1>2, <2>5, AmountAssumption DEF CouponInv
  <2> QED BY <2>1, <2>2, <2>4, <2>7, <2>8 DEF CouponInv
<1>7. ASSUME RestoreFails(o) PROVE CouponInv'
  <2>1. /\ UNCHANGED <<order, redemption, usedCount>>
        /\ admin' = [admin EXCEPT ![o] = "failed"]
    BY <1>7 DEF RestoreFails, incentiveVars
  <2>2. /\ IsFiniteSet(Counting') /\ Cardinality(Counting') <= Cardinality(Counting)
        /\ Cardinality(Counting') \in Nat
    <3>1. admin[o] = "count" \/ o \notin Counting BY DEF Counting
    <3> QED BY <1>2, <1>5, <2>1, <3>1
  <2>3. Applied' = Applied BY <2>1 DEF Applied
  <2>4. Cardinality(Applied') = Cardinality(Applied) /\ IsFiniteSet(Applied')
    BY <2>3 DEF CouponInv
  <2>5. ~NoFailure' BY <1>1, <2>1 DEF NoFailure
  <2> QED BY <1>2, <1>3, <2>1, <2>2, <2>4, <2>5 DEF CouponInv
<1> QED BY <1>4, <1>6, <1>7

\* Cancellations and confirmations apart, a step keeps the orders there are.
LEMMA OrdersStay ==
  ASSUME IInv, CartNext \/ PreviewNext \/ UNCHANGED vars
  PROVE  UNCHANGED <<order, redemption, usedCount, admin>>
<1>1. CASE CartNext
  BY <1>1 DEF CartNext, AddItem, RemoveItem, FinishMutation, AddQuoted, UpdateItem, Edit,
       incentiveVars
<1>2. CASE PreviewNext
  BY <1>2 DEF PreviewNext, PreviewLapses, Preview, QuoteLapses, ExpireQuotes, incentiveVars
<1>3. CASE UNCHANGED vars BY <1>3 DEF vars, incentiveVars
<1> QED BY <1>1, <1>2, <1>3

LEMMA CouponNext == IInv /\ CouponInv /\ [Next]_vars => CouponInv'
<1> SUFFICES ASSUME IInv, CouponInv, [Next]_vars PROVE CouponInv'
  OBVIOUS
<1>1. ASSUME UNCHANGED <<order, redemption, usedCount, admin>> PROVE CouponInv'
  BY <1>1, CouponKept DEF Counting, NoFailure
<1>2. CASE CartNext \/ PreviewNext \/ UNCHANGED vars BY <1>1, <1>2, OrdersStay
<1>3. CASE ConfirmNext
  <2>1. ASSUME NEW s \in Requests,
               \/ \E p \in Previews, k \in Keys : Lookup(s, p, k)
               \/ Review(s) \/ CommitRefused(s) \/ ConfirmLost(s)
        PROVE UNCHANGED <<order, redemption, usedCount, admin>>
    BY <2>1 DEF Lookup, Review, CommitRefused, ConfirmLost, KeptByConfirm, incentiveVars
  <2> QED BY <1>1, <1>3, <2>1, CouponCommit DEF ConfirmNext
<1>4. CASE OrderNext
  <2>1. ASSUME NEW o \in Requests, PayReads(o) \/ Pay(o) \/ AdminSaves(o) PROVE CouponInv'
    <3>1. order[o] # None
      BY <2>1, PayWrites DEF AdminSaves, AdminGoes, IInv, AdminInv
    <3>2. order' = [order EXCEPT ![o].cancelled = TRUE] \/ PayerSet(o)
      BY <2>1, PayWrites DEF AdminSaves
    <3>3. \A s \in Requests : order[s] # None => order'[s] # None
      BY <3>1, <3>2, OrderFieldSet
    <3>4. UNCHANGED <<redemption, usedCount>>
      BY <2>1, PayWrites DEF AdminSaves, incentiveVars
    <3>5. Counting' = Counting /\ (NoFailure' => NoFailure)
      <4>1. CASE PayReads(o) \/ Pay(o) BY <4>1, PayWrites DEF Counting, NoFailure
      <4>2. CASE AdminSaves(o)
        BY <4>2 DEF AdminSaves, AdminGoes, Counting, NoFailure, IInv, TypeOK
      <4> QED BY <2>1, <4>1, <4>2
    <3> QED BY <3>3, <3>4, <3>5, CouponKept
  <2>2. ASSUME NEW o \in Requests,
               AdminReads(o) \/ RestoreCredits(o) \/ RestoreCoin(o) \/ RestoreQuote(o)
        PROVE CouponInv'
    <3>1. UNCHANGED <<order, redemption, usedCount>>
      BY <2>2 DEF AdminReads, RestoreCredits, RestoreCoin, RestoreQuote, incentiveVars
    <3>2. \E from, to \in {"none", "save", "credits", "coin", "quote", "coupon"} :
            admin[o] = from /\ admin' = [admin EXCEPT ![o] = to]
      BY <2>2 DEF AdminReads, RestoreCredits, RestoreCoin, RestoreQuote, AdminGoes
    <3>3. Counting' = Counting /\ (NoFailure' => NoFailure)
      BY <3>2 DEF Counting, NoFailure, IInv, TypeOK
    <3> QED BY <3>1, <3>3, CouponKept
  <2> QED BY <1>4, <2>1, <2>2, CouponCancel, CouponRestored DEF OrderNext
<1> QED BY <1>2, <1>3, <1>4 DEF Next

\* Redemptions that apply never outnumber the uses counted, nor those the coupon's limit; unless a
\* release failed, every use counted is of a redemption that applies or of a release that is about
\* to count it down (CouponService.redeem, CouponService.release).
THEOREM CheckoutCouponWithinLimit == Spec => []CouponWithinLimit
<1>1. IInv /\ CouponInv => CouponWithinLimit
  <2> SUFFICES ASSUME IInv, CouponInv PROVE CouponWithinLimit
    OBVIOUS
  <2>1. Cardinality(Applied) \in Nat /\ Cardinality(Counting) \in Nat /\ usedCount \in Nat
    BY CouponSizes DEF IInv, TypeOK
  <2>2. ASSUME \A o \in Requests : admin[o] \notin {"count", "failed"}
        PROVE  usedCount = Cardinality(Applied)
    <3>1. NoFailure /\ Counting = {} BY <2>2 DEF NoFailure, Counting
    <3>2. Cardinality(Counting) = 0 BY <3>1, FS_EmptySet
    <3> QED BY <2>1, <3>1, <3>2 DEF CouponInv
  <2> QED BY <2>1, <2>2 DEF CouponInv, CouponWithinLimit
<1>2. Spec => []CouponInv
  BY CouponInit, CouponNext, CheckoutInductive, PTL DEF Spec
<1> QED BY <1>1, <1>2, CheckoutInductive, PTL

-----------------------------------------------------------------------------
(* Quotes that are given back. *)

\* The order stands, or its restoration is on the way to the quote, or failed.
Backs(o) == ~order[o].cancelled \/ admin[o] \in {"credits", "coin", "quote", "failed"}

\* A used quote is of an order, and a valid one of an order that backs it.
UsedInv == \A q \in Quotes : quote[q].status = "USED" =>
  /\ quote[q].usedBy \in Requests /\ order[quote[q].usedBy] # None
  /\ ~quote[q].lapsed => Backs(quote[q].usedBy)

\* A step that uses no quote, takes no order away and leaves no order without its backing.
LEMMA UsedKept ==
  ASSUME UsedInv,
         \A q \in Quotes : quote'[q].status = "USED" =>
           /\ quote[q].status = "USED" /\ quote'[q].usedBy = quote[q].usedBy
           /\ ~quote'[q].lapsed => ~quote[q].lapsed,
         \A o \in Requests : order[o] # None => order'[o] # None,
         \A q \in Quotes : \A o \in Requests :
           quote'[q].status = "USED" /\ ~quote'[q].lapsed /\ quote[q].usedBy = o
             /\ order[o] # None /\ Backs(o) => Backs(o)'
  PROVE  UsedInv'
<1> SUFFICES ASSUME NEW q \in Quotes, quote'[q].status = "USED"
             PROVE  /\ quote'[q].usedBy \in Requests /\ order'[quote'[q].usedBy] # None
                    /\ ~quote'[q].lapsed =>
                         \/ ~order'[quote'[q].usedBy].cancelled
                         \/ admin'[quote'[q].usedBy] \in {"credits", "coin", "quote", "failed"}
  BY DEF UsedInv, Backs
<1>1. PICK o \in Requests : o = quote[q].usedBy BY DEF UsedInv
<1>2. /\ quote[q].status = "USED" /\ quote'[q].usedBy = o /\ order[o] # None
      /\ ~quote'[q].lapsed => Backs(o)
  BY <1>1 DEF UsedInv
<1>3. ~quote'[q].lapsed => Backs(o)' BY <1>1, <1>2
<1> QED BY <1>2, <1>3 DEF Backs

\* What a restoration hands back is no longer used.
LEMMA QuotesBackUsed ==
  ASSUME NEW o \in Requests, quote' = QuotesBack(o)
  PROVE  \A q \in Quotes : quote'[q].status = "USED" =>
           /\ quote'[q] = quote[q]
           /\ quote[q].usedBy # o \/ quote[q].lapsed
<1> SUFFICES ASSUME NEW q \in Quotes, quote'[q].status = "USED"
             PROVE  quote'[q] = quote[q] /\ (quote[q].usedBy # o \/ quote[q].lapsed)
  OBVIOUS
<1>1. quote'[q] = IF quote[q].usedBy = o /\ quote[q].status = "USED" /\ ~quote[q].lapsed
                    THEN [quote[q] EXCEPT !.status = "ACTIVE", !.usedBy = None] ELSE quote[q]
  BY DEF QuotesBack
<1> QED BY <1>1

LEMMA UsedCommit ==
  ASSUME IInv, UsedInv, NEW r \in Requests, Commit(r)
  PROVE  UsedInv'
<1> DEFINE p == request[r].preview
           q == preview[p].line.quote
<1>1. order[r] = None /\ admin[r] = "none"
  BY DEF Commit, IInv, RequestInv, AdminInv
<1>2. preview[p] \in PreviewRecords /\ request[r].key \in Keys /\ p \in Previews
  BY DEF Commit, IInv, RequestInv, TypeOK
<1> DEFINE new == [key |-> request[r].key, preview |-> p, cart |-> preview[p].cart,
             line |-> preview[p].line, coupon |-> preview[p].coupon,
             credits |-> preview[p].credits, cancelled |-> FALSE,
                   paid |-> FALSE, payer |-> "none"]
<1>3. new \in OrderRecords /\ ~new.cancelled BY <1>2 DEF PreviewRecords, OrderRecords, Payers
<1>4. order' = [order EXCEPT ![r] = new] BY DEF Commit, CreateOrder
<1>5. quote' = IF q = None THEN quote ELSE [quote EXCEPT ![q].status = "USED", ![q].usedBy = r]
  BY DEF Commit, CreateOrder, Take
<1>6. UNCHANGED admin BY DEF Commit
<1> HIDE DEF p, q, new
<1>7. /\ order'[r] # None /\ ~order'[r].cancelled
      /\ \A s \in Requests \ {r} : order'[s] = order[s]
  BY <1>3, <1>4, NoneAssumption DEF IInv, TypeOK
<1>8. \A d \in Quotes : quote'[d] = quote[d] \/ quote'[d].usedBy = r
  BY <1>5 DEF IInv, TypeOK, QuoteRecords
<1> SUFFICES ASSUME NEW d \in Quotes, quote'[d].status = "USED"
             PROVE  /\ quote'[d].usedBy \in Requests /\ order'[quote'[d].usedBy] # None
                    /\ ~quote'[d].lapsed =>
                         \/ ~order'[quote'[d].usedBy].cancelled
                         \/ admin'[quote'[d].usedBy] \in {"credits", "coin", "quote", "failed"}
  BY DEF UsedInv, Backs
<1>9. CASE quote'[d].usedBy = r BY <1>7, <1>9
<1>10. CASE quote'[d] = quote[d] /\ quote[d].usedBy # r
  BY <1>6, <1>7, <1>10 DEF UsedInv, Backs
<1> QED BY <1>8, <1>9, <1>10

LEMMA UsedNext == IInv /\ UsedInv /\ [Next]_vars => UsedInv'
<1> SUFFICES ASSUME IInv, UsedInv, [Next]_vars PROVE UsedInv'
  OBVIOUS
<1>1. ASSUME UNCHANGED <<order, quote, admin>> PROVE UsedInv'
  BY <1>1, UsedKept DEF Backs
<1>2. CASE CartNext \/ UNCHANGED vars
  BY <1>1, <1>2, OrdersStay DEF CartNext, AddItem, RemoveItem, FinishMutation, AddQuoted,
     UpdateItem, Edit, vars, shopVars
<1>3. CASE PreviewNext
  <2>1. UNCHANGED <<order, admin>> BY <1>3, OrdersStay
  <2>2. \A q \in Quotes : quote'[q].status = "USED" =>
          /\ quote[q].status = "USED" /\ quote'[q].usedBy = quote[q].usedBy
          /\ ~quote'[q].lapsed => ~quote[q].lapsed
    <3>1. quote \in [Quotes -> QuoteRecords] BY DEF IInv, TypeOK
    <3>2. CASE UNCHANGED quote BY <3>2
    <3>3. ASSUME NEW d \in Quotes, QuoteLapses(d)
          PROVE \A q \in Quotes : quote'[q].status = "USED" =>
                  /\ quote[q].status = "USED" /\ quote'[q].usedBy = quote[q].usedBy
                  /\ ~quote'[q].lapsed => ~quote[q].lapsed
      BY <3>1, <3>3 DEF QuoteLapses, QuoteRecords
    <3>4. CASE ExpireQuotes BY <3>1, <3>4 DEF ExpireQuotes, QuoteRecords
    <3>5. CASE \E p \in Previews : PreviewLapses(p) \/ \E c \in Carts : Preview(p, c)
      BY <3>2, <3>5 DEF PreviewLapses, Preview
    <3> QED BY <1>3, <3>3, <3>4, <3>5 DEF PreviewNext
  <2> QED BY <2>1, <2>2, UsedKept DEF Backs
<1>4. CASE ConfirmNext
  <2>1. ASSUME NEW s \in Requests,
               \/ \E p \in Previews, k \in Keys : Lookup(s, p, k)
               \/ Review(s) \/ CommitRefused(s) \/ ConfirmLost(s)
        PROVE UNCHANGED <<order, quote, admin>>
    BY <2>1 DEF Lookup, Review, CommitRefused, ConfirmLost, KeptByConfirm
  <2> QED BY <1>1, <1>4, <2>1, UsedCommit DEF ConfirmNext
<1>5. ASSUME NEW o \in Requests, Cancel(o) PROVE UsedInv'
  <2>1. order[o] # None /\ order' = [order EXCEPT ![o].cancelled = TRUE]
    BY <1>5 DEF Cancel, Standing, Ordered
  <2>2. \A s \in Requests \ {o} : order'[s] = order[s]
    BY <2>1, OrderFieldSet
  <2>3. order'[o] # None BY <2>1, OrderFieldSet
  <2>4. \A q \in Quotes : quote'[q].status = "USED" =>
          quote'[q] = quote[q] /\ (quote[q].usedBy # o \/ quote[q].lapsed)
    BY <1>5, QuotesBackUsed DEF Cancel
  <2>5. UNCHANGED admin BY <1>5 DEF Cancel
  <2> QED BY <2>2, <2>3, <2>4, <2>5, UsedKept DEF Backs
<1>6. ASSUME NEW o \in Requests, PayReads(o) \/ Pay(o) PROVE UsedInv'
  <2>1. order[o] # None /\ PayerSet(o) BY <1>6, PayWrites
  <2>2. order'[o] # None /\ \A s \in Requests \ {o} : order'[s] = order[s]
    BY <2>1, OrderFieldSet
  <2>3. order'[o].cancelled = order[o].cancelled
    <3>1. order[o] \in OrderRecords BY <2>1 DEF IInv, TypeOK
    <3> QED BY <2>1, <3>1 DEF OrderRecords, IInv, TypeOK, PayerSet, Marked
  <2>4. UNCHANGED <<quote, admin>> BY <1>6, PayWrites
  <2> QED BY <2>2, <2>3, <2>4, UsedKept DEF Backs
<1>7. ASSUME NEW o \in Requests, AdminSaves(o) PROVE UsedInv'
  <2>1. order[o] # None /\ order' = [order EXCEPT ![o].cancelled = TRUE]
    BY <1>7 DEF AdminSaves, AdminGoes, IInv, AdminInv
  <2>2. order'[o] # None /\ \A s \in Requests \ {o} : order'[s] = order[s]
    BY <2>1, OrderFieldSet
  <2>3. UNCHANGED quote /\ admin' = [admin EXCEPT ![o] = "credits"]
    BY <1>7 DEF AdminSaves, AdminGoes, shopVars
  <2>4. admin'[o] = "credits" /\ \A s \in Requests \ {o} : admin'[s] = admin[s]
    BY <2>3 DEF IInv, TypeOK
  <2> QED BY <2>2, <2>3, <2>4, UsedKept DEF Backs
<1>8. ASSUME NEW o \in Requests, RestoreQuote(o) PROVE UsedInv'
  <2>1. UNCHANGED order /\ admin' = [admin EXCEPT ![o] = "coupon"]
    BY <1>8 DEF RestoreQuote, AdminGoes
  <2>2. \A s \in Requests \ {o} : admin'[s] = admin[s] BY <2>1 DEF IInv, TypeOK
  <2>3. \A q \in Quotes : quote'[q].status = "USED" =>
          quote'[q] = quote[q] /\ (quote[q].usedBy # o \/ quote[q].lapsed)
    BY <1>8, QuotesBackUsed DEF RestoreQuote
  <2> QED BY <2>1, <2>2, <2>3, UsedKept DEF Backs
<1>9. ASSUME NEW o \in Requests,
             \/ AdminReads(o) \/ RestoreCredits(o) \/ RestoreCoin(o)
             \/ ReleaseCoupon(o) \/ ReleaseCount(o) \/ RestoreFails(o)
      PROVE UsedInv'
  <2>1. UNCHANGED <<order, quote>>
    BY <1>9 DEF AdminReads, RestoreCredits, RestoreCoin, ReleaseCoupon, ReleaseCount,
       RestoreFails, shopVars
  <2>2. \E to \in AdminSteps : admin' = [admin EXCEPT ![o] = to]
    BY <1>9 DEF AdminReads, RestoreCredits, RestoreCoin, ReleaseCoupon, ReleaseCount,
       RestoreFails, AdminGoes, AdminSteps
  <2>3. \A s \in Requests \ {o} : admin'[s] = admin[s] BY <2>2 DEF IInv, TypeOK
  <2>4. \/ ~order[o].cancelled
        \/ admin'[o] \in {"credits", "coin", "quote", "failed"}
        \/ admin[o] \notin {"credits", "coin", "quote", "failed"}
    BY <1>9 DEF AdminReads, RestoreCredits, RestoreCoin, ReleaseCoupon, ReleaseCount,
       RestoreFails, AdminGoes, IInv, TypeOK, Standing
  <2> QED BY <2>1, <2>3, <2>4, UsedKept DEF Backs
<1> QED BY <1>2, <1>3, <1>4, <1>5, <1>6, <1>7, <1>8, <1>9 DEF Next, OrderNext

\* A quote that is still valid is not left with a cancelled order, once the restoration got to it
\* (restoreOrderIncentives), and a used one is always some order's.
THEOREM CheckoutQuoteGivenBack == Spec => []QuoteGivenBack
<1>1. IInv /\ UsedInv => QuoteGivenBack
  BY DEF QuoteGivenBack, UsedInv, Backs, Standing, Ordered
<1>2. Init => UsedInv BY DEF Init, UsedInv
<1>3. Spec => []UsedInv BY <1>2, UsedNext, CheckoutInductive, PTL DEF Spec
<1> QED BY <1>1, <1>3, CheckoutInductive, PTL

-----------------------------------------------------------------------------
(* Credit that races. *)

\* A customer in the red lost a coin, and a coin is of an order that was paid.
CreditInv == /\ NotOverdrawn
             /\ \A o \in Requests : coin[o] # "none" => order[o] # None /\ order[o].paid

\* Who lost a coin stays one who did, and the other balances are the lower for nothing.
LEMMA CreditKept ==
  ASSUME CreditInv,
         \A o \in Requests : order[o] # None => order'[o] # None /\ CustomerOf(o)' = CustomerOf(o),
         \A o \in Requests : /\ coin[o] = "reversed" => coin'[o] = "reversed"
                             /\ coin'[o] # "none" => order'[o] # None /\ order'[o].paid,
         \A u \in Customers :
           \/ ledger'[u] >= ledger[u] \/ ledger'[u] >= 0
           \/ \E o \in Requests : order'[o] # None /\ CustomerOf(o)' = u /\ coin'[o] = "reversed",
         ledger \in [Customers -> Int], ledger' \in [Customers -> Int]
  PROVE  CreditInv'
<1> SUFFICES ASSUME NEW u \in Customers, ledger'[u] < 0
             PROVE  \E o \in Requests :
                      order'[o] # None /\ CustomerOf(o)' = u /\ coin'[o] = "reversed"
  BY DEF CreditInv, NotOverdrawn, Ordered
<1>1. CASE ledger'[u] >= ledger[u]
  <2>1. ledger[u] < 0 BY <1>1
  <2>2. PICK o \in Requests : order[o] # None /\ CustomerOf(o) = u /\ coin[o] = "reversed"
    BY <2>1 DEF CreditInv, NotOverdrawn, Ordered
  <2> QED BY <2>2
<1>2. CASE ledger'[u] >= 0 BY <1>2
<1> QED BY <1>1, <1>2

LEMMA CreditNext == IInv /\ CreditInv /\ [Next]_vars => CreditInv'
<1> SUFFICES ASSUME IInv, CreditInv, [Next]_vars PROVE CreditInv'
  OBVIOUS
<1>1. ledger \in [Customers -> Int] /\ ledger' \in [Customers -> Int]
  BY NextIInv DEF IInv, TypeOK
<1>2. coin \in [Requests -> {"none", "earned", "reversed"}] BY DEF IInv, TypeOK
<1>3. ASSUME UNCHANGED <<order, ledger, coin>> PROVE CreditInv'
  BY <1>3 DEF CreditInv, NotOverdrawn, Ordered, CustomerOf
<1>4. CASE CartNext \/ PreviewNext \/ UNCHANGED vars
  <2>1. CASE CartNext
    BY <1>3, <2>1 DEF CartNext, AddItem, RemoveItem, FinishMutation, AddQuoted, UpdateItem,
       Edit, incentiveVars
  <2>2. CASE PreviewNext
    BY <1>3, <2>2 DEF PreviewNext, PreviewLapses, Preview, QuoteLapses, ExpireQuotes, incentiveVars
  <2>3. CASE UNCHANGED vars BY <1>3, <2>3 DEF vars, incentiveVars
  <2> QED BY <1>4, <2>1, <2>2, <2>3
<1>5. CASE ConfirmNext
  <2>1. ASSUME NEW s \in Requests,
               \/ \E p \in Previews, k \in Keys : Lookup(s, p, k)
               \/ Review(s) \/ CommitRefused(s) \/ ConfirmLost(s)
        PROVE UNCHANGED <<order, ledger, coin>>
    BY <2>1 DEF Lookup, Review, CommitRefused, ConfirmLost, KeptByConfirm, incentiveVars
  <2>2. ASSUME NEW r \in Requests, Commit(r) PROVE CreditInv'
    <3> DEFINE p == request[r].preview
               new == [key |-> request[r].key, preview |-> p, cart |-> preview[p].cart,
                       line |-> preview[p].line, coupon |-> preview[p].coupon,
                       credits |-> preview[p].credits, cancelled |-> FALSE,
                   paid |-> FALSE, payer |-> "none"]
    <3>1. order[r] = None BY <2>2 DEF Commit, IInv, RequestInv
    <3>2. /\ order' = [order EXCEPT ![r] = new] /\ UNCHANGED coin
          /\ ledger' = [ledger EXCEPT ![Owner[preview[p].cart]] = @ - preview[p].credits]
          /\ preview[p].credits > 0 =>
               preview[p].credits <= Balance(Owner[preview[p].cart])
      BY <2>2 DEF Commit, CreateOrder, MayCommit, CreditLeft
    <3>3. preview[p] \in PreviewRecords /\ p \in Previews /\ request[r].key \in Keys
      BY <2>2 DEF Commit, IInv, RequestInv, TypeOK
    <3>4. new \in OrderRecords BY <3>3 DEF PreviewRecords, OrderRecords, Payers
    <3>5. preview[p].credits \in Nat /\ preview[p].cart \in Carts BY <3>3 DEF PreviewRecords
    <3>6. Owner[preview[p].cart] \in Customers BY <3>5, OwnerAssumption
    <3> HIDE DEF p, new
    <3>7. order'[r] # None /\ \A s \in Requests \ {r} : order'[s] = order[s]
      BY <3>2, <3>4, NoneAssumption DEF IInv, TypeOK
    <3>8. \A u \in Customers : ledger'[u] >= ledger[u] \/ ledger'[u] >= 0
      <4> TAKE u \in Customers
      <4>1. CASE u # Owner[preview[p].cart] BY <1>1, <3>2, <4>1
      <4>2. CASE u = Owner[preview[p].cart] /\ preview[p].credits = 0
        BY <1>1, <3>2, <4>2
      <4>3. CASE u = Owner[preview[p].cart] /\ preview[p].credits > 0
        <5>1. ledger[u] \in Int /\ preview[p].credits <= Balance(u) BY <1>1, <3>2, <4>3
        <5>2. ledger[u] >= preview[p].credits BY <3>5, <4>3, <5>1 DEF Balance
        <5> QED BY <1>1, <3>2, <3>5, <4>3, <5>2
      <4> QED BY <3>5, <4>1, <4>2, <4>3
    <3>9. \A s \in Requests : order[s] # None => order'[s] # None /\ CustomerOf(s)' = CustomerOf(s)
      BY <3>1, <3>7 DEF CustomerOf
    <3>10. \A s \in Requests : coin'[s] # "none" => order'[s] # None /\ order'[s].paid
      BY <3>1, <3>2, <3>7 DEF CreditInv
    <3> QED BY <1>1, <3>2, <3>8, <3>9, <3>10, CreditKept
  <2> QED BY <1>3, <1>5, <2>1, <2>2 DEF ConfirmNext
<1>6. ASSUME NEW o \in Requests, order[o] # None,
             order' = [order EXCEPT ![o].cancelled = TRUE] \/ PayerSet(o) \/ order' = order
      PROVE  \A s \in Requests : order[s] # None =>
               /\ order'[s] # None /\ CustomerOf(s)' = CustomerOf(s)
               /\ order[s].paid => order'[s].paid
  <2>1. CASE order' = order BY <2>1 DEF CustomerOf
  <2>2. CASE order' # order
    <3>1. /\ \A s \in Requests \ {o} : order'[s] = order[s]
          /\ order'[o] # None /\ order'[o].cart = order[o].cart
          /\ order[o].paid => order'[o].paid
      BY <1>6, <2>2, OrderFieldSet
    <3> QED BY <3>1 DEF CustomerOf
  <2> QED BY <2>1, <2>2
\* One order's entries: credit comes back, and a coin goes only when it is reversed.
<1>7. ASSUME NEW o \in Requests, order[o] # None,
             order' = [order EXCEPT ![o].cancelled = TRUE] \/ PayerSet(o) \/ order' = order,
             NEW back \in Nat, NEW taken \in Nat,
             ledger' = [ledger EXCEPT ![CustomerOf(o)] = @ + back - taken],
             taken # 0 => coin'[o] = "reversed",
             coin'[o] \in {"none", "earned", "reversed"},
             coin[o] = "reversed" => coin'[o] = "reversed",
             coin'[o] # "none" => order'[o].paid,
             \A s \in Requests \ {o} : coin'[s] = coin[s]
      PROVE  CreditInv'
  <2>1. \A s \in Requests : order[s] # None =>
          /\ order'[s] # None /\ CustomerOf(s)' = CustomerOf(s)
          /\ order[s].paid => order'[s].paid
    BY <1>6, <1>7
  <2>2. CustomerOf(o) \in Customers BY <1>7, RestoreTyped DEF IInv
  <2>3. \A u \in Customers :
          \/ ledger'[u] >= ledger[u] \/ ledger'[u] >= 0
          \/ \E s \in Requests : order'[s] # None /\ CustomerOf(s)' = u /\ coin'[s] = "reversed"
    <3> TAKE u \in Customers
    <3>1. CASE u # CustomerOf(o) BY <1>1, <1>7, <3>1
    <3>2. CASE u = CustomerOf(o) /\ taken = 0
      <4>1. ledger'[u] = ledger[u] + back - taken BY <1>1, <1>7, <2>2, <3>2
      <4> QED BY <1>1, <1>7, <3>2, <4>1
    <3>3. CASE u = CustomerOf(o) /\ taken # 0 BY <1>7, <2>1, <3>3
    <3> QED BY <3>1, <3>2, <3>3
  <2>4. \A s \in Requests : /\ coin[s] = "reversed" => coin'[s] = "reversed"
                            /\ coin'[s] # "none" => order'[s] # None /\ order'[s].paid
    BY <1>7, <2>1 DEF CreditInv
  <2> QED BY <1>1, <2>1, <2>3, <2>4, CreditKept
<1>8. CASE OrderNext
  <2>1. PICK o \in Requests :
          \/ Cancel(o) \/ PayReads(o) \/ Pay(o)
          \/ AdminReads(o) \/ AdminSaves(o) \/ RestoreCredits(o) \/ RestoreCoin(o) \/ RestoreQuote(o)
          \/ ReleaseCoupon(o) \/ ReleaseCount(o) \/ RestoreFails(o)
    BY <1>8 DEF OrderNext
  <2>2. order[o] # None
    BY <2>1, PayWrites DEF Cancel, AdminReads, AdminSaves, RestoreCredits, RestoreCoin, RestoreQuote,
       ReleaseCoupon, ReleaseCount, RestoreFails, AdminGoes, Standing, Ordered, IInv, AdminInv
  <2>3. /\ CreditsBack(o) \in Nat /\ CoinBack(o) \in Nat /\ CustomerOf(o) \in Customers
        /\ Coin \in Nat
    BY <2>2, RestoreTyped, AmountAssumption DEF IInv
  <2>4. /\ CoinBack(o) # 0 => Reversed(o)[o] = "reversed"
        /\ Reversed(o)[o] \in {"none", "earned", "reversed"}
        /\ coin[o] = "reversed" => Reversed(o)[o] = "reversed"
        /\ Reversed(o)[o] # "none" => coin[o] # "none"
        /\ \A s \in Requests \ {o} : Reversed(o)[s] = coin[s]
    BY <1>2 DEF CoinBack, Reversed
  <2>5. CASE Cancel(o)
    <3>1. /\ order' = [order EXCEPT ![o].cancelled = TRUE] /\ coin' = Reversed(o)
          /\ ledger' = [ledger EXCEPT ![CustomerOf(o)] = @ + CreditsBack(o) - CoinBack(o)]
      BY <2>5 DEF Cancel
    <3>2. Reversed(o)[o] # "none" => order'[o].paid
      BY <1>6, <2>2, <2>4, <3>1 DEF CreditInv
    <3> QED BY <1>7, <2>2, <2>3, <2>4, <3>1, <3>2
  <2>6. CASE PayReads(o) \/ Pay(o)
    <3>1. PayerSet(o) /\ ~order[o].paid BY <2>6, PayWrites
    <3>2. coin[o] = "none" BY <1>2, <3>1 DEF CreditInv
    <3>3. \/ UNCHANGED <<ledger, coin>>
          \/ /\ coin' = [coin EXCEPT ![o] = IF Coin > 0 THEN "earned" ELSE @]
             /\ ledger' = [ledger EXCEPT ![CustomerOf(o)] = @ + Coin]
             /\ order'[o].paid
      <4>1. CASE PayReads(o) BY <4>1 DEF PayReads, incentiveVars
      <4>2. CASE Pay(o)
        <5>1. order[o] \in OrderRecords BY <2>2 DEF IInv, TypeOK
        <5>2. order'[o].paid BY <4>2, <5>1 DEF Pay, IInv, TypeOK, OrderRecords
        <5>3. Earns(o) = Coin BY <3>2 DEF Earns
        <5> QED BY <4>2, <5>2, <5>3 DEF Pay
      <4> QED BY <2>6, <4>1, <4>2
    <3>4. \A u \in Customers : ledger'[u] >= ledger[u] BY <1>1, <2>3, <3>3
    <3>5. \A s \in Requests : order[s] # None =>
            /\ order'[s] # None /\ CustomerOf(s)' = CustomerOf(s)
            /\ order[s].paid => order'[s].paid
      BY <1>6, <2>2, <3>1
    <3>6. \A s \in Requests : /\ coin[s] = "reversed" => coin'[s] = "reversed"
                              /\ coin'[s] # "none" => order'[s] # None /\ order'[s].paid
      BY <1>2, <2>2, <3>2, <3>3, <3>5 DEF CreditInv
    <3> QED BY <1>1, <3>4, <3>5, <3>6, CreditKept
  <2>7. CASE AdminReads(o) \/ RestoreQuote(o) \/ ReleaseCoupon(o) \/ ReleaseCount(o) \/ RestoreFails(o)
    BY <1>3, <2>7 DEF AdminReads, RestoreQuote, ReleaseCoupon, ReleaseCount, RestoreFails,
       incentiveVars
  <2>8. CASE AdminSaves(o)
    <3>1. order' = [order EXCEPT ![o].cancelled = TRUE] /\ UNCHANGED <<ledger, coin>>
      BY <2>8 DEF AdminSaves, incentiveVars
    <3>2. \A s \in Requests : order[s] # None =>
            /\ order'[s] # None /\ CustomerOf(s)' = CustomerOf(s)
            /\ order[s].paid => order'[s].paid
      BY <1>6, <2>2, <3>1
    <3>3. \A u \in Customers : ledger'[u] >= ledger[u] BY <1>1, <3>1
    <3> QED BY <1>1, <3>1, <3>2, <3>3, CreditKept DEF CreditInv
  <2>9. CASE RestoreCredits(o)
    <3>1. /\ order' = order /\ coin' = coin
          /\ ledger' = [ledger EXCEPT ![CustomerOf(o)] = @ + CreditsBack(o)]
      BY <2>9 DEF RestoreCredits
    <3>2. \A u \in Customers : ledger'[u] >= ledger[u] BY <1>1, <2>3, <3>1
    <3>3. \A s \in Requests : order[s] # None =>
            /\ order'[s] # None /\ CustomerOf(s)' = CustomerOf(s)
            /\ order[s].paid => order'[s].paid
      BY <1>6, <2>2, <3>1
    <3> QED BY <1>1, <3>1, <3>2, <3>3, CreditKept DEF CreditInv
  <2>10. CASE RestoreCoin(o)
    <3>1. /\ order' = order /\ coin' = Reversed(o)
          /\ ledger' = [ledger EXCEPT ![CustomerOf(o)] = @ - CoinBack(o)]
      BY <2>10 DEF RestoreCoin
    <3>2. Reversed(o)[o] # "none" => order'[o].paid
      BY <1>6, <2>2, <2>4, <3>1 DEF CreditInv
    <3> DEFINE nothing == 0
    <3>3. ledger[CustomerOf(o)] - CoinBack(o) = ledger[CustomerOf(o)] + nothing - CoinBack(o)
      BY <1>1, <2>3
    <3>4. nothing \in Nat OBVIOUS
    <3> HIDE DEF nothing
    <3>5. ledger' = [ledger EXCEPT ![CustomerOf(o)] = @ + nothing - CoinBack(o)] BY <3>1, <3>3
    <3>6. /\ CoinBack(o) # 0 => coin'[o] = "reversed"
          /\ coin'[o] \in {"none", "earned", "reversed"}
          /\ coin[o] = "reversed" => coin'[o] = "reversed"
          /\ coin'[o] # "none" => order'[o].paid
          /\ \A s \in Requests \ {o} : coin'[s] = coin[s]
      BY <2>4, <3>1, <3>2
    <3>7. order' = order BY <3>1
    <3>8. CoinBack(o) \in Nat BY <2>3
    <3> QED BY <1>7, <2>2, <3>4, <3>5, <3>6, <3>7, <3>8
  <2> QED BY <2>1, <2>5, <2>6, <2>7, <2>8, <2>9, <2>10
<1> QED BY <1>4, <1>5, <1>8 DEF Next

\* However confirmations race for a balance, it is not overdrawn: a customer's entries sum to less
\* than nothing only after the reversal of a coin that was spent meanwhile (CreditService.spend,
\* CreditService.reverseEarn).
THEOREM CheckoutNotOverdrawn == Spec => []NotOverdrawn
<1>1. Init => CreditInv
  BY AmountAssumption DEF Init, CreditInv, NotOverdrawn
<1>2. CreditInv => NotOverdrawn BY DEF CreditInv
<1>3. Spec => []CreditInv BY <1>1, CreditNext, CheckoutInductive, PTL DEF Spec
<1> QED BY <1>2, <1>3, PTL

-----------------------------------------------------------------------------
(* Credit that is accounted for.                                           *)

\* The units of credit of all orders, so many of each.
Units(each) == UNION {{o} \X (1..each[o]) : o \in Requests}

\* What a customer's ledger has of each order: the credit it spent and did not give back, the
\* coin it earned and did not lose.
Spent(u) == [o \in Requests |-> IF order[o] # None /\ CustomerOf(o) = u THEN CreditsBack(o) ELSE 0]
Earned(u) == [o \in Requests |-> IF order[o] # None /\ CustomerOf(o) = u THEN CoinBack(o) ELSE 0]

\* The balance is exactly what the entries say.
Balanced(u) ==
  /\ IsFiniteSet(Units(Spent(u))) /\ IsFiniteSet(Units(Earned(u)))
  /\ ledger[u] = Grant[u] - Cardinality(Units(Spent(u))) + Cardinality(Units(Earned(u)))

\* The entries of an order are those of what became of it, but for a cancellation whose
\* restoration has not come to them, or failed.
Entries(o) ==
  /\ order[o] = None => ~returned[o]
  /\ order[o] # None /\ ~order[o].cancelled =>
       /\ ~returned[o] /\ coin[o] # "reversed"
       /\ order[o].paid /\ Coin > 0 => coin[o] = "earned"
  /\ order[o] # None /\ order[o].cancelled =>
       /\ admin[o] \notin {"credits", "failed"} => returned[o] \/ order[o].credits = 0
       /\ admin[o] \notin {"credits", "coin", "failed"} =>
            (coin[o] = "earned" => order[o].payer = "late")

AccountInv ==
  /\ IsFiniteSet(Ordered)
  /\ \A u \in Customers : Balanced(u)
  /\ \A o \in Requests : Entries(o)

LEMMA AccountInit == Init => AccountInv
<1> SUFFICES ASSUME Init PROVE AccountInv
  OBVIOUS
<1>1. Ordered = {} BY DEF Init, Ordered
<1>2. ASSUME NEW u \in Customers PROVE Balanced(u)
  <2>1. \A o \in Requests : Spent(u)[o] = 0 /\ Earned(u)[o] = 0 BY DEF Init, Spent, Earned
  <2>2. \A o \in Requests : 1..Spent(u)[o] = {} /\ 1..Earned(u)[o] = {} BY <2>1
  <2>3. Units(Spent(u)) = {} /\ Units(Earned(u)) = {} BY <2>2 DEF Units
  <2>4. ledger[u] = Grant[u] /\ Grant[u] \in Nat BY AmountAssumption DEF Init
  <2>5. IsFiniteSet({}) /\ Cardinality({}) = 0 BY FS_EmptySet
  <2> QED BY <2>3, <2>4, <2>5 DEF Balanced
<1>3. \A o \in Requests : Entries(o) BY DEF Init, Entries
<1> QED BY <1>1, <1>2, <1>3, FS_EmptySet DEF AccountInv

\* The units of one order apart from those of the others.
LEMMA UnitsApart ==
  ASSUME NEW w, NEW o \in Requests, w[o] \in Nat
  PROVE  LET rest == UNION {{s} \X (1..w[s]) : s \in Requests \ {o}} IN
         /\ IsFiniteSet(Units(w)) <=> IsFiniteSet(rest)
         /\ IsFiniteSet(rest) => /\ Cardinality(rest) \in Nat
                                 /\ Cardinality(Units(w)) = Cardinality(rest) + w[o]
<1> DEFINE rest == UNION {{s} \X (1..w[s]) : s \in Requests \ {o}}
           own == {o} \X (1..w[o])
<1>1. IsFiniteSet(own) /\ Cardinality(own) = w[o]
  <2>1. IsFiniteSet(1..w[o]) /\ Cardinality(1..w[o]) = w[o] BY FS_Interval
  <2>2. IsFiniteSet({o}) /\ Cardinality({o}) = 1 BY FS_Singleton
  <2>3. IsFiniteSet(own) /\ Cardinality(own) = 1 * w[o] BY <2>1, <2>2, FS_Product
  <2> QED BY <2>3
<1>2. Units(w) = rest \cup own BY DEF Units
<1>3. rest \cap own = {} OBVIOUS
<1> HIDE DEF rest, own
<1>4. ASSUME IsFiniteSet(rest)
      PROVE  /\ IsFiniteSet(Units(w)) /\ Cardinality(rest) \in Nat
             /\ Cardinality(Units(w)) = Cardinality(rest) + w[o]
  <2>1. /\ IsFiniteSet(rest \cup own)
        /\ Cardinality(rest \cup own) = Cardinality(rest) + Cardinality(own) - Cardinality(rest \cap own)
    BY <1>1, <1>4, FS_Union
  <2>2. Cardinality(rest \cap own) = 0 BY <1>3, FS_EmptySet
  <2>3. Cardinality(rest) \in Nat BY <1>4, FS_CardinalityType
  <2> QED BY <1>1, <1>2, <2>1, <2>2, <2>3
<1>5. ASSUME IsFiniteSet(Units(w)) PROVE IsFiniteSet(rest)
  <2>1. rest \subseteq Units(w) BY <1>2
  <2> QED BY <1>5, <2>1, FS_Subset
<1> QED BY <1>4, <1>5 DEF rest

\* Sums that differ in one order differ by as much.
LEMMA UnitsMoved ==
  ASSUME NEW w, NEW v, NEW o \in Requests, w[o] \in Nat, v[o] \in Nat,
         \A s \in Requests \ {o} : v[s] = w[s], IsFiniteSet(Units(w))
  PROVE  /\ IsFiniteSet(Units(v))
         /\ Cardinality(Units(v)) \in Nat /\ Cardinality(Units(w)) \in Nat
         /\ Cardinality(Units(v)) = Cardinality(Units(w)) - w[o] + v[o]
<1> DEFINE rest(x) == UNION {{s} \X (1..x[s]) : s \in Requests \ {o}}
<1>1. rest(v) = rest(w) OBVIOUS
<1>2. /\ IsFiniteSet(Units(w)) <=> IsFiniteSet(rest(w))
      /\ IsFiniteSet(rest(w)) => /\ Cardinality(rest(w)) \in Nat
                                 /\ Cardinality(Units(w)) = Cardinality(rest(w)) + w[o]
  BY UnitsApart
<1>3. /\ IsFiniteSet(Units(v)) <=> IsFiniteSet(rest(v))
      /\ IsFiniteSet(rest(v)) => /\ Cardinality(rest(v)) \in Nat
                                 /\ Cardinality(Units(v)) = Cardinality(rest(v)) + v[o]
  BY UnitsApart
<1> HIDE DEF rest
<1> QED BY <1>1, <1>2, <1>3

\* A step that moves the entries of one order, and its customer's balance by as much.
LEMMA BalanceMoved ==
  ASSUME TypeOK, TypeOK', \A u \in Customers : Balanced(u), NEW o \in Requests,
         \A s \in Requests \ {o} : UNCHANGED <<order[s], returned[s], coin[s]>>,
         order'[o] # None, order[o] # None => CustomerOf(o)' = CustomerOf(o),
         NEW had \in Nat, had = (IF order[o] # None THEN CreditsBack(o) ELSE 0),
         NEW held \in Nat, held = (IF order[o] # None THEN CoinBack(o) ELSE 0),
         CreditsBack(o)' \in Nat, CoinBack(o)' \in Nat,
         \A u \in Customers :
           ledger'[u] = IF u = CustomerOf(o)'
                          THEN ledger[u] + had - CreditsBack(o)' - held + CoinBack(o)'
                          ELSE ledger[u]
  PROVE  \A u \in Customers : Balanced(u)'
<1> SUFFICES ASSUME NEW u \in Customers PROVE Balanced(u)'
  OBVIOUS
<1>1. \A s \in Requests \ {o} : Spent(u)'[s] = Spent(u)[s] /\ Earned(u)'[s] = Earned(u)[s]
  BY DEF Spent, Earned, CustomerOf, CreditsBack, CoinBack
<1>2. /\ Spent(u)[o] = IF order[o] # None /\ CustomerOf(o) = u THEN had ELSE 0
      /\ Earned(u)[o] = IF order[o] # None /\ CustomerOf(o) = u THEN held ELSE 0
      /\ Spent(u)'[o] = IF CustomerOf(o)' = u THEN CreditsBack(o)' ELSE 0
      /\ Earned(u)'[o] = IF CustomerOf(o)' = u THEN CoinBack(o)' ELSE 0
  BY DEF Spent, Earned
<1>3. /\ Spent(u)[o] \in Nat /\ Earned(u)[o] \in Nat
      /\ Spent(u)'[o] \in Nat /\ Earned(u)'[o] \in Nat
  BY <1>2
<1>4. /\ IsFiniteSet(Units(Spent(u))) /\ IsFiniteSet(Units(Earned(u)))
      /\ ledger[u] = Grant[u] - Cardinality(Units(Spent(u))) + Cardinality(Units(Earned(u)))
  BY DEF Balanced
<1>5. /\ IsFiniteSet(Units(Spent(u)'))
      /\ Cardinality(Units(Spent(u)')) \in Nat /\ Cardinality(Units(Spent(u))) \in Nat
      /\ Cardinality(Units(Spent(u)')) = Cardinality(Units(Spent(u))) - Spent(u)[o] + Spent(u)'[o]
  <2> DEFINE before == Spent(u)
             after == Spent(u)'
  <2>1. /\ before[o] \in Nat /\ after[o] \in Nat /\ IsFiniteSet(Units(before))
        /\ \A s \in Requests \ {o} : after[s] = before[s]
    BY <1>1, <1>3, <1>4
  <2> HIDE DEF before, after
  <2>2. /\ IsFiniteSet(Units(after))
        /\ Cardinality(Units(after)) \in Nat /\ Cardinality(Units(before)) \in Nat
        /\ Cardinality(Units(after)) = Cardinality(Units(before)) - before[o] + after[o]
    BY <2>1, UnitsMoved
  <2> QED BY <2>2 DEF before, after
<1>6. /\ IsFiniteSet(Units(Earned(u)'))
      /\ Cardinality(Units(Earned(u)')) \in Nat /\ Cardinality(Units(Earned(u))) \in Nat
      /\ Cardinality(Units(Earned(u)')) = Cardinality(Units(Earned(u))) - Earned(u)[o] + Earned(u)'[o]
  <2> DEFINE before == Earned(u)
             after == Earned(u)'
  <2>1. /\ before[o] \in Nat /\ after[o] \in Nat /\ IsFiniteSet(Units(before))
        /\ \A s \in Requests \ {o} : after[s] = before[s]
    BY <1>1, <1>3, <1>4
  <2> HIDE DEF before, after
  <2>2. /\ IsFiniteSet(Units(after))
        /\ Cardinality(Units(after)) \in Nat /\ Cardinality(Units(before)) \in Nat
        /\ Cardinality(Units(after)) = Cardinality(Units(before)) - before[o] + after[o]
    BY <2>1, UnitsMoved
  <2> QED BY <2>2 DEF before, after
<1>7. ledger[u] \in Int /\ ledger'[u] \in Int /\ Grant[u] \in Nat
  BY AmountAssumption DEF TypeOK
<1>8. ledger'[u] = ledger[u] + Spent(u)[o] - Spent(u)'[o] - Earned(u)[o] + Earned(u)'[o]
  BY <1>2, <1>7
<1>9. ledger'[u] = Grant[u] - Cardinality(Units(Spent(u)')) + Cardinality(Units(Earned(u)'))
  BY <1>3, <1>4, <1>5, <1>6, <1>7, <1>8
<1> QED BY <1>5, <1>6, <1>9 DEF Balanced, Units

\* A flag of an order set, and nothing else of it.
LEMMA OrderFlagSet ==
  ASSUME IInv, NEW o \in Requests, order[o] # None
  PROVE  /\ order[o].credits \in Nat
         /\ order' = [order EXCEPT ![o].cancelled = TRUE] =>
              /\ order'[o].cancelled /\ order'[o].paid = order[o].paid
              /\ order'[o].credits = order[o].credits
         /\ PayerSet(o) =>
              /\ order'[o].cancelled = order[o].cancelled
              /\ order'[o].credits = order[o].credits
<1>1. order[o] \in OrderRecords /\ order \in [Requests -> OrderRecords \cup {None}]
  BY DEF IInv, TypeOK
<1> QED BY <1>1 DEF OrderRecords, PayerSet, Marked

\* A step of one order that is there: its entries move with the balance, and are those of what
\* became of it.
LEMMA AccountMoved ==
  ASSUME IInv, TypeOK', AccountInv, NEW o \in Requests, order[o] # None,
         order' = [order EXCEPT ![o].cancelled = TRUE] \/ PayerSet(o) \/ order' = order,
         \A s \in Requests \ {o} : UNCHANGED <<returned[s], coin[s], admin[s]>>,
         \A u \in Customers :
           ledger'[u] = IF u = CustomerOf(o)
                          THEN ledger[u] + CreditsBack(o) - CreditsBack(o)' - CoinBack(o) + CoinBack(o)'
                          ELSE ledger[u],
         Entries(o)'
  PROVE  AccountInv'
<1>1. /\ \A s \in Requests \ {o} : order'[s] = order[s]
      /\ order'[o] # None /\ CustomerOf(o)' = CustomerOf(o)
      /\ order'[o].credits \in Nat
  <2>1. CASE order' = order BY <2>1, OrderFlagSet DEF CustomerOf
  <2>2. CASE order' # order BY <2>2, OrderFieldSet, OrderFlagSet DEF CustomerOf
  <2> QED BY <2>1, <2>2
<1>2. IsFiniteSet(Ordered)'
  <2>1. Ordered' = Ordered BY <1>1 DEF Ordered
  <2> QED BY <2>1 DEF AccountInv
<1>3. /\ CreditsBack(o) \in Nat /\ CoinBack(o) \in Nat
      /\ CreditsBack(o)' \in Nat /\ CoinBack(o)' \in Nat
  BY <1>1, RestoreTyped, AmountAssumption DEF IInv, CreditsBack, CoinBack
<1>4. \A u \in Customers : Balanced(u)'
  <2> DEFINE had == CreditsBack(o)
             held == CoinBack(o)
  <2>1. /\ had \in Nat /\ had = (IF order[o] # None THEN CreditsBack(o) ELSE 0)
        /\ held \in Nat /\ held = (IF order[o] # None THEN CoinBack(o) ELSE 0)
        /\ \A u \in Customers :
             ledger'[u] = IF u = CustomerOf(o)'
                            THEN ledger[u] + had - CreditsBack(o)' - held + CoinBack(o)'
                            ELSE ledger[u]
    BY <1>1, <1>3
  <2>2. TypeOK /\ \A u \in Customers : Balanced(u) BY DEF IInv, AccountInv
  <2>3. \A s \in Requests \ {o} : UNCHANGED <<order[s], returned[s], coin[s]>> BY <1>1
  <2> HIDE DEF had, held
  <2> QED BY <1>1, <1>3, <2>1, <2>2, <2>3, BalanceMoved
<1>5. \A s \in Requests : Entries(s)'
  <2>1. ASSUME NEW s \in Requests \ {o} PROVE Entries(s)'
    BY <1>1, <2>1 DEF AccountInv, Entries
  <2> QED BY <2>1
<1> QED BY <1>2, <1>4, <1>5 DEF AccountInv

LEMMA AccountCommit ==
  ASSUME IInv, TypeOK', CreditInv, AccountInv, NEW r \in Requests, Commit(r)
  PROVE  AccountInv'
<1> DEFINE p == request[r].preview
           new == [key |-> request[r].key, preview |-> p, cart |-> preview[p].cart,
                   line |-> preview[p].line, coupon |-> preview[p].coupon,
                   credits |-> preview[p].credits, cancelled |-> FALSE,
                   paid |-> FALSE, payer |-> "none"]
<1>1. order[r] = None BY DEF Commit, IInv, RequestInv
<1>2. /\ order' = [order EXCEPT ![r] = new] /\ UNCHANGED <<coin, returned, admin>>
      /\ ledger' = [ledger EXCEPT ![Owner[preview[p].cart]] = @ - preview[p].credits]
  BY DEF Commit, CreateOrder
<1>3. preview[p] \in PreviewRecords /\ p \in Previews /\ request[r].key \in Keys
  BY DEF Commit, IInv, RequestInv, TypeOK
<1>4. /\ new \in OrderRecords /\ new.credits = preview[p].credits /\ new.cart = preview[p].cart
      /\ ~new.cancelled /\ ~new.paid /\ preview[p].credits \in Nat /\ preview[p].cart \in Carts
  BY <1>3 DEF PreviewRecords, OrderRecords, Payers
<1> HIDE DEF p, new
<1>5. /\ order'[r] = new /\ order'[r] # None
      /\ \A s \in Requests \ {r} : order'[s] = order[s]
  BY <1>2, <1>4, NoneAssumption DEF IInv, TypeOK
<1>6. ~returned[r] /\ coin[r] = "none"
  BY <1>1 DEF AccountInv, Entries, CreditInv
<1>7. /\ CustomerOf(r)' = Owner[preview[p].cart] /\ Owner[preview[p].cart] \in Customers
      /\ CreditsBack(r)' = preview[p].credits /\ CoinBack(r)' = 0
  BY <1>2, <1>4, <1>5, <1>6, OwnerAssumption DEF CustomerOf, CreditsBack, CoinBack
<1>8. IsFiniteSet(Ordered)'
  <2>1. Ordered' = Ordered \cup {r} BY <1>5 DEF Ordered
  <2> QED BY <2>1, FS_AddElement DEF AccountInv
<1>9. \A u \in Customers : Balanced(u)'
  <2> DEFINE nothing == 0
  <2>1. /\ nothing \in Nat /\ nothing = (IF order[r] # None THEN CreditsBack(r) ELSE 0)
        /\ nothing = (IF order[r] # None THEN CoinBack(r) ELSE 0)
    BY <1>1
  <2>2. ledger \in [Customers -> Int] /\ CreditsBack(r)' \in Nat /\ CoinBack(r)' \in Nat
    BY <1>4, <1>7 DEF IInv, TypeOK
  <2>3. \A u \in Customers :
          ledger'[u] = IF u = CustomerOf(r)'
                         THEN ledger[u] + nothing - CreditsBack(r)' - nothing + CoinBack(r)'
                         ELSE ledger[u]
    <3> TAKE u \in Customers
    <3>1. CASE u = Owner[preview[p].cart] BY <1>2, <1>4, <1>7, <2>2, <3>1
    <3>2. CASE u # Owner[preview[p].cart] BY <1>2, <1>7, <2>2, <3>2
    <3> QED BY <3>1, <3>2
  <2>4. TypeOK /\ \A u \in Customers : Balanced(u) BY DEF IInv, AccountInv
  <2>5. \A s \in Requests \ {r} : UNCHANGED <<order[s], returned[s], coin[s]>> BY <1>2, <1>5
  <2> HIDE DEF nothing
  <2> QED BY <1>1, <1>5, <2>1, <2>2, <2>3, <2>4, <2>5, BalanceMoved
<1>10. \A s \in Requests : Entries(s)'
  <2>1. Entries(r)' BY <1>2, <1>4, <1>5, <1>6 DEF Entries
  <2>2. ASSUME NEW s \in Requests \ {r} PROVE Entries(s)'
    BY <1>2, <1>5, <2>2 DEF AccountInv, Entries
  <2> QED BY <2>1, <2>2
<1> QED BY <1>8, <1>9, <1>10 DEF AccountInv

LEMMA AccountNext == IInv /\ CreditInv /\ AccountInv /\ [Next]_vars => AccountInv'
<1> SUFFICES ASSUME IInv, CreditInv, AccountInv, [Next]_vars PROVE AccountInv'
  OBVIOUS
<1>1. TypeOK' /\ IInv' BY NextIInv DEF IInv
<1>2. ASSUME UNCHANGED <<order, ledger, coin, returned, admin>> PROVE AccountInv'
  BY <1>2 DEF AccountInv, Ordered, Balanced, Spent, Earned, Entries, CustomerOf, CreditsBack,
     CoinBack, Units
<1>3. CASE CartNext \/ PreviewNext \/ UNCHANGED vars
  <2>1. CASE CartNext
    BY <1>2, <2>1 DEF CartNext, AddItem, RemoveItem, FinishMutation, AddQuoted, UpdateItem,
       Edit, incentiveVars
  <2>2. CASE PreviewNext
    BY <1>2, <2>2 DEF PreviewNext, PreviewLapses, Preview, QuoteLapses, ExpireQuotes, incentiveVars
  <2>3. CASE UNCHANGED vars BY <1>2, <2>3 DEF vars, incentiveVars
  <2> QED BY <1>3, <2>1, <2>2, <2>3
<1>4. CASE ConfirmNext
  <2>1. ASSUME NEW s \in Requests,
               \/ \E p \in Previews, k \in Keys : Lookup(s, p, k)
               \/ Review(s) \/ CommitRefused(s) \/ ConfirmLost(s)
        PROVE UNCHANGED <<order, ledger, coin, returned, admin>>
    BY <2>1 DEF Lookup, Review, CommitRefused, ConfirmLost, KeptByConfirm, incentiveVars
  <2> QED BY <1>1, <1>2, <1>4, <2>1, AccountCommit DEF ConfirmNext
<1>5. CASE OrderNext
  <2>1. PICK o \in Requests :
          \/ Cancel(o) \/ PayReads(o) \/ Pay(o)
          \/ AdminReads(o) \/ AdminSaves(o) \/ RestoreCredits(o) \/ RestoreCoin(o) \/ RestoreQuote(o)
          \/ ReleaseCoupon(o) \/ ReleaseCount(o) \/ RestoreFails(o)
    BY <1>5 DEF OrderNext
  <2>2. order[o] # None
    BY <2>1, PayWrites DEF Cancel, AdminReads, AdminSaves, RestoreCredits, RestoreCoin, RestoreQuote,
       ReleaseCoupon, ReleaseCount, RestoreFails, AdminGoes, Standing, Ordered, IInv, AdminInv
  <2>3. /\ Entries(o) /\ ledger \in [Customers -> Int] /\ CustomerOf(o) \in Customers
        /\ returned \in [Requests -> BOOLEAN] /\ admin \in [Requests -> AdminSteps]
        /\ coin \in [Requests -> {"none", "earned", "reversed"}]
        /\ CreditsBack(o) \in Nat /\ CoinBack(o) \in Nat /\ Coin \in Nat
        /\ order[o].credits \in Nat /\ order[o].cancelled \in BOOLEAN
        /\ admin[o] \in {"credits", "coin", "quote", "coupon", "count"} => order[o].cancelled
        /\ coin[o] # "none" => order[o].paid
    <3>1. order[o] \in OrderRecords BY <2>2 DEF IInv, TypeOK
    <3> QED BY <2>2, <3>1, RestoreTyped, AmountAssumption
            DEF IInv, TypeOK, AccountInv, AdminInv, CreditInv, OrderRecords
  \* The entries of credit and coin after a restoration of either.
  <2>4. /\ returned' = [returned EXCEPT ![o] = order[o].credits > 0]
             /\ order'[o].credits = order[o].credits
           => CreditsBack(o)' = 0 /\ (returned'[o] \/ order'[o].credits = 0)
        /\ coin' = Reversed(o) => CoinBack(o)' = 0 /\ coin'[o] # "earned"
        /\ UNCHANGED returned /\ order'[o].credits = order[o].credits
           => CreditsBack(o)' = CreditsBack(o)
        /\ UNCHANGED coin => CoinBack(o)' = CoinBack(o)
    <3>1. ASSUME returned' = [returned EXCEPT ![o] = order[o].credits > 0],
                 order'[o].credits = order[o].credits
          PROVE  CreditsBack(o)' = 0 /\ (returned'[o] \/ order'[o].credits = 0)
      <4>1. returned'[o] <=> order[o].credits > 0 BY <2>3, <3>1
      <4> QED BY <2>3, <3>1, <4>1 DEF CreditsBack
    <3>2. coin' = Reversed(o) => CoinBack(o)' = 0 /\ coin'[o] # "earned"
      BY <2>3 DEF CoinBack, Reversed
    <3> QED BY <3>1, <3>2 DEF CreditsBack, CoinBack
  <2>5. CASE Cancel(o)
    <3>1. /\ order' = [order EXCEPT ![o].cancelled = TRUE] /\ coin' = Reversed(o)
          /\ returned' = [returned EXCEPT ![o] = order[o].credits > 0] /\ UNCHANGED admin
          /\ ledger' = [ledger EXCEPT ![CustomerOf(o)] = @ + CreditsBack(o) - CoinBack(o)]
      BY <2>5 DEF Cancel
    <3>2. order'[o].cancelled /\ order'[o].credits = order[o].credits
      BY <2>2, <3>1, OrderFlagSet
    <3>3. order'[o] # None BY <2>2, <3>1, OrderFieldSet
    <3>4. Entries(o)' BY <2>4, <3>1, <3>2, <3>3 DEF Entries
    <3>5. \A u \in Customers :
            ledger'[u] = IF u = CustomerOf(o)
                           THEN ledger[u] + CreditsBack(o) - CreditsBack(o)' - CoinBack(o) + CoinBack(o)'
                           ELSE ledger[u]
      BY <2>3, <2>4, <3>1, <3>2
    <3>6. \A s \in Requests \ {o} : UNCHANGED <<returned[s], coin[s], admin[s]>>
      BY <2>3, <3>1 DEF Reversed
    <3> QED BY <1>1, <2>2, <3>1, <3>4, <3>5, <3>6, AccountMoved
  <2>6. CASE PayReads(o)
    <3>1. /\ order' = [order EXCEPT ![o].payer = "read"] /\ ~order[o].cancelled
          /\ UNCHANGED <<ledger, coin, returned, admin>>
      BY <2>6 DEF PayReads, Standing, incentiveVars
    <3>2. PayerSet(o) BY <2>6, PayWrites
    <3>3. order'[o].credits = order[o].credits /\ ~order'[o].cancelled
      BY <2>2, <3>1, <3>2, OrderFlagSet
    <3>4. order'[o] # None /\ order'[o].paid = order[o].paid
      <4>1. order[o] \in OrderRecords BY <2>2 DEF IInv, TypeOK
      <4>2. order'[o].paid = order[o].paid BY <3>1, <4>1 DEF OrderRecords, IInv, TypeOK
      <4> QED BY <2>2, <3>2, <4>2, OrderFieldSet
    <3>5. Entries(o)' BY <2>2, <2>3, <3>1, <3>3, <3>4 DEF Entries
    <3>6. \A u \in Customers :
            ledger'[u] = IF u = CustomerOf(o)
                           THEN ledger[u] + CreditsBack(o) - CreditsBack(o)' - CoinBack(o) + CoinBack(o)'
                           ELSE ledger[u]
      BY <2>3, <2>4, <3>1, <3>3
    <3> QED BY <1>1, <2>2, <3>1, <3>2, <3>5, <3>6, AccountMoved
  <2>10. CASE Pay(o)
    <3>1. coin[o] = "none" /\ ~order[o].paid BY <2>3, <2>10, PayWrites
    <3>2. Earns(o) = Coin BY <3>1 DEF Earns
    <3>3. /\ coin' = [coin EXCEPT ![o] = IF Coin > 0 THEN "earned" ELSE @]
          /\ ledger' = [ledger EXCEPT ![CustomerOf(o)] = @ + Coin]
          /\ UNCHANGED <<returned, admin>>
      BY <2>10, <3>2 DEF Pay
    <3>4. PayerSet(o) /\ order'[o].credits = order[o].credits
          /\ order'[o].cancelled = order[o].cancelled
      BY <2>2, <2>10, PayWrites, OrderFlagSet
    <3>5. order'[o].paid /\ (order[o].cancelled => order'[o].payer = "late")
      <4>1. order[o] \in OrderRecords BY <2>2 DEF IInv, TypeOK
      <4> QED BY <2>10, <4>1 DEF Pay, OrderRecords, IInv, TypeOK
    <3>6. CoinBack(o) = 0 /\ CoinBack(o)' = Coin BY <2>3, <3>1, <3>3 DEF CoinBack
    <3>7. order'[o] # None BY <2>2, <3>4, OrderFieldSet
    <3>8. Entries(o)' BY <2>2, <2>3, <3>1, <3>3, <3>4, <3>5, <3>7 DEF Entries
    <3>9. \A u \in Customers :
            ledger'[u] = IF u = CustomerOf(o)
                           THEN ledger[u] + CreditsBack(o) - CreditsBack(o)' - CoinBack(o) + CoinBack(o)'
                           ELSE ledger[u]
      BY <2>3, <2>4, <3>3, <3>4, <3>6
    <3>10. \A s \in Requests \ {o} : UNCHANGED <<returned[s], coin[s], admin[s]>>
      BY <2>3, <3>3
    <3> QED BY <1>1, <2>2, <3>4, <3>8, <3>9, <3>10, AccountMoved
  \* An administrator's step that leaves the entries alone.
  <2>7. CASE \/ AdminReads(o) \/ AdminSaves(o) \/ RestoreQuote(o) \/ ReleaseCoupon(o)
             \/ ReleaseCount(o) \/ RestoreFails(o)
    <3>1. /\ order' = [order EXCEPT ![o].cancelled = TRUE] \/ order' = order
          /\ UNCHANGED <<ledger, returned, coin>>
          /\ \A s \in Requests \ {o} : UNCHANGED admin[s]
      BY <2>3, <2>7 DEF AdminReads, AdminSaves, RestoreQuote, ReleaseCoupon, ReleaseCount,
         RestoreFails, AdminGoes, incentiveVars
    <3>2. order'[o].credits = order[o].credits /\ order'[o] # None
      <4>1. CASE order' = order BY <2>2, <4>1
      <4>2. CASE order' = [order EXCEPT ![o].cancelled = TRUE]
        BY <2>2, <4>2, OrderFlagSet, OrderFieldSet
      <4> QED BY <3>1, <4>1, <4>2
    <3>3. Entries(o)'
      <4>1. CASE AdminSaves(o)
        <5>1. /\ order' = [order EXCEPT ![o].cancelled = TRUE] /\ admin' = [admin EXCEPT ![o] = "credits"]
          BY <4>1 DEF AdminSaves, AdminGoes
        <5>2. order'[o].cancelled BY <2>2, <5>1, OrderFlagSet
        <5> QED BY <2>3, <3>2, <5>1, <5>2 DEF Entries
      <4>2. CASE AdminReads(o)
        BY <2>2, <2>3, <4>2 DEF AdminReads, AdminGoes, Standing, Entries, incentiveVars
      <4>3. CASE RestoreQuote(o) \/ ReleaseCoupon(o) \/ ReleaseCount(o) \/ RestoreFails(o)
        <5>1. /\ order' = order
              /\ \/ admin[o] \in {"quote", "coupon", "count"} \/ admin'[o] = "failed"
          BY <2>3, <4>3 DEF RestoreQuote, ReleaseCoupon, ReleaseCount, RestoreFails, AdminGoes
        <5> QED BY <2>2, <2>3, <3>1, <5>1 DEF Entries
      <4> QED BY <2>7, <4>1, <4>2, <4>3
    <3>4. \A u \in Customers :
            ledger'[u] = IF u = CustomerOf(o)
                           THEN ledger[u] + CreditsBack(o) - CreditsBack(o)' - CoinBack(o) + CoinBack(o)'
                           ELSE ledger[u]
      BY <2>3, <2>4, <3>1, <3>2
    <3> QED BY <1>1, <2>2, <3>1, <3>3, <3>4, AccountMoved
  <2>8. CASE RestoreCredits(o)
    <3>1. /\ order' = order /\ UNCHANGED coin /\ admin[o] = "credits"
          /\ admin' = [admin EXCEPT ![o] = "coin"]
          /\ returned' = [returned EXCEPT ![o] = order[o].credits > 0]
          /\ ledger' = [ledger EXCEPT ![CustomerOf(o)] = @ + CreditsBack(o)]
      BY <2>8 DEF RestoreCredits, AdminGoes
    <3>2. Entries(o)' BY <2>2, <2>3, <2>4, <3>1 DEF Entries
    <3>3. \A u \in Customers :
            ledger'[u] = IF u = CustomerOf(o)
                           THEN ledger[u] + CreditsBack(o) - CreditsBack(o)' - CoinBack(o) + CoinBack(o)'
                           ELSE ledger[u]
      BY <2>3, <2>4, <3>1
    <3>4. \A s \in Requests \ {o} : UNCHANGED <<returned[s], coin[s], admin[s]>>
      BY <2>3, <3>1
    <3> QED BY <1>1, <2>2, <3>1, <3>2, <3>3, <3>4, AccountMoved
  <2>9. CASE RestoreCoin(o)
    <3>1. /\ order' = order /\ UNCHANGED returned /\ admin[o] = "coin"
          /\ admin' = [admin EXCEPT ![o] = "quote"] /\ coin' = Reversed(o)
          /\ ledger' = [ledger EXCEPT ![CustomerOf(o)] = @ - CoinBack(o)]
      BY <2>9 DEF RestoreCoin, AdminGoes
    <3>2. Entries(o)' BY <2>2, <2>3, <2>4, <3>1 DEF Entries
    <3>3. \A u \in Customers :
            ledger'[u] = IF u = CustomerOf(o)
                           THEN ledger[u] + CreditsBack(o) - CreditsBack(o)' - CoinBack(o) + CoinBack(o)'
                           ELSE ledger[u]
      BY <2>3, <2>4, <3>1
    <3>4. \A s \in Requests \ {o} : UNCHANGED <<returned[s], coin[s], admin[s]>>
      BY <2>3, <3>1 DEF Reversed
    <3> QED BY <1>1, <2>2, <3>1, <3>2, <3>3, <3>4, AccountMoved
  <2> QED BY <2>1, <2>5, <2>6, <2>7, <2>8, <2>9, <2>10
<1> QED BY <1>3, <1>4, <1>5 DEF Next

\* When no restoration of a customer's orders is under way or failed, what the entries say is
\* what the standing orders spent and the coins that are kept.
LEMMA BalancedIsAccounted ==
  ASSUME IInv, CreditInv, AccountInv PROVE CreditsAccounted
<1> SUFFICES ASSUME NEW u \in Customers,
                    \A o \in Ordered : CustomerOf(o) = u => admin[o] \notin {"credits", "coin", "failed"}
             PROVE  LET mine == {o \in Ordered : CustomerOf(o) = u} IN
                    ledger[u] = Grant[u] - CreditOf(mine \cap Standing)
                                + Coin * Cardinality({o \in mine : KeepsCoin(o)})
  BY DEF CreditsAccounted
<1> DEFINE mine == {o \in Ordered : CustomerOf(o) = u}
           standing == mine \cap Standing
           paid == {o \in mine : KeepsCoin(o)}
<1>1. ASSUME NEW o \in Requests
      PROVE  /\ Spent(u)[o] = IF o \in standing THEN order[o].credits ELSE 0
             /\ Earned(u)[o] = IF o \in paid THEN Coin ELSE 0
  <2>1. CASE o \in standing
    <3>1. /\ order[o] # None /\ ~order[o].cancelled /\ CustomerOf(o) = u
      BY <2>1 DEF Ordered, Standing
    <3>2. ~returned[o] /\ coin[o] # "reversed" /\ (order[o].paid /\ Coin > 0 => coin[o] = "earned")
      BY <3>1 DEF AccountInv, Entries
    <3>3. coin[o] # "none" => order[o].paid BY DEF CreditInv
    <3>4. coin[o] \in {"none", "earned", "reversed"} /\ Coin \in Nat
      BY AmountAssumption DEF IInv, TypeOK
    <3>5. Spent(u)[o] = order[o].credits BY <3>1, <3>2 DEF Spent, CreditsBack
    <3>6. Earned(u)[o] = IF order[o].paid THEN Coin ELSE 0
      BY <3>1, <3>2, <3>3, <3>4 DEF Earned, CoinBack
    <3>7. o \in paid <=> order[o].paid BY <2>1 DEF KeepsCoin
    <3> QED BY <2>1, <3>5, <3>6, <3>7
  <2>2. CASE o \notin standing /\ order[o] # None /\ CustomerOf(o) = u
    <3>1. o \in Ordered /\ order[o].cancelled BY <2>2 DEF Ordered, Standing
    <3>2. /\ returned[o] \/ order[o].credits = 0
          /\ coin[o] = "earned" => order[o].payer = "late" /\ order[o].paid
      BY <2>2, <3>1 DEF AccountInv, Entries, CreditInv
    <3>3. o \in paid <=> coin[o] = "earned" BY <2>2, <3>1, <3>2 DEF KeepsCoin, Standing
    <3>4. Spent(u)[o] = 0 BY <2>2, <3>2 DEF Spent, CreditsBack
    <3>5. Earned(u)[o] = IF coin[o] = "earned" THEN Coin ELSE 0 BY <2>2 DEF Earned, CoinBack
    <3> QED BY <2>2, <3>3, <3>4, <3>5
  <2>3. CASE o \notin standing /\ ~(order[o] # None /\ CustomerOf(o) = u)
    BY <2>3 DEF Spent, Earned, Ordered
  <2> QED BY <2>1, <2>2, <2>3
<1>2. standing \subseteq Requests /\ paid \subseteq Requests /\ paid \subseteq Ordered
  BY DEF Ordered
<1>3. Units(Spent(u)) = UNION {{o} \X (1..order[o].credits) : o \in standing}
  <2>1. \A o \in Requests : \A n : n \in 1..Spent(u)[o] <=> o \in standing /\ n \in 1..order[o].credits
    BY <1>1
  <2> HIDE DEF standing
  <2> QED BY <1>2, <2>1 DEF Units
<1>4. Units(Earned(u)) = paid \X (1..Coin)
  <2>1. \A o \in Requests : \A n : n \in 1..Earned(u)[o] <=> o \in paid /\ n \in 1..Coin
    BY <1>1
  <2> HIDE DEF standing, paid
  <2> QED BY <1>2, <2>1 DEF Units
<1>5. Cardinality(Units(Earned(u))) = Coin * Cardinality(paid)
  <2>1. IsFiniteSet(paid) /\ Cardinality(paid) \in Nat
    BY FS_Subset, FS_CardinalityType DEF AccountInv
  <2>2. IsFiniteSet(1..Coin) /\ Cardinality(1..Coin) = Coin
    BY FS_Interval, AmountAssumption
  <2>3. Cardinality(paid \X (1..Coin)) = Cardinality(paid) * Cardinality(1..Coin)
    <3> HIDE DEF paid
    <3> QED BY <2>1, <2>2, FS_Product
  <2>4. \A m, n \in Nat : m * n = n * m OBVIOUS
  <2> HIDE DEF paid
  <2> QED BY <1>4, <2>1, <2>2, <2>3, <2>4, AmountAssumption
<1>6. Cardinality(Units(Spent(u))) = CreditOf(standing) BY <1>3 DEF CreditOf
<1> HIDE DEF standing, paid
<1> QED BY <1>5, <1>6 DEF AccountInv, Balanced, standing, paid

\* Credit is accounted for to the unit, whatever the orders, their amounts and the cancellations
\* that race: a balance is what was granted, less what the standing orders spent, plus the coins
\* that are kept, of paid standing orders and of payments that committed on a stale read after the
\* restoration was over (CreditService.spend, refund, earn and reverseEarn, and their idempotency keys).
THEOREM CheckoutCreditsAccounted == Spec => []CreditsAccounted
<1>1. Init => CreditInv /\ AccountInv
  BY AccountInit, AmountAssumption DEF Init, CreditInv, NotOverdrawn
<1>2. IInv /\ CreditInv /\ AccountInv /\ [Next]_vars => (CreditInv /\ AccountInv)'
  BY CreditNext, AccountNext
<1>3. IInv /\ CreditInv /\ AccountInv => CreditsAccounted BY BalancedIsAccounted
<1> QED BY <1>1, <1>2, <1>3, CheckoutInductive, PTL DEF Spec

\* What an order took, its quote and its credit, it keeps while it stands and gives back once
\* after, but for the coin of a payment confirmed on a stale read, however confirmations, payments
\* and both kinds of cancellation interleave.
THEOREM CheckoutTakenOrGivenBack == Spec => []TakenOrGivenBack
<1>1. QuoteGivenBack /\ CreditsAccounted /\ NotOverdrawn => TakenOrGivenBack
  BY DEF TakenOrGivenBack
<1> QED
  BY <1>1, CheckoutQuoteGivenBack, CheckoutCreditsAccounted, CheckoutNotOverdrawn, PTL
=============================================================================
