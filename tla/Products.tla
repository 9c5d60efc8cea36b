----------------------------- MODULE Products -----------------------------
(***************************************************************************)
(* A product between those who change it: the staff of the catalogue        *)
(* (CommercialCatalogService, with the version they read), the market       *)
(* associate who answers an availability check (CatalogAvailabilityService, *)
(* the same), the administration (AdminProductsController, which saves the  *)
(* whole document), the policy's deadline, and the job of the deadlines.    *)
(* Dates are what the code compares them to: running, expired or past.      *)
(***************************************************************************)
EXTENDS Catalogue

CONSTANTS Prices, Cost

VARIABLE job \* escalateOverdueAvailabilityChecks: idle, or at which list, and what is left of it

New(c, price) ==
  [cat |-> c, status |-> "draft", avail |-> "yes", valid |-> "none", prev |-> "none", due |-> "none",
   told |-> "none", approved |-> "none", version |-> 1, price |-> price, floor |-> Cost,
   gone |-> "none", from |-> 0, images |-> {}]

(* what every way of the staff to put a product on sale writes              *)
OnSale == [status |-> "published", avail |-> "yes", approved |-> "yes", valid |-> "running"]
Relations(c) == Assignable(c) /\ market

-----------------------------------------------------------------------------
(* Writes under a version: made where it is still that of the read.         *)
Versioned == {"rules", "publish", "pause", "unpublish", "ask", "confirm", "report"}
Plans(r, p, changes) ==
  /\ Reads(r, "write", p, [version |-> prod[p].version], changes)
  /\ UNCHANGED <<catalogueVars, job>>

(* mutant: the version is checked on the read, and not by the filter        *)
StillThere(p, doc) == TRUE
SameVersion(p, doc) == prod[p].version = doc.version
Write(r) ==
  LET p == seen[r].ref IN
  /\ pc[r] = "write"
  /\ prod' = IF SameVersion(p, seen[r].doc)
               THEN [prod EXCEPT ![p] = With([prod[p] EXCEPT !.version = @ + 1], seen[r].args)] ELSE prod
  /\ Done(r) /\ UNCHANGED <<cat, market, sub, media, vendor, job>>

SetRules(r, p, floor) ==
  /\ Starts(r, "rules")
  /\ floor # 0 => Cost <= floor /\ floor <= prod[p].price
  /\ Plans(r, p, [floor |-> floor])

(* lifecycle *)
Publish(r, p) ==
  /\ Starts(r, "publish") /\ prod[p].status # "published"
  /\ prod[p].from # 0 => sub[prod[p].from].status = "approved"
  /\ market /\ cat[prod[p].cat].active
  /\ \E i \in prod[p].images : media[i].state = "ready"
  /\ Plans(r, p, OnSale)
Pause(r, p) ==
  /\ Starts(r, "pause") /\ prod[p].status = "published" /\ Plans(r, p, [status |-> "paused"])
Unpublish(r, p) ==
  /\ Starts(r, "unpublish") /\ prod[p].status # "unpublished" /\ Plans(r, p, [status |-> "unpublished"])

(* CatalogAvailabilityService: request, confirm, report                     *)
Ask(r, p) ==
  LET d == prod[p] IN
  /\ Starts(r, "ask") /\ d.status \in {"published", "paused", "unconfirmed"}
  /\ Plans(r, p, [status |-> "unconfirmed", avail |-> "asked", valid |-> "none", due |-> "running", told |-> "none",
                  prev |-> IF d.status # "unconfirmed" THEN d.status
                           ELSE IF d.prev = "none" THEN "published" ELSE d.prev])

Answered(d) ==
  IF d.prev = "published" /\ d.approved = "yes" THEN "published"
  ELSE IF d.status = "unconfirmed" THEN "draft" ELSE d.status
(* mutant: the end of the validity is not written                           *)
ConfirmedForever(d) == [status |-> Answered(d), avail |-> "yes", prev |-> "none", due |-> "none", told |-> "none"]
Confirmed(d) ==
  [status |-> Answered(d), avail |-> "yes", valid |-> "running", prev |-> "none", due |-> "none", told |-> "none"]
Confirm(r, p) ==
  /\ Starts(r, "confirm") /\ prod[p].avail = "asked" /\ Plans(r, p, Confirmed(prod[p]))
Report(r, p) ==
  /\ Starts(r, "report") /\ prod[p].avail = "asked"
  /\ Plans(r, p, [status |-> "paused", avail |-> "no", valid |-> "none", due |-> "none"])

-----------------------------------------------------------------------------
(* AdminProductsController: what was read is saved whole                    *)
SavesWhole == {"edit", "review", "disable"}
EditStatuses == {"draft", "published", "paused", "unpublished", "disabled"}
Edited(d, c, status, price) ==
  LET e == [d EXCEPT !.cat = c, !.status = status, !.price = price, !.version = @ + 1,
                     !.floor = IF @ = 0 THEN Cost ELSE @] IN
  IF status = "published" /\ d.status # "published" THEN With(e, OnSale) ELSE e
Edit(r, p, c, status, price) ==
  /\ Starts(r, "edit") /\ Relations(c) /\ status \in EditStatuses \cup {prod[p].status}
  /\ Reads(r, "save", p, Edited(prod[p], c, status, price), {})
  /\ UNCHANGED <<catalogueVars, job>>

Reviewed(d, status, price) ==
  LET e == [d EXCEPT !.status = status, !.price = price, !.version = @ + 1] IN
  IF status = "published" THEN With(e, OnSale) ELSE e
Review(r, p, status, price) ==
  /\ Starts(r, "review")
  /\ status = "published" => Relations(prod[p].cat)
  /\ Reads(r, "save", p, Reviewed(prod[p], status, price), {})
  /\ UNCHANGED <<catalogueVars, job>>

Disable(r, p) ==
  /\ Starts(r, "disable")
  /\ Reads(r, "save", p, [prod[p] EXCEPT !.status = "disabled"], {})
  /\ UNCHANGED <<catalogueVars, job>>

SaveProduct(r) ==
  LET p == seen[r].ref IN
  /\ pc[r] = "save"
  /\ prod' = [prod EXCEPT ![p] = Saved(seen[r].doc, @)]
  /\ Done(r) /\ UNCHANGED <<cat, market, sub, media, vendor, job>>

(* remove, recategorise: a field is set, whatever became of the rest        *)
Remove(r, p) ==
  /\ Starts(r, "remove") /\ prod[p].status = "disabled"
  /\ Reads(r, "set", p, Unseen.doc, [gone |-> "set"]) /\ UNCHANGED <<catalogueVars, job>>
Recategorise(r, p, c) ==
  /\ Starts(r, "recategorise") /\ Assignable(c)
  /\ Reads(r, "set", p, Unseen.doc, [cat |-> c]) /\ UNCHANGED <<catalogueVars, job>>
SetField(r) ==
  LET p == seen[r].ref IN
  /\ pc[r] = "set"
  /\ prod' = IF does[r] = "recategorise" /\ prod[p].gone = "set" THEN prod
             ELSE [prod EXCEPT ![p] = With(@, seen[r].args)]
  /\ Done(r) /\ UNCHANGED <<cat, market, sub, media, vendor, job>>

Create(r, c, price) ==
  /\ Starts(r, "create") /\ Relations(c)
  /\ \E doc \in {New(c, price), With(New(c, price), OnSale)} : Reads(r, "insert", 0, doc, {})
  /\ UNCHANGED <<catalogueVars, job>>
Insert(r) ==
  /\ pc[r] = "insert" /\ prod' = Append(prod, seen[r].doc)
  /\ Done(r) /\ UNCHANGED <<cat, market, sub, media, vendor, job>>

(* updateCatalogAvailability: the deadline of all that is on sale           *)
SetPolicy(r) ==
  /\ Starts(r, "policy")
  /\ prod' = [p \in DOMAIN prod |->
                IF prod[p].status = "published" /\ prod[p].avail = "yes" /\ prod[p].gone = "none"
                  THEN [prod[p] EXCEPT !.valid = "running"] ELSE prod[p]]
  /\ Done(r) /\ UNCHANGED <<cat, market, sub, media, vendor, job>>

-----------------------------------------------------------------------------
(* escalateOverdueAvailabilityChecks: two lists, each product looked at     *)
(* again where it is written                                                *)
Idle == [step |-> "idle", todo |-> {}]
Outdated(p) == prod[p].status = "published" /\ prod[p].valid = "expired"
(* mutant: what was escalated before is not listed again                    *)
HasExpiredOnce(p) == Outdated(p) /\ prod[p].avail = "yes" /\ prod[p].gone = "none" /\ prod[p].told = "none"
HasExpired(p) == Outdated(p) /\ prod[p].avail = "yes" /\ prod[p].gone = "none"
IsOverdue(p) ==
  /\ prod[p].avail = "asked" /\ prod[p].due = "past" /\ prod[p].told = "none" /\ prod[p].gone = "none"
jobOnly == <<does, cat, market, sub, media, vendor, pc, seen>>

(* a pass that would find nothing leaves no trace, and is left out          *)
ListExpired ==
  /\ job = Idle /\ \E p \in DOMAIN prod : HasExpired(p) \/ IsOverdue(p)
  /\ job' = [step |-> "expire", todo |-> {p \in DOMAIN prod : HasExpired(p)}]
  /\ UNCHANGED <<jobOnly, prod>>
TakenDown == [status |-> "unconfirmed", avail |-> "asked", prev |-> "published", due |-> "past", told |-> "set", valid |-> "none"]
(* mutant: the product's version does not change                            *)
ExpireQuiet(p) == IF Outdated(p) THEN [prod EXCEPT ![p] = With(@, TakenDown)] ELSE prod
ExpireOne(p) == IF Outdated(p) THEN [prod EXCEPT ![p] = With([prod[p] EXCEPT !.version = @ + 1], TakenDown)] ELSE prod
Expire(p) ==
  /\ job.step = "expire" /\ p \in job.todo
  /\ prod' = ExpireOne(p) /\ job' = [job EXCEPT !.todo = @ \ {p}]
  /\ UNCHANGED jobOnly
ListOverdue ==
  /\ job.step = "expire" /\ job.todo = {}
  /\ job' = [step |-> "overdue", todo |-> {p \in DOMAIN prod : IsOverdue(p)}]
  /\ UNCHANGED <<jobOnly, prod>>
(* somebody of the staff was told, or nobody is there to be told            *)
Escalate(p) ==
  /\ job.step = "overdue" /\ p \in job.todo
  /\ prod' \in {prod, [prod EXCEPT ![p].told = "set"]}
  /\ job' = [job EXCEPT !.todo = @ \ {p}] /\ UNCHANGED jobOnly
Sleep == job.step = "overdue" /\ job.todo = {} /\ job' = Idle /\ UNCHANGED <<jobOnly, prod>>
Job == ListExpired \/ ListOverdue \/ Sleep \/ \E p \in DOMAIN prod : Expire(p) \/ Escalate(p)

TimePasses(p) ==
  /\ \/ prod[p].valid = "running" /\ prod' = [prod EXCEPT ![p].valid = "expired"]
     \/ prod[p].due = "running" /\ prod' = [prod EXCEPT ![p].due = "past"]
  /\ UNCHANGED <<jobOnly, job>>

ProductStep(r) ==
  \/ Write(r) \/ SaveProduct(r) \/ SetField(r) \/ Insert(r) \/ SetPolicy(r)
  \/ \E p \in DOMAIN prod :
       \/ Publish(r, p) \/ Pause(r, p) \/ Unpublish(r, p) \/ Ask(r, p) \/ Confirm(r, p) \/ Report(r, p)
       \/ Disable(r, p) \/ Remove(r, p)
       \/ \E floor \in Prices \cup {0} : SetRules(r, p, floor)
       \/ \E c \in Cats : Recategorise(r, p, c)
       \/ \E c \in Cats, price \in Prices, status \in EditStatuses \cup {prod[p].status} : Edit(r, p, c, status, price)
       \/ \E price \in Prices, status \in {"published", "unconfirmed", "disabled"} : Review(r, p, status, price)
  \/ \E c \in Cats, price \in Prices : Create(r, c, price)
ProductNext == Job \/ (\E p \in DOMAIN prod : TimePasses(p)) \/ \E r \in Requests : ProductStep(r)

-----------------------------------------------------------------------------
(* What customers can buy has an answer about its availability and an end   *)
(* of its validity, whichever of the ways put it on sale and whatever was   *)
(* saved over it: without the end the job would never ask again.            *)
OnSaleIsConfirmed ==
  \A p \in DOMAIN prod : prod[p].status = "published" => prod[p].avail = "yes" /\ prod[p].valid # "none"

(* What a write under a version was decided on still holds where it is      *)
(* made, whoever came in between, the job included, as long as nobody saves *)
(* the product whole: a check that is answered is open, what is paused is   *)
(* on sale, what is put on sale is not.                                     *)
Basis(op, d) ==
  /\ op \in {"confirm", "report"} => d.avail = "asked"
  /\ op = "pause" => d.status = "published"
  /\ op = "publish" => d.status # "published"
  /\ op = "ask" => d.status \in {"published", "paused", "unconfirmed"}
Applies(r) == pc[r] = "write" /\ pc'[r] = "done" /\ prod' # prod
AnswersItsRead ==
  [][(\A q \in Requests : does[q] \notin SavesWhole)
       => (\A r \in Requests : Applies(r) => Basis(does[r], prod[seen[r].ref]))]_<<prod, pc>>

(* A product whose validity has ended comes down, over and over: under the  *)
(* job's persistence it is never left on sale for good.                     *)
ExpiredComesDown == []<>(\A p \in DOMAIN prod : Outdated(p) => prod[p].gone = "set")

(* "All price, rule, content, and lifecycle changes carry optimistic        *)
(* versions" (docs COMMERCIAL_WORKFLOW): a change of the status comes with  *)
(* a higher version.                                                        *)
StatusIsVersioned ==
  [][\A p \in DOMAIN prod : prod'[p].status # prod[p].status => prod'[p].version > prod[p].version]_prod

(* An answer about the availability does not put back on sale what the      *)
(* administration took off it.                                              *)
StaysOff ==
  [][\A r \in Requests : LET p == seen[r].ref IN
       Applies(r) /\ does[r] = "confirm" /\ prod[p].status \in {"unpublished", "disabled"}
         => prod'[p].status # "published"]_<<prod, pc>>

(* "never override rules an admin set explicitly" (products.controller:341) *)
(* where they were set between its read and its save.                       *)
RulesKept ==
  [][\A r \in Requests : LET p == seen[r].ref IN
       pc[r] = "save" /\ pc'[r] = "done" /\ prod[p].floor # 0 => prod'[p].floor = prod[p].floor]_<<prod, pc>>

(* The floor of the negotiation lies between the cost and the price.        *)
FloorWithinPrice == \A p \in DOMAIN prod : prod[p].floor <= prod[p].price

(* A check is marked as escalated when its deadline has passed.             *)
EscalatedWasDue == \A p \in DOMAIN prod : prod[p].told = "set" => prod[p].due # "running"
=============================================================================
