----------------------------- MODULE Catalogue -----------------------------
(***************************************************************************)
(* The records of the supply side and how a request works on them: the      *)
(* categories (two levels), the products, a market, the submissions of its  *)
(* associates with their images, and one of its vendors.  A request carries *)
(* out one operation: a read with its checks, then its writes, between      *)
(* which those of the others happen.                                        *)
(***************************************************************************)
EXTENDS Naturals, Sequences, FiniteSets

CONSTANTS Requests, Cats, Subs, Images, Managers

(* 0 is none; the markets begin with one category, the least *)
ASSUME CatsAssumption == Cats \subseteq Nat \ {0} /\ \E c \in Cats : \A k \in Cats : c <= k
ASSUME SubsAssumption == 0 \notin Subs

VARIABLES
  does,    \* the operation of each request; does not change
  cat,     \* Category: unused, kept or deleted; isActive; parentId, 0 at the top
  prod,    \* Product, in the order of creation
  market,  \* Market: its status is active
  sub,     \* ProductSubmission: status, version, the images listed, its product
  media,   \* CatalogMediaAsset: ready or removed, its owner
  vendor,  \* MarketVendor: status, none before it is onboarded
  charge,  \* User.assignedCategoryIds: who is in charge of each category
  pc, seen,\* requests: step; the record read, which one it is, what is left to write
  raced    \* history: the categories and parents that two editors were at work on at once

catalogueVars == <<cat, prod, market, sub, media, vendor>>

Unseen == [ref |-> 0, doc |-> [version |-> 0], args |-> {}]

Starts(r, op) == pc[r] = "ready" /\ does[r] = op
Goto(r, step) == pc' = [pc EXCEPT ![r] = step]
Done(r) == Goto(r, "done") /\ seen' = [seen EXCEPT ![r] = Unseen]
Reads(r, step, ref, doc, args) ==
  Goto(r, step) /\ seen' = [seen EXCEPT ![r] = [ref |-> ref, doc |-> doc, args |-> args]]

InUse(c) == cat[c].state = "kept"
Children(c) == {k \in Cats : InUse(k) /\ cat[k].parent = c}
Filed(c) == {p \in DOMAIN prod : prod[p].cat = c}
Listed(c) == {p \in Filed(c) : prod[p].gone = "none"}

(* CategoryService.assertAssignable: an active leaf whose parent is active  *)
Assignable(c) ==
  /\ InUse(c) /\ cat[c].active
  /\ \A k \in Children(c) : ~cat[k].active
  /\ cat[c].parent # 0 => InUse(cat[c].parent) /\ cat[cat[c].parent].active

(* $set and $unset of some keys                                             *)
With(d, changes) == [key \in DOMAIN d |-> IF key \in DOMAIN changes THEN changes[key] ELSE d[key]]

(* MongoRepository.save of a document read before: what the document has is *)
(* set, and a key it lacks keeps its value                                  *)
Lacks(doc, key) == key \in {"valid", "prev", "due", "told", "approved", "gone"} /\ doc[key] = "none"
Saved(doc, now) == [key \in DOMAIN doc |-> IF Lacks(doc, key) THEN now[key] ELSE doc[key]]

(* ensureMarketVendor *)
VendorTakesPart == vendor \in {"pending", "active"}

(* lifecycle of a market, by the platform's staff                           *)
ToggleMarket(r) ==
  /\ Starts(r, "market") /\ market' = ~market
  /\ Done(r) /\ UNCHANGED <<cat, prod, sub, media, vendor>>

-----------------------------------------------------------------------------
(* The editing of the category tree by AdminCategoriesController: each      *)
(* operation checks the tree and then saves the category it read, whole,    *)
(* whatever other editors do in between.                                    *)
EditsTree == {"cat_create", "cat_move", "cat_toggle", "cat_remove"}
Saves(r, c) == pc[r] = "save_cat" /\ seen[r].ref = c

(* what may be a parent: a category at the top                              *)
(* mutant: its own level is not looked at                                   *)
MayHoldAny(c) == InUse(c)
MayHold(c) == InUse(c) /\ cat[c].parent = 0

(* the identity of what is created is new *)
CreateCategory(r, c, parent) ==
  /\ Starts(r, "cat_create") /\ cat[c].state = "unused" /\ ~\E q \in Requests : Saves(q, c)
  /\ parent # 0 => MayHold(parent) /\ Listed(parent) = {}
  /\ Reads(r, "save_cat", c, [state |-> "kept", active |-> TRUE, parent |-> parent], {})
  /\ UNCHANGED <<catalogueVars, charge>>

(* update, with another parent *)
MoveCategory(r, c, parent) ==
  /\ Starts(r, "cat_move") /\ cat[c].state # "unused" /\ parent # cat[c].parent
  /\ Children(c) = {} /\ MayHold(parent) /\ parent # c
  /\ Reads(r, "save_cat", c, [cat[c] EXCEPT !.parent = parent], {})
  /\ UNCHANGED <<catalogueVars, charge>>

ToggleCategory(r, c) ==
  /\ Starts(r, "cat_toggle") /\ cat[c].state # "unused"
  /\ Reads(r, "save_cat", c, [cat[c] EXCEPT !.active = ~@], {})
  /\ UNCHANGED <<catalogueVars, charge>>

RemoveCategory(r, c) ==
  /\ Starts(r, "cat_remove") /\ cat[c].state # "unused"
  /\ Children(c) = {} /\ Filed(c) = {}
  /\ Reads(r, "save_cat", c, [cat[c] EXCEPT !.state = "deleted"], {})
  /\ UNCHANGED <<catalogueVars, charge>>

(* deletedAt and parentId are keys a document read before may lack          *)
SaveCategory(r) ==
  LET c == seen[r].ref
      doc == seen[r].doc IN
  /\ pc[r] = "save_cat"
  /\ cat' = [cat EXCEPT ![c] = [state |-> IF @.state = "deleted" THEN "deleted" ELSE doc.state,
                                active |-> doc.active,
                                parent |-> IF doc.parent = 0 THEN @.parent ELSE doc.parent]]
  /\ IF does[r] = "cat_remove" THEN Goto(r, "strip") /\ UNCHANGED seen ELSE Done(r)
  /\ UNCHANGED <<prod, market, sub, media, vendor, charge>>

StripManagers(r) ==
  /\ pc[r] = "strip"
  /\ charge' = [charge EXCEPT ![seen[r].ref] = {}]
  /\ Done(r) /\ UNCHANGED catalogueVars

(* setManagers: all others lose the category, then those named get it; the  *)
(* requests of the model name one person                                    *)
SetManagers(r, c, named) ==
  /\ Starts(r, "managers") /\ InUse(c)
  /\ charge' = [charge EXCEPT ![c] = @ \cap named]
  /\ Reads(r, "name", c, Unseen.doc, named) /\ UNCHANGED catalogueVars
NameManagers(r) ==
  /\ pc[r] = "name"
  /\ charge' = [charge EXCEPT ![seen[r].ref] = @ \cup seen[r].args]
  /\ Done(r) /\ UNCHANGED catalogueVars

CategoryStep(r) ==
  \/ \E c \in Cats, parent \in Cats \cup {0} : CreateCategory(r, c, parent)
  \/ \E c, parent \in Cats : MoveCategory(r, c, parent)
  \/ \E c \in Cats : ToggleCategory(r, c) \/ RemoveCategory(r, c)
  \/ SaveCategory(r) \/ StripManagers(r) \/ NameManagers(r)
  \/ \E c \in Cats, m \in Managers : SetManagers(r, c, {m})

-----------------------------------------------------------------------------
(* Two levels (category.service.ts:27-31): a category that is kept lies at  *)
(* the top or under one that lies at the top and is kept too.  The checks   *)
(* of create, move and remove are about other records than the one they     *)
(* save, and no line keeps two editors apart: one files a category under a  *)
(* parent that the other moves or removes (README, divergences).            *)
Stands(p) == InUse(p) /\ cat[p].parent = 0
TwoLevels == \A c \in Cats : InUse(c) /\ cat[c].parent # 0 => Stands(cat[c].parent)

(* The categories one editor is about to save under a parent that another   *)
(* is about to save as a child or as deleted.                               *)
Files(q, c, p) == Saves(q, c) /\ seen[q].doc.parent = p /\ seen[q].doc.state = "kept"
Spoils(r, p) == Saves(r, p) /\ (seen[r].doc.parent # 0 \/ seen[r].doc.state = "deleted")
AtOdds == {e \in Cats \X Cats : \E q, r \in Requests : Files(q, e[1], e[2]) /\ Spoils(r, e[2])}

(* That is the only way: however many editors there are and however stale   *)
(* what they save is, two levels hold between a category and its parent     *)
(* unless the two were once being edited against each other.                *)
TwoLevelsUnlessRaced ==
  \A c \in Cats : InUse(c) /\ cat[c].parent # 0 => <<c, cat[c].parent>> \in raced \/ Stands(cat[c].parent)

(* "Products may only be filed under an active leaf": a category under      *)
(* which products are listed has no category under it.                      *)
LeafHolds == \A c \in Cats : Listed(c) # {} => Children(c) = {}

(* "Only the people named here keep it" (categories.controller.ts:131):     *)
(* where each request names one person, no two are in charge.               *)
OnlyTheNamed == \A c \in Cats : Cardinality(charge[c]) <= 1
=============================================================================
