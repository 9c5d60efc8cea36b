---------------------------- MODULE SupplyProofs ----------------------------
(***************************************************************************)
(* Proofs about SupplySystem, for any requests, categories, submissions and *)
(* images: what is on sale was confirmed, the tree has two levels unless    *)
(* two editors worked against each other, a write under a version is        *)
(* decided on what it is made on, what was handed in stays, and is decided  *)
(* once.                                                                    *)
(***************************************************************************)
EXTENDS SupplySystem, SequenceTheorems, TLAPS

RequestsDomain == DOMAIN pc = Requests /\ DOMAIN seen = Requests

\* The request r goes to one of these steps, and the others stay where they are.
Moves(r, steps) ==
  /\ pc'[r] \in steps /\ DOMAIN pc' = Requests /\ DOMAIN seen' = Requests
  /\ \A q \in Requests \ {r} : pc'[q] = pc[q] /\ seen'[q] = seen[q]
  /\ UNCHANGED does


\* It starts what is no editing of the tree, or goes on at one of these steps.
WorksOn(r, steps) == (pc[r] = "ready" /\ does[r] \notin EditsTree) \/ pc[r] \in steps

TreeSteps == {"save_cat", "strip"}
ProductSteps == {"write", "save", "set", "insert"}
SubmissionSteps == {"sub_insert", "sub_write", "claim", "own", "submitting", "starting", "deciding", "release",
                    "approving"}
OtherSteps == {"name", "onboarding", "inviting", "accepting", "accepted", "collecting"}

-----------------------------------------------------------------------------
(* Where a step of each part takes a request, and what it leaves alone.     *)

LEMMA CategoryMoves ==
  ASSUME RequestsDomain, NEW r \in Requests, CategoryStep(r), UNCHANGED does
  PROVE  /\ Moves(r, TreeSteps \cup {"name", "done"}) /\ UNCHANGED <<prod, sub>>
         /\ pc[r] \in TreeSteps \cup {"ready", "name"}
<1> USE DEF RequestsDomain, Moves, TreeSteps, ProductSteps, catalogueVars, Goto, Done, Reads, Starts
<1>1. ASSUME NEW c \in Cats, NEW parent \in Cats \cup {0}, CreateCategory(r, c, parent) \/ MoveCategory(r, c, parent)
      PROVE  Moves(r, TreeSteps) /\ UNCHANGED <<prod, sub>> /\ pc[r] = "ready"
  BY <1>1 DEF CreateCategory, MoveCategory
<1>2. ASSUME NEW c \in Cats, ToggleCategory(r, c) \/ RemoveCategory(r, c)
      PROVE  Moves(r, TreeSteps) /\ UNCHANGED <<prod, sub>> /\ pc[r] = "ready"
  BY <1>2 DEF ToggleCategory, RemoveCategory
<1>3. CASE SaveCategory(r) \/ StripManagers(r) \/ NameManagers(r)
  BY <1>3 DEF SaveCategory, StripManagers, NameManagers
<1>4. ASSUME NEW c \in Cats, NEW m \in Managers, SetManagers(r, c, {m})
      PROVE  Moves(r, {"name"}) /\ UNCHANGED <<prod, sub>> /\ pc[r] = "ready"
  BY <1>4 DEF SetManagers
<1> QED BY <1>1, <1>2, <1>3, <1>4 DEF CategoryStep

LEMMA VendorMoves ==
  ASSUME RequestsDomain, NEW r \in Requests, VendorStep(r), UNCHANGED does
  PROVE  Moves(r, OtherSteps \cup {"done"}) /\ UNCHANGED <<cat, prod, sub>> /\ WorksOn(r, OtherSteps)
<1> USE DEF RequestsDomain, Moves, WorksOn, OtherSteps, EditsTree, catalogueVars, recordsBut, Goto, Done, Reads,
            Starts
<1>1. CASE Onboard(r) \/ OnboardWrite(r) \/ Invite(r) \/ InviteCreate(r)
  BY <1>1 DEF Onboard, OnboardWrite, Invite, InviteCreate
<1>2. CASE AcceptVendor(r) \/ AcceptInvitation(r) \/ CollectWrite(r)
  BY <1>2 DEF AcceptVendor, AcceptInvitation, CollectWrite
<1>3. CASE \E status \in {"active", "inactive", "blocked"} : UpdateVendor(r, status)
  BY <1>3 DEF UpdateVendor
<1>4. CASE \E k \in DOMAIN vinv : AcceptLink(r, k)
  BY <1>4 DEF AcceptLink
<1>5. CASE \E s \in Subs, paid \in BOOLEAN : Collect(r, s, paid)
  BY <1>5 DEF Collect
<1>6. CASE \E k \in DOMAIN colls, status \in {"reconciled", "disputed"} : Reconcile(r, k, status)
  BY <1>6 DEF Reconcile
<1> QED BY <1>1, <1>2, <1>3, <1>4, <1>5, <1>6 DEF VendorStep

LEMMA SubmissionMoves ==
  ASSUME RequestsDomain, NEW r \in Requests, SubmissionStep(r), UNCHANGED does
  PROVE  Moves(r, SubmissionSteps \cup {"done"}) /\ UNCHANGED cat /\ WorksOn(r, SubmissionSteps)
<1> USE DEF RequestsDomain, Moves, WorksOn, SubmissionSteps, EditsTree, catalogueVars, Goto, Done, Reads, Starts
<1>1. CASE \E images \in (SUBSET Images) \ {{}} :
             CreateSubmission(r, images) \/ \E s \in Subs : UpdateSubmission(r, s, images)
  BY <1>1 DEF CreateSubmission, UpdateSubmission
<1>2. CASE WriteSubmission(r) \/ ClaimRead(r) \/ Own(r)
  BY <1>2 DEF WriteSubmission, ClaimRead, Own
<1>3. CASE \E s \in Subs : InsertSubmission(r, s) \/ Submit(r, s) \/ StartReview(r, s)
  BY <1>3 DEF InsertSubmission, Submit, StartReview
<1>4. CASE \E s \in Subs : Decide(r, s)
  BY <1>4 DEF Decide, Decisions
<1>5. CASE SubmitWrite(r) \/ StartWrite(r) \/ DecideWrite(r) \/ Release(r)
  BY <1>5 DEF SubmitWrite, StartWrite, DecideWrite, Release
<1>6. CASE \E s \in Subs, c \in Cats, onSale \in BOOLEAN : Approve(r, s, c, onSale)
  BY <1>6 DEF Approve
<1>7. CASE \E kept \in SUBSET Images : ApproveWrite(r, kept)
  BY <1>7 DEF ApproveWrite
<1> QED BY <1>1, <1>2, <1>3, <1>4, <1>5, <1>6, <1>7 DEF SubmissionStep

LEMMA ProductMoves ==
  ASSUME RequestsDomain, NEW r \in Requests, ProductStep(r), UNCHANGED does
  PROVE  Moves(r, ProductSteps \cup {"done"}) /\ UNCHANGED <<cat, sub>> /\ WorksOn(r, ProductSteps)
<1> USE DEF RequestsDomain, Moves, WorksOn, ProductSteps, EditsTree, catalogueVars, Goto, Done, Reads, Starts, Plans
<1>1. CASE Write(r) \/ SaveProduct(r) \/ SetField(r) \/ Insert(r) \/ SetPolicy(r)
  BY <1>1 DEF Write, SaveProduct, SetField, Insert, SetPolicy
<1>2. CASE \E p \in DOMAIN prod :
             \/ Publish(r, p) \/ Pause(r, p) \/ Unpublish(r, p) \/ Ask(r, p) \/ Confirm(r, p) \/ Report(r, p)
             \/ Disable(r, p) \/ Remove(r, p)
  BY <1>2 DEF Publish, Pause, Unpublish, Ask, Confirm, Report, Disable, Remove
<1>3. CASE \E p \in DOMAIN prod : \E floor \in Prices \cup {0} : SetRules(r, p, floor)
  BY <1>3 DEF SetRules
<1>4. CASE \E p \in DOMAIN prod : \E c \in Cats : Recategorise(r, p, c)
  BY <1>4 DEF Recategorise
<1>5. ASSUME NEW p \in DOMAIN prod, NEW c \in Cats, NEW price \in Prices, NEW status, Edit(r, p, c, status, price)
      PROVE  Moves(r, {"save"}) /\ UNCHANGED <<cat, sub>> /\ WorksOn(r, {})
  BY <1>5 DEF Edit
<1>6. ASSUME NEW p \in DOMAIN prod, NEW price \in Prices, NEW status, Review(r, p, status, price)
      PROVE  Moves(r, {"save"}) /\ UNCHANGED <<cat, sub>> /\ WorksOn(r, {})
  BY <1>6 DEF Review
<1>7. CASE \E c \in Cats, price \in Prices : Create(r, c, price)
  BY <1>7 DEF Create
<1> QED BY <1>1, <1>2, <1>3, <1>4, <1>5, <1>6, <1>7 DEF ProductStep

LEMMA MarketMoves ==
  ASSUME RequestsDomain, NEW r \in Requests, ToggleMarket(r), UNCHANGED does
  PROVE  Moves(r, {"done"}) /\ UNCHANGED <<cat, prod, sub>> /\ WorksOn(r, {})
BY DEF RequestsDomain, Moves, WorksOn, EditsTree, ToggleMarket, Starts, Done, Goto

\* The job and the time leave the requests where they are.
LEMMA JobMoves ==
  ASSUME RequestsDomain, Job \/ \E p \in DOMAIN prod : TimePasses(p)
  PROVE  UNCHANGED <<does, cat, sub, pc, seen>>
BY DEF Job, TimePasses, ListExpired, ListOverdue, Sleep, Expire, Escalate, jobOnly

LEMMA NextParts ==
  ASSUME Next
  PROVE  /\ UNCHANGED does /\ raced \subseteq raced'
         /\ \/ Job \/ \E p \in DOMAIN prod : TimePasses(p)
            \/ \E r \in Requests : \/ ToggleMarket(r) \/ SubmissionStep(r) \/ VendorStep(r) \/ ProductStep(r)
                                    \/ (CategoryStep(r) /\ raced' = raced \cup AtOdds')
BY DEF Next, ProductNext

-----------------------------------------------------------------------------
(* The tree.                                                               *)

CategoryRecords == [state : {"unused", "kept", "deleted"}, active : BOOLEAN, parent : Cats \cup {0}]

TreeType ==
  /\ cat \in [Cats -> CategoryRecords]
  /\ \A c \in Cats : cat[c].state = "unused" => cat[c].parent = 0

EditorInv(r) ==
  /\ does[r] \in EditsTree => pc[r] \in TreeSteps \cup {"ready", "done"}
  /\ pc[r] \in TreeSteps => does[r] \in EditsTree /\ seen[r].ref \in Cats
  /\ pc[r] = "save_cat" => seen[r].doc \in CategoryRecords /\ seen[r].doc.state # "unused"

\* A parent that nobody is at work on to spoil it, or the race is on record.
Sound(c, p) == <<c, p>> \in raced \/ (Stands(p) /\ \A q \in Requests : ~Spoils(q, p))
FilesSound == \A r \in Requests : \A c \in Cats, p \in Cats : Files(r, c, p) => Sound(c, p)

TreeInv ==
  /\ RequestsDomain /\ TreeType /\ \A r \in Requests : EditorInv(r)
  /\ \A c \in Cats : InUse(c) /\ cat[c].parent # 0 => Sound(c, cat[c].parent)
  /\ FilesSound

LEMMA InitTree == Init => TreeInv
<1> SUFFICES ASSUME Init PROVE TreeInv
  OBVIOUS
<1>1. RequestsDomain BY DEF Init, RequestsDomain
<1>2. TreeType BY DEF Init, TreeType, CategoryRecords, Top, Unused
<1>3. \A c \in Cats : cat[c].parent = 0 BY DEF Init, Top, Unused
<1>4. \A r \in Requests : EditorInv(r) BY DEF Init, EditorInv, TreeSteps
<1>5. FilesSound BY DEF Init, FilesSound, Files, Saves
<1> QED BY <1>1, <1>2, <1>3, <1>4, <1>5 DEF TreeInv

\* What the requests do that save no category keeps what is known of the tree.
LEMMA TreeKept ==
  ASSUME TreeInv, UNCHANGED <<cat>>, raced \subseteq raced', RequestsDomain',
         \A r \in Requests : /\ does'[r] = does[r]
                             /\ \/ pc'[r] = pc[r] /\ seen'[r] = seen[r]
                                \/ does[r] \notin EditsTree /\ pc'[r] \notin TreeSteps
                                \/ pc'[r] = "done"
  PROVE  TreeInv'
<1>1. TreeType' BY DEF TreeInv, TreeType
<1>2. ASSUME NEW r \in Requests PROVE EditorInv(r)'
  BY DEF TreeInv, EditorInv, TreeSteps
<1>3. ASSUME NEW r \in Requests, NEW c \in Cats, Saves(r, c)' PROVE Saves(r, c) /\ seen'[r] = seen[r]
  BY <1>3 DEF Saves, TreeSteps
<1>4. ASSUME NEW c \in Cats, NEW p \in Cats, Sound(c, p) PROVE Sound(c, p)'
  <2>1. \A q \in Requests : ~Spoils(q, p) => ~Spoils(q, p)' BY <1>3 DEF Spoils
  <2>2. Stands(p) => Stands(p)' BY DEF Stands, InUse
  <2> QED BY <1>4, <2>1, <2>2 DEF Sound
<1>5. FilesSound'
  <2> SUFFICES ASSUME NEW r \in Requests, NEW c \in Cats, NEW p \in Cats, Files(r, c, p)'
               PROVE  Sound(c, p)'
    BY DEF FilesSound
  <2>1. Files(r, c, p) BY <1>3 DEF Files
  <2> QED BY <1>4, <2>1 DEF TreeInv, FilesSound
<1>6. ASSUME NEW c \in Cats, InUse(c)', cat'[c].parent # 0 PROVE Sound(c, cat[c].parent)'
  <2>1. PICK p : p = cat[c].parent OBVIOUS
  <2>2. InUse(c) /\ p # 0 /\ p = cat'[c].parent BY <1>6, <2>1 DEF InUse
  <2>3. p \in Cats BY <2>1, <2>2 DEF TreeInv, TreeType, CategoryRecords
  <2>4. Sound(c, p) BY <2>1, <2>2 DEF TreeInv
  <2>5. Sound(c, p)' BY <1>4, <2>3, <2>4
  <2> QED BY <2>2, <2>5 DEF Sound
<1>7. \A c \in Cats : InUse(c)' /\ cat'[c].parent # 0 => Sound(c, cat[c].parent)' BY <1>6
<1> QED BY <1>1, <1>2, <1>5, <1>7 DEF TreeInv

LEMMA OthersTree ==
  ASSUME TreeInv, NEW r \in Requests, NEW steps, Moves(r, steps), WorksOn(r, steps \ {"done"}),
         steps \cap (TreeSteps \cup {"ready"}) = {}, UNCHANGED cat, raced \subseteq raced'
  PROVE  TreeInv'
<1>1. does[r] \notin EditsTree
  <2>1. pc[r] \notin TreeSteps \cup {"ready", "done"} \/ does[r] \notin EditsTree BY DEF WorksOn
  <2> QED BY <2>1 DEF TreeInv, EditorInv
<1>2. pc'[r] \notin TreeSteps BY DEF Moves
<1> QED BY <1>1, <1>2, TreeKept DEF Moves, RequestsDomain, TreeInv

\* An editor sets to work: on a category that was kept or is new, and with a parent that stands.  What
\* spoils a parent begins where nothing is kept under it.
LEMMA StartsEdit ==
  ASSUME TreeInv, NEW r \in Requests, UNCHANGED <<does, cat>>, raced' = raced \cup AtOdds',
         pc[r] = "ready", does[r] \in EditsTree,
         NEW c \in Cats, NEW doc \in CategoryRecords, Reads(r, "save_cat", c, doc, {}),
         doc.state # "unused",
         doc.parent # 0 /\ doc.state = "kept" => Stands(doc.parent) \/ (InUse(c) /\ doc.parent = cat[c].parent),
         doc.parent # 0 \/ doc.state = "deleted" =>
           \/ ~Stands(c) \/ Children(c) = {}
  PROVE  TreeInv'
<1>1. /\ RequestsDomain' /\ pc'[r] = "save_cat" /\ seen'[r].ref = c /\ seen'[r].doc = doc
      /\ \A q \in Requests \ {r} : pc'[q] = pc[q] /\ seen'[q] = seen[q]
  BY DEF TreeInv, RequestsDomain, Reads, Goto
<1>2. TreeType' BY DEF TreeInv, TreeType
<1>3. ASSUME NEW q \in Requests PROVE EditorInv(q)'
  BY <1>1 DEF TreeInv, EditorInv, TreeSteps
<1>4. ASSUME NEW k \in Cats, NEW p \in Cats, NEW q \in Requests, Files(q, k, p)', NEW s \in Requests, Spoils(s, p)'
      PROVE  <<k, p>> \in raced'
  <2>1. <<k, p>> \in AtOdds' BY <1>4 DEF AtOdds
  <2> QED BY <2>1
<1>5. ASSUME NEW k \in Cats, NEW p \in Cats, Sound(k, p), p # c PROVE Sound(k, p)'
  <2>1. Stands(p) => Stands(p)' BY DEF Stands, InUse
  <2>2. \A q \in Requests : Spoils(q, p)' => Spoils(q, p)
    BY <1>1, <1>5 DEF Spoils, Saves
  <2> QED BY <1>5, <2>1, <2>2 DEF Sound
<1>6. ASSUME NEW k \in Cats, NEW p \in Cats, NEW q \in Requests, Files(q, k, p)' PROVE Sound(k, p)'
  <2>1. CASE \E s \in Requests : Spoils(s, p)' BY <1>4, <1>6, <2>1 DEF Sound
  <2>2. CASE ~\E s \in Requests : Spoils(s, p)'
    <3>1. Stands(p) \/ <<k, p>> \in raced
      <4>1. CASE q # r
        <5>1. Files(q, k, p) BY <1>1, <1>6, <4>1 DEF Files, Saves
        <5> QED BY <5>1 DEF TreeInv, FilesSound, Sound
      <4>2. CASE q = r
        <5>1. k = c /\ p = doc.parent /\ doc.state = "kept" BY <1>1, <1>6, <4>2 DEF Files, Saves
        <5>2. p # 0 BY CatsAssumption
        <5> QED BY <5>1, <5>2 DEF TreeInv, Sound
      <4> QED BY <4>1, <4>2
    <3>2. Stands(p) => Stands(p)' BY DEF Stands, InUse
    <3> QED BY <2>2, <3>1, <3>2 DEF Sound
  <2> QED BY <2>1, <2>2
<1>7. FilesSound' BY <1>6 DEF FilesSound
<1>8. ASSUME NEW k \in Cats, NEW p \in Cats, InUse(k), cat[k].parent = p, Sound(k, p) PROVE Sound(k, p)'
  <2>1. CASE p # c BY <1>5, <1>8, <2>1
  <2>2. CASE p = c
    <3>1. CASE <<k, p>> \in raced BY <3>1 DEF Sound
    <3>2. CASE Stands(p) /\ \A q \in Requests : ~Spoils(q, p)
      <4>1. k \in Children(c) BY <1>8, <2>2 DEF Children
      <4>2. doc.parent = 0 /\ doc.state # "deleted" BY <2>2, <3>2, <4>1
      <4>3. \A q \in Requests : ~Spoils(q, p)' BY <1>1, <3>2, <4>2 DEF Spoils, Saves
      <4> QED BY <3>2, <4>3 DEF Sound, Stands, InUse
    <3> QED BY <1>8, <3>1, <3>2 DEF Sound
  <2> QED BY <2>1, <2>2
<1>9. ASSUME NEW k \in Cats, InUse(k)', cat'[k].parent # 0 PROVE Sound(k, cat[k].parent)'
  <2>1. PICK p : p = cat[k].parent OBVIOUS
  <2>2. InUse(k) /\ p # 0 /\ p = cat'[k].parent BY <1>9, <2>1 DEF InUse
  <2>3. p \in Cats BY <2>1, <2>2 DEF TreeInv, TreeType, CategoryRecords
  <2>4. Sound(k, p) BY <2>1, <2>2 DEF TreeInv
  <2>5. Sound(k, p)' BY <1>8, <2>1, <2>2, <2>3, <2>4
  <2> QED BY <2>2, <2>5 DEF Sound
<1>10. \A k \in Cats : InUse(k)' /\ cat'[k].parent # 0 => Sound(k, cat[k].parent)' BY <1>9
<1> QED BY <1>1, <1>2, <1>3, <1>7, <1>10 DEF TreeInv

LEMMA EditsKeepTree ==
  ASSUME TreeInv, NEW r \in Requests, UNCHANGED does, raced' = raced \cup AtOdds', NEW c \in Cats,
         \/ \E parent \in Cats \cup {0} : CreateCategory(r, c, parent)
         \/ \E parent \in Cats : MoveCategory(r, c, parent)
         \/ ToggleCategory(r, c) \/ RemoveCategory(r, c)
  PROVE  TreeInv'
<1> USE DEF Starts, EditsTree, catalogueVars
<1>1. cat[c] \in CategoryRecords BY DEF TreeInv, TreeType
<1>2. ASSUME NEW parent \in Cats \cup {0}, CreateCategory(r, c, parent) PROVE TreeInv'
  <2> DEFINE doc == [state |-> "kept", active |-> TRUE, parent |-> parent]
  <2>1. doc \in CategoryRecords /\ doc.parent = parent /\ doc.state = "kept" BY DEF CategoryRecords
  <2> HIDE DEF doc
  <2>2. /\ Reads(r, "save_cat", c, doc, {}) /\ UNCHANGED cat /\ pc[r] = "ready" /\ does[r] = "cat_create"
        /\ cat[c].state = "unused" /\ (parent # 0 => MayHold(parent))
    BY <1>2 DEF CreateCategory, doc
  <2>3. ~Stands(c) BY <2>2 DEF Stands, InUse
  <2>4. doc.parent # 0 => Stands(doc.parent) BY <2>1, <2>2 DEF MayHold, Stands
  <2> QED BY <2>1, <2>2, <2>3, <2>4, StartsEdit
<1>3. ASSUME NEW parent \in Cats, MoveCategory(r, c, parent) PROVE TreeInv'
  <2> DEFINE doc == [cat[c] EXCEPT !.parent = parent]
  <2>1. doc \in CategoryRecords /\ doc.parent = parent /\ doc.state = cat[c].state
    BY <1>1 DEF CategoryRecords
  <2> HIDE DEF doc
  <2>2. /\ Reads(r, "save_cat", c, doc, {}) /\ UNCHANGED cat /\ pc[r] = "ready" /\ does[r] = "cat_move"
        /\ cat[c].state # "unused" /\ MayHold(parent) /\ Children(c) = {}
    BY <1>3 DEF MoveCategory, doc
  <2>3. Stands(doc.parent) BY <2>1, <2>2 DEF MayHold, Stands
  <2> QED BY <2>1, <2>2, <2>3, StartsEdit
<1>4. CASE ToggleCategory(r, c)
  <2> DEFINE doc == [cat[c] EXCEPT !.active = ~@]
  <2>1. doc \in CategoryRecords /\ doc.parent = cat[c].parent /\ doc.state = cat[c].state
    BY <1>1 DEF CategoryRecords
  <2> HIDE DEF doc
  <2>2. /\ Reads(r, "save_cat", c, doc, {}) /\ UNCHANGED cat /\ pc[r] = "ready" /\ does[r] = "cat_toggle"
        /\ cat[c].state # "unused"
    BY <1>4 DEF ToggleCategory, doc
  <2>3. doc.state = "kept" => InUse(c) BY <2>1 DEF InUse
  <2>4. doc.parent # 0 \/ doc.state = "deleted" => ~Stands(c) BY <2>1 DEF Stands, InUse
  <2> QED BY <2>1, <2>2, <2>3, <2>4, StartsEdit
<1>5. CASE RemoveCategory(r, c)
  <2> DEFINE doc == [cat[c] EXCEPT !.state = "deleted"]
  <2>1. doc \in CategoryRecords /\ doc.parent = cat[c].parent /\ doc.state = "deleted"
    BY <1>1 DEF CategoryRecords
  <2> HIDE DEF doc
  <2>2. /\ Reads(r, "save_cat", c, doc, {}) /\ UNCHANGED cat /\ pc[r] = "ready" /\ does[r] = "cat_remove"
        /\ cat[c].state # "unused" /\ Children(c) = {}
    BY <1>5 DEF RemoveCategory, doc
  <2> QED BY <2>1, <2>2, StartsEdit
<1> QED BY <1>2, <1>3, <1>4, <1>5

\* What is saved of a parent that stands, by those who do not spoil it, leaves it standing; and what is
\* filed under a parent was sound before it was saved.
LEMMA SaveKeepsTree ==
  ASSUME TreeInv, NEW r \in Requests, UNCHANGED does, raced \subseteq raced', SaveCategory(r)
  PROVE  TreeInv'
<1> DEFINE c == seen[r].ref
           doc == seen[r].doc
           new == [state |-> IF cat[c].state = "deleted" THEN "deleted" ELSE doc.state,
                   active |-> doc.active,
                   parent |-> IF doc.parent = 0 THEN cat[c].parent ELSE doc.parent]
<1>1. pc[r] = "save_cat" /\ cat' = [cat EXCEPT ![c] = new] BY DEF SaveCategory
<1>2. /\ does[r] \in EditsTree /\ c \in Cats /\ doc \in CategoryRecords /\ doc.state # "unused"
  BY <1>1 DEF TreeInv, EditorInv, TreeSteps
<1>3. cat \in [Cats -> CategoryRecords] /\ cat[c] \in CategoryRecords BY <1>2 DEF TreeInv, TreeType
<1>4. new \in CategoryRecords /\ new.state # "unused" BY <1>2, <1>3 DEF CategoryRecords
<1>5. \A p \in Cats : /\ Files(r, c, p) <=> doc.parent = p /\ doc.state = "kept"
                      /\ Spoils(r, p) <=> p = c /\ (doc.parent # 0 \/ doc.state = "deleted")
  BY <1>1 DEF Files, Spoils, Saves
<1>6. cat'[c] = new /\ \A d \in Cats \ {c} : cat'[d] = cat[d]
  BY <1>1, <1>2, <1>3
<1>7. TreeType'
  <2>1. cat' \in [Cats -> CategoryRecords] BY <1>1, <1>3, <1>4
  <2> QED BY <1>4, <1>6, <2>1 DEF TreeInv, TreeType
<1>8. /\ RequestsDomain' /\ pc'[r] \in {"strip", "done"} /\ (pc'[r] = "strip" => seen'[r] = seen[r])
      /\ \A q \in Requests \ {r} : pc'[q] = pc[q] /\ seen'[q] = seen[q]
  BY DEF TreeInv, RequestsDomain, SaveCategory, Goto, Done
<1>9. ASSUME NEW q \in Requests PROVE EditorInv(q)'
  BY <1>2, <1>8 DEF TreeInv, EditorInv, TreeSteps
<1>10. ASSUME NEW k \in Cats, NEW p \in Cats, Sound(k, p) PROVE Sound(k, p)'
  <2>1. CASE <<k, p>> \in raced BY <2>1 DEF Sound
  <2>2. CASE Stands(p) /\ \A q \in Requests : ~Spoils(q, p)
    <3>1. \A q \in Requests : ~Spoils(q, p)' BY <1>8, <2>2 DEF Spoils, Saves
    <3>2. CASE p # c BY <1>6, <2>2, <3>1, <3>2 DEF Sound, Stands, InUse
    <3>3. CASE p = c
      <4>1. doc.parent = 0 /\ doc.state # "deleted" BY <1>5, <2>2, <3>3
      <4>2. doc.state = "kept" BY <1>2, <4>1 DEF CategoryRecords
      <4>3. cat[c].state = "kept" /\ cat[c].parent = 0 BY <2>2, <3>3 DEF Stands, InUse
      <4>4. new.state = "kept" /\ new.parent = 0 BY <4>1, <4>2, <4>3
      <4>5. Stands(p)' BY <1>6, <3>3, <4>4 DEF Stands, InUse
      <4> QED BY <3>1, <4>5 DEF Sound
    <3> QED BY <3>2, <3>3
  <2> QED BY <1>10, <2>1, <2>2 DEF Sound
<1>11. FilesSound'
  <2> SUFFICES ASSUME NEW q \in Requests, NEW k \in Cats, NEW p \in Cats, Files(q, k, p)'
               PROVE  Sound(k, p)'
    BY DEF FilesSound
  <2>1. Files(q, k, p) BY <1>8 DEF Files, Saves
  <2>2. Sound(k, p) BY <2>1 DEF TreeInv, FilesSound
  <2> QED BY <1>10, <2>2
<1>12. ASSUME NEW k \in Cats, NEW p \in Cats, cat'[k].state = "kept", cat'[k].parent = p PROVE Sound(k, p)'
  <2>1. Sound(k, p)
    <3>1. CASE k # c
      <4>1. InUse(k) /\ cat[k].parent = p BY <1>6, <1>12, <3>1 DEF InUse
      <4>2. p # 0 BY CatsAssumption
      <4> QED BY <4>1, <4>2 DEF TreeInv
    <3>2. CASE k = c
      <4>1. new.state = "kept" /\ new.parent = p BY <1>6, <1>12, <3>2
      <4>2. cat[c].state # "deleted" /\ doc.state = "kept" BY <4>1
      <4>3. CASE doc.parent # 0
        <5>1. Files(r, c, p) BY <1>5, <4>1, <4>2, <4>3
        <5> QED BY <1>2, <3>2, <5>1 DEF TreeInv, FilesSound
      <4>4. CASE doc.parent = 0
        <5>1. cat[c].parent = p /\ p # 0 BY <4>1, <4>4, CatsAssumption
        <5>2. InUse(c)
          <6>1. cat[c].state # "unused" BY <1>2, <5>1 DEF TreeInv, TreeType
          <6> QED BY <1>3, <4>2, <6>1 DEF InUse, CategoryRecords
        <5> QED BY <1>2, <3>2, <5>1, <5>2 DEF TreeInv
      <4> QED BY <4>3, <4>4
    <3> QED BY <3>1, <3>2
  <2> QED BY <1>10, <2>1
<1>13. ASSUME NEW k \in Cats, InUse(k)', cat'[k].parent # 0 PROVE Sound(k, cat[k].parent)'
  <2>1. PICK p : p = cat'[k].parent OBVIOUS
  <2>2. p \in Cats BY <1>7, <1>13, <2>1 DEF TreeType, CategoryRecords
  <2>3. Sound(k, p)' BY <1>12, <1>13, <2>1, <2>2 DEF InUse
  <2> QED BY <2>1, <2>3 DEF Sound
<1>14. \A k \in Cats : InUse(k)' /\ cat'[k].parent # 0 => Sound(k, cat[k].parent)' BY <1>13
<1> QED BY <1>7, <1>8, <1>9, <1>11, <1>14 DEF TreeInv

LEMMA NextTree ==
  ASSUME TreeInv, [Next]_vars
  PROVE  TreeInv'
<1>1. CASE UNCHANGED vars
  <2>1. UNCHANGED <<does, cat, pc, seen, raced>> BY <1>1 DEF vars, catalogueVars
  <2> QED BY <2>1, TreeKept DEF RequestsDomain, TreeInv
<1>2. CASE Next
  <2>1. RequestsDomain /\ UNCHANGED does /\ raced \subseteq raced' BY <1>2, NextParts DEF TreeInv
  <2>2. CASE Job \/ \E p \in DOMAIN prod : TimePasses(p)
    <3>1. UNCHANGED <<does, cat, pc, seen>> BY <2>1, <2>2, JobMoves
    <3> QED BY <2>1, <3>1, TreeKept DEF RequestsDomain, TreeInv
  <2>3. ASSUME NEW r \in Requests,
               ToggleMarket(r) \/ SubmissionStep(r) \/ VendorStep(r) \/ ProductStep(r)
        PROVE  TreeInv'
    <3>1. PICK steps \in {{"done"}, SubmissionSteps \cup {"done"}, OtherSteps \cup {"done"},
                          ProductSteps \cup {"done"}} :
            Moves(r, steps) /\ WorksOn(r, steps \ {"done"}) /\ UNCHANGED cat
      <4>1. /\ ({"done"}) \ {"done"} = {} /\ (SubmissionSteps \cup {"done"}) \ {"done"} = SubmissionSteps
            /\ (OtherSteps \cup {"done"}) \ {"done"} = OtherSteps
            /\ (ProductSteps \cup {"done"}) \ {"done"} = ProductSteps
        BY DEF SubmissionSteps, OtherSteps, ProductSteps
      <4> QED BY <2>1, <2>3, <4>1, MarketMoves, SubmissionMoves, VendorMoves, ProductMoves
    <3>2. steps \cap (TreeSteps \cup {"ready"}) = {}
      BY <3>1 DEF SubmissionSteps, OtherSteps, ProductSteps, TreeSteps
    <3> QED BY <2>1, <3>1, <3>2, OthersTree
  <2>4. ASSUME NEW r \in Requests, CategoryStep(r), raced' = raced \cup AtOdds' PROVE TreeInv'
    <3>1. CASE SaveCategory(r) BY <2>1, <3>1, SaveKeepsTree
    <3>2. CASE \E c \in Cats : \/ \E parent \in Cats \cup {0} : CreateCategory(r, c, parent)
                              \/ \E parent \in Cats : MoveCategory(r, c, parent)
                              \/ ToggleCategory(r, c) \/ RemoveCategory(r, c)
      BY <2>1, <2>4, <3>2, EditsKeepTree
    <3>3. CASE StripManagers(r)
      <4>1. Moves(r, {"done"}) /\ UNCHANGED cat
        BY <2>1, <3>3 DEF StripManagers, Done, Goto, Moves, RequestsDomain, catalogueVars
      <4> QED BY <2>1, <4>1, TreeKept DEF Moves, RequestsDomain
    <3>4. ASSUME NameManagers(r) \/ \E c \in Cats, m \in Managers : SetManagers(r, c, {m})
          PROVE  TreeInv'
      <4>1. Moves(r, {"name", "done"}) /\ UNCHANGED cat /\ WorksOn(r, {"name"})
        BY <2>1, <3>4
        DEF NameManagers, SetManagers, Done, Goto, Reads, Starts, Moves, WorksOn, RequestsDomain, catalogueVars,
            EditsTree
      <4>2. {"name", "done"} \ {"done"} = {"name"} OBVIOUS
      <4>3. {"name", "done"} \cap (TreeSteps \cup {"ready"}) = {} BY DEF TreeSteps
      <4> QED BY <2>1, <4>1, <4>2, <4>3, OthersTree
    <3> QED BY <2>4, <3>1, <3>2, <3>3, <3>4 DEF CategoryStep
  <2> QED BY <1>2, <2>2, <2>3, <2>4, NextParts
<1> QED BY <1>1, <1>2

\* Two levels (category.service.ts), however many editors are at work at once and however stale what
\* they save: a category lies under a parent at the top, but where one editor was to file it there
\* while another was to move that parent down or delete it.
THEOREM SupplyTwoLevelsUnlessRaced == Spec => []TwoLevelsUnlessRaced
<1>1. Init => TreeInv BY InitTree
<1>2. TreeInv /\ [Next]_vars => TreeInv' BY NextTree
<1>3. TreeInv => TwoLevelsUnlessRaced BY DEF TreeInv, TwoLevelsUnlessRaced, Sound
<1> QED BY <1>1, <1>2, <1>3, PTL DEF Spec

-----------------------------------------------------------------------------
(* The products.                                                           *)

Keys == {"cat", "status", "avail", "valid", "prev", "due", "told", "approved", "version", "price", "floor", "gone",
         "from", "images"}

\* A product as it is stored: if it is on sale, that was confirmed.
Sellable(d) ==
  /\ DOMAIN d = Keys /\ d.version \in Nat
  /\ d.status = "published" => d.avail = "yes" /\ d.valid # "none"

\* What an update may set: what puts a product on sale confirms it, and what sets no status does not
\* take the confirmation away.
Changes(a) ==
  /\ "version" \notin DOMAIN a /\ "from" \notin DOMAIN a
  /\ "status" \notin DOMAIN a => "avail" \notin DOMAIN a /\ "valid" \notin DOMAIN a
  /\ "status" \in DOMAIN a /\ a["status"] = "published" =>
       /\ "avail" \in DOMAIN a /\ "valid" \in DOMAIN a
       /\ a["avail"] = "yes" /\ a["valid"] # "none"

NoSaves == \A q \in Requests : does[q] \notin SavesWhole

\* A product and what became of it: where nothing is saved whole, what decisions are based on
\* changes with the version only.
Follows(d, e) ==
  /\ e.from = d.from
  /\ NoSaves => \/ e.version > d.version
                \/ e.version = d.version /\ e.status = d.status /\ e.avail = d.avail

\* The products are the ones there were, each followed by what became of it.
SameProducts == DOMAIN prod' = DOMAIN prod /\ \A p \in DOMAIN prod : Follows(prod[p], prod'[p])

ProductsInv ==
  /\ prod = [p \in 1..Len(prod) |-> prod[p]] /\ Len(prod) \in Nat
  /\ \A p \in DOMAIN prod : Sellable(prod[p])

\* What a request is about to write to the products.
WriterInv(r) ==
  /\ pc[r] = "write" =>
       /\ seen[r].ref \in DOMAIN prod /\ Changes(seen[r].args) /\ seen[r].doc.version \in Nat
       /\ NoSaves => /\ seen[r].doc.version <= prod[seen[r].ref].version
                     /\ seen[r].doc.version = prod[seen[r].ref].version => Basis(does[r], prod[seen[r].ref])
  /\ pc[r] = "save" => /\ does[r] \in SavesWhole /\ seen[r].ref \in DOMAIN prod
                       /\ Sellable(seen[r].doc) /\ seen[r].doc.from = prod[seen[r].ref].from
  /\ pc[r] = "set" => /\ seen[r].ref \in DOMAIN prod /\ Changes(seen[r].args)
                      /\ "status" \notin DOMAIN seen[r].args
  /\ pc[r] = "insert" => Sellable(seen[r].doc) /\ seen[r].doc.from = 0

SaleInv == RequestsDomain /\ ProductsInv /\ \A r \in Requests : WriterInv(r)

LEMMA WithSellable ==
  ASSUME NEW d, Sellable(d), NEW a, Changes(a)
  PROVE  /\ Sellable(With(d, a))
         /\ With(d, a).version = d.version /\ With(d, a).from = d.from
         /\ "status" \notin DOMAIN a => With(d, a).status = d.status /\ With(d, a).avail = d.avail
BY DEF Sellable, Changes, With, Keys

\* Another version of a product is the product, but for the version.
LEMMA NextVersion ==
  ASSUME NEW d, Sellable(d)
  PROVE  LET e == [d EXCEPT !.version = @ + 1] IN
         Sellable(e) /\ e.version = d.version + 1 /\ e.from = d.from
BY DEF Sellable, Keys

LEMMA SavedSellable ==
  ASSUME NEW d, Sellable(d), NEW now, Sellable(now)
  PROVE  Sellable(Saved(d, now)) /\ Saved(d, now).from = d.from
BY DEF Sellable, Saved, Lacks, Keys

LEMMA NewSellable ==
  ASSUME NEW c, NEW price
  PROVE  Sellable(New(c, price)) /\ New(c, price).from = 0 /\ Changes(OnSale) /\ Changes(TakenDown)
BY DEF Sellable, New, Keys, Changes, OnSale, TakenDown

LEMMA EditedSellable ==
  ASSUME NEW d, Sellable(d), NEW c, NEW status, NEW price
  PROVE  /\ Sellable(Edited(d, c, status, price)) /\ Edited(d, c, status, price).from = d.from
         /\ Sellable(Reviewed(d, status, price)) /\ Reviewed(d, status, price).from = d.from
<1>1. Sellable(Edited(d, c, status, price)) /\ Edited(d, c, status, price).from = d.from
  <2> DEFINE e == [d EXCEPT !.cat = c, !.status = status, !.price = price, !.version = @ + 1,
                            !.floor = IF @ = 0 THEN Cost ELSE @]
  <2>1. /\ DOMAIN e = Keys /\ e.version \in Nat /\ e.from = d.from /\ e.status = status
        /\ e.avail = d.avail /\ e.valid = d.valid
    BY DEF Sellable, Keys
  <2>2. Edited(d, c, status, price)
          = IF status = "published" /\ d.status # "published" THEN With(e, OnSale) ELSE e
    BY DEF Edited
  <2> HIDE DEF e
  <2>3. Sellable(With(e, OnSale)) /\ With(e, OnSale).from = e.from
    BY <2>1 DEF Sellable, With, OnSale, Keys
  <2> QED BY <2>1, <2>2, <2>3 DEF Sellable
<1>2. Sellable(Reviewed(d, status, price)) /\ Reviewed(d, status, price).from = d.from
  <2> DEFINE e == [d EXCEPT !.status = status, !.price = price, !.version = @ + 1]
  <2>1. DOMAIN e = Keys /\ e.version \in Nat /\ e.from = d.from /\ e.status = status
    BY DEF Sellable, Keys
  <2>2. Reviewed(d, status, price) = IF status = "published" THEN With(e, OnSale) ELSE e
    BY DEF Reviewed
  <2> HIDE DEF e
  <2>3. Sellable(With(e, OnSale)) /\ With(e, OnSale).from = e.from
    BY <2>1 DEF Sellable, With, OnSale, Keys
  <2> QED BY <2>1, <2>2, <2>3 DEF Sellable
<1> QED BY <1>1, <1>2

LEMMA InitSale == Init => SaleInv
<1> SUFFICES ASSUME Init PROVE SaleInv
  OBVIOUS
<1>1. RequestsDomain /\ \A r \in Requests : pc[r] = "ready" BY DEF Init, RequestsDomain
<1>2. ProductsInv
  <2>1. CASE prod = <<>> BY <2>1 DEF ProductsInv
  <2>2. ASSUME NEW s \in Subs, NEW i \in Images, Sold(s, i) PROVE ProductsInv
    <3> DEFINE d == With([New(Leaf, 2) EXCEPT !.from = s, !.images = {i}], OnSale)
    <3>1. Sellable(d) BY DEF Sellable, New, With, OnSale, Keys
    <3> HIDE DEF d
    <3>2. prod = <<d>> BY <2>2 DEF Sold, d
    <3> QED BY <3>1, <3>2 DEF ProductsInv
  <2> QED BY <2>1, <2>2 DEF Init, Empty, Drafted
<1> QED BY <1>1, <1>2 DEF SaleInv, WriterInv

\* The products go on as they may, and no request is about to write what it was not before.
LEMMA ProductsGoOn ==
  ASSUME SaleInv, RequestsDomain', UNCHANGED does,
         NEW n \in Nat, prod' = [p \in 1..n |-> prod'[p]], Len(prod) <= n,
         \A p \in 1..n : Sellable(prod'[p]),
         \A p \in DOMAIN prod : Follows(prod[p], prod'[p]),
         \A r \in Requests : (pc'[r] = pc[r] /\ seen'[r] = seen[r]) \/ pc'[r] \notin ProductSteps
  PROVE  SaleInv'
<1>1. DOMAIN prod = 1..Len(prod) /\ Len(prod) \in Nat BY DEF SaleInv, ProductsInv
<1>2. Len(prod') = n /\ DOMAIN prod' = 1..n
  <2> DEFINE f == [p \in 1..n |-> prod'[p]]
  <2>1. DOMAIN f = 1..n OBVIOUS
  <2>2. Len(f) = n OBVIOUS
  <2> QED BY <2>1, <2>2
<1>3. ProductsInv' BY <1>2 DEF ProductsInv
<1>4. DOMAIN prod \subseteq DOMAIN prod' BY <1>1, <1>2
<1>5. ASSUME NEW r \in Requests PROVE WriterInv(r)'
  <2>1. CASE pc'[r] \notin ProductSteps BY <2>1 DEF WriterInv, ProductSteps
  <2>2. CASE pc'[r] = pc[r] /\ seen'[r] = seen[r]
    <3>1. WriterInv(r) BY DEF SaleInv
    <3>2. NoSaves' = NoSaves BY DEF NoSaves
    <3>3. CASE pc[r] = "write"
      <4> DEFINE p == seen[r].ref
                 v == seen[r].doc.version
      <4>1. /\ p \in DOMAIN prod /\ Changes(seen[r].args) /\ v \in Nat
            /\ NoSaves => v <= prod[p].version /\ (v = prod[p].version => Basis(does[r], prod[p]))
        BY <3>1, <3>3 DEF WriterInv
      <4>2. /\ Follows(prod[p], prod'[p]) /\ prod[p].version \in Nat /\ prod'[p].version \in Nat
        BY <1>1, <1>2, <1>4, <4>1 DEF SaleInv, ProductsInv, Sellable
      <4>3. ASSUME NoSaves
            PROVE  v <= prod'[p].version /\ (v = prod'[p].version => Basis(does[r], prod'[p]))
        BY <4>1, <4>2, <4>3 DEF Follows, Basis
      <4> QED BY <1>4, <2>2, <3>2, <3>3, <4>1, <4>3 DEF WriterInv
    <3>4. CASE pc[r] # "write" BY <1>4, <2>2, <3>1, <3>4 DEF WriterInv, Follows
    <3> QED BY <3>3, <3>4
  <2> QED BY <2>1, <2>2
<1> QED BY <1>3, <1>5 DEF SaleInv

\* What became of a sequence of which one was replaced, or to which one was added.
LEMMA OneReplaced ==
  ASSUME ProductsInv, NEW p \in DOMAIN prod, NEW e, Sellable(e), Follows(prod[p], e), prod' = [prod EXCEPT ![p] = e]
  PROVE  /\ prod' = [q \in 1..Len(prod) |-> prod'[q]] /\ \A q \in 1..Len(prod) : Sellable(prod'[q])
         /\ \A q \in DOMAIN prod : Follows(prod[q], prod'[q])
         /\ DOMAIN prod' = DOMAIN prod
<1>1. DOMAIN prod = 1..Len(prod) BY DEF ProductsInv
<1>2. /\ DOMAIN prod' = 1..Len(prod) /\ prod' = [q \in 1..Len(prod) |-> IF q = p THEN e ELSE prod[q]]
  BY <1>1
<1>3. \A q \in 1..Len(prod) : Sellable(prod'[q]) BY <1>1, <1>2 DEF ProductsInv
<1>4. \A q \in DOMAIN prod : Follows(prod[q], prod'[q])
  BY <1>1, <1>2 DEF Follows
<1> QED BY <1>1, <1>2, <1>3, <1>4

LEMMA OneAdded ==
  ASSUME ProductsInv, NEW e, Sellable(e), prod' = Append(prod, e)
  PROVE  /\ prod' = [q \in 1..(Len(prod) + 1) |-> prod'[q]] /\ Len(prod) + 1 \in Nat
         /\ \A q \in 1..(Len(prod) + 1) : Sellable(prod'[q])
         /\ \A q \in DOMAIN prod : Follows(prod[q], prod'[q])
         /\ DOMAIN prod = 1..Len(prod) /\ DOMAIN prod' = 1..(Len(prod) + 1) /\ Len(prod) \in Nat
         /\ \A q \in DOMAIN prod : prod'[q] = prod[q]
         /\ prod'[Len(prod) + 1] = e
<1> DEFINE S == {prod[q] : q \in DOMAIN prod} \cup {e}
           n == Len(prod)
<1>1. DOMAIN prod = 1..n /\ n \in Nat BY DEF ProductsInv
<1>2. prod \in Seq(S)
  <2>1. prod \in [1..n -> S] BY <1>1 DEF ProductsInv
  <2> QED BY <1>1, <2>1
<1>3. e \in S OBVIOUS
<1> HIDE DEF S
<1>4. /\ prod' \in Seq(S) /\ Len(prod') = n + 1 /\ \A q \in 1..n : prod'[q] = prod[q]
      /\ prod'[n + 1] = e
  BY <1>2, <1>3, AppendProperties
<1>5. DOMAIN prod' = 1..(n + 1) /\ prod' = [q \in 1..(n + 1) |-> prod'[q]] BY <1>4, LenProperties
<1>6. \A q \in 1..(n + 1) : Sellable(prod'[q])
  <2> TAKE q \in 1..(n + 1)
  <2>1. CASE q = n + 1 BY <1>4, <2>1
  <2>2. CASE q \in 1..n BY <1>1, <1>4, <2>2 DEF ProductsInv
  <2> QED BY <1>1, <2>1, <2>2
<1>7. \A q \in DOMAIN prod : Follows(prod[q], prod'[q]) BY <1>1, <1>4 DEF Follows
<1> QED BY <1>1, <1>4, <1>5, <1>6, <1>7

\* A request that read, and is about to write what is in order.
LEMMA ProductRead ==
  ASSUME SaleInv, UNCHANGED prod, NEW r \in Requests, NEW steps, Moves(r, steps),
         WriterInv(r)'
  PROVE  SaleInv'
<1>1. RequestsDomain' /\ ProductsInv' BY DEF SaleInv, Moves, RequestsDomain, ProductsInv
<1>2. ASSUME NEW q \in Requests \ {r} PROVE WriterInv(q)'
  BY DEF SaleInv, Moves, WriterInv, NoSaves, Basis
<1> QED BY <1>1, <1>2 DEF SaleInv

\* A step of a request that writes the products and is done with it.
LEMMA ProductWritten ==
  ASSUME SaleInv, NEW r \in Requests, Moves(r, {"done"}),
         NEW n \in Nat, prod' = [p \in 1..n |-> prod'[p]], Len(prod) <= n,
         \A p \in 1..n : Sellable(prod'[p]),
         \A p \in DOMAIN prod : Follows(prod[p], prod'[p])
  PROVE  SaleInv'
<1>1. \A q \in Requests : (pc'[q] = pc[q] /\ seen'[q] = seen[q]) \/ pc'[q] \notin ProductSteps
  BY DEF Moves, ProductSteps
<1> QED BY <1>1, ProductsGoOn DEF Moves, RequestsDomain

LEMMA PlansSale ==
  ASSUME SaleInv, NEW r \in Requests, Moves(r, ProductSteps \cup {"done"}), UNCHANGED prod,
         NEW p \in DOMAIN prod, NEW a, Changes(a),
         pc'[r] = "write", seen'[r] = [ref |-> p, doc |-> [version |-> prod[p].version], args |-> a],
         Basis(does[r], prod[p])
  PROVE  SaleInv'
<1>1. prod[p].version \in Nat BY DEF SaleInv, ProductsInv, Sellable
<1>2. WriterInv(r)'
  <2>1. /\ seen'[r].ref = p /\ seen'[r].args = a /\ seen'[r].doc.version = prod[p].version
        /\ does'[r] = does[r] /\ prod' = prod
    BY DEF Moves
  <2>2. Changes(seen'[r].args) BY <2>1
  <2>3. Basis(does'[r], prod'[p]) BY <2>1 DEF Basis
  <2> QED BY <1>1, <2>1, <2>2, <2>3 DEF WriterInv
<1> QED BY <1>2, ProductRead

LEMMA VersionedSale ==
  ASSUME SaleInv, NEW r \in Requests, UNCHANGED does, NEW p \in DOMAIN prod,
         \/ Publish(r, p) \/ Pause(r, p) \/ Unpublish(r, p) \/ Ask(r, p) \/ Confirm(r, p) \/ Report(r, p)
         \/ \E floor \in Prices \cup {0} : SetRules(r, p, floor)
  PROVE  SaleInv'
<1>1. PICK a : Changes(a) /\ Plans(r, p, a) /\ Basis(does[r], prod[p])
  <2> USE DEF Starts, Basis, Changes
  <2>1. CASE Publish(r, p) BY <2>1 DEF Publish, OnSale
  <2>2. CASE Pause(r, p) BY <2>2 DEF Pause
  <2>3. CASE Unpublish(r, p) BY <2>3 DEF Unpublish
  <2>4. CASE Ask(r, p) BY <2>4 DEF Ask
  <2>5. CASE Confirm(r, p) BY <2>5 DEF Confirm, Confirmed
  <2>6. CASE Report(r, p) BY <2>6 DEF Report
  <2>7. CASE \E floor \in Prices \cup {0} : SetRules(r, p, floor) BY <2>7 DEF SetRules
  <2> QED BY <2>1, <2>2, <2>3, <2>4, <2>5, <2>6, <2>7
<1>2. /\ pc'[r] = "write" /\ seen'[r] = [ref |-> p, doc |-> [version |-> prod[p].version], args |-> a]
      /\ Moves(r, ProductSteps \cup {"done"}) /\ UNCHANGED prod
  BY <1>1 DEF Plans, Reads, Goto, Moves, ProductSteps, SaleInv, RequestsDomain, catalogueVars
<1> QED BY <1>1, <1>2, PlansSale

LEMMA WholeSale ==
  ASSUME SaleInv, NEW r \in Requests, UNCHANGED does, NEW p \in DOMAIN prod,
         \/ Disable(r, p)
         \/ \E c \in Cats, price \in Prices, status \in EditStatuses \cup {prod[p].status} :
              Edit(r, p, c, status, price)
         \/ \E price \in Prices, status \in {"published", "unconfirmed", "disabled"} : Review(r, p, status, price)
  PROVE  SaleInv'
<1>1. Sellable(prod[p]) BY DEF SaleInv, ProductsInv
<1>2. PICK doc : /\ Sellable(doc) /\ doc.from = prod[p].from /\ Reads(r, "save", p, doc, {})
                 /\ does[r] \in SavesWhole /\ UNCHANGED catalogueVars
  <2> USE DEF Starts, SavesWhole
  <2>1. CASE Disable(r, p)
    <3> DEFINE doc == [prod[p] EXCEPT !.status = "disabled"]
    <3>1. Sellable(doc) /\ doc.from = prod[p].from BY <1>1 DEF Sellable, Keys
    <3> HIDE DEF doc
    <3>2. Reads(r, "save", p, doc, {}) BY <2>1 DEF Disable, doc
    <3> QED BY <2>1, <3>1, <3>2 DEF Disable
  <2>2. ASSUME NEW c, NEW price, NEW status, Edit(r, p, c, status, price)
        PROVE  \E doc : /\ Sellable(doc) /\ doc.from = prod[p].from /\ Reads(r, "save", p, doc, {})
                        /\ does[r] \in SavesWhole /\ UNCHANGED catalogueVars
    BY <1>1, <2>2, EditedSellable DEF Edit
  <2>3. ASSUME NEW price, NEW status, Review(r, p, status, price)
        PROVE  \E doc : /\ Sellable(doc) /\ doc.from = prod[p].from /\ Reads(r, "save", p, doc, {})
                        /\ does[r] \in SavesWhole /\ UNCHANGED catalogueVars
    BY <1>1, <2>3, EditedSellable DEF Review
  <2> QED BY <2>1, <2>2, <2>3
<1>3. /\ pc'[r] = "save" /\ seen'[r] = [ref |-> p, doc |-> doc, args |-> {}]
      /\ Moves(r, ProductSteps) /\ UNCHANGED prod
  BY <1>2 DEF Reads, Goto, Moves, ProductSteps, SaleInv, RequestsDomain, catalogueVars
<1>4. WriterInv(r)'
  <2>1. seen'[r].ref = p /\ seen'[r].doc = doc /\ does'[r] = does[r] BY <1>3 DEF Moves
  <2>2. Sellable(seen'[r].doc) BY <1>2, <2>1
  <2> QED BY <1>2, <1>3, <2>1, <2>2 DEF WriterInv
<1> QED BY <1>3, <1>4, ProductRead

\* A field is to be set, or a product to be inserted.
LEMMA FieldSale ==
  ASSUME SaleInv, NEW r \in Requests, UNCHANGED does,
         \/ \E p \in DOMAIN prod : Remove(r, p) \/ \E c \in Cats : Recategorise(r, p, c)
         \/ \E c \in Cats, price \in Prices : Create(r, c, price)
  PROVE  SaleInv'
<1> USE DEF Reads, Goto, Moves, ProductSteps, SaleInv, RequestsDomain, catalogueVars
<1>1. ASSUME NEW p \in DOMAIN prod, NEW a, Changes(a), "status" \notin DOMAIN a,
             Reads(r, "set", p, Unseen.doc, a), UNCHANGED prod
      PROVE  SaleInv'
  <2>1. pc'[r] = "set" /\ seen'[r].ref = p /\ seen'[r].args = a /\ Moves(r, ProductSteps) BY <1>1
  <2>2. Changes(seen'[r].args) BY <1>1, <2>1
  <2>3. WriterInv(r)' BY <1>1, <2>1, <2>2 DEF WriterInv
  <2> QED BY <1>1, <2>1, <2>3, ProductRead
<1>2. ASSUME NEW p \in DOMAIN prod, Remove(r, p) PROVE SaleInv'
  <2> DEFINE a == [gone |-> "set"]
  <2>1. Changes(a) /\ "status" \notin DOMAIN a BY DEF Changes
  <2> HIDE DEF a
  <2>2. Reads(r, "set", p, Unseen.doc, a) /\ UNCHANGED prod BY <1>2 DEF Remove, a
  <2> QED BY <1>1, <2>1, <2>2
<1>3. ASSUME NEW p \in DOMAIN prod, NEW c, Recategorise(r, p, c) PROVE SaleInv'
  <2> DEFINE a == [cat |-> c]
  <2>1. Changes(a) /\ "status" \notin DOMAIN a BY DEF Changes
  <2> HIDE DEF a
  <2>2. Reads(r, "set", p, Unseen.doc, a) /\ UNCHANGED prod BY <1>3 DEF Recategorise, a
  <2> QED BY <1>1, <2>1, <2>2
<1>4. ASSUME NEW c, NEW price, Create(r, c, price) PROVE SaleInv'
  <2>1. PICK doc : /\ doc \in {New(c, price), With(New(c, price), OnSale)}
                   /\ Reads(r, "insert", 0, doc, {}) /\ UNCHANGED prod
    BY <1>4 DEF Create
  <2>2. Sellable(doc) /\ doc.from = 0 BY <2>1, NewSellable, WithSellable
  <2>3. pc'[r] = "insert" /\ seen'[r].doc = doc /\ Moves(r, ProductSteps) BY <2>1
  <2>4. Sellable(seen'[r].doc) BY <2>2, <2>3
  <2>5. WriterInv(r)' BY <2>2, <2>3, <2>4 DEF WriterInv
  <2> QED BY <2>1, <2>3, <2>5, ProductRead
<1> QED BY <1>2, <1>3, <1>4

\* Where a write under a version is made, what it was decided on still holds.
LEMMA WriteSale ==
  ASSUME SaleInv, NEW r \in Requests, UNCHANGED does, Write(r)
  PROVE  /\ SaleInv' /\ SameProducts
         /\ NoSaves /\ prod' # prod => Basis(does[r], prod[seen[r].ref])
<1> DEFINE p == seen[r].ref
           d == [prod[p] EXCEPT !.version = @ + 1]
           e == With(d, seen[r].args)
<1>1. /\ p \in DOMAIN prod /\ Changes(seen[r].args) /\ Sellable(prod[p])
      /\ prod' = IF SameVersion(p, seen[r].doc) THEN [prod EXCEPT ![p] = e] ELSE prod
  BY DEF Write, SaleInv, WriterInv, ProductsInv
<1>2. Moves(r, {"done"}) BY DEF Write, Done, Goto, Moves, SaleInv, RequestsDomain
<1>3. Sellable(d) /\ d.version = prod[p].version + 1 /\ d.from = prod[p].from BY <1>1, NextVersion
<1> HIDE DEF d
<1>4. Sellable(e) /\ e.version = d.version /\ e.from = d.from BY <1>1, <1>3, WithSellable
<1> HIDE DEF e
<1>5. Follows(prod[p], e) BY <1>1, <1>3, <1>4 DEF Follows, Sellable
<1>6. CASE prod' = [prod EXCEPT ![p] = e] /\ SameVersion(p, seen[r].doc)
  <2>1. /\ prod' = [q \in 1..Len(prod) |-> prod'[q]] /\ \A q \in 1..Len(prod) : Sellable(prod'[q])
        /\ \A q \in DOMAIN prod : Follows(prod[q], prod'[q]) /\ DOMAIN prod' = DOMAIN prod
    BY <1>1, <1>4, <1>5, <1>6, OneReplaced DEF SaleInv
  <2>2. Len(prod) \in Nat /\ Len(prod) <= Len(prod) BY DEF SaleInv, ProductsInv
  <2>3. SaleInv' BY <1>2, <2>1, <2>2, ProductWritten
  <2>4. NoSaves => Basis(does[r], prod[p])
    BY <1>1, <1>6 DEF SaleInv, WriterInv, SameVersion, Write
  <2> QED BY <2>1, <2>3, <2>4 DEF SameProducts
<1>7. CASE UNCHANGED prod
  <2>1. WriterInv(r)' BY <1>2 DEF WriterInv, Moves
  <2>2. SameProducts BY <1>7 DEF SameProducts, Follows
  <2> QED BY <1>2, <1>7, <2>1, <2>2, ProductRead
<1> QED BY <1>1, <1>6, <1>7

\* A product is replaced by one that follows it, and the request is done.
LEMMA ReplaceSale ==
  ASSUME SaleInv, NEW r \in Requests, Moves(r, {"done"}), NEW p \in DOMAIN prod, NEW e,
         Sellable(e), Follows(prod[p], e), prod' = [prod EXCEPT ![p] = e]
  PROVE  SaleInv' /\ SameProducts
<1>1. /\ prod' = [q \in 1..Len(prod) |-> prod'[q]] /\ \A q \in 1..Len(prod) : Sellable(prod'[q])
      /\ \A q \in DOMAIN prod : Follows(prod[q], prod'[q]) /\ DOMAIN prod' = DOMAIN prod
  BY OneReplaced DEF SaleInv
<1>2. Len(prod) \in Nat /\ Len(prod) <= Len(prod) BY DEF SaleInv, ProductsInv
<1> QED BY <1>1, <1>2, ProductWritten DEF SameProducts

LEMMA SaveSale ==
  ASSUME SaleInv, NEW r \in Requests, UNCHANGED does, SaveProduct(r)
  PROVE  SaleInv' /\ SameProducts
<1> DEFINE p == seen[r].ref
           e == Saved(seen[r].doc, prod[p])
<1>1. /\ p \in DOMAIN prod /\ Sellable(seen[r].doc) /\ Sellable(prod[p]) /\ seen[r].doc.from = prod[p].from
      /\ does[r] \in SavesWhole /\ prod' = [prod EXCEPT ![p] = e]
  BY DEF SaveProduct, SaleInv, WriterInv, ProductsInv
<1>2. Moves(r, {"done"}) BY DEF SaveProduct, Done, Goto, Moves, SaleInv, RequestsDomain
<1>3. Sellable(e) /\ e.from = prod[p].from BY <1>1, SavedSellable
<1> HIDE DEF e
<1>4. Follows(prod[p], e) BY <1>1, <1>3 DEF Follows, NoSaves
<1> QED BY <1>1, <1>2, <1>3, <1>4, ReplaceSale

LEMMA SetSale ==
  ASSUME SaleInv, NEW r \in Requests, UNCHANGED does, SetField(r)
  PROVE  SaleInv' /\ SameProducts
<1> DEFINE p == seen[r].ref
           e == With(prod[p], seen[r].args)
<1>1. /\ p \in DOMAIN prod /\ Sellable(prod[p]) /\ Changes(seen[r].args) /\ "status" \notin DOMAIN seen[r].args
      /\ prod' = prod \/ prod' = [prod EXCEPT ![p] = e]
  BY DEF SetField, SaleInv, WriterInv, ProductsInv
<1>2. Moves(r, {"done"}) BY DEF SetField, Done, Goto, Moves, SaleInv, RequestsDomain
<1>3. /\ Sellable(e) /\ e.version = prod[p].version /\ e.from = prod[p].from
      /\ e.status = prod[p].status /\ e.avail = prod[p].avail
  BY <1>1, WithSellable
<1> HIDE DEF e
<1>4. Follows(prod[p], e) BY <1>3 DEF Follows
<1>5. CASE UNCHANGED prod
  <2>1. WriterInv(r)' BY <1>2 DEF WriterInv, Moves
  <2>2. SameProducts BY <1>5 DEF SameProducts, Follows
  <2> QED BY <1>2, <1>5, <2>1, <2>2, ProductRead
<1> QED BY <1>1, <1>2, <1>3, <1>4, <1>5, ReplaceSale

LEMMA InsertSale ==
  ASSUME SaleInv, NEW r \in Requests, UNCHANGED does, NEW e, Sellable(e), prod' = Append(prod, e),
         Moves(r, {"done"})
  PROVE  SaleInv'
<1>1. /\ prod' = [q \in 1..(Len(prod) + 1) |-> prod'[q]] /\ Len(prod) + 1 \in Nat
      /\ \A q \in 1..(Len(prod) + 1) : Sellable(prod'[q])
      /\ \A q \in DOMAIN prod : Follows(prod[q], prod'[q])
      /\ Len(prod) \in Nat
  BY OneAdded DEF SaleInv
<1>2. Len(prod) <= Len(prod) + 1 BY <1>1
<1> QED BY <1>1, <1>2, ProductWritten

LEMMA PolicySale ==
  ASSUME SaleInv, NEW r \in Requests, UNCHANGED does, SetPolicy(r)
  PROVE  SaleInv' /\ SameProducts
<1> DEFINE n == Len(prod)
           e(p) == IF prod[p].status = "published" /\ prod[p].avail = "yes" /\ prod[p].gone = "none"
                     THEN [prod[p] EXCEPT !.valid = "running"] ELSE prod[p]
<1>1. DOMAIN prod = 1..n /\ n \in Nat /\ n <= n /\ \A p \in 1..n : Sellable(prod[p])
  BY DEF SaleInv, ProductsInv
<1>2. prod' = [p \in 1..n |-> e(p)] BY <1>1 DEF SetPolicy
<1>3. Moves(r, {"done"}) BY DEF SetPolicy, Starts, Done, Goto, Moves, SaleInv, RequestsDomain
<1>4. ASSUME NEW p \in 1..n PROVE Sellable(e(p)) /\ Follows(prod[p], e(p))
  BY <1>1 DEF Sellable, Keys, Follows
<1> HIDE DEF e
<1>5. prod' = [p \in 1..n |-> prod'[p]] /\ \A p \in 1..n : prod'[p] = e(p) BY <1>2
<1>6. \A p \in 1..n : Sellable(prod'[p]) BY <1>4, <1>5
<1>7. \A p \in DOMAIN prod : Follows(prod[p], prod'[p]) BY <1>1, <1>4, <1>5
<1> QED BY <1>1, <1>3, <1>5, <1>6, <1>7, ProductWritten DEF SameProducts

\* The job and the time.
LEMMA JobSale ==
  ASSUME SaleInv, Job \/ \E p \in DOMAIN prod : TimePasses(p)
  PROVE  SaleInv' /\ SameProducts
<1>1. UNCHANGED <<does, pc, seen>>
  BY JobMoves DEF SaleInv
<1>2. RequestsDomain' BY <1>1 DEF SaleInv, RequestsDomain
<1>3. \/ UNCHANGED prod
      \/ \E p \in DOMAIN prod : \E e : Sellable(e) /\ Follows(prod[p], e) /\ prod' = [prod EXCEPT ![p] = e]
  <2>1. CASE ListExpired \/ ListOverdue \/ Sleep
    BY <2>1 DEF ListExpired, ListOverdue, Sleep
  <2>2. ASSUME NEW p \in DOMAIN prod, Expire(p)
        PROVE  \/ UNCHANGED prod
               \/ \E e : Sellable(e) /\ Follows(prod[p], e) /\ prod' = [prod EXCEPT ![p] = e]
    <3> DEFINE d == [prod[p] EXCEPT !.version = @ + 1]
               e == With(d, TakenDown)
    <3>1. Sellable(prod[p]) BY DEF SaleInv, ProductsInv
    <3>2. prod' = prod \/ prod' = [prod EXCEPT ![p] = e] BY <2>2 DEF Expire, ExpireOne
    <3>3. Sellable(d) /\ d.version = prod[p].version + 1 /\ d.from = prod[p].from BY <3>1, NextVersion
    <3> HIDE DEF d
    <3>4. Sellable(e) /\ e.version = d.version /\ e.from = d.from
      <4>1. Changes(TakenDown) BY DEF Changes, TakenDown
      <4> QED BY <3>3, <4>1, WithSellable
    <3> HIDE DEF e
    <3>5. Follows(prod[p], e) BY <3>1, <3>3, <3>4 DEF Follows, Sellable
    <3> QED BY <3>2, <3>4, <3>5
  <2>3. ASSUME NEW p \in DOMAIN prod, NEW e,
               \/ e = [prod[p] EXCEPT !.told = "set"]
               \/ e = [prod[p] EXCEPT !.valid = "expired"]
               \/ e = [prod[p] EXCEPT !.due = "past"]
        PROVE  Sellable(e) /\ Follows(prod[p], e)
    <3>1. Sellable(prod[p]) BY DEF SaleInv, ProductsInv
    <3> QED BY <2>3, <3>1 DEF Sellable, Keys, Follows
  <2>4. ASSUME NEW p \in DOMAIN prod, Escalate(p) \/ TimePasses(p)
        PROVE  \/ UNCHANGED prod
               \/ \E e : /\ \/ e = [prod[p] EXCEPT !.told = "set"]
                            \/ e = [prod[p] EXCEPT !.valid = "expired"]
                            \/ e = [prod[p] EXCEPT !.due = "past"]
                         /\ prod' = [prod EXCEPT ![p] = e]
    BY <2>4 DEF Escalate, TimePasses
  <2> QED BY <2>1, <2>2, <2>3, <2>4 DEF Job
<1>4. CASE UNCHANGED prod
  <2>1. \A p \in DOMAIN prod : Follows(prod[p], prod'[p]) BY <1>4 DEF Follows
  <2>2. \A r \in Requests : WriterInv(r)'
    BY <1>1, <1>4 DEF SaleInv, WriterInv, NoSaves, Basis
  <2> QED BY <1>2, <1>4, <2>1, <2>2 DEF SaleInv, ProductsInv, SameProducts
<1>5. ASSUME NEW p \in DOMAIN prod, NEW e, Sellable(e), Follows(prod[p], e), prod' = [prod EXCEPT ![p] = e]
      PROVE  SaleInv' /\ SameProducts
  <2>1. /\ prod' = [q \in 1..Len(prod) |-> prod'[q]] /\ \A q \in 1..Len(prod) : Sellable(prod'[q])
        /\ \A q \in DOMAIN prod : Follows(prod[q], prod'[q]) /\ DOMAIN prod' = DOMAIN prod
    BY <1>5, OneReplaced DEF SaleInv
  <2>2. Len(prod) \in Nat /\ Len(prod) <= Len(prod) BY DEF SaleInv, ProductsInv
  <2>3. \A r \in Requests : (pc'[r] = pc[r] /\ seen'[r] = seen[r]) \/ pc'[r] \notin ProductSteps
    BY <1>1
  <2> QED BY <1>1, <1>2, <2>1, <2>2, <2>3, ProductsGoOn DEF SameProducts
<1> QED BY <1>3, <1>4, <1>5

\* A request that does nothing with the products.
LEMMA ElsewhereSale ==
  ASSUME SaleInv, NEW r \in Requests, NEW steps, Moves(r, steps), steps \cap ProductSteps = {}, UNCHANGED prod
  PROVE  SaleInv'
<1>1. WriterInv(r)' BY DEF WriterInv, Moves, ProductSteps
<1> QED BY <1>1, ProductRead

\* A submission that is approved becomes a product.
LEMMA SubmissionProduct ==
  ASSUME RequestsDomain, NEW r \in Requests, SubmissionStep(r)
  PROVE  \/ UNCHANGED prod
         \/ /\ \E kept \in SUBSET Images : ApproveWrite(r, kept)
            /\ \E e : Sellable(e) /\ e.from = seen[r].ref /\ prod' = Append(prod, e)
<1>1. ASSUME NEW kept \in SUBSET Images, ApproveWrite(r, kept)
      PROVE  \/ UNCHANGED prod
             \/ \E e : Sellable(e) /\ e.from = seen[r].ref /\ prod' = Append(prod, e)
  <2> DEFINE e == ProductOf(seen[r].ref, seen[r].doc.cat, kept, seen[r].doc.onSale)
  <2>1. Sellable(e) /\ e.from = seen[r].ref BY DEF Sellable, ProductOf, Keys
  <2> HIDE DEF e
  <2>2. prod' = prod \/ prod' = Append(prod, e) BY <1>1 DEF ApproveWrite, e
  <2> QED BY <2>1, <2>2
<1>2. CASE \E images \in (SUBSET Images) \ {{}} :
             CreateSubmission(r, images) \/ \E s \in Subs : UpdateSubmission(r, s, images)
  BY <1>2 DEF CreateSubmission, UpdateSubmission, catalogueVars
<1>3. CASE WriteSubmission(r) \/ ClaimRead(r) \/ Own(r)
  BY <1>3 DEF WriteSubmission, ClaimRead, Own, catalogueVars
<1>4. CASE \E s \in Subs : InsertSubmission(r, s) \/ Submit(r, s) \/ StartReview(r, s) \/ Decide(r, s)
  BY <1>4 DEF InsertSubmission, Submit, StartReview, Decide, catalogueVars
<1>5. CASE SubmitWrite(r) \/ StartWrite(r) \/ DecideWrite(r) \/ Release(r)
  BY <1>5 DEF SubmitWrite, StartWrite, DecideWrite, Release
<1>6. CASE \E s \in Subs, c \in Cats, onSale \in BOOLEAN : Approve(r, s, c, onSale)
  BY <1>6 DEF Approve, catalogueVars
<1> QED BY <1>1, <1>2, <1>3, <1>4, <1>5, <1>6 DEF SubmissionStep

LEMMA ProductSale ==
  ASSUME SaleInv, NEW r \in Requests, UNCHANGED does, ProductStep(r)
  PROVE  SaleInv'
<1>1. CASE Write(r) BY <1>1, WriteSale
<1>2. CASE SaveProduct(r) BY <1>2, SaveSale
<1>3. CASE SetField(r) BY <1>3, SetSale
<1>4. CASE Insert(r)
  <2>1. Sellable(seen[r].doc) /\ prod' = Append(prod, seen[r].doc) /\ Moves(r, {"done"})
    BY <1>4 DEF Insert, SaleInv, WriterInv, Done, Goto, Moves, RequestsDomain
  <2> QED BY <2>1, InsertSale
<1>5. CASE SetPolicy(r) BY <1>5, PolicySale
<1>6. CASE \E p \in DOMAIN prod :
             \/ Publish(r, p) \/ Pause(r, p) \/ Unpublish(r, p) \/ Ask(r, p) \/ Confirm(r, p) \/ Report(r, p)
             \/ \E floor \in Prices \cup {0} : SetRules(r, p, floor)
  BY <1>6, VersionedSale
<1>7. CASE \E p \in DOMAIN prod :
             \/ Disable(r, p)
             \/ \E c \in Cats, price \in Prices, status \in EditStatuses \cup {prod[p].status} :
                  Edit(r, p, c, status, price)
             \/ \E price \in Prices, status \in {"published", "unconfirmed", "disabled"} :
                  Review(r, p, status, price)
  BY <1>7, WholeSale
<1>8. CASE \/ \E p \in DOMAIN prod : Remove(r, p) \/ \E c \in Cats : Recategorise(r, p, c)
           \/ \E c \in Cats, price \in Prices : Create(r, c, price)
  BY <1>8, FieldSale
<1> QED BY <1>1, <1>2, <1>3, <1>4, <1>5, <1>6, <1>7, <1>8 DEF ProductStep

LEMMA NextSale ==
  ASSUME SaleInv, [Next]_vars
  PROVE  SaleInv'
<1>1. CASE UNCHANGED vars
  <2>1. UNCHANGED <<does, prod, pc, seen>> BY <1>1 DEF vars, catalogueVars
  <2> QED BY <2>1 DEF SaleInv, RequestsDomain, ProductsInv, WriterInv, NoSaves, Basis
<1>2. CASE Next
  <2>1. RequestsDomain /\ UNCHANGED does BY <1>2, NextParts DEF SaleInv
  <2>2. CASE Job \/ \E p \in DOMAIN prod : TimePasses(p) BY <2>2, JobSale
  <2>3. ASSUME NEW r \in Requests, ToggleMarket(r) \/ CategoryStep(r) \/ VendorStep(r) PROVE SaleInv'
    <3>1. \E steps : Moves(r, steps) /\ UNCHANGED prod /\ steps \cap ProductSteps = {}
      <4>1. /\ {"done"} \cap ProductSteps = {} /\ (TreeSteps \cup {"name", "done"}) \cap ProductSteps = {}
            /\ (OtherSteps \cup {"done"}) \cap ProductSteps = {}
        BY DEF TreeSteps, OtherSteps, ProductSteps
      <4> QED BY <2>1, <2>3, <4>1, MarketMoves, CategoryMoves, VendorMoves
    <3> QED BY <3>1, ElsewhereSale
  <2>4. ASSUME NEW r \in Requests, SubmissionStep(r) PROVE SaleInv'
    <3>1. Moves(r, SubmissionSteps \cup {"done"}) BY <2>1, <2>4, SubmissionMoves
    <3>2. (SubmissionSteps \cup {"done"}) \cap ProductSteps = {} BY DEF SubmissionSteps, ProductSteps
    <3>3. CASE UNCHANGED prod BY <3>1, <3>2, <3>3, ElsewhereSale
    <3>4. ASSUME NEW kept \in SUBSET Images, ApproveWrite(r, kept),
                 NEW e, Sellable(e), prod' = Append(prod, e)
          PROVE  SaleInv'
      <4>1. Moves(r, {"done"}) BY <2>1, <3>4 DEF ApproveWrite, Done, Goto, Moves, RequestsDomain
      <4> QED BY <2>1, <3>4, <4>1, InsertSale
    <3> QED BY <2>1, <2>4, <3>3, <3>4, SubmissionProduct
  <2>5. ASSUME NEW r \in Requests, ProductStep(r) PROVE SaleInv' BY <2>1, <2>5, ProductSale
  <2> QED BY <1>2, <2>2, <2>3, <2>4, <2>5, NextParts
<1> QED BY <1>1, <1>2

\* What customers can buy has an answer about its availability and an end of its validity, whichever
\* of the ways put it on sale and whatever was saved over it (products, availability, administration).
THEOREM SupplyOnSaleIsConfirmed == Spec => []OnSaleIsConfirmed
<1>1. Init => SaleInv BY InitSale
<1>2. SaleInv /\ [Next]_vars => SaleInv' BY NextSale
<1>3. SaleInv => OnSaleIsConfirmed BY DEF SaleInv, ProductsInv, Sellable, OnSaleIsConfirmed
<1> QED BY <1>1, <1>2, <1>3, PTL DEF Spec

\* The one step by which a request leaves "write" is its write.
LEMMA AppliesIsWrite ==
  ASSUME SaleInv, Next, NEW r \in Requests, Applies(r)
  PROVE  Write(r) /\ UNCHANGED does
<1>1. RequestsDomain /\ UNCHANGED does BY NextParts DEF SaleInv
<1>2. ~(Job \/ \E p \in DOMAIN prod : TimePasses(p)) BY <1>1, JobMoves DEF Applies
<1>3. ASSUME NEW q \in Requests,
             ToggleMarket(q) \/ CategoryStep(q) \/ SubmissionStep(q) \/ VendorStep(q) \/ ProductStep(q)
      PROVE  Write(r)
  <2>1. \E steps : Moves(q, steps)
    BY <1>1, <1>3, MarketMoves, CategoryMoves, SubmissionMoves, VendorMoves, ProductMoves
  <2>2. q = r BY <2>1 DEF Moves, Applies
  <2>3. pc[r] = "write" /\ pc[r] \notin TreeSteps \cup SubmissionSteps \cup OtherSteps \cup {"ready", "name"}
    BY DEF Applies, TreeSteps, SubmissionSteps, OtherSteps
  <2>4. ProductStep(r)
    BY <1>1, <1>3, <2>2, <2>3, MarketMoves, CategoryMoves, SubmissionMoves, VendorMoves DEF WorksOn
  <2> QED BY <2>3, <2>4
    DEF ProductStep, SaveProduct, SetField, Insert, SetPolicy, Publish, Pause, Unpublish, Ask, Confirm, Report,
        Disable, Remove, SetRules, Recategorise, Edit, Review, Create, Starts
<1> QED BY <1>1, <1>2, <1>3, NextParts

\* What a write under a version was decided on still holds where it is made, whoever came in between,
\* as long as nobody saves the product whole (the filters of the updates, the job's count of versions).
THEOREM SupplyAnswersItsRead == Spec => AnswersItsRead
<1>1. Init => SaleInv BY InitSale
<1>2. SaleInv /\ [Next]_vars => SaleInv' BY NextSale
<1>3. SaleInv /\ [Next]_vars
       => [(\A q \in Requests : does[q] \notin SavesWhole)
            => (\A r \in Requests : Applies(r) => Basis(does[r], prod[seen[r].ref]))]_<<prod, pc>>
  <2> SUFFICES ASSUME SaleInv, [Next]_vars, \A q \in Requests : does[q] \notin SavesWhole,
                      NEW r \in Requests, Applies(r)
               PROVE  Basis(does[r], prod[seen[r].ref])
    OBVIOUS
  <2>1. CASE UNCHANGED vars BY <2>1 DEF vars, Applies
  <2>2. CASE Next
    <3>1. Write(r) /\ UNCHANGED does BY <2>2, AppliesIsWrite
    <3> QED BY <3>1, WriteSale DEF Applies, NoSaves
  <2> QED BY <2>1, <2>2
<1> QED BY <1>1, <1>2, <1>3, PTL DEF Spec, AnswersItsRead

-----------------------------------------------------------------------------
(* The submissions.                                                        *)

CaptureStatuses == {"unused", "draft", "changes_requested", "submitted", "in_review", "approved", "rejected"}
CaptureRecords == [status : CaptureStatuses, version : Nat, images : SUBSET Images, product : Nat]

\* A submission is approved exactly if there is a product of it, and it names that one.
ProducedInv ==
  /\ \A s \in Subs : (sub[s].status = "approved") <=> \E p \in DOMAIN prod : prod[p].from = s
  /\ \A p \in DOMAIN prod : prod[p].from # 0 =>
       prod[p].from \in Subs /\ sub[prod[p].from].product = p

\* What a request is about to do with a submission.
AssociateInv(r) ==
  /\ pc[r] = "sub_insert" => seen[r].args \in SUBSET Images
  /\ pc[r] = "sub_write" =>
       /\ seen[r].ref \in Subs /\ seen[r].args \in SUBSET Images /\ seen[r].doc.version \in Nat
       /\ sub[seen[r].ref].status # "unused" /\ seen[r].doc.version <= sub[seen[r].ref].version
       /\ seen[r].doc.version = sub[seen[r].ref].version => sub[seen[r].ref].status \in Editable
  /\ pc[r] = "submitting" => seen[r].ref \in Subs /\ seen[r].doc.status \in Editable
  /\ pc[r] \in {"starting", "deciding", "approving"} => seen[r].ref \in Subs
  /\ pc[r] = "deciding" => does[r] \in DOMAIN Decisions

CaptureInv == /\ SaleInv /\ sub \in [Subs -> CaptureRecords] /\ ProducedInv
              /\ \A r \in Requests : AssociateInv(r)

\* A submission and what became of it: written once it is there with another version, not any more
\* once it is decided, and not its images while it is with the review.
Handled(d, e) ==
  \/ e = d
  \/ d.status = "unused" /\ e.status = "draft"
  \/ /\ d.status \notin {"unused", "approved", "rejected"} /\ e.status # "unused" /\ e.version = d.version + 1
     /\ d.status \in Kept /\ e.status \in Kept => e.images = d.images

LEMMA InitCapture == Init => CaptureInv
<1> SUFFICES ASSUME Init PROVE CaptureInv
  OBVIOUS
<1>1. SaleInv BY InitSale
<1>2. \A r \in Requests : AssociateInv(r) BY DEF Init, AssociateInv
<1>3. ASSUME Empty PROVE sub \in [Subs -> CaptureRecords] /\ ProducedInv
  BY <1>3 DEF Empty, NoSubmission, CaptureRecords, CaptureStatuses, ProducedInv
<1>4. ASSUME NEW s \in Subs, NEW i \in Images, Drafted(s, i)
      PROVE  sub \in [Subs -> CaptureRecords] /\ ProducedInv
  BY <1>4 DEF Drafted, NoSubmission, Captured, CaptureRecords, CaptureStatuses, ProducedInv
<1>5. ASSUME NEW s \in Subs, NEW i \in Images, Sold(s, i)
      PROVE  sub \in [Subs -> CaptureRecords] /\ ProducedInv
  <2> DEFINE d == With([New(Leaf, 2) EXCEPT !.from = s, !.images = {i}], OnSale)
  <2>1. d.from = s BY DEF New, With, OnSale
  <2> HIDE DEF d
  <2>2. prod = <<d>> BY <1>5 DEF Sold, d
  <2>3. DOMAIN prod = {1} /\ prod[1].from = s BY <2>1, <2>2
  <2>4. sub = [x \in Subs |-> IF x = s THEN Captured("approved", {i}, 1) ELSE NoSubmission]
    BY <1>5 DEF Sold
  <2>5. sub \in [Subs -> CaptureRecords]
    BY <2>4 DEF NoSubmission, Captured, CaptureRecords, CaptureStatuses
  <2>6. ProducedInv BY <2>3, <2>4, SubsAssumption DEF NoSubmission, Captured, ProducedInv
  <2> QED BY <2>5, <2>6
<1> QED BY <1>1, <1>2, <1>3, <1>4, <1>5 DEF CaptureInv, Init

\* A submission of which the version is counted, with these changes.
LEMMA CaptureChanges ==
  ASSUME NEW d \in CaptureRecords, NEW status \in CaptureStatuses, NEW images \in SUBSET Images, NEW n \in Nat
  PROVE  /\ [d EXCEPT !.status = status, !.version = @ + 1] \in CaptureRecords
         /\ [d EXCEPT !.images = images, !.version = @ + 1] \in CaptureRecords
         /\ [d EXCEPT !.status = status, !.version = @ + 1, !.product = n] \in CaptureRecords
<1> DEFINE v == d.version + 1
<1>1. v \in Nat BY DEF CaptureRecords
<1>2. /\ [d EXCEPT !.status = status, !.version = @ + 1] = [d EXCEPT !.status = status, !.version = v]
      /\ [d EXCEPT !.images = images, !.version = @ + 1] = [d EXCEPT !.images = images, !.version = v]
      /\ [d EXCEPT !.status = status, !.version = @ + 1, !.product = n]
           = [d EXCEPT !.status = status, !.version = v, !.product = n]
  OBVIOUS
<1> HIDE DEF v
<1>3. [d EXCEPT !.status = status, !.version = v] \in CaptureRecords BY <1>1 DEF CaptureRecords
<1>4. [d EXCEPT !.images = images, !.version = v] \in CaptureRecords BY <1>1 DEF CaptureRecords
<1>5. [d EXCEPT !.status = status, !.version = v, !.product = n] \in CaptureRecords BY <1>1 DEF CaptureRecords
<1> QED BY <1>2, <1>3, <1>4, <1>5

\* The submissions go on as they may, and one request goes on.
LEMMA AssociatesGoOn ==
  ASSUME CaptureInv, sub' \in [Subs -> CaptureRecords], \A s \in Subs : Handled(sub[s], sub'[s]),
         NEW r \in Requests, NEW steps, Moves(r, steps), AssociateInv(r)'
  PROVE  \A q \in Requests : AssociateInv(q)'
<1> SUFFICES ASSUME NEW q \in Requests \ {r} PROVE AssociateInv(q)'
  OBVIOUS
<1>1. pc'[q] = pc[q] /\ seen'[q] = seen[q] /\ does'[q] = does[q] /\ AssociateInv(q)
  BY DEF Moves, CaptureInv
<1>2. CASE pc[q] = "sub_write"
  <2> DEFINE s == seen[q].ref
             v == seen[q].doc.version
  <2>1. /\ s \in Subs /\ seen[q].args \in SUBSET Images /\ v \in Nat
        /\ sub[s].status # "unused" /\ v <= sub[s].version /\ (v = sub[s].version => sub[s].status \in Editable)
    BY <1>1, <1>2 DEF AssociateInv
  <2>2. Handled(sub[s], sub'[s]) /\ sub[s].version \in Nat BY <2>1 DEF CaptureInv, CaptureRecords
  <2>3. sub'[s].status # "unused" /\ v <= sub'[s].version /\ (v = sub'[s].version => sub'[s].status \in Editable)
    BY <2>1, <2>2 DEF Handled
  <2> QED BY <1>1, <1>2, <2>1, <2>3 DEF AssociateInv
<1>3. CASE pc[q] # "sub_write" BY <1>1, <1>3 DEF AssociateInv
<1> QED BY <1>2, <1>3

\* Where the submissions stay as they are.
LEMMA CapturesKept ==
  ASSUME CaptureInv, SaleInv', UNCHANGED sub, DOMAIN prod \subseteq DOMAIN prod',
         \A p \in DOMAIN prod : prod'[p].from = prod[p].from,
         \A p \in DOMAIN prod' \ DOMAIN prod : prod'[p].from = 0
  PROVE  /\ sub' \in [Subs -> CaptureRecords] /\ ProducedInv'
         /\ \A s \in Subs : Handled(sub[s], sub'[s])
<1>1. ProducedInv'
  <2>1. \A s \in Subs : (\E p \in DOMAIN prod' : prod'[p].from = s) <=> (\E p \in DOMAIN prod : prod[p].from = s)
    BY SubsAssumption
  <2> QED BY <2>1 DEF CaptureInv, ProducedInv
<1> QED BY <1>1 DEF CaptureInv, Handled

\* One submission is written, and not approved.
LEMMA OneHandled ==
  ASSUME CaptureInv, UNCHANGED prod, NEW s \in Subs, NEW e \in CaptureRecords,
         Handled(sub[s], e), e.status # "approved", sub' = [sub EXCEPT ![s] = e]
  PROVE  /\ sub' \in [Subs -> CaptureRecords] /\ ProducedInv'
         /\ \A x \in Subs : Handled(sub[x], sub'[x])
<1>1. sub \in [Subs -> CaptureRecords] /\ ProducedInv BY DEF CaptureInv
<1>2. sub' \in [Subs -> CaptureRecords] /\ sub'[s] = e /\ \A x \in Subs \ {s} : sub'[x] = sub[x]
  BY <1>1
<1>3. sub[s].status # "approved" BY DEF Handled
<1>4. ProducedInv' BY <1>1, <1>2, <1>3 DEF ProducedInv
<1>5. \A x \in Subs : Handled(sub[x], sub'[x]) BY <1>2 DEF Handled
<1> QED BY <1>2, <1>4, <1>5

\* The request r read, and the submissions and the products are as before.
LEMMA CaptureRead ==
  ASSUME CaptureInv, SaleInv', NEW r \in Requests, NEW steps, Moves(r, steps), AssociateInv(r)',
         UNCHANGED <<sub, prod>>
  PROVE  CaptureInv' /\ \A s \in Subs : Handled(sub[s], sub'[s])
<1>1. /\ sub' \in [Subs -> CaptureRecords] /\ ProducedInv'
      /\ \A s \in Subs : Handled(sub[s], sub'[s])
  BY CapturesKept
<1> QED BY <1>1, AssociatesGoOn DEF CaptureInv

LEMMA CaptureWritten ==
  ASSUME CaptureInv, SaleInv', UNCHANGED prod, NEW r \in Requests, NEW steps, Moves(r, steps), AssociateInv(r)',
         NEW s \in Subs, NEW e \in CaptureRecords,
         Handled(sub[s], e), e.status # "approved", sub' = [sub EXCEPT ![s] = e]
  PROVE  CaptureInv' /\ \A x \in Subs : Handled(sub[x], sub'[x])
<1>1. /\ sub' \in [Subs -> CaptureRecords] /\ ProducedInv'
      /\ \A x \in Subs : Handled(sub[x], sub'[x])
  BY OneHandled
<1> QED BY <1>1, AssociatesGoOn DEF CaptureInv

LEMMA CaptureReads ==
  ASSUME CaptureInv, SaleInv', NEW r \in Requests, UNCHANGED does,
         \/ \E images \in (SUBSET Images) \ {{}} :
              CreateSubmission(r, images) \/ \E s \in Subs : UpdateSubmission(r, s, images)
         \/ ClaimRead(r) \/ Own(r) \/ Release(r)
         \/ \E s \in Subs : Submit(r, s) \/ StartReview(r, s) \/ Decide(r, s)
         \/ \E s \in Subs, c \in Cats, onSale \in BOOLEAN : Approve(r, s, c, onSale)
  PROVE  CaptureInv' /\ \A s \in Subs : Handled(sub[s], sub'[s])
<1> USE DEF Starts, Reads, Done, Goto, catalogueVars
<1>1. RequestsDomain /\ sub \in [Subs -> CaptureRecords] BY DEF CaptureInv, SaleInv
<1>2. \E steps : Moves(r, steps)
  BY <1>1, SubmissionMoves DEF SubmissionStep
<1>3. AssociateInv(r)' /\ UNCHANGED <<sub, prod>>
  <2>1. ASSUME NEW images \in (SUBSET Images) \ {{}}, CreateSubmission(r, images)
        PROVE  AssociateInv(r)' /\ UNCHANGED <<sub, prod>>
    BY <1>1, <2>1 DEF CreateSubmission, AssociateInv, RequestsDomain
  <2>2. ASSUME NEW images \in (SUBSET Images) \ {{}}, NEW s \in Subs, UpdateSubmission(r, s, images)
        PROVE  AssociateInv(r)' /\ UNCHANGED <<sub, prod>>
    <3>1. sub[s] \in CaptureRecords BY <1>1
    <3>2. sub[s].version \in Nat /\ sub[s].status # "unused"
      BY <2>2, <3>1 DEF UpdateSubmission, CaptureRecords, Editable
    <3> QED BY <1>1, <2>2, <3>2 DEF UpdateSubmission, AssociateInv, RequestsDomain
  <2>3. CASE ClaimRead(r) \/ Own(r) \/ Release(r)
    BY <1>1, <2>3 DEF ClaimRead, Own, Release, AssociateInv, RequestsDomain
  <2>4. ASSUME NEW s \in Subs, Submit(r, s) \/ StartReview(r, s) \/ Decide(r, s)
        PROVE  AssociateInv(r)' /\ UNCHANGED <<sub, prod>>
    BY <1>1, <2>4 DEF Submit, StartReview, Decide, AssociateInv, RequestsDomain
  <2>5. ASSUME NEW s \in Subs, NEW c, NEW onSale, Approve(r, s, c, onSale)
        PROVE  AssociateInv(r)' /\ UNCHANGED <<sub, prod>>
    BY <1>1, <2>5 DEF Approve, AssociateInv, RequestsDomain
  <2> QED BY <2>1, <2>2, <2>3, <2>4, <2>5
<1> QED BY <1>2, <1>3, CaptureRead

LEMMA CaptureWrites ==
  ASSUME CaptureInv, SaleInv', NEW r \in Requests, UNCHANGED does,
         \/ \E s \in Subs : InsertSubmission(r, s)
         \/ WriteSubmission(r) \/ SubmitWrite(r) \/ StartWrite(r) \/ DecideWrite(r)
  PROVE  CaptureInv' /\ \A s \in Subs : Handled(sub[s], sub'[s])
<1>1. RequestsDomain /\ sub \in [Subs -> CaptureRecords] /\ AssociateInv(r) BY DEF CaptureInv, SaleInv
<1>2. \E steps : Moves(r, steps)
  BY <1>1, SubmissionMoves DEF SubmissionStep
<1>3. pc'[r] \in {"done", "claim", "release"} /\ UNCHANGED prod
  BY <1>1 DEF InsertSubmission, WriteSubmission, SubmitWrite, StartWrite, DecideWrite, Reads, Done, Goto, RequestsDomain
<1>4. AssociateInv(r)' BY <1>3 DEF AssociateInv
<1>5. \/ UNCHANGED sub
      \/ \E s \in Subs : \E e \in CaptureRecords :
           Handled(sub[s], e) /\ e.status # "approved" /\ sub' = [sub EXCEPT ![s] = e]
  <2>1. ASSUME NEW s \in Subs, InsertSubmission(r, s)
        PROVE  \E e \in CaptureRecords :
                 Handled(sub[s], e) /\ e.status # "approved" /\ sub' = [sub EXCEPT ![s] = e]
    <3> DEFINE e == [status |-> "draft", version |-> 1, images |-> seen[r].args, product |-> 0]
    <3>1. seen[r].args \in SUBSET Images BY <1>1, <2>1 DEF InsertSubmission, AssociateInv
    <3>2. e \in CaptureRecords /\ e.status = "draft" BY <3>1 DEF CaptureRecords, CaptureStatuses
    <3>3. sub' = [sub EXCEPT ![s] = e] /\ sub[s].status = "unused" BY <2>1 DEF InsertSubmission
    <3> HIDE DEF e
    <3> QED BY <3>2, <3>3 DEF Handled
  <2>2. ASSUME NEW s \in Subs, NEW status \in {"submitted", "in_review", "changes_requested", "rejected"},
               sub[s].status \in {"draft", "changes_requested", "submitted", "in_review"},
               sub' = [sub EXCEPT ![s] = [sub[s] EXCEPT !.status = status, !.version = @ + 1]]
        PROVE  \E e \in CaptureRecords :
                 Handled(sub[s], e) /\ e.status # "approved" /\ sub' = [sub EXCEPT ![s] = e]
    <3> DEFINE e == [sub[s] EXCEPT !.status = status, !.version = @ + 1]
    <3>1. sub[s] \in CaptureRecords BY <1>1
    <3>2. e \in CaptureRecords BY <2>2, <3>1, CaptureChanges DEF CaptureStatuses
    <3>3. e.status = status /\ e.version = sub[s].version + 1 /\ e.images = sub[s].images
      BY <3>1 DEF CaptureRecords
    <3>4. sub' = [sub EXCEPT ![s] = e] BY <2>2
    <3> HIDE DEF e
    <3> QED BY <2>2, <3>2, <3>3, <3>4 DEF Handled
  <2> DEFINE s == seen[r].ref
  <2>3. CASE WriteSubmission(r)
    <3>1. /\ s \in Subs /\ seen[r].args \in SUBSET Images
          /\ seen[r].doc.version = sub[s].version => sub[s].status \in Editable
      BY <1>1, <2>3 DEF WriteSubmission, AssociateInv
    <3> DEFINE e == [sub[s] EXCEPT !.images = seen[r].args, !.version = @ + 1]
    <3>2. sub[s] \in CaptureRecords BY <1>1, <3>1
    <3>3. e \in CaptureRecords /\ e.status = sub[s].status /\ e.version = sub[s].version + 1
      <4>1. e \in CaptureRecords BY <3>1, <3>2, CaptureChanges DEF CaptureStatuses
      <4>2. e.status = sub[s].status /\ e.version = sub[s].version + 1 BY <3>2 DEF CaptureRecords
      <4> QED BY <4>1, <4>2
    <3>4. UNCHANGED sub \/ (sub' = [sub EXCEPT ![s] = e] /\ sub[s].version = seen[r].doc.version)
      BY <2>3, <1>1, <3>1, <3>2 DEF WriteSubmission, CaptureRecords
    <3> HIDE DEF e
    <3> QED BY <3>1, <3>3, <3>4 DEF Handled, Editable, Kept
  <2>4. CASE SubmitWrite(r)
    <3>1. s \in Subs /\ seen[r].doc.status \in Editable BY <1>1, <2>4 DEF SubmitWrite, AssociateInv
    <3>2. \/ UNCHANGED sub
          \/ /\ sub[s].status = seen[r].doc.status
             /\ sub' = [sub EXCEPT ![s] = [sub[s] EXCEPT !.status = "submitted", !.version = @ + 1]]
      BY <1>1, <2>4, <3>1 DEF SubmitWrite, Submitted
    <3> QED BY <2>2, <3>1, <3>2 DEF Editable
  <2>5. CASE StartWrite(r)
    <3>1. s \in Subs BY <1>1, <2>5 DEF StartWrite, AssociateInv
    <3>2. \/ UNCHANGED sub
          \/ /\ sub[s].status = "submitted"
             /\ sub' = [sub EXCEPT ![s] = [sub[s] EXCEPT !.status = "in_review", !.version = @ + 1]]
      BY <2>5, <1>1, <3>1 DEF StartWrite, CaptureRecords
    <3> QED BY <2>2, <3>1, <3>2
  <2>6. CASE DecideWrite(r)
    <3>1. s \in Subs /\ does[r] \in {"ask_changes", "reject"}
      BY <1>1, <2>6 DEF DecideWrite, AssociateInv, Decisions
    <3>2. Decisions[does[r]] \in {"changes_requested", "rejected"} BY <3>1 DEF Decisions
    <3> DEFINE status == Decisions[does[r]]
    <3>3. \/ UNCHANGED sub
          \/ /\ sub[s].status = "in_review"
             /\ sub' = [sub EXCEPT ![s] = [sub[s] EXCEPT !.status = status, !.version = @ + 1]]
      BY <2>6, <1>1, <3>1 DEF DecideWrite, MayDecide, CaptureRecords
    <3> HIDE DEF status
    <3>4. status \in {"changes_requested", "rejected"} BY <3>2 DEF status
    <3> QED BY <2>2, <3>1, <3>3, <3>4
  <2> QED BY <2>1, <2>3, <2>4, <2>5, <2>6
<1> QED BY <1>2, <1>3, <1>4, <1>5, CaptureRead, CaptureWritten

\* The product, the decision and what the submission names are written at once.
LEMMA ApproveCapture ==
  ASSUME CaptureInv, SaleInv', NEW r \in Requests, UNCHANGED does, NEW kept, ApproveWrite(r, kept)
  PROVE  CaptureInv' /\ \A s \in Subs : Handled(sub[s], sub'[s])
<1>1. RequestsDomain /\ SaleInv /\ sub \in [Subs -> CaptureRecords] /\ AssociateInv(r) /\ ProducedInv
  BY DEF CaptureInv, SaleInv
<1>2. Moves(r, {"done"}) BY <1>1 DEF ApproveWrite, Done, Goto, Moves, RequestsDomain
<1>3. AssociateInv(r)' BY <1>2 DEF Moves, AssociateInv
<1>4. CASE UNCHANGED <<sub, prod>> BY <1>2, <1>3, <1>4, CaptureRead
<1>5. CASE ~UNCHANGED <<sub, prod>>
  <2> DEFINE s == seen[r].ref
             n == Len(prod) + 1
             e == ProductOf(s, seen[r].doc.cat, kept, seen[r].doc.onSale)
             x == [sub[s] EXCEPT !.status = "approved", !.version = @ + 1, !.product = n]
  <2>1. s \in Subs BY <1>1 DEF ApproveWrite, AssociateInv
  <2>2. /\ MayDecide(s, seen[r].doc) /\ ~IsProduced(s)
        /\ prod' = Append(prod, e) /\ sub' = [sub EXCEPT ![s] = x]
    BY <1>1, <1>5, <2>1 DEF ApproveWrite, CaptureRecords
  <2>3. Sellable(e) /\ e.from = s BY DEF Sellable, ProductOf, Keys
  <2> HIDE DEF e
  <2>4. /\ DOMAIN prod = 1..Len(prod) /\ DOMAIN prod' = 1..n /\ Len(prod) \in Nat
        /\ \A p \in DOMAIN prod : prod'[p] = prod[p]
        /\ prod'[n] = e
    BY <1>1, <2>2, <2>3, OneAdded DEF SaleInv
  <2>5. sub[s] \in CaptureRecords BY <1>1, <2>1
  <2>6. /\ x \in CaptureRecords /\ x.status = "approved" /\ x.version = sub[s].version + 1 /\ x.product = n
    <3>1. n \in Nat BY <2>4
    <3> HIDE DEF n
    <3>2. x \in CaptureRecords BY <2>5, <3>1, CaptureChanges DEF CaptureStatuses
    <3>3. x.status = "approved" /\ x.version = sub[s].version + 1 /\ x.product = n
      BY <2>5 DEF CaptureRecords
    <3> QED BY <3>2, <3>3
  <2> HIDE DEF x
  <2>7. sub' \in [Subs -> CaptureRecords] /\ sub'[s] = x /\ \A y \in Subs \ {s} : sub'[y] = sub[y]
    BY <1>1, <2>1, <2>2, <2>6
  <2>8. \A y \in Subs : Handled(sub[y], sub'[y])
    BY <2>2, <2>6, <2>7 DEF Handled, MayDecide, Kept
  <2>9. ProducedInv'
    <3>1. n \notin DOMAIN prod /\ DOMAIN prod' = DOMAIN prod \cup {n} BY <2>4
    <3> HIDE DEF n
    <3>2. \A p \in DOMAIN prod : prod[p].from # s BY <2>2 DEF IsProduced
    <3>3. s # 0 BY <2>1, SubsAssumption
    <3>4. ASSUME NEW y \in Subs
          PROVE  (sub'[y].status = "approved") <=> \E p \in DOMAIN prod' : prod'[p].from = y
      <4>1. CASE y = s BY <2>3, <2>4, <2>6, <2>7, <3>1, <4>1
      <4>2. CASE y # s
        <5>1. prod'[n].from # y BY <2>3, <2>4, <4>2
        <5>2. (\E p \in DOMAIN prod' : prod'[p].from = y) <=> \E p \in DOMAIN prod : prod[p].from = y
          BY <2>4, <3>1, <5>1
        <5>3. sub'[y] = sub[y] BY <2>7, <4>2
        <5> QED BY <1>1, <5>2, <5>3 DEF ProducedInv
      <4> QED BY <4>1, <4>2
    <3>5. ASSUME NEW p \in DOMAIN prod', prod'[p].from # 0
          PROVE  prod'[p].from \in Subs /\ sub'[prod'[p].from].product = p
      <4>1. CASE p = n BY <2>1, <2>3, <2>4, <2>6, <2>7, <4>1
      <4>2. CASE p \in DOMAIN prod
        <5>1. prod'[p] = prod[p] /\ prod[p].from # 0 /\ prod[p].from # s BY <2>4, <3>2, <3>5, <4>2
        <5>2. prod[p].from \in Subs /\ sub[prod[p].from].product = p BY <1>1, <4>2, <5>1 DEF ProducedInv
        <5> QED BY <2>7, <5>1, <5>2
      <4> QED BY <3>1, <4>1, <4>2
    <3> QED BY <3>4, <3>5 DEF ProducedInv
  <2> QED BY <1>2, <1>3, <2>7, <2>8, <2>9, AssociatesGoOn DEF CaptureInv
<1> QED BY <1>4, <1>5

\* What a request does with the products keeps where they come from, and adds none that comes from a
\* submission.
LEMMA ProductsFrom ==
  ASSUME SaleInv, NEW r \in Requests, UNCHANGED does, ProductStep(r)
  PROVE  /\ DOMAIN prod \subseteq DOMAIN prod' /\ \A p \in DOMAIN prod : prod'[p].from = prod[p].from
         /\ \A p \in DOMAIN prod' \ DOMAIN prod : prod'[p].from = 0
<1>1. CASE Write(r) \/ SaveProduct(r) \/ SetField(r) \/ SetPolicy(r)
  <2>1. SameProducts BY <1>1, WriteSale, SaveSale, SetSale, PolicySale
  <2> QED BY <2>1 DEF SameProducts, Follows
<1>2. CASE Insert(r)
  <2> DEFINE e == seen[r].doc
  <2>1. Sellable(e) /\ e.from = 0 /\ prod' = Append(prod, e)
    BY <1>2 DEF Insert, SaleInv, WriterInv
  <2> HIDE DEF e
  <2>2. /\ DOMAIN prod = 1..Len(prod) /\ DOMAIN prod' = 1..(Len(prod) + 1) /\ Len(prod) \in Nat
        /\ \A p \in DOMAIN prod : prod'[p] = prod[p]
        /\ prod'[Len(prod) + 1] = e
    BY <2>1, OneAdded DEF SaleInv
  <2> QED BY <2>1, <2>2
<1>3. CASE ~(Write(r) \/ SaveProduct(r) \/ SetField(r) \/ SetPolicy(r) \/ Insert(r))
  <2>1. UNCHANGED prod
    BY <1>3
    DEF ProductStep, Publish, Pause, Unpublish, Ask, Confirm, Report, Disable, Remove, SetRules, Recategorise,
        Edit, Review, Create, Plans, catalogueVars
  <2> QED BY <2>1
<1> QED BY <1>1, <1>2, <1>3

LEMMA NextCapture ==
  ASSUME CaptureInv, [Next]_vars
  PROVE  CaptureInv' /\ \A s \in Subs : Handled(sub[s], sub'[s])
<1>1. SaleInv /\ SaleInv' BY NextSale DEF CaptureInv
<1>2. ASSUME UNCHANGED <<does, sub, pc, seen>>, SameProducts
      PROVE  CaptureInv' /\ \A s \in Subs : Handled(sub[s], sub'[s])
  <2>1. \A r \in Requests : AssociateInv(r)' BY <1>2 DEF CaptureInv, AssociateInv
  <2> QED BY <1>1, <1>2, <2>1, CapturesKept DEF CaptureInv, SameProducts, Follows
<1>3. CASE UNCHANGED vars
  <2>1. UNCHANGED <<does, sub, pc, seen, prod>> BY <1>3 DEF vars, catalogueVars
  <2>2. SameProducts BY <2>1 DEF SameProducts, Follows
  <2> QED BY <1>2, <2>1, <2>2
<1>4. CASE Next
  <2>1. RequestsDomain /\ UNCHANGED does BY <1>1, <1>4, NextParts DEF SaleInv
  <2>2. CASE Job \/ \E p \in DOMAIN prod : TimePasses(p)
    <3>1. UNCHANGED <<does, sub, pc, seen>> BY <2>1, <2>2, JobMoves
    <3>2. SameProducts BY <1>1, <2>2, JobSale
    <3> QED BY <1>2, <3>1, <3>2
  <2>3. ASSUME NEW r \in Requests, ToggleMarket(r) \/ CategoryStep(r) \/ VendorStep(r)
        PROVE  CaptureInv' /\ \A s \in Subs : Handled(sub[s], sub'[s])
    <3>1. \E steps : Moves(r, steps) /\ UNCHANGED <<sub, prod>> /\ steps \cap SubmissionSteps = {}
      <4>1. /\ {"done"} \cap SubmissionSteps = {} /\ (TreeSteps \cup {"name", "done"}) \cap SubmissionSteps = {}
            /\ (OtherSteps \cup {"done"}) \cap SubmissionSteps = {}
        BY DEF TreeSteps, OtherSteps, SubmissionSteps
      <4> QED BY <2>1, <2>3, <4>1, MarketMoves, CategoryMoves, VendorMoves
    <3>2. AssociateInv(r)' BY <3>1 DEF AssociateInv, Moves, SubmissionSteps
    <3> QED BY <1>1, <3>1, <3>2, CaptureRead
  <2>4. ASSUME NEW r \in Requests, ProductStep(r)
        PROVE  CaptureInv' /\ \A s \in Subs : Handled(sub[s], sub'[s])
    <3>1. Moves(r, ProductSteps \cup {"done"}) /\ UNCHANGED sub BY <2>1, <2>4, ProductMoves
    <3>2. AssociateInv(r)' BY <3>1 DEF AssociateInv, Moves, ProductSteps
    <3>3. /\ sub' \in [Subs -> CaptureRecords] /\ ProducedInv'
          /\ \A s \in Subs : Handled(sub[s], sub'[s])
      BY <1>1, <2>1, <2>4, <3>1, ProductsFrom, CapturesKept
    <3> QED BY <1>1, <3>1, <3>2, <3>3, AssociatesGoOn DEF CaptureInv
  <2>5. ASSUME NEW r \in Requests, SubmissionStep(r)
        PROVE  CaptureInv' /\ \A s \in Subs : Handled(sub[s], sub'[s])
    BY <1>1, <2>1, <2>5, CaptureReads, CaptureWrites, ApproveCapture DEF SubmissionStep
  <2> QED BY <1>4, <2>2, <2>3, <2>4, <2>5, NextParts
<1> QED BY <1>3, <1>4

\* Nothing is decided on what is not so any more: a product's answer and its deadlines, and a
\* submission, which stays what it was handed in as and is decided once, by the one product there is
\* of it (the filters of the updates, the transaction of an approval and its unique index).
THEOREM SupplyWrittenAsRead == Spec => WrittenAsRead
<1>1. Init => CaptureInv BY InitCapture
<1>2. CaptureInv /\ [Next]_vars => CaptureInv' BY NextCapture
<1>3. CaptureInv /\ [Next]_vars
       => [\A s \in Subs : sub[s].status \in Kept /\ sub'[s].status \in Kept
             => sub'[s].images = sub[s].images]_sub
  BY NextCapture DEF Handled, Kept
<1>4. CaptureInv /\ [Next]_vars
       => [/\ \A s \in Subs : sub[s].status \in {"approved", "rejected"} => sub'[s].status = sub[s].status
           /\ \A s \in Subs : (sub'[s].status = "approved") <=> \E p \in DOMAIN prod' : prod'[p].from = s
           /\ \A p \in DOMAIN prod' : prod'[p].from # 0 => sub'[prod'[p].from].product = p]_<<sub, prod>>
  <2> SUFFICES ASSUME CaptureInv, [Next]_vars
               PROVE  /\ \A s \in Subs : sub[s].status \in {"approved", "rejected"} => sub'[s].status = sub[s].status
                      /\ \A s \in Subs :
                           (sub'[s].status = "approved") <=> \E p \in DOMAIN prod' : prod'[p].from = s
                      /\ \A p \in DOMAIN prod' : prod'[p].from # 0 => sub'[prod'[p].from].product = p
    OBVIOUS
  <2>1. ProducedInv' /\ \A s \in Subs : Handled(sub[s], sub'[s]) BY NextCapture DEF CaptureInv
  <2>2. \A s \in Subs : sub[s].status \in {"approved", "rejected"} => sub'[s].status = sub[s].status
    BY <2>1 DEF Handled
  <2> QED BY <2>1, <2>2 DEF ProducedInv
<1>5. Spec => SubmittedIsFrozen BY <1>1, <1>2, <1>3, PTL DEF Spec, SubmittedIsFrozen
<1>6. Spec => DecidedOnce BY <1>1, <1>2, <1>4, PTL DEF Spec, DecidedOnce
<1> QED BY <1>5, <1>6, SupplyAnswersItsRead DEF WrittenAsRead
=============================================================================
