--------------------------- MODULE SupplySystem ---------------------------
(***************************************************************************)
(* The supply side: the tree, the products on it, the submissions they come *)
(* from and the vendor behind them, whatever the requests are.              *)
(***************************************************************************)
EXTENDS Products, Submissions, Vendors

vars == <<does, catalogueVars, charge, job, vendorVars, pc, seen, raced>>

Top(active) == [state |-> "kept", active |-> active, parent |-> 0]
Unused == [state |-> "unused", active |-> FALSE, parent |-> 0]
Leaf == CHOOSE c \in Cats : \A k \in Cats : c <= k
Uploads == [i \in Images |-> [state |-> "ready", owner |-> <<"nobody", 0>>]]
NoSubmission == [status |-> "unused", version |-> 0, images |-> {}, product |-> 0]
Captured(status, images, p) == [status |-> status, version |-> 1, images |-> images, product |-> p]
Operations ==
  EditsTree \cup Versioned \cup SavesWhole \cup DOMAIN Decisions
    \cup {"managers", "market", "remove", "recategorise", "create", "policy",
          "sub_create", "sub_update", "submit", "start_review", "approve",
          "nothing", "onboard", "vendor_status", "invite", "vendor_accept", "collect", "reconcile"}

(* A market with one category, and nothing in it; a draft with an image; or *)
(* a product on sale that was approved from such a draft.                   *)
Empty == prod = <<>> /\ sub = [s \in Subs |-> NoSubmission] /\ media = Uploads
Drafted(s, i) ==
  /\ prod = <<>> /\ sub = [x \in Subs |-> IF x = s THEN Captured("draft", {i}, 0) ELSE NoSubmission]
  /\ media = [Uploads EXCEPT ![i].owner = <<"submission", s>>]
Sold(s, i) ==
  /\ prod = <<With([New(Leaf, 2) EXCEPT !.from = s, !.images = {i}], OnSale)>>
  /\ sub = [x \in Subs |-> IF x = s THEN Captured("approved", {i}, 1) ELSE NoSubmission]
  /\ media = [Uploads EXCEPT ![i].owner = <<"product", 1>>]
Init ==
  /\ does \in [Requests -> Operations]
  /\ cat = [c \in Cats |-> IF c = Leaf THEN Top(TRUE) ELSE Unused]
  /\ charge = [c \in Cats |-> {}] /\ market = TRUE
  /\ Empty \/ \E s \in Subs, i \in Images : Drafted(s, i) \/ Sold(s, i)
  /\ vendor \in {"none", "pending"} /\ vinv = IF vendor = "none" THEN <<>> ELSE <<"pending">>
  /\ colls = <<>> /\ job = Idle
  /\ pc = [r \in Requests |-> "ready"] /\ seen = [r \in Requests |-> Unseen] /\ raced = {}

Next ==
  \/ \E r \in Requests :
       \/ CategoryStep(r) /\ UNCHANGED <<does, job, vendorVars>> /\ raced' = raced \cup AtOdds'
       \/ ToggleMarket(r) /\ UNCHANGED <<does, charge, job, vendorVars, raced>>
       \/ SubmissionStep(r) /\ UNCHANGED <<does, charge, job, vendorVars, raced>>
       \/ VendorStep(r) /\ UNCHANGED <<does, charge, job, raced>>
  \/ ProductNext /\ UNCHANGED <<does, charge, vendorVars, raced>>

(* The job of the deadlines runs every minute and goes through its lists.   *)
Fairness == WF_vars(Job /\ UNCHANGED <<charge, vendorVars, raced>>)
Spec == Init /\ [][Next]_vars /\ Fairness

(* Nothing is decided on what is not so any more: a product's answer and    *)
(* its deadlines, and a submission, which stays what it was handed in as    *)
(* and is decided once.                                                     *)
WrittenAsRead == AnswersItsRead /\ SubmittedIsFrozen /\ DecidedOnce

-----------------------------------------------------------------------------
s1 == 1
i1 == 1

(* What meets on the tree, on a product on sale, on submissions with their  *)
(* images, and on a vendor.                                                 *)
OnTheTree ==
  { <<"cat_create", "cat_create", "cat_move", "cat_remove", "create">>,
    <<"cat_create", "cat_create", "cat_toggle", "cat_move", "cat_move">>,
    <<"cat_create", "cat_create", "cat_toggle", "create", "recategorise">>,
    <<"managers", "managers", "cat_create", "cat_remove", "nothing">> }
OnTheProduct ==
  { <<"ask", "confirm", "confirm", "report", "ask">>, <<"ask", "confirm", "unpublish", "publish", "policy">>,
    <<"ask", "report", "pause", "publish", "nothing">>, <<"ask", "confirm", "disable", "remove", "publish">>,
    <<"ask", "confirm", "edit", "nothing", "nothing">>, <<"rules", "edit", "nothing", "nothing", "nothing">>, <<"ask", "confirm", "review", "nothing", "nothing">>,
    <<"sub_create", "sub_update", "submit", "start_review", "reject">> }
OnTheSubmission ==
  { <<"sub_update", "submit", "start_review", "approve", "collect">>,
    <<"submit", "start_review", "reject", "approve", "collect">>,
    <<"submit", "start_review", "approve", "ask_changes", "sub_update">>,
    <<"sub_create", "sub_create", "submit", "start_review", "approve">>,
    <<"submit", "start_review", "ask_changes", "submit", "start_review">>,
    <<"submit", "start_review", "approve", "publish", "market">>, <<"submit", "start_review", "approve", "approve", "collect">> }
OnTheVendor ==
  { <<"onboard", "onboard", "invite", "vendor_accept", "vendor_status">>,
    <<"invite", "vendor_accept", "vendor_status", "invite", "sub_create">>,
    <<"collect", "collect", "reconcile", "market", "vendor_status">> }
MCInit ==
  /\ \/ does \in OnTheTree /\ Empty
     \/ does \in OnTheProduct /\ Sold(s1, i1)
     \/ does \in OnTheSubmission /\ Drafted(s1, i1)
     \/ does \in OnTheVendor /\ Drafted(s1, i1)
  /\ vendor = IF does[1] = "onboard" THEN "none" ELSE "pending"
  /\ Init
MCSpec == MCInit /\ [][Next]_vars /\ Fairness
=============================================================================
