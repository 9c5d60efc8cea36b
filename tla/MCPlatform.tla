----------------------------- MODULE MCPlatform -----------------------------
(***************************************************************************)
(* The components around the order in one run: part says which of them the *)
(* behaviour is about, and the variables of the others hold <<>>. Those of *)
(* Idempotency, which Backbone extends, are in their initial state where the*)
(* behaviour is about another part.                                        *)
(***************************************************************************)
EXTENDS Backbone, Storefront, Operations, TLC

CONSTANTS a1, a2, a3, a4
VARIABLES part

-----------------------------------------------------------------------------
(* Keys of one actor: one of the attempts carries another request.          *)
OneDiffers == (a1 :> "body") @@ (a2 :> "body") @@ (a3 :> "body") @@ (a4 :> "other")

-----------------------------------------------------------------------------
(* Two lookups of one process each.                                         *)
OnePerNode == [k \in Lookups |-> IF k = 1 THEN "a" ELSE "b"]

(* A member of the staff whose role and status two administrators change.   *)
TwoPermissions == {<<"orders", "edit">>, <<"runners", "assign">>}

(* What a notice is about has a group, and a session its customer.          *)
AboutGroup == [k \in Engagement |-> IF k = "cart" THEN "reminders" ELSE "discovery"]
OneOther == [s \in Sessions |-> IF s = "s3" THEN "other" ELSE "me"]

-----------------------------------------------------------------------------
(* Four persons, 3 and 4 partners; 2 has the market m1 of the state s1 and  *)
(* is primary there, and 3 runs a counter.                                  *)
Employed == {2, 3}
Staff(held) ==
  [ profile |-> [p \in 1..4 |-> IF p \in Employed THEN "active" ELSE "none"],
    account |-> [p \in 1..4 |-> IF p \in Employed THEN [status |-> "active", password |-> TRUE] ELSE Field!NoAccount],
    home |-> [p \in 1..4 |-> IF p \in Employed THEN {"s1", "s2"} ELSE {}],
    assign |-> [a \in {<<0, 2>>} |-> [who |-> 2, market |-> "m1", status |-> "active", primary |-> TRUE]],
    custody |-> [p \in {3, 4} |-> [partnerId |-> Field!PublicId(p), status |-> IF p = held THEN "IN_CUSTODY" ELSE "none"]] ]
Staffs(op, who, to, primary, password) == [op |-> op, who |-> who, to |-> to, primary |-> primary, password |-> password]
Person(op, who) == Staffs(op, who, <<>>, FALSE, FALSE)
Hires(markets, password) == Staffs("create", 1, markets, TRUE, password)
Sends(who, m) == Staffs("assign", who, <<m>>, TRUE, FALSE)
Buys(m) == Staffs("order", 2, <<m>>, FALSE, FALSE)
Edits(op) == Staffs(op, 2, <<0, 2>>, FALSE, FALSE)
FieldPlans ==
  { <<Person("create", 4), Person("cancel", 4), Person("accept", 4)>>,
    <<Sends(2, "m2"), Sends(2, "m4"), Person("suspend", 3)>>, <<Sends(2, "m2"), Sends(2, "m2"), Buys("m2")>>,
    <<Staffs("move", 2, {"s2"}, FALSE, FALSE), Sends(2, "m3"), Buys("m1")>>,
    <<Hires(<<"m1", "m1">>, FALSE), Sends(1, "m1"), Person("accept", 1)>>,
    <<Hires(<<"m1", "m2">>, FALSE), Person("cancel", 1), Person("accept", 1)>>,
    <<Hires(<<"m1", "m1">>, TRUE), Sends(1, "m2"), Person("accept", 1)>>,
    <<Hires(<<"m1">>, FALSE), Hires(<<"m1">>, FALSE), Person("accept", 1)>>,
    <<Hires(<<"m1">>, FALSE), Hires(<<"m1">>, FALSE), Person("archive", 1)>>,
    <<Hires(<<"m1">>, FALSE), Person("archive", 3), Person("cancel", 1)>>,
    <<Person("archive", 2), Buys("m1"), Sends(2, "m1")>>, <<Person("archive", 2), Buys("m1"), Person("delete", 2)>>,
    <<Person("suspend", 2), Edits("repoint"), Person("reinstate", 2)>>,
    <<Buys("m2"), Sends(2, "m2"), Person("reassign", 2)>>, <<Edits("end"), Edits("activate"), Sends(2, "m2")>>,
    <<Person("reinstate", 3), Edits("pause"), Person("restore", 3)>>,
    <<Person("archive", 3), Person("restore", 3), Person("delete", 3)>> }

-----------------------------------------------------------------------------
(* Two states with a city and a hub each, and a market and an address in    *)
(* the first; three requests, which overlap.                                *)
Served ==
  [ state |-> [s \in {"s1", "s2"} |-> [status |-> "active", operations |-> TRUE, delivery |-> TRUE]],
    city |-> [c \in {"c1", "c2", "c3"} |->
      IF c = "c3" THEN Network!NoCity ELSE [state |-> IF c = "c1" THEN "s1" ELSE "s2", status |-> "active"]],
    hub |-> [h \in {"h1", "h2", "h3"} |->
      CASE h = "h1" -> [state |-> "s1", city |-> "c1", markets |-> {"m1"}, status |-> "active"]
        [] h = "h2" -> [state |-> "s2", city |-> "c2", markets |-> {}, status |-> "active"]
        [] OTHER -> Network!NoHub],
    market |-> [m \in {"m1", "m2"} |->
      IF m = "m1" THEN [state |-> "s1", city |-> "c1", hub |-> "h1", status |-> "active"] ELSE Network!NoMarket],
    address |-> [a \in {"a1", "a2"} |->
      IF a = "a1" THEN [state |-> "s1", city |-> "c1", area |-> "n1", default |-> TRUE, status |-> "active"]
                  ELSE Network!NoAddress],
    area |-> {[state |-> "s1", name |-> "n1", status |-> "active"], [state |-> "s2", name |-> "n2", status |-> "active"]},
    catalog |-> [s \in {"s1", "s2"} |-> IF s = "s1" THEN {"n2", "n3"} ELSE {"n2"}] ]
Site(op, on, to) == [op |-> op, on |-> on, to |-> to]
Puts(m, to) == Site("market", m, to)
Lives(a, to) == Site("address", a, to)
Stops(on) == Site("status", on, [status |-> "inactive"])
Second == [state |-> "s2", city |-> "c2"]
Book ==
  << Lives("a1", [default |-> TRUE]), Lives("a1", [default |-> FALSE]), Lives("a1", [state |-> "s2", city |-> "c2", area |-> "n2"]),
    Lives("a2", [state |-> "s1", city |-> "none", area |-> "n1", default |-> TRUE]), Lives("a2", [state |-> "s1", area |-> "n1"]),
    Site("setDefault", "a1", <<>>), Site("setDefault", "a2", <<>>), Site("archive", "a1", <<>>), Site("archive", "a2", <<>>) >>
Ground ==
  << Site("city", "c1", [state |-> "s2"]), Site("city", "c3", [state |-> "s1"]), Site("hub", "h1", [state |-> "s2", city |-> "c2", markets |-> {}]),
    Site("hub", "h3", [state |-> "s1", city |-> "c1"]), Site("assignHubMarkets", "h1", [markets |-> {"m1", "m2"}]),
    Site("assignMarketHub", "m1", [hub |-> "h2"]), Site("assignMarketHub", "m2", [hub |-> "h1"]), Puts("m1", [state |-> "s2", city |-> "c2", hub |-> "h2"]),
    Puts("m1", [city |-> "c1"]), Puts("m2", [state |-> "s1", city |-> "c1", hub |-> "h1"]), Puts("m2", Second) >>
Around ==
  << Site("delivery", "s1", [delivery |-> FALSE]), Site("refresh", "s1", <<>>), Site("state", "s2", [status |-> "inactive"]),
    Site("state", "s1", [operations |-> FALSE]), Stops("m1"), Stops("h1"), Stops("c1") >>
Ascending(n) == {t \in (1..n) \X (1..n) \X (1..n) : t[1] <= t[2] /\ t[2] <= t[3]}
NetworkPlans ==
  LET threeOf(s) == {<<s[t[1]], s[t[2]], s[t[3]]>> : t \in Ascending(Len(s))} IN
  threeOf(Book \o Around) \cup threeOf(Ground \o Around)
    \cup {<<Book[i], Ground[1], Ground[j]>> : i \in 1..9, j \in 1..11}

-----------------------------------------------------------------------------
(* A basket of three groups, priced under two requests of administrators or *)
(* of the customer.                                                         *)
Coupons ==
  { [kind |-> "percentage", value |-> 15, cap |-> 3, status |-> "active", minimum |-> 10],
    [kind |-> "fixed", value |-> 4, cap |-> 9, status |-> "active", minimum |-> 0],
    [kind |-> "fixed", value |-> 22, cap |-> 9, status |-> "active", minimum |-> 0],
    [kind |-> "free_delivery", value |-> 0, cap |-> 9, status |-> "active", minimum |-> 0] }
Wish(method, withCoupon, withCredits) ==
  [method |-> method, coupon |-> withCoupon, credits |-> withCredits, policies |-> 1, address |-> "p1"]
Wishes == {Wish("PREPAID", TRUE, TRUE), Wish("PREPAID", FALSE, FALSE), Wish("PAY_AT_HANDOVER", TRUE, FALSE)}
Priced(stateFee, first, c, w) ==
  [ settings |-> [fee |-> 5, vat |-> 10, surcharge |-> 2, minimum |-> 10, pod |-> TRUE, podMinimum |-> 6, policies |-> 1],
    place |-> [p \in {"p1", "p2"} |-> [fee |-> IF p = "p1" THEN stateFee ELSE 4, pod |-> TRUE, delivers |-> TRUE]],
    rule |-> [r \in 1..2 |-> IF r = 1 THEN first ELSE Costs!NoRule],
    coupon |-> c, balance |-> [amount |-> 6, percent |-> 20],
    basket |-> <<12, 7, 4>>, wish |-> w ]
Global == [scope |-> "global", fee |-> 4, status |-> "active", version |-> 2]
PriceStarts ==
  {Priced(Costs!Free, k, c, w) : k \in {Costs!NoRule, Global}, c \in Coupons, w \in Wishes}
    \cup {Priced(4, Costs!NoRule, c, w) : c \in Coupons, w \in Wishes}
Sets(op, on, to) == [op |-> op, on |-> on, to |-> to]
PricePlans ==
  { <<Sets("default", 0, [fee |-> 4]), Sets("settings", 0, [vat |-> 20, surcharge |-> 3])>>,
    <<Sets("default", 0, [fee |-> 6]), Sets("coupon", 0, [kind |-> "free_delivery", value |-> 0])>>,
    <<Sets("settings", 0, [pod |-> FALSE, minimum |-> 30]), Sets("place", "p1", [fee |-> 5])>>,
    <<Sets("settings", 0, [policies |-> 2]), Sets("coupon", 0, [kind |-> "fixed", value |-> 5])>>,
    <<Sets("rule", 1, [scope |-> "p1", fee |-> 3, status |-> "active"]), Sets("rule", 2, [scope |-> "global", fee |-> 7, status |-> "active"])>>,
    <<Sets("rule", 1, [scope |-> "global", fee |-> 3, status |-> "active"]), Sets("rule", 1, [scope |-> "global", fee |-> 9])>>,
    <<Sets("address", 0, [address |-> "p2"]), Sets("balance", 0, [amount |-> 3])>>,
    <<Sets("place", "p1", [delivers |-> FALSE]), Sets("coupon", 0, [status |-> "paused"])>>,
    <<Sets("balance", 0, [amount |-> 9]), Sets("balance", 0, [percent |-> 10])>> }

-----------------------------------------------------------------------------
(* Four visits of one email and its referrer; joined: it is on the waitlist.*)
Visit(op) == Doors!Ask(op, 0, 0)
With(op, on, ref) == Doors!Ask(op, on, ref)
DoorPlans ==
  { <<Visit("start"), With("verify", 1, 1), With("complete", 1, 0), Visit("google")>>,
    <<Visit("start"), With("resend", 1, 0), With("verify", 1, 2), Visit("start")>>,
    <<Visit("start"), With("verify", 1, 1), With("complete", 1, 0), With("gift", 2, 0)>>,
    <<Visit("register"), With("otp", 0, 1), With("otp", 0, 1), With("gift", 2, 0)>>,
    <<Visit("partner"), Visit("apple"), With("admin", 1, 0), With("admin", 1, 0)>>,
    <<Visit("partner"), With("admin", 1, 0), Visit("topup"), Visit("create")>>,
    <<Visit("register"), With("otp", 0, 1), Visit("topup"), Visit("google")>>,
    <<Visit("register"), Visit("forgot"), With("reset", 0, 2), With("otp", 0, 1)>>,
    <<Visit("partner"), Visit("forgot"), With("reset", 0, 2), Visit("apple")>>,
    <<Visit("mint"), With("apple", 0, 1), With("pay", 1, 0), With("redeliver", 1, 0)>>,
    <<Visit("mint"), With("apple", 0, 1), With("pay", 1, 0), With("pay", 2, 0)>>,
    <<Visit("mint"), Visit("mint"), Visit("google"), With("apple", 0, 2)>>,
    <<With("gift", 2, 0), Visit("apple"), Visit("google"), With("gift", 3, 0)>>,
    <<Visit("join"), With("gift", 2, 0), Visit("google"), Visit("remove")>>,
    <<Visit("join"), Visit("broadcast"), Visit("unsubscribe"), Visit("join")>> }

-----------------------------------------------------------------------------
(* An order of three items at the operators' desk, on review or approved.   *)
Rising == [i \in Items |-> i]
Desks(op) == Desk!Ask(op, 0)
Calls == Desk!Ask("call", "CONFIRMED")
Splits(parts) == Desk!Ask("split", parts)
ReviewPlans ==
  { <<Calls, Desks("override"), Desks("approve"), Desks("decline")>>,
    <<Calls, Desks("approve"), Desks("prepay"), Desk!Ask("call", "UNREACHABLE")>>,
    <<Calls, Desks("refuse"), Desks("restore"), Desks("approve")>>,
    <<Calls, Desks("approve"), Splits(<<{1}, {2, 3}>>), Splits(<<{1}, {2}, {3}>>)>>,
    <<Splits(<<{1}, {2, 3}>>), Splits(<<{1}, {2}>>), Desks("correct"), Desks("decline")>>,
    <<Desks("code"), Desks("code"), Desks("lock"), Desks("receive")>> }
ApprovedPlans ==
  { <<Desks("consolidate"), Desks("book"), Desk!Ask("switch", 1), Desk!Ask("switch", 2)>>,
    <<Desks("consolidate"), Desks("book"), Desk!Ask("switch", 1), Desks("pickup")>>,
    <<Desks("consolidate"), Desks("book"), Desks("correct"), Splits(<<{1}, {2, 3}>>)>> }

-----------------------------------------------------------------------------
(* What is told, over two processes: five notices, and fourteen changes     *)
(* with their effects.                                                      *)
Here(op, on) == Told!Ask(op, on, 1)
There(op, on) == Told!Ask(op, on, 2)
Changes == {"paid", "created", "refunded", "started", "unavailable", "asked", "failed", "passed",
            "agreed", "overdue", "digest", "status", "decided", "link"}
TellPlans ==
  { <<Here("consume", "order"), There("consume", "order"), Here("read", "order"), Here("receipts", 0)>>,
    <<Here("consume", "order"), There("consume", "order"), Here("clear", 0), Here("read_all", 0)>>,
    <<Here("scan", "pay"), There("scan", "pay"), Here("delete", "pay"), Here("scan", "pay")>>,
    <<Here("scan", "cart"), There("announce", "arrivals"), Here("prefer", <<"discovery", FALSE>>), There("prefer", <<"reminders", FALSE>>)>>,
    <<Here("broadcast", "news"), Here("subscribe", "web"), Here("unregister", {"t1"}), Here("receipts", 0)>>,
    <<Here("register", <<"t1", "s2">>), There("register", <<"t1", "s3">>), Here("consume", "order"), There("unregister", {"t1"})>>,
    <<Here("consume", "order"), Here("receipts", 0), There("register", <<"t1", "s2">>), Here("subscribe", "web")>>,
    <<Here("register", <<"t2", "s2">>), There("register", <<"t2", "s2">>), Here("revoke", {"s2"}), There("consume", "order")>>,
    <<Here("connect", "s2"), There("connect", "s2"), There("connect", "s1"), Here("revoke", {"s2", "s1"})>>,
    <<Here("boot", 0), There("boot", 0), Here("clear", 0), Here("clear", 0)>> }
  \cup {<<Here("work", w), Here("work", w), Here("clear", 0), Here("clear", 0)>> : w \in Changes}
Phones == {[t \in {"t1"} |-> "s1"], [t \in {"t1", "web"} |-> "s1"]}

-----------------------------------------------------------------------------
(* A customer's own basket and one of a partner for him, on two processes.  *)
Self(op, on, n) == Cart!Ask(op, "self", on, n, "a")
Elsewhere(op, on, n) == Cart!Ask(op, "self", on, n, "b")
Partner(op, on, n) == Cart!Ask(op, "partner", on, n, "b")
Idle == [Self("none", 0, 0) EXCEPT !.at = "done"]
InOrder == {"customer", "verified", "state", "partner"}
CartPlans ==
  { <<Partner("add", 1, 1), Partner("add", 1, 1), Cart!Ask("add", "partner", 1, 1, "a")>>,
    <<Self("add", 1, 2), Self("add", 1, 2), Idle>>,
    <<Self("add", 1, 1), Elsewhere("add_quoted", 1, 2), Self("preview", 0, 0)>>,
    <<Elsewhere("add_quoted", 1, 2), Self("update", 1, 1), Self("clear", {1}, 0)>>,
    <<Self("add", 1, 1), Self("update", 1, 2), Partner("get", 0, 0)>>,
    <<Self("add", 1, 1), Self("remove", 1, 0), Self("preview", 0, 0)>>,
    <<Partner("add", 1, 1), Partner("update", 1, 2), Partner("preview", 0, 0)>>,
    <<Partner("add", 1, 1), Partner("get", 0, 0), Self("get", 0, 0)>>,
    <<Partner("add_quoted", 1, 2), Partner("update", 1, 2), Partner("remove", 1, 0)>>,
    <<Self("add", 1, 1), Self("clear", {1}, 0), Elsewhere("repair", 0, 4)>>,
    <<Cart!Import(<<1>>, 1, "a"), Cart!Import(<<1>>, 1, "b"), Self("like", 1, 0)>>,
    <<Cart!Import(<<1, 2>>, 1, "a"), Self("preview", 0, 0), Self("unlike", 1, 0)>> }
CartVisits == {<<Self("add", 1, 1), Self("preview", 0, 0), Idle>>, <<Partner("add", 1, 1), Partner("preview", 0, 0), Idle>>}

-----------------------------------------------------------------------------
Parts == {"keys", "cache", "access", "walk", "field", "network", "prices", "doors", "desk", "notices", "cart"}
MCInit ==
  /\ part \in Parts
  /\ Init
  /\ IF part = "cache" THEN Cache!Init ELSE NoCache
  /\ IF part = "access" THEN Admission!Init ELSE NoAdmission
  /\ IF part = "walk" THEN Walk!Init ELSE NoWalk
  /\ IF part = "field" THEN \E p \in FieldPlans : Field!Init(p, Staff(0)) ELSE NoField
  /\ IF part = "network" THEN \E p \in NetworkPlans : Network!Init(Served, p) ELSE NoNetwork
  /\ IF part = "prices" THEN \E s \in PriceStarts, p \in PricePlans : Costs!Init(s, p) ELSE NoPrices
  /\ IF part = "doors" THEN \E p \in DoorPlans, joined \in BOOLEAN : Doors!Init(p, joined) ELSE NoDoors
  /\ IF part = "desk"
     THEN \/ \E p \in ReviewPlans, high \in BOOLEAN : Desk!Init(p, "review", high)
          \/ \E p \in ApprovedPlans : Desk!Init(p, "approved", FALSE)
     ELSE NoDesk
  /\ IF part = "notices" THEN \E p \in TellPlans, d \in Phones : Told!Init(p, d) ELSE NoTold
  /\ IF part = "cart"
     THEN \/ \E p \in CartPlans : Cart!Init(p, InOrder)
          \/ \E p \in CartVisits, x \in InOrder : Cart!Init(p, InOrder \ {x})
     ELSE NoCart

(* A step of the part, in which the others keep still.                      *)
OthersStay ==
  /\ UNCHANGED part
  /\ (part # "keys" => UNCHANGED vars)
  /\ (part # "cache" => UNCHANGED cacheVars)
  /\ (part # "access" => UNCHANGED accessVars)
  /\ (part # "walk" => UNCHANGED discoveryVars)
  /\ (part # "field" => UNCHANGED fieldVars)
  /\ (part # "network" => UNCHANGED networkVars)
  /\ (part # "prices" => UNCHANGED pricingVars)
  /\ (part # "doors" => UNCHANGED signVars)
  /\ (part # "desk" => UNCHANGED deskVars)
  /\ (part # "notices" => UNCHANGED noticesVars)
  /\ (part # "cart" => UNCHANGED basketVars)
MCNext ==
  \/ part = "keys" /\ Next /\ OthersStay
  \/ part = "cache" /\ Cache!Next /\ OthersStay
  \/ part = "access" /\ Admission!Next /\ OthersStay
  \/ part = "walk" /\ Walk!Next /\ OthersStay
  \/ part = "field" /\ Field!Next /\ OthersStay
  \/ part = "network" /\ Network!Next /\ OthersStay
  \/ part = "prices" /\ Costs!Next /\ OthersStay
  \/ part = "doors" /\ Doors!Next /\ OthersStay
  \/ part = "desk" /\ Desk!Next /\ OthersStay
  \/ part = "notices" /\ Told!Next /\ OthersStay
  \/ part = "cart" /\ Cart!Next /\ OthersStay
mcVars == <<part, vars, cacheVars, accessVars, discoveryVars, fieldVars, networkVars,
            pricingVars, signVars, deskVars, noticesVars, basketVars>>
MCSpec == MCInit /\ [][MCNext]_mcVars

(* A partner who holds a parcel for pickup is archived.                     *)
HolderArchived == <<Person("archive", 3), Person("none", 1), Person("none", 1)>>
CustodySpec ==
  /\ part = "field" /\ Init /\ Field!Init(HolderArchived, Staff(3))
  /\ NoCache /\ NoAdmission /\ NoWalk /\ NoNetwork /\ NoPrices /\ NoDoors /\ NoDesk /\ NoTold /\ NoCart
  /\ [][MCNext]_mcVars
=============================================================================
