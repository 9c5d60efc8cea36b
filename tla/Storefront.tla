----------------------------- MODULE Storefront -----------------------------
(***************************************************************************)
(* What a customer meets before the order: the door by which he comes in   *)
(* and what he is granted there, the products he walks through, the basket,*)
(* and what an order costs.                                                *)
(* <<>> is the value of the variables of what a behaviour is not about.    *)
(***************************************************************************)
EXTENDS Integers, Sequences, FiniteSets

CONSTANTS
  Visits, MaxMishaps,                    \* of SignUp
  Shelf, Worths, PageSize, MaxRevisions, \* of Discovery
  Places, Rules, Sources, Repricings,    \* of Pricing
  CartRequests, CartNodes, Products, Carts, Agreed, QuoteQty, Batch, MaxQty, MaxMoves \* of Basket

VARIABLES
  account, sessions, code, entry, ledger, referral, rcode, shown, paid, mailed, visit, mishaps,
  items, pages, walk, updates, stayed,
  cart, line, summing, product, quoteLive, standing, reserved, pool, year, likes, imports,
  preview, cartReq, moves,
  settings, cached, place, rule, coupon, balance, basket, wish, costed, order, priced, asked

-----------------------------------------------------------------------------
Doors == INSTANCE SignUp
signVars == <<account, sessions, code, entry, ledger, referral, rcode, shown, paid, mailed, visit, mishaps>>
NoDoors ==
  /\ account = <<>> /\ sessions = <<>> /\ code = <<>> /\ entry = <<>> /\ ledger = <<>> /\ referral = <<>>
  /\ rcode = <<>> /\ shown = <<>> /\ paid = <<>> /\ mailed = <<>> /\ visit = <<>> /\ mishaps = <<>>

-----------------------------------------------------------------------------
Walk == INSTANCE Discovery WITH
  Items <- Shelf, Values <- Worths, Limit <- PageSize, MaxUpdates <- MaxRevisions, cached <- pages
discoveryVars == <<items, pages, walk, updates, stayed>>
NoWalk == items = <<>> /\ pages = <<>> /\ walk = <<>> /\ updates = <<>> /\ stayed = <<>>

-----------------------------------------------------------------------------
Cart == INSTANCE Basket WITH Requests <- CartRequests, Nodes <- CartNodes, req <- cartReq, counter <- reserved
basketVars == <<cart, line, product, quoteLive, standing, reserved, pool, year, summing, likes, imports,
  preview, cartReq, moves>>
NoCart ==
  /\ cart = <<>> /\ line = <<>> /\ product = <<>> /\ quoteLive = <<>> /\ standing = <<>>
  /\ reserved = <<>> /\ pool = <<>> /\ year = <<>> /\ summing = <<>> /\ likes = <<>>
  /\ imports = <<>> /\ preview = <<>> /\ cartReq = <<>> /\ moves = <<>>

-----------------------------------------------------------------------------
Costs == INSTANCE Pricing WITH Requests <- Repricings, quote <- costed
pricingVars == <<settings, cached, place, rule, coupon, balance, basket, wish, costed, order, priced, asked>>
NoPrices ==
  /\ settings = <<>> /\ cached = <<>> /\ place = <<>> /\ rule = <<>> /\ coupon = <<>> /\ balance = <<>>
  /\ basket = <<>> /\ wish = <<>> /\ costed = <<>> /\ order = <<>> /\ priced = <<>> /\ asked = <<>>

-----------------------------------------------------------------------------
(* Whoever comes in by any door has the welcome once, and gift and bonus at *)
(* most once (welcome-bonus, waitlist and referral services).               *)
WelcomedOnce == visit # <<>> => Doors!GrantedOnce /\ Doors!EveryDoorWelcomes

(* A walk with cursors shows a product that stayed once, whatever is cached *)
(* (public-catalog.controller.ts's cursor).                                 *)
WalkedOnce == walk # <<>> => Walk!ShownOnce

(* No identifier is given twice, and a preview that can be confirmed is of  *)
(* the lines of the cart (public-id.service.ts, cart.service.ts).           *)
CartHolds == cartReq # <<>> => Cart!GivenOnce /\ Cart!ConfirmableIsCurrent

(* What is paid is what was quoted, at the fee in force, whatever was       *)
(* changed between preview and confirmation (checkout.service.ts:628-700).  *)
QuoteIsKept == asked # <<>> => Costs!AskedIsQuoted /\ Costs!FeeIsInForce
=============================================================================
