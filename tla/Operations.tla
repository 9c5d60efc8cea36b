----------------------------- MODULE Operations -----------------------------
(***************************************************************************)
(* What the staff of Hook work on: an order at the desk, the places and the*)
(* people in the field; and what the customer is told.                     *)
(* <<>> is the value of the variables of what a behaviour is not about.    *)
(***************************************************************************)
EXTENDS Integers, Sequences, FiniteSets

CONSTANTS
  DeskRequests, Items, Price, Fee, MaxRetries,                      \* of OrderDesk
  States, Cities, Hubs, Markets, Addresses, Placings,               \* of Network
  People, Partners, Staffing, Tasks,                                \* of FieldForce
  NoticeRequests, Keys, Engagement, Groups, GroupOf, Tokens, Browsers, Sessions, Customer, Cap,
  MaxLostNotes                                                      \* of Notices

VARIABLES
  deskOrder, overrides, eligible, groups, groupOf, parcel, shipment, pack, deskTold, decided, deskReq,
  state, city, hub, market, address, area, catalog, placing, crossed, uprooted,
  profile, crew, home, assign, fieldTask, custody, work,
  notice, buzzed, removed, wanted, history, device, greetings, works, tickets, live, locks,
  noticeDue, told, leftOut, noticeMailed, chains, noticeReq, noticeMishaps

-----------------------------------------------------------------------------
Desk == INSTANCE OrderDesk WITH Requests <- DeskRequests, order <- deskOrder, told <- deskTold, req <- deskReq
deskVars == <<deskOrder, overrides, eligible, groups, groupOf, parcel, shipment, pack, deskTold, decided,
  deskReq>>
NoDesk ==
  /\ deskOrder = <<>> /\ overrides = <<>> /\ eligible = <<>> /\ groups = <<>> /\ groupOf = <<>> /\ parcel = <<>>
  /\ shipment = <<>> /\ pack = <<>> /\ deskTold = <<>> /\ decided = <<>> /\ deskReq = <<>>

-----------------------------------------------------------------------------
Network == INSTANCE Network WITH Requests <- Placings, asked <- placing
networkVars == <<state, city, hub, market, address, area, catalog, placing, crossed, uprooted>>
NoNetwork ==
  /\ state = <<>> /\ city = <<>> /\ hub = <<>> /\ market = <<>>
  /\ address = <<>> /\ area = <<>> /\ catalog = <<>> /\ placing = <<>>
  /\ crossed = <<>> /\ uprooted = <<>>

-----------------------------------------------------------------------------
Field == INSTANCE FieldForce WITH account <- crew, task <- fieldTask
fieldVars == <<profile, crew, home, assign, fieldTask, custody, work>>
NoField ==
  /\ profile = <<>> /\ crew = <<>> /\ home = <<>> /\ assign = <<>>
  /\ fieldTask = <<>> /\ custody = <<>> /\ work = <<>>

-----------------------------------------------------------------------------
Told == INSTANCE Notices WITH Requests <- NoticeRequests, MaxMishaps <- MaxLostNotes,
  req <- noticeReq, due <- noticeDue, mishaps <- noticeMishaps, mailed <- noticeMailed
noticesVars == <<notice, buzzed, removed, wanted, history, device, greetings, works, tickets, live, locks,
  noticeDue, told, leftOut, noticeMailed, chains, noticeReq, noticeMishaps>>
NoTold ==
  /\ notice = <<>> /\ buzzed = <<>> /\ removed = <<>> /\ wanted = <<>> /\ history = <<>> /\ device = <<>>
  /\ greetings = <<>> /\ works = <<>> /\ tickets = <<>> /\ live = <<>> /\ locks = <<>> /\ noticeDue = <<>>
  /\ told = <<>> /\ leftOut = <<>> /\ noticeMailed = <<>> /\ chains = <<>> /\ noticeReq = <<>> /\ noticeMishaps = <<>>

-----------------------------------------------------------------------------
(* Operators beside each other leave every item in one delivery, decide an  *)
(* order once, and tell codes that open (order-split, pod, fulfilment).     *)
DeskHolds == deskReq # <<>> => Desk!ItemsInOneGroup /\ Desk!DecidedByOne /\ Desk!ToldCodeOpens

(* Markets, hubs and addresses are where they say, and one address at most  *)
(* is the default, but for what two requests at work on one of them leave   *)
(* behind (platform.controller.ts, address.service.ts).                     *)
PlacesHold == placing # <<>> => Network!PlacesAgree /\ Network!OneDefault

(* One primary market of a state, through every change of assignments; and  *)
(* nothing is left of a creation that failed (makeAssignment and            *)
(* createMarketAssociate of platform.controller.ts).                        *)
StaffingHolds == work # <<>> => Field!PrimaryIsReplaced /\ Field!FailedCreateLeavesNothing

(* "Refused while a custody handover is still open, since that would strand *)
(* it" (platform.controller.ts:1342): it is not refused.                    *)
CustodyIsNotStranded == work # <<>> => Field!CustodyIsNotStranded

(* Everyone who must hear of a change does, and his phone buzzes once       *)
(* (commerce-notification.service.ts, the outbox's handlers).               *)
ToldOnce == noticeReq # <<>> => Told!BuzzedOnce /\ Told!CompletedIsTold
=============================================================================
