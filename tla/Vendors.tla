------------------------------ MODULE Vendors ------------------------------
(***************************************************************************)
(* A vendor of the market (MarketVendorService): onboarded once with an     *)
(* invitation, invited again, accepting, changed by staff; and what the     *)
(* associate collects from it for a submission, paid and reconciled.        *)
(***************************************************************************)
EXTENDS Catalogue

VARIABLES
  vinv,  \* VendorInvitation, in the order of creation: pending, accepted, cancelled
  colls  \* VendorCollection with its VendorPaymentRecord: submission, paymentStatus, the record's status

vendorVars == <<vinv, colls>>
recordsBut == <<cat, prod, market, sub, media>>

(* onboardVendor: the check, then the transaction and its unique indexes    *)
Onboard(r) ==
  /\ Starts(r, "onboard") /\ vendor = "none" /\ market
  /\ Goto(r, "onboarding") /\ UNCHANGED <<catalogueVars, vendorVars, seen>>
OnboardWrite(r) ==
  /\ pc[r] = "onboarding"
  /\ IF vendor = "none" THEN vendor' = "pending" /\ vinv' = Append(vinv, "pending") ELSE UNCHANGED <<vendor, vinv>>
  /\ Done(r) /\ UNCHANGED <<recordsBut, colls>>

(* adminUpdateVendor *)
UpdateVendor(r, status) ==
  /\ Starts(r, "vendor_status") /\ vendor # "none" /\ vendor' = status
  /\ Done(r) /\ UNCHANGED <<recordsBut, vendorVars>>

(* issueInvitation: the pending ones are cancelled, then one is created     *)
Invite(r) ==
  /\ Starts(r, "invite") /\ vendor # "none"
  /\ vinv' = [k \in DOMAIN vinv |-> IF vinv[k] = "pending" THEN "cancelled" ELSE vinv[k]]
  /\ Goto(r, "inviting") /\ UNCHANGED <<catalogueVars, colls, seen>>
InviteCreate(r) ==
  /\ pc[r] = "inviting" /\ vinv' = Append(vinv, "pending")
  /\ Done(r) /\ UNCHANGED <<catalogueVars, colls>>

(* acceptInvitation: the link, the vendor, the invitation                   *)
AcceptLink(r, k) ==
  /\ Starts(r, "vendor_accept") /\ vinv[k] = "pending"
  /\ Reads(r, "accepting", k, Unseen.doc, {}) /\ UNCHANGED <<catalogueVars, vendorVars>>
AcceptVendor(r) ==
  /\ pc[r] = "accepting" /\ vendor' = "active"
  /\ Goto(r, "accepted") /\ UNCHANGED <<recordsBut, vendorVars, seen>>
AcceptInvitation(r) ==
  /\ pc[r] = "accepted" /\ vinv' = [vinv EXCEPT ![seen[r].ref] = "accepted"]
  /\ Done(r) /\ UNCHANGED <<catalogueVars, colls>>

(* recordCollection: the checks, then the records and their unique index    *)
IsCollected(s) == \E k \in DOMAIN colls : colls[k].sub = s
Collect(r, s, paid) ==
  /\ Starts(r, "collect") /\ sub[s].status # "unused" /\ market /\ VendorTakesPart /\ ~IsCollected(s)
  /\ Reads(r, "collecting", s, Unseen.doc, IF paid THEN {"paid"} ELSE {})
  /\ UNCHANGED <<catalogueVars, vendorVars>>
Collection(s, paid) ==
  [sub |-> s, status |-> IF paid THEN "recorded" ELSE "unpaid", payment |-> IF paid THEN "recorded" ELSE "none"]
CollectWrite(r) ==
  LET s == seen[r].ref IN
  /\ pc[r] = "collecting"
  /\ colls' = IF ~IsCollected(s) THEN Append(colls, Collection(s, seen[r].args # {})) ELSE colls
  /\ Done(r) /\ UNCHANGED <<catalogueVars, vinv>>

(* reconcileCollection, in a transaction                                    *)
Reconcile(r, k, status) ==
  /\ Starts(r, "reconcile") /\ colls[k].payment # "none"
  /\ colls' = [colls EXCEPT ![k].status = status, ![k].payment = status]
  /\ Done(r) /\ UNCHANGED <<catalogueVars, vinv>>

VendorStep(r) ==
  \/ Onboard(r) \/ OnboardWrite(r) \/ Invite(r) \/ InviteCreate(r)
  \/ (\E status \in {"active", "inactive", "blocked"} : UpdateVendor(r, status))
  \/ (\E k \in DOMAIN vinv : AcceptLink(r, k)) \/ AcceptVendor(r) \/ AcceptInvitation(r)
  \/ (\E s \in Subs, paid \in BOOLEAN : Collect(r, s, paid)) \/ CollectWrite(r)
  \/ \E k \in DOMAIN colls, status \in {"reconciled", "disputed"} : Reconcile(r, k, status)

-----------------------------------------------------------------------------
(* "so a vendor never ends up with two live tokens, whichever side          *)
(* triggered it" (market-vendor.service.ts, issueInvitation)                *)
OneLiveToken == \A k, m \in DOMAIN vinv : vinv[k] = "pending" /\ vinv[m] = "pending" => k = m

(* A vendor that staff blocked is not made active by a link sent before.    *)
BlockedStays ==
  [][vendor = "blocked" /\ vendor' = "active" => \E r \in Requests : does[r] = "vendor_status" /\ pc'[r] # pc[r]]_vendor
=============================================================================
