---------------------------- MODULE Submissions ----------------------------
(***************************************************************************)
(* A market associate's capture of a product: written, submitted, reviewed  *)
(* and decided (CatalogService, CatalogReviewService).  Every write names   *)
(* the version that was read; the images are claimed after the submission   *)
(* is written, and released, or handed to the product, with the decision.   *)
(***************************************************************************)
EXTENDS Catalogue

Associate == market /\ VendorTakesPart
Editable == {"draft", "changes_requested"}
Kept == {"submitted", "in_review"}
Ours(s, i) == media[i].owner = <<"submission", s>>
Free(i) == media[i].owner = <<"nobody", 0>>

(* create: the record, then the images                                      *)
CreateSubmission(r, images) ==
  /\ Starts(r, "sub_create") /\ Associate
  /\ Reads(r, "sub_insert", 0, Unseen.doc, images) /\ UNCHANGED catalogueVars
InsertSubmission(r, s) ==
  /\ pc[r] = "sub_insert" /\ sub[s].status = "unused"
  /\ sub' = [sub EXCEPT ![s] = [status |-> "draft", version |-> 1, images |-> seen[r].args, product |-> 0]]
  /\ Reads(r, "claim", s, Unseen.doc, seen[r].args) /\ UNCHANGED <<cat, prod, market, media, vendor>>

UpdateSubmission(r, s, images) ==
  /\ Starts(r, "sub_update") /\ sub[s].status \in Editable /\ Associate
  /\ Reads(r, "sub_write", s, [version |-> sub[s].version], images) /\ UNCHANGED catalogueVars
WriteSubmission(r) ==
  LET s == seen[r].ref IN
  /\ pc[r] = "sub_write"
  /\ IF sub[s].version = seen[r].doc.version
       THEN /\ sub' = [sub EXCEPT ![s].images = seen[r].args, ![s].version = @ + 1]
            /\ Goto(r, "claim") /\ UNCHANGED seen
       ELSE Done(r) /\ UNCHANGED sub
  /\ UNCHANGED <<cat, prod, market, media, vendor>>

(* claimMedia: every image is ready and nobody else's, or the request fails *)
ClaimRead(r) ==
  LET s == seen[r].ref IN
  /\ pc[r] = "claim"
  /\ IF \A i \in seen[r].args : media[i].state = "ready" /\ (Free(i) \/ Ours(s, i))
       THEN Goto(r, "own") /\ UNCHANGED seen ELSE Done(r)
  /\ UNCHANGED catalogueVars
Owns(s, images) ==
  [i \in Images |-> IF i \in images /\ Free(i) THEN [media[i] EXCEPT !.owner = <<"submission", s>>] ELSE media[i]]
Own(r) ==
  /\ pc[r] = "own" /\ media' = Owns(seen[r].ref, seen[r].args)
  /\ Done(r) /\ UNCHANGED <<cat, prod, market, sub, vendor>>

(* submit: enough of the images it lists are its own; here, one             *)
Ready(s) == \E i \in sub[s].images : media[i].state = "ready" /\ Ours(s, i)
Submit(r, s) ==
  /\ Starts(r, "submit") /\ sub[s].status \in Editable /\ market /\ Ready(s)
  /\ Reads(r, "submitting", s, [version |-> sub[s].version, status |-> sub[s].status], {})
  /\ UNCHANGED catalogueVars
(* mutant: the version stays                                                *)
SubmittedQuiet(x) == [x EXCEPT !.status = "submitted"]
Submitted(x) == [x EXCEPT !.status = "submitted", !.version = @ + 1]
SubmitWrite(r) ==
  LET s == seen[r].ref IN
  /\ pc[r] = "submitting"
  /\ sub' = IF sub[s].version = seen[r].doc.version /\ sub[s].status = seen[r].doc.status
              THEN [sub EXCEPT ![s] = Submitted(@)] ELSE sub
  /\ Done(r) /\ UNCHANGED <<cat, prod, market, media, vendor>>

-----------------------------------------------------------------------------
(* CatalogReviewService: start, and the decisions of who started            *)
StartReview(r, s) ==
  /\ Starts(r, "start_review") /\ sub[s].status = "submitted"
  /\ Reads(r, "starting", s, [version |-> sub[s].version], {}) /\ UNCHANGED catalogueVars
StartWrite(r) ==
  LET s == seen[r].ref IN
  /\ pc[r] = "starting"
  /\ sub' = IF sub[s].version = seen[r].doc.version /\ sub[s].status = "submitted"
              THEN [sub EXCEPT ![s].status = "in_review", ![s].version = @ + 1] ELSE sub
  /\ Done(r) /\ UNCHANGED <<cat, prod, market, media, vendor>>

Decisions == [ask_changes |-> "changes_requested", reject |-> "rejected"]
Decide(r, s) ==
  /\ pc[r] = "ready" /\ does[r] \in DOMAIN Decisions /\ sub[s].status = "in_review"
  /\ Reads(r, "deciding", s, [version |-> sub[s].version], sub[s].images) /\ UNCHANGED catalogueVars

(* mutant: the filter names the record alone                                *)
DecidesAny(s, doc) == TRUE
MayDecide(s, doc) == sub[s].version = doc.version /\ sub[s].status = "in_review"
DecideWrite(r) ==
  LET s == seen[r].ref IN
  /\ pc[r] = "deciding"
  /\ IF MayDecide(s, seen[r].doc)
       THEN /\ sub' = [sub EXCEPT ![s].status = Decisions[does[r]], ![s].version = @ + 1]
            /\ IF does[r] = "reject" THEN Goto(r, "release") /\ UNCHANGED seen ELSE Done(r)
       ELSE Done(r) /\ UNCHANGED sub
  /\ UNCHANGED <<cat, prod, market, media, vendor>>
(* the uploads of what was rejected, whosever they are                      *)
Release(r) ==
  /\ pc[r] = "release"
  /\ media' = [i \in Images |-> IF i \in seen[r].args THEN [media[i] EXCEPT !.state = "removed"] ELSE media[i]]
  /\ Done(r) /\ UNCHANGED <<cat, prod, market, sub, vendor>>

(* approved: the checks, then product, decision and images in a transaction *)
Approve(r, s, c, onSale) ==
  /\ Starts(r, "approve") /\ sub[s].status = "in_review"
  /\ \E i \in sub[s].images : media[i].state = "ready"
  /\ Assignable(c) /\ market
  /\ Reads(r, "approving", s, [version |-> sub[s].version, cat |-> c, onSale |-> onSale], sub[s].images)
  /\ UNCHANGED catalogueVars

ProductOf(s, c, images, onSale) ==
  [cat |-> c, status |-> IF onSale THEN "published" ELSE "draft", avail |-> "yes",
   valid |-> IF onSale THEN "running" ELSE "none", prev |-> "none", due |-> "none", told |-> "none",
   approved |-> IF onSale THEN "yes" ELSE "no", version |-> 1, price |-> 1, floor |-> 1,
   gone |-> "none", from |-> s, images |-> images]

(* the gallery keeps some of the uploads; the others are released           *)
Handed(images, kept, p) ==
  [i \in Images |-> IF i \in kept THEN [media[i] EXCEPT !.owner = <<"product", p>>]
                    ELSE IF i \in images THEN [media[i] EXCEPT !.state = "removed"] ELSE media[i]]
IsProduced(s) == \E p \in DOMAIN prod : prod[p].from = s   \* the unique index on sourceSubmissionId
ApproveWrite(r, kept) ==
  LET s == seen[r].ref
      doc == seen[r].doc
      images == seen[r].args IN
  /\ pc[r] = "approving" /\ kept \subseteq images /\ kept # {}
  /\ IF MayDecide(s, doc) /\ ~IsProduced(s)
       THEN /\ prod' = Append(prod, ProductOf(s, doc.cat, kept, doc.onSale))
            /\ sub' = [sub EXCEPT ![s].status = "approved", ![s].version = @ + 1, ![s].product = Len(prod) + 1]
            /\ media' = Handed(images, kept, Len(prod) + 1)
       ELSE UNCHANGED <<prod, sub, media>>
  /\ Done(r) /\ UNCHANGED <<cat, market, vendor>>

SubmissionStep(r) ==
  \/ \E images \in (SUBSET Images) \ {{}} :
       CreateSubmission(r, images) \/ \E s \in Subs : UpdateSubmission(r, s, images)
  \/ WriteSubmission(r) \/ ClaimRead(r) \/ Own(r)
  \/ \E s \in Subs : InsertSubmission(r, s) \/ Submit(r, s) \/ StartReview(r, s) \/ Decide(r, s)
  \/ SubmitWrite(r) \/ StartWrite(r) \/ DecideWrite(r) \/ Release(r)
  \/ \E s \in Subs, c \in Cats, onSale \in BOOLEAN : Approve(r, s, c, onSale)
  \/ \E kept \in SUBSET Images : ApproveWrite(r, kept)

-----------------------------------------------------------------------------
(* What was handed in stays as it was handed in: from submission to the     *)
(* decision the content does not change, though an update that was read     *)
(* before may be written at any moment.                                     *)
SubmittedIsFrozen ==
  [][\A s \in Subs : sub[s].status \in Kept /\ sub'[s].status \in Kept => sub'[s].images = sub[s].images]_sub

(* One decision: what was approved or rejected stays so, and a submission   *)
(* is approved exactly if there is a product of it, and it is that one.     *)
DecidedOnce ==
  [][/\ \A s \in Subs : sub[s].status \in {"approved", "rejected"} => sub'[s].status = sub[s].status
     /\ \A s \in Subs : (sub'[s].status = "approved") <=> \E p \in DOMAIN prod' : prod'[p].from = s
     /\ \A p \in DOMAIN prod' : prod'[p].from # 0 => sub'[prod'[p].from].product = p]_<<sub, prod>>

(* "its uploads are released instead of lingering unowned": the images of a *)
(* product stay when another submission that lists them is rejected.        *)
ImagesStay ==
  [][\A i \in Images : media[i].owner[1] = "product" => media'[i].state = media[i].state]_media
=============================================================================
