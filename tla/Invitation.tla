---------------------------- MODULE Invitation ----------------------------
(***************************************************************************)
(* A member of staff is invited, sets a password by the link of the mail,   *)
(* and is suspended, reactivated or archived: account-invitation,           *)
(* stale-invitation and PlatformController's pages of staff; those of       *)
(* partners and market associates do the same.  The profile is a record of  *)
(* its own, and the writes of a page are made side by side.                 *)
(***************************************************************************)
EXTENDS Accounts

VARIABLES
  inv,     \* AccountInvitation, in the order of issue: open, accepted, revoked
  profile  \* StaffProfile.status, or none

invitationVars == <<inv, profile>>

Revoked(is) == [i \in DOMAIN is |-> IF is[i] = "open" THEN "revoked" ELSE is[i]]

-----------------------------------------------------------------------------
(* resendStaffInvitation; issueAccountInvitation revokes, then creates      *)
Reinvite(r) ==
  /\ Starts(r, "reinvite") /\ Exists /\ profile = "invited"
  /\ Goto(r, "replace") /\ UNCHANGED <<accountVars, invitationVars, seen>>
ReplaceInvitation(r) ==
  /\ pc[r] = "replace" /\ inv' = Revoked(inv) /\ Goto(r, "invite")
  /\ UNCHANGED <<accountVars, profile, seen>>
CreateInvitation(r) ==
  /\ pc[r] = "invite" /\ inv' = Append(inv, "open") /\ Goto(r, "done")
  /\ UNCHANGED <<accountVars, profile, seen>>

(* acceptAccountInvitation: the invitation, the account, the password's hash *)
Accept(r, i) ==
  /\ Starts(r, "accept") /\ inv[i] = "open" /\ user.active /\ user.status = "invited"
  /\ Goto(r, "activate") /\ seen' = [seen EXCEPT ![r].ref = i]
  /\ UNCHANGED <<accountVars, invitationVars>>

(* the save writes what was changed of the document, and fails without it   *)
(* mutant: it opens the account as a password reset does *)
ActivatedOpen(u) == [u EXCEPT !.status = "active", !.active = TRUE, !.password = TRUE]
Activated(u) == [u EXCEPT !.status = "active", !.password = TRUE]
Activate(r) ==
  /\ pc[r] = "activate"
  /\ IF Exists THEN user' = Activated(user) /\ Goto(r, "mark") /\ UNCHANGED seen
               ELSE Done(r) /\ UNCHANGED user
  /\ UNCHANGED <<sess, tokens, code, invitationVars>>
MarkAccepted(r) ==
  /\ pc[r] = "mark" /\ inv' = [inv EXCEPT ![seen[r].ref] = "accepted"]
  /\ Goto(r, "profile") /\ seen' = [seen EXCEPT ![r] = Unseen]
  /\ UNCHANGED <<accountVars, profile>>
ActivateProfile(r) ==
  /\ pc[r] = "profile" /\ profile' = (IF profile = "none" THEN "none" ELSE "active")
  /\ Goto(r, "done") /\ UNCHANGED <<accountVars, inv, seen>>

-----------------------------------------------------------------------------
(* staffStatus and archiveStaff                                             *)
Writes == [suspend    |-> {"profile", "user", "sessions"},
           reactivate |-> {"profile", "user"},
           archive    |-> {"profile", "user", "sessions", "invitations"}]
Becomes == [suspend |-> "suspended", reactivate |-> "active", archive |-> "disabled"]
ChangeStaff(r) ==
  /\ pc[r] = "ready" /\ does[r] \in DOMAIN Writes /\ profile # "none"
  /\ Goto(r, "writes") /\ seen' = [seen EXCEPT ![r].todo = Writes[does[r]]]
  /\ UNCHANGED <<accountVars, invitationVars>>
Write(r, part) ==
  LET status == Becomes[does[r]]
      left == seen[r].todo \ {part} IN
  /\ pc[r] = "writes" /\ part \in seen[r].todo
  /\ profile' = IF part = "profile" /\ profile # "none" THEN status ELSE profile
  /\ user' = IF part = "user" /\ Exists
               THEN [user EXCEPT !.status = status, !.active = (status = "active")] ELSE user
  /\ sess' = IF part = "sessions" THEN Closed(sess) ELSE sess
  /\ inv' = IF part = "invitations" THEN Revoked(inv) ELSE inv
  /\ seen' = [seen EXCEPT ![r].todo = left]
  /\ Goto(r, IF left = {} THEN "done" ELSE "writes")
  /\ UNCHANGED <<tokens, code>>

(* cancelStaffInvitation; purgeUnacceptedAccount of an account never used   *)
CancelInvitation(r) ==
  /\ Starts(r, "uninvite") /\ profile = "invited" /\ Exists /\ ~user.password /\ sess = <<>>
  /\ Goto(r, "uninvite") /\ UNCHANGED <<accountVars, invitationVars, seen>>
RevokeInvitations(r) ==
  /\ pc[r] = "uninvite" /\ inv' = Revoked(inv) /\ Goto(r, "purge")
  /\ UNCHANGED <<accountVars, profile, seen>>
Purge(r) ==
  /\ pc[r] = "purge" /\ profile' = "none" /\ user' = Gone /\ Goto(r, "done")
  /\ UNCHANGED <<sess, tokens, code, inv, seen>>

InvitationNext ==
  \E r \in Requests :
    \/ Reinvite(r) \/ ReplaceInvitation(r) \/ CreateInvitation(r)
    \/ (\E i \in DOMAIN inv : Accept(r, i)) \/ Activate(r) \/ MarkAccepted(r) \/ ActivateProfile(r)
    \/ ChangeStaff(r) \/ \E part \in {"profile", "user", "sessions", "invitations"} : Write(r, part)
    \/ CancelInvitation(r) \/ RevokeInvitations(r) \/ Purge(r)

-----------------------------------------------------------------------------
(* An account that was suspended or archived while its owner accepts the    *)
(* invitation stays out: only what is meant to reopen it does so.           *)
AcceptKeepsOut ==
  [][~user.active /\ user'.active =>
       \E r \in Requests : Moves(r) /\ does[r] \in {"reactivate", "restore", "toggle", "reset", "social"}]_<<user, pc, seen>>

(* Who has set a password by the invitation keeps the account when the      *)
(* invitation is cancelled at the same time.                                *)
AcceptedIsKept == \A i \in DOMAIN inv : inv[i] = "accepted" => Exists

(* One link of an account works at a time. *)
OneOpenInvitation == Cardinality({i \in DOMAIN inv : inv[i] = "open"}) <= 1
=============================================================================
