----------------------------- MODULE Accounts -----------------------------
(***************************************************************************)
(* One account and those who change it: sign-in, password reset and the     *)
(* sessions with their refresh tokens (AuthService, account-session), and   *)
(* the customer pages of the administration (AdminUsersController).         *)
(* A request carries out one operation and its reads and writes interleave  *)
(* with those of the others.  The repository saves a user it has read as a  *)
(* whole document: what the document said of the account comes back.        *)
(***************************************************************************)
EXTENDS Naturals, Sequences, FiniteSets

CONSTANT Requests

VARIABLES
  does,    \* the operation of each request; does not change
  user,    \* User: accountStatus, isActive, whether it has a password
  sess,    \* AccountSession, in the order of issue: open, the token in force
  tokens,  \* the refresh tokens handed out: their session, the token they followed
  code,    \* Otp of type password_reset: none, open, used
  pc, seen \* requests: step; the document to save, the token or record it is about, the writes left

accountVars == <<user, sess, tokens, code>>

Gone == [status |-> "none", active |-> FALSE, password |-> FALSE]
Unseen == [doc |-> Gone, ref |-> 0, todo |-> {}]

Starts(r, op) == pc[r] = "ready" /\ does[r] = op
Goto(r, step) == pc' = [pc EXCEPT ![r] = step]
Done(r) == Goto(r, "done") /\ seen' = [seen EXCEPT ![r] = Unseen]
Moves(r) == <<pc[r], seen[r]>> # <<pc'[r], seen'[r]>>
Save(r, doc) == Goto(r, "save") /\ seen' = [seen EXCEPT ![r].doc = doc]

IsActiveAccount(u) == u.active /\ u.status = "active"
Exists == user.status # "none"

-----------------------------------------------------------------------------
(* login: the password, then the account                                    *)
Login(r) ==
  /\ Starts(r, "login") /\ user.password /\ IsActiveAccount(user)
  /\ Goto(r, "issue") /\ UNCHANGED <<accountVars, seen>>

(* loginWithGoogle and loginWithApple, of an account that exists            *)
SocialLogin(r) ==
  /\ Starts(r, "social") /\ IsActiveAccount(user)
  /\ Save(r, user) /\ UNCHANGED accountVars

RequestPasswordReset ==
  /\ Exists /\ code = "none" /\ code' = "open"
  /\ UNCHANGED <<user, sess, tokens, pc, seen>>

(* resetPassword: the code, the account, the new password's hash            *)
ResetPassword(r) ==
  /\ Starts(r, "reset") /\ code = "open" /\ Exists
  /\ Save(r, [status |-> "active", active |-> TRUE, password |-> TRUE])
  /\ UNCHANGED accountVars

SoftDelete(r) ==
  /\ Starts(r, "soft_delete") /\ Exists
  /\ Save(r, [user EXCEPT !.active = FALSE, !.status = "deletion_requested"])
  /\ UNCHANGED accountVars

Restore(r) ==
  /\ Starts(r, "restore") /\ Exists
  /\ Save(r, [user EXCEPT !.active = TRUE, !.status = "active"])
  /\ UNCHANGED accountVars

Toggle(r) ==
  /\ Starts(r, "toggle") /\ Exists
  /\ Save(r, [user EXCEPT !.active = ~@]) /\ UNCHANGED accountVars

(* MongoRepository.save of a document read before; a code is used up with it *)
AfterSave == [social |-> "issue", reset |-> "revoke", soft_delete |-> "revoke",
              restore |-> "done", toggle |-> "done"]
SaveUser(r) ==
  /\ pc[r] = "save"
  /\ user' = seen[r].doc
  /\ code' = IF does[r] = "reset" THEN "used" ELSE code
  /\ Goto(r, AfterSave[does[r]]) /\ seen' = [seen EXCEPT ![r] = Unseen]
  /\ UNCHANGED <<sess, tokens>>

HardDelete(r) ==
  /\ Starts(r, "hard_delete") /\ Exists /\ Goto(r, "revoke")
  /\ UNCHANGED <<accountVars, seen>>
RemoveUser(r) ==
  /\ pc[r] = "remove" /\ user' = Gone /\ Done(r)
  /\ UNCHANGED <<sess, tokens, code>>

-----------------------------------------------------------------------------
(* issueAccountSession                                                      *)
Issue(r) ==
  /\ pc[r] = "issue"
  /\ tokens' = Append(tokens, [sid |-> Len(sess) + 1, after |-> 0])
  /\ sess' = Append(sess, [open |-> TRUE, token |-> Len(tokens) + 1])
  /\ Done(r) /\ UNCHANGED <<user, code>>

(* revokeAccountSessions *)
Closed(ss) == [s \in DOMAIN ss |-> [ss[s] EXCEPT !.open = FALSE]]
AfterRevoke(op) == IF op = "reset" THEN "issue" ELSE IF op = "hard_delete" THEN "remove" ELSE "done"
RevokeAll(r) ==
  /\ pc[r] = "revoke"
  /\ sess' = Closed(sess)
  /\ Goto(r, AfterRevoke(does[r])) /\ seen' = [seen EXCEPT ![r] = Unseen]
  /\ UNCHANGED <<user, tokens, code>>

(* rotateAccountSession: the session of the token presented                 *)
Refresh(r, t) ==
  LET s == tokens[t].sid IN
  /\ Starts(r, "refresh") /\ sess[s].open
  /\ Goto(r, IF sess[s].token # t THEN "replayed" ELSE "owner")
  /\ seen' = [seen EXCEPT ![r].ref = t]
  /\ UNCHANGED accountVars

(* a token that was followed by another: its family is revoked              *)
RevokeFamily(r) ==
  /\ pc[r] = "replayed"
  /\ sess' = [sess EXCEPT ![tokens[seen[r].ref].sid].open = FALSE]
  /\ Done(r) /\ UNCHANGED <<user, tokens, code>>

CheckOwner(r) ==
  /\ pc[r] = "owner"
  /\ Goto(r, IF IsActiveAccount(user) THEN "swap" ELSE "revoke")
  /\ UNCHANGED <<accountVars, seen>>

(* the filter of the compare-and-swap                                       *)
(* mutants: it does not look for the token presented; nor for revokedAt     *)
MayRotateAny(s, t) == s.open
MayRotateClosed(s, t) == s.token = t
MayRotate(s, t) == s.open /\ s.token = t
Rotate(r) ==
  LET t == seen[r].ref
      s == tokens[t].sid IN
  /\ pc[r] = "swap"
  /\ IF MayRotate(sess[s], t)
       THEN /\ tokens' = Append(tokens, [sid |-> s, after |-> t])
            /\ sess' = [sess EXCEPT ![s].token = Len(tokens) + 1]
       ELSE UNCHANGED <<sess, tokens>>
  /\ Done(r) /\ UNCHANGED <<user, code>>

(* revokeAccountSession, by the session or one of its tokens; expiresAt     *)
Logout(r, s) ==
  /\ Starts(r, "logout") /\ sess[s].open
  /\ sess' = [sess EXCEPT ![s].open = FALSE]
  /\ Done(r) /\ UNCHANGED <<user, tokens, code>>

SignIn(r) ==
  \/ Login(r) \/ SocialLogin(r) \/ ResetPassword(r) \/ SaveUser(r) \/ Issue(r) \/ RevokeAll(r)
  \/ (\E t \in DOMAIN tokens : Refresh(r, t)) \/ RevokeFamily(r) \/ CheckOwner(r) \/ Rotate(r)
  \/ \E s \in DOMAIN sess : Logout(r, s)
Administer(r) == SoftDelete(r) \/ Restore(r) \/ Toggle(r) \/ HardDelete(r) \/ RemoveUser(r)
AccountNext == RequestPasswordReset \/ \E r \in Requests : SignIn(r) \/ Administer(r)

-----------------------------------------------------------------------------
(* A token is followed by one other at most: two tabs that refresh at once  *)
(* never end with a token each (rotateAccountSession's compare-and-swap).   *)
OneSuccessor ==
  \A t, u \in DOMAIN tokens :
    t # u /\ tokens[t].after # 0 => tokens[t].after # tokens[u].after

(* Once a session is closed, by a logout, a replayed token, a reset or the  *)
(* end of the account, no request that looked at it before renews it.       *)
ClosedNeverRenews ==
  [][\A s \in DOMAIN sess : ~sess[s].open => sess'[s] = sess[s]]_sess

(* A token is renewed once, and not at all once its session is closed.      *)
RenewedOnceWhileOpen == []OneSuccessor /\ ClosedNeverRenews

(* An account that support closed comes back by support only: not by a      *)
(* password reset, nor by a document read before it was closed.             *)
ClosedBySupport(u) == u.status = "deletion_requested" /\ ~u.active
SupportReopens ==
  [][ClosedBySupport(user) /\ IsActiveAccount(user')
       => \E r \in Requests : does[r] = "restore" /\ Moves(r)]_<<user, pc, seen>>
=============================================================================
