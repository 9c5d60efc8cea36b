------------------------------ MODULE Backbone ------------------------------
(***************************************************************************)
(* What every request meets: the keys of the commands (Idempotency, whose  *)
(* variables are this module's own), the caches, and who is let through.   *)
(* <<>> is the value of the variables of what a behaviour is not about.    *)
(***************************************************************************)
EXTENDS Idempotency, Sequences

CONSTANTS
  Nodes, Lookups, At, MaxChanges, MaxLost, MayMemo,                   \* of SharedCache
  StaffRequests, Administrators, Roles, Watched, MaxEdits, MaxBoots   \* of Access

VARIABLES
  db, version, l2, l1, memo, epoch, channel, noted, bumping, lost, owed, born, look,
  role, member, accessReq, adm, edits, boots, since

-----------------------------------------------------------------------------
Cache == INSTANCE SharedCache
cacheVars == <<db, version, l2, l1, memo, epoch, channel, noted, bumping, lost, owed, born, look>>
NoCache ==
  /\ db = <<>> /\ version = <<>> /\ l2 = <<>> /\ l1 = <<>> /\ memo = <<>>
  /\ epoch = <<>> /\ channel = <<>> /\ noted = <<>> /\ bumping = <<>> /\ lost = <<>>
  /\ owed = <<>> /\ born = <<>> /\ look = <<>>

-----------------------------------------------------------------------------
Admission == INSTANCE Access WITH Requests <- StaffRequests, Admins <- Administrators, req <- accessReq
accessVars == <<role, member, accessReq, adm, edits, boots, since>>
NoAdmission ==
  /\ role = <<>> /\ member = <<>> /\ accessReq = <<>> /\ adm = <<>>
  /\ edits = <<>> /\ boots = <<>> /\ since = <<>>

-----------------------------------------------------------------------------
(* What the caches keep is as new as the invalidations that were heard of,  *)
(* in the process and in Redis, also where a load was overtaken by one      *)
(* (cache.service.ts's epoch and version).                                  *)
KeptIsFresh == look # <<>> => Cache!KeptIsFresh

(* Who is let through could be at some moment since the request started,    *)
(* and a seeded role opens the pages it changes something of                *)
(* (requirePermission, platform-bootstrap against the routes).              *)
LetThroughWas == accessReq # <<>> => Admission!AllowedSinceItStarted /\ Admission!RolesFitTheRoutes
=============================================================================
