--------------------------- MODULE AccountSystem ---------------------------
(***************************************************************************)
(* An account with its sessions, its deletion and its invitation: whatever  *)
(* the requests are that meet on it.                                        *)
(***************************************************************************)
EXTENDS Deletion, Invitation

vars == <<does, accountVars, deletionVars, invitationVars, pc, seen>>

Customer(password) == [status |-> "active", active |-> TRUE, password |-> password]
Invited == [status |-> "invited", active |-> TRUE, password |-> FALSE]
Operations == {"login", "social", "reset", "soft_delete", "restore", "toggle", "hard_delete", "refresh", "logout",
               "ask", "prove", "cancel", "pause", "erase_now",
               "reinvite", "accept", "suspend", "reactivate", "archive", "uninvite"}

Init ==
  /\ does \in [Requests -> Operations]
  /\ \/ user \in {Customer(TRUE), Customer(FALSE)} /\ inv = <<>> /\ profile = "none"
     \/ user = Invited /\ inv = <<"open">> /\ profile = "invited"
  /\ sess = <<>> /\ tokens = <<>> /\ code = "none"
  /\ del = <<>> /\ proof = "none" /\ order = "none"
  /\ work = [w \in Workers |-> Idle] /\ crashes = 0
  /\ pc = [r \in Requests |-> "ready"] /\ seen = [r \in Requests |-> Unseen]

Next ==
  \/ AccountNext /\ UNCHANGED <<does, deletionVars, invitationVars>>
  \/ DeletionNext /\ UNCHANGED <<does, invitationVars>>
  \/ InvitationNext /\ UNCHANGED <<does, deletionVars>>

(* The job runs again and again, and a worker that lives goes on.           *)
Fairness == \A w \in Workers : WF_vars(Erase(w) /\ UNCHANGED <<does, invitationVars>>)
Spec == Init /\ [][Next]_vars /\ Fairness

-----------------------------------------------------------------------------
(* What meets on the account: two tabs that refresh while it is left or     *)
(* closed; a deletion asked for twice, or with one code, and called back    *)
(* while workers erase; a sign-in or an administrator beside an erasure;    *)
(* an invitation accepted while it is replaced, or the account stopped.     *)
Plans ==
  { <<"login", "refresh", "refresh", "logout">>, <<"login", "refresh", "refresh", "reset">>,
    <<"login", "refresh", "refresh", "soft_delete">>, <<"social", "refresh", "toggle", "restore">>,
    <<"social", "soft_delete", "reset", "login">>,
    <<"ask", "ask", "cancel", "erase_now">>, <<"prove", "prove", "cancel", "pause">>,
    <<"login", "ask", "reset", "cancel">>, <<"social", "prove", "hard_delete", "refresh">>,
    <<"accept", "reinvite", "reinvite", "archive">>, <<"accept", "login", "suspend", "reactivate">>,
    <<"accept", "uninvite", "reinvite", "archive">> }
MCInit == Init /\ does \in Plans
MCSpec == MCInit /\ [][Next]_vars /\ Fairness
=============================================================================
