------------------------------- MODULE Access -------------------------------
(***************************************************************************)
(* Who is let through: requireAuth, resolveAccessContext and                *)
(* requirePermission before a request of a member of staff, and what        *)
(* changes their answer while it is computed: PlatformController's pages of *)
(* roles and of staff, and ensurePlatformAccessCatalog at every start of a  *)
(* process.  One member of staff; the roles hold what of SeededRoles is     *)
(* watched.  First the tables: the permissions and roles that               *)
(* platform-bootstrap seeds, and what the routes of the administration      *)
(* demand.  A permission is a pair of a domain and an action                *)
(* ("market.vendors.invite" is <<"market_vendors", "invite">>).             *)
(***************************************************************************)
EXTENDS Naturals, FiniteSets

CONSTANTS
  Requests,  \* requests of the member
  Admins,    \* requests of administrators
  Roles,     \* the roles in the run, of those seeded
  Watched,   \* the permissions in the run, of those demanded
  MaxEdits,  \* bound on edits of roles
  MaxBoots   \* bound on starts of a process

VARIABLES
  role,     \* [Roles -> active, keys]
  member,   \* on and session: may sign in, is signed in; profileOn; roles: those of the
            \* profile; userRoles: the copy in the account
  req,      \* [Requests -> pc, need, roles: as read]
  adm,      \* [Admins -> pc, what it writes]
  edits, boots,
  since     \* [Requests -> what was true at some moment since the request started]

accessVars == <<role, member, req, adm, edits, boots, since>>

-----------------------------------------------------------------------------
P(domain, actions) == {domain} \X actions

Domains ==
  [ staff |-> {"view", "create", "edit", "suspend", "revoke_sessions"},
    markets |-> {"view", "manage", "assign_hub"}, hubs |-> {"view", "manage", "assign_markets"},
    runners |-> {"view", "manage", "assign"},
    orders |-> {"view", "create", "edit", "cancel"},
    products |-> {"view", "create", "review", "edit"},
    catalog_submission |-> {"view", "review", "request_changes", "approve", "reject"},
    catalog_product |-> {"view", "edit", "publish", "pause", "unpublish"},
    catalog_pricing |-> {"view_internal", "edit"},
    catalog_negotiation_rules |-> {"view_internal", "edit"},
    catalog_media |-> {"upload", "review"}, customers |-> {"view", "edit"},
    financials |-> {"view", "refund", "reconcile"}, reports |-> {"view"}, audit |-> {"view"},
    ai_negotiation |-> {"view", "manage", "transcript_view"},
    commerce_pod |-> {"review", "override", "eligibility"},
    commerce_payments |-> {"view", "reconcile"}, commerce_outbox |-> {"view", "replay"},
    delivery_pricing |-> {"view", "manage", "preview"},
    fulfilment |-> {"view", "manage", "assign", "consolidate"},
    fulfilment_hub |-> {"view", "receive", "qc"}, logistics |-> {"view", "book", "manage", "track"},
    returns |-> {"view", "review", "manage"}, finance_refunds |-> {"view", "process"},
    market_vendors |-> {"view", "manage", "invite"}, market_payments |-> {"view", "reconcile"},
    catalog_availability |-> {"view", "manage", "confirm"}, credits |-> {"view", "adjust"},
    communications |-> {"send"} ]
Plain == \* the domains of "view" and "manage"
  {"roles", "states", "cities", "zones", "categories", "partners", "refunds", "deletions",
   "app_releases", "settings", "commerce_settings", "delivery_coverage", "custody",
   "market_collections", "coupons", "waitlist", "faq"}

PermissionKeys == (UNION {P(d, Domains[d]) : d \in DOMAIN Domains}) \cup Plain \X {"view", "manage"}
Of(ds) == {k \in PermissionKeys : k[1] \in ds}
Views(ds) == ds \X {"view"}

-----------------------------------------------------------------------------
ReadPermissions == {k \in PermissionKeys : k[2] \in {"view", "transcript_view"} /\ k[1] \notin {"market_payments", "app_releases"}}
OperationsPermissions ==
  Of({"states", "cities", "zones", "markets", "hubs", "runners", "partners", "audit",
      "delivery_coverage", "delivery_pricing"})
OrderRead == Views({"orders", "customers", "reports"})
OrderOperations == OrderRead \cup P("orders", {"create", "edit", "cancel"})
CommerceOperations ==
  P("commerce_pod", {"review", "eligibility"}) \cup Views({"commerce_outbox"})
    \cup Of({"fulfilment", "fulfilment_hub", "logistics", "custody"}) \cup P("returns", {"view", "review"})
MarketVendorOperations ==
  Of({"market_vendors", "market_collections"}) \cup P("catalog_availability", {"view", "manage"})
(* mutant: without the view of products *)
CatalogReadWithout == Views({"markets", "categories", "catalog_submission", "catalog_product"})
CatalogRead == Views({"products", "markets", "categories", "catalog_submission", "catalog_product"})
CommercialManage ==
  CatalogRead \cup Of({"catalog_product", "catalog_pricing", "catalog_negotiation_rules", "ai_negotiation"})
    \cup P("categories", {"manage"}) \cup P("catalog_media", {"review"})
Support ==
  OrderRead \cup P("customers", {"edit"}) \cup Views({"refunds"}) \cup Of({"deletions"})
    \cup P("commerce_pod", {"review", "eligibility"})
Finance ==
  Views({"orders", "reports", "audit", "fulfilment"})
    \cup Of({"financials", "refunds", "commerce_payments", "commerce_outbox", "finance_refunds",
             "coupons", "credits", "waitlist"})
    \cup P("logistics", {"view", "manage"}) \cup P("returns", {"view", "review"})

SeededRoles ==
  LET Hub == Views({"hubs", "markets", "runners"}) IN
  [ SUPER_ADMIN |-> PermissionKeys,
    OPERATIONS_LEAD |->
      OperationsPermissions \cup OrderOperations \cup CommerceOperations \cup MarketVendorOperations
        \cup Views({"staff"}) \cup P("communications", {"send"}),
    STATE_OPERATIONS_MANAGER |->
      OperationsPermissions \cup OrderOperations \cup CommerceOperations \cup MarketVendorOperations,
    COMMERCIAL_MANAGER |->
      CommercialManage \cup P("products", {"create", "review", "edit"})
        \cup P("catalog_availability", {"view", "manage"}) \cup Views({"market_vendors", "audit"}),
    COMMERCIAL_OFFICER |->
      CatalogRead \cup P("catalog_product", {"edit"}) \cup Of({"catalog_pricing"})
        \cup P("catalog_availability", {"view", "manage"}),
    CATALOG_REVIEWER |->
      CatalogRead \cup Of({"catalog_submission"}) \cup P("products", {"create", "review"})
        \cup P("catalog_media", {"review"}) \cup Views({"catalog_availability"}),
    DISPATCH_HUB_MANAGER |-> Hub \cup P("runners", {"assign"}) \cup OrderOperations,
    DISPATCH_HUB_OFFICER |-> Hub \cup P("orders", {"view", "edit"}),
    LOGISTICS_OFFICER |-> Hub \cup P("orders", {"view", "edit"}) \cup Of({"logistics"}),
    CUSTOMER_SUPPORT_OFFICER |-> Support,
    FINANCE_OFFICER |-> Finance \cup Of({"market_payments"}),
    MANAGEMENT_VIEWER |-> ReadPermissions ]

-----------------------------------------------------------------------------
(* The routes: for each page of the administration, what reading it and     *)
(* what changing it demand.  Some take any one of several permissions, and  *)
(* what only a Super Admin may do is left out.                              *)
Page(sees, changes) == [sees |-> sees, changes |-> changes]

PlatformPages == \* routes/admin/platform.ts, whose permissions PlatformController demands
  [ roles |-> Page(Views({"roles"}), P("roles", {"manage"})),
    staff |-> Page(Views({"staff"}), P("staff", {"create", "edit", "suspend", "revoke_sessions"})),
    states |-> Page(Views({"states"}), P("states", {"manage"})),
    cities |-> Page(Views({"cities"}), P("cities", {"manage"})),
    markets |-> Page(Views({"markets"}), P("markets", {"manage", "assign_hub"})),
    hubs |-> Page(Views({"hubs"}), P("hubs", {"manage", "assign_markets"})) ]
VendorPages ==
  [ vendors |-> Page(Views({"market_vendors", "market_payments"}), P("market_vendors", {"manage", "invite"})),
    collections |-> Page(Views({"market_collections"}), P("market_payments", {"reconcile"})),
    partners |-> Page(Views({"partners"}), P("partners", {"manage"})),
    associates |-> Page(Views({"runners"}), P("runners", {"manage"})),
    assignments |-> Page(P("runners", {"assign"}), P("runners", {"assign"})),
    audit |-> Page(Views({"audit"}), P("settings", {"manage"})) ]
CustomerPages ==
  [ releases |-> Page(Views({"app_releases"}), P("app_releases", {"manage"})),
    customers |-> Page(Views({"customers"}), P("customers", {"edit"}) \cup P("credits", {"adjust"})) ]
CategoryPages == [categories |-> Page(Views({"categories"}), P("categories", {"manage"}))]
GrowthPages ==
  [ providers |-> Page(Views({"logistics"}), P("logistics", {"manage"})),
    coupons |-> Page(Views({"coupons"}), P("coupons", {"manage"})),
    savedViews |-> Page(Views({"products"}), Views({"products"})),
    waitlist |-> Page(Views({"waitlist"}), P("waitlist", {"manage"})),
    communications |-> Page(P("communications", {"send"}), P("communications", {"send"})),
    faqs |-> Page(Views({"faq"}), P("faq", {"manage"})) ]
CatalogPages ==
  [ submissions |-> Page(Views({"catalog_submission"}),
      P("catalog_submission", {"review", "request_changes", "approve", "reject"})),
    products |-> Page(Views({"products"}),
      P("products", {"create", "edit", "review"}) \cup P("catalog_negotiation_rules", {"edit"})
        \cup P("catalog_product", {"publish", "pause", "unpublish"})),
    availability |-> Page(Views({"catalog_availability"}), P("catalog_availability", {"manage"})) ]
OrderPages ==
  [ orders |-> Page(Views({"orders"}), P("orders", {"edit", "cancel"})),
    pod |-> Page(P("commerce_pod", {"review"}), P("commerce_pod", {"review", "eligibility"})),
    payments |-> Page(P("commerce_payments", {"view", "reconcile"}), {}),
    outbox |-> Page(Views({"commerce_outbox"}), P("commerce_outbox", {"replay"})) ]
CommerceSettingsPages ==
  [ commerceSettings |-> Page(Views({"commerce_settings"}), P("commerce_settings", {"manage"})) ]
FulfilmentPages ==
  [ tasks |-> Page(Views({"fulfilment"}), P("fulfilment", {"assign"})),
    hubDesk |-> Page(Views({"fulfilment_hub"}),
      P("fulfilment_hub", {"receive", "qc"}) \cup P("fulfilment", {"consolidate"})),
    shipments |-> Page(Views({"logistics"}), P("logistics", {"book", "manage"})),
    returns |-> Page(Views({"returns"}), P("returns", {"review"})),
    refunds |-> Page(Views({"refunds"}), P("refunds", {"manage"}) \cup P("finance_refunds", {"process"})),
    deletions |-> Page(Views({"deletions"}), P("deletions", {"manage"})) ]
FinancialPages ==
  [ financials |-> Page(Views({"financials"}), P("financials", {"reconcile"})),
    negotiations |-> Page(Views({"ai_negotiation"}), P("ai_negotiation", {"manage"})),
    reports |-> Page(Views({"reports"}), Views({"reports"})) ]
SettingsPages ==
  [ settings |-> Page(Views({"settings"}), P("settings", {"manage"})),
    coverage |-> Page(Views({"delivery_coverage"}), P("delivery_coverage", {"manage"})),
    pricing |-> Page(Views({"delivery_pricing"}), P("delivery_pricing", {"manage", "preview"})) ]

PageGroups == {PlatformPages, VendorPages, CustomerPages, CategoryPages, GrowthPages, CatalogPages,
               OrderPages, CommerceSettingsPages, FulfilmentPages, FinancialPages, SettingsPages}
Pages == UNION {{g[p] : p \in DOMAIN g} : g \in PageGroups}
Demanded == UNION {p.sees \cup p.changes : p \in Pages}

(* Whoever may change something of a page may open it.                      *)
SeesWhatItChanges(held) == \A p \in Pages : p.changes \cap held # {} => p.sees \cap held # {}

-----------------------------------------------------------------------------
Fresh == [pc |-> "new", need |-> CHOOSE k \in Watched : TRUE, roles |-> {}]
Quiet == [pc |-> "new", writes |-> {}, roles |-> {}, key |-> <<>>]
Nothing == [signedIn |-> FALSE, on |-> FALSE, held |-> {}, gives |-> {}]

Init ==
  /\ role = [r \in Roles |-> [active |-> TRUE, keys |-> SeededRoles[r] \cap Watched]]
  /\ \E r \in Roles :
       member = [on |-> TRUE, profileOn |-> TRUE, session |-> TRUE, roles |-> {r}, userRoles |-> {r}]
  /\ req = [r \in Requests |-> Fresh]
  /\ adm = [a \in Admins |-> Quiet]
  /\ edits = 0 /\ boots = 0
  /\ since = [r \in Requests |-> Nothing]

-----------------------------------------------------------------------------
(* A request: the session with the account, the profile, its active roles.  *)
Start(r, k) ==
  /\ req[r].pc = "new" /\ req' = [req EXCEPT ![r].pc = "token", ![r].need = k]
  /\ UNCHANGED <<role, member, adm, edits, boots>>

Refused(r) == req' = [req EXCEPT ![r] = [Fresh EXCEPT !.pc = "refused"]]
AuthenticateToken(r) ==
  /\ req[r].pc = "token"
  /\ IF member.session /\ member.on THEN req' = [req EXCEPT ![r].pc = "profile"] ELSE Refused(r)
  /\ UNCHANGED <<role, member, adm, edits, boots>>
ReadProfile(r) ==
  /\ req[r].pc = "profile"
  /\ IF member.profileOn THEN req' = [req EXCEPT ![r].pc = "roles", ![r].roles = member.roles]
                         ELSE Refused(r)
  /\ UNCHANGED <<role, member, adm, edits, boots>>

(* mutant: an archived role still gives what it holds *)
PermissionsOfAll(rs) == UNION {role[x].keys : x \in rs}
PermissionsOf(rs) == UNION {role[x].keys : x \in {x \in rs : role[x].active}}
ResolveAccess(r) ==
  /\ req[r].pc = "roles"
  /\ IF req[r].need \in PermissionsOf(req[r].roles)
       THEN req' = [req EXCEPT ![r].pc = "allowed"] ELSE Refused(r)
  /\ UNCHANGED <<role, member, adm, edits, boots>>

-----------------------------------------------------------------------------
(* updateRole and archiveRole: who has the role, then the write             *)
Assigned(x) == x \in member.roles \cup member.userRoles
CheckRole(a, x, key) ==
  /\ adm[a].pc = "new" /\ edits < MaxEdits /\ x # "SUPER_ADMIN" /\ ~Assigned(x)
  /\ adm' = [adm EXCEPT ![a] = [Quiet EXCEPT !.pc = "edit", !.roles = {x}, !.key = key]]
  /\ edits' = edits + 1 /\ UNCHANGED <<role, member, req, boots>>
WriteRole(a) ==
  /\ adm[a].pc = "edit"
  /\ \E x \in adm[a].roles :
       role' = IF adm[a].key = <<>> THEN [role EXCEPT ![x].active = FALSE]
               ELSE [role EXCEPT ![x] = [active |-> TRUE, keys |-> {adm[a].key}]]
  /\ adm' = [adm EXCEPT ![a] = [Quiet EXCEPT !.pc = "done"]]
  /\ UNCHANGED <<member, req, edits, boots>>

(* updateStaff: roles that are active, in the profile, then in the account  *)
CheckStaff(a, rs) ==
  /\ adm[a].pc = "new" /\ rs # {} /\ \A x \in rs : role[x].active
  /\ adm' = [adm EXCEPT ![a] = [Quiet EXCEPT !.pc = "staff", !.writes = {"profile", "user"}, !.roles = rs]]
  /\ UNCHANGED <<role, member, req, edits, boots>>
WriteStaff(a) ==
  /\ adm[a].pc = "staff"
  /\ IF "profile" \in adm[a].writes
       THEN /\ member' = [member EXCEPT !.roles = adm[a].roles]
            /\ adm' = [adm EXCEPT ![a].writes = {"user"}]
       ELSE /\ member' = [member EXCEPT !.userRoles = adm[a].roles]
            /\ adm' = [adm EXCEPT ![a] = [Quiet EXCEPT !.pc = "done"]]
  /\ UNCHANGED <<role, req, edits, boots>>

(* staffStatus: the profile, the account and its sessions side by side      *)
ChangeStatus(a, to) ==
  /\ adm[a].pc = "new" /\ "SUPER_ADMIN" \notin member.userRoles
  /\ adm' = [adm EXCEPT ![a] = [Quiet EXCEPT !.pc = to, !.writes =
       IF to = "suspend" THEN {"profile", "user", "session"} ELSE {"profile", "user"}]]
  /\ UNCHANGED <<role, member, req, edits, boots>>
WriteStatus(a, w) ==
  LET on == adm[a].pc = "reactivate"
      left == adm[a].writes \ {w} IN
  /\ adm[a].pc \in {"suspend", "reactivate"} /\ w \in adm[a].writes
  /\ member' = CASE w = "profile" -> [member EXCEPT !.profileOn = on]
                 [] w = "user" -> [member EXCEPT !.on = on]
                 [] w = "session" -> [member EXCEPT !.session = FALSE]
  /\ adm' = [adm EXCEPT ![a] = IF left = {} THEN [Quiet EXCEPT !.pc = "done"] ELSE [@ EXCEPT !.writes = left]]
  /\ UNCHANGED <<role, req, edits, boots>>

SignIn ==
  /\ member.on /\ ~member.session /\ member' = [member EXCEPT !.session = TRUE]
  /\ UNCHANGED <<role, req, adm, edits, boots>>

(* ensurePlatformAccessCatalog: every seeded role is active again; only     *)
(* that of the Super Admin gets its permissions back                        *)
Boot ==
  /\ boots < MaxBoots /\ boots' = boots + 1
  /\ role' = [x \in Roles |-> [active |-> TRUE,
                keys |-> IF x = "SUPER_ADMIN" THEN SeededRoles[x] \cap Watched ELSE role[x].keys]]
  /\ UNCHANGED <<member, req, adm, edits>>

-----------------------------------------------------------------------------
Now ==
  [ signedIn |-> member.on /\ member.session, on |-> member.profileOn,
    held |-> member.roles,
    gives |-> {g \in Roles \X Watched : role[g[1]].active /\ g[2] \in role[g[1]].keys} ]
And(s, n) == [signedIn |-> s.signedIn \/ n.signedIn, on |-> s.on \/ n.on,
              held |-> s.held \cup n.held, gives |-> s.gives \cup n.gives]
Remembers ==
  since' = [r \in Requests |-> IF req'[r].pc \in {"new", "refused"} THEN Nothing
                               ELSE IF req[r].pc = "allowed" THEN since[r] ELSE And(since[r], Now')]

Next ==
  /\ \/ \E r \in Requests : (\E k \in Watched : Start(r, k)) \/ AuthenticateToken(r)
                            \/ ReadProfile(r) \/ ResolveAccess(r)
     \/ \E a \in Admins :
          \/ \E x \in Roles : \E key \in Watched \cup {<<>>} : CheckRole(a, x, key)
          \/ WriteRole(a)
          \/ (\E rs \in SUBSET Roles : CheckStaff(a, rs)) \/ WriteStaff(a)
          \/ \E to \in {"suspend", "reactivate"} : ChangeStatus(a, to)
          \/ \E w \in {"profile", "user", "session"} : WriteStatus(a, w)
     \/ SignIn \/ Boot
  /\ Remembers

-----------------------------------------------------------------------------
(* "Permission changes take effect immediately": for who is let through,    *)
(* the account was open with a session, the profile was active, it had a    *)
(* role, and the role was active with what is needed, each at some moment   *)
(* since the request started and not only before.                           *)
AllowedSinceItStarted ==
  \A r \in Requests : req[r].pc = "allowed" =>
    /\ since[r].signedIn /\ since[r].on
    /\ \E x \in since[r].held : <<x, req[r].need>> \in since[r].gives

(* The routes demand permissions that can be given, and a seeded role that  *)
(* may change something of a page may open the page (of the tables: it is   *)
(* looked at before anything has happened).                                 *)
AsSeeded == edits = 0 /\ (\A r \in Requests : req[r].pc = "new") /\ \A a \in Admins : adm[a].pc = "new"
RolesFitTheRoutes ==
  AsSeeded => /\ Demanded \subseteq PermissionKeys
              /\ \A x \in DOMAIN SeededRoles \ {"FINANCE_OFFICER"} : SeesWhatItChanges(SeededRoles[x])
FinanceSees == AsSeeded => SeesWhatItChanges(SeededRoles["FINANCE_OFFICER"])

(* The member's roles are active: who has only archived ones can do nothing *)
HasAnActiveRole == \A x \in member.roles : role[x].active
(* "Reassign them before editing the role" *)
AssignedIsNotEdited == [][\A x \in Roles : Assigned(x) /\ Assigned(x)' => role'[x] = role[x]]_accessVars
(* An archived role stays so until an administrator edits it. *)
ArchivedStays ==
  [][\A x \in Roles : ~role[x].active /\ role'[x].active => edits > 0 /\ boots' = boots]_accessVars
(* The account and the profile agree when no change of either is under way. *)
StatusesAgree == (\A a \in Admins : adm[a].pc \in {"new", "done"}) => member.on = member.profileOn
=============================================================================
