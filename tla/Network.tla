------------------------------ MODULE Network ------------------------------
(***************************************************************************)
(* Where Hook operates: the states with their cities and local government   *)
(* areas, the hubs and the markets of PlatformController, the delivery      *)
(* switch of AdminDeliveryController, the refresh of the location catalog   *)
(* and the addresses of a customer (AddressService).  A request looks at    *)
(* other records, decides what to set, and sets it in a later step, with    *)
(* the steps of the other requests in between; or its process dies.  What a *)
(* request asks for is chosen at the start.                                 *)
(***************************************************************************)
EXTENDS Integers

CONSTANTS
  States, Cities, Hubs, Markets, Addresses, \* identities
  Requests

VARIABLES
  state,   \* [States -> OperationState: status, operations, delivery]
  city,    \* [Cities -> OperationCity: state, status]
  hub,     \* [Hubs -> DispatchHub: state, city, markets, status]
  market,  \* [Markets -> Market: state, city, hub, status]
  address, \* [Addresses -> CustomerAddress: state, city, area, default, status]
  area,    \* the OperationLocalGovernments: state, name, status
  catalog, \* [States -> the names of the location catalog]
  asked,   \* [Requests -> what is asked, at, and what is to be set]
  crossed, \* history: the markets, the addresses and the book two requests were at work on at once
  uprooted \* history: records, and the cities and hubs that moved to another state under them

networkVars == <<state, city, hub, market, address, area, catalog, asked, crossed, uprooted>>
records == <<state, city, hub, market, address, area>>

NoCity == [state |-> "none", status |-> "none"]
NoHub == [state |-> "none", city |-> "none", markets |-> {}, status |-> "none"]
NoMarket == [state |-> "none", city |-> "none", hub |-> "none", status |-> "none"]
NoAddress == [state |-> "none", city |-> "none", area |-> "none", default |-> FALSE, status |-> "none"]

Init(start, requests) ==
  /\ state = start.state /\ city = start.city /\ hub = start.hub /\ market = start.market
  /\ address = start.address /\ area = start.area /\ catalog = start.catalog
  /\ asked = [r \in Requests |->
       [op |-> requests[r].op, on |-> requests[r].on, to |-> requests[r].to, at |-> "start", set |-> <<>>]]
  /\ crossed = {} /\ uprooted = {}

Open(r) == asked[r].at \notin {"start", "done"}
On(r, ops, at) == asked[r].op \in ops /\ asked[r].at = at
Goes(r, at, set) == asked' = [asked EXCEPT ![r].at = at, ![r].set = set]
Done(r) == Goes(r, "done", <<>>)
With(d, set) == [f \in DOMAIN d |-> IF f \in DOMAIN set THEN set[f] ELSE d[f]]
Only(d, fields) == [f \in fields |-> d[f]]
Given(set, f, otherwise) == IF f \in DOMAIN set THEN set[f] ELSE otherwise
Chosen(to, f, d) == IF Given(to, f, "none") = "none" THEN d[f] ELSE to[f]

(* Nobody else is creating it: what is created has an identity of its own.  *)
Fresh(r) == \A q \in Requests \ {r} : asked[q].op = asked[r].op /\ asked[q].on = asked[r].on => ~Open(q)
(* some fields of a record that is there, or all of a new one               *)
Answer(r, ok, d, none, set) ==
  IF ~ok THEN Done(r)
  ELSE IF d # none THEN Goes(r, "write", set)
  ELSE Fresh(r) /\ Goes(r, "create", With([none EXCEPT !.status = "active"], set))

-----------------------------------------------------------------------------
(* What is looked at                                                        *)
EnsureState(s) == s \in States /\ state[s].status = "active"
EnsureCity(c, s) == c \in Cities /\ city[c].state = s /\ city[c].status = "active"
ResolveLocation(s, c) == EnsureState(s) /\ EnsureCity(c, s)
(* mutant: the hub only has to be there                                     *)
HubIsThere(h, s) == h \in Hubs /\ hub[h] # NoHub
EnsureHub(h, s) == h \in Hubs /\ hub[h] # NoHub /\ hub[h].state = s

-----------------------------------------------------------------------------
(* States and cities                                                        *)
CheckCity(r) ==
  LET c == asked[r].on
      s == Chosen(asked[r].to, "state", city[c]) IN
  /\ On(r, {"city"}, "start") /\ c \in Cities
  /\ Answer(r, EnsureState(s), city[c], NoCity, [state |-> s])
  /\ UNCHANGED <<records, catalog>>
CreateCity(r) ==
  /\ On(r, {"city"}, "create") /\ city' = [city EXCEPT ![asked[r].on] = asked[r].set]
  /\ Done(r) /\ UNCHANGED <<state, hub, market, address, area, catalog>>
UpdateCity(r) ==
  /\ On(r, {"city"}, "write") /\ city' = [city EXCEPT ![asked[r].on] = With(@, asked[r].set)]
  /\ Done(r) /\ UNCHANGED <<state, hub, market, address, area, catalog>>

(* updateState and stateStatus                                              *)
ChangeState(r) ==
  /\ On(r, {"state"}, "start")
  /\ state' = [state EXCEPT ![asked[r].on] = With(@, asked[r].to)]
  /\ Done(r) /\ UNCHANGED <<city, hub, market, address, area, catalog>>
(* whether Hook delivers there                                              *)
ToggleState(r) ==
  /\ On(r, {"delivery"}, "start")
  /\ state' = [state EXCEPT ![asked[r].on].delivery = asked[r].to.delivery]
  /\ Done(r) /\ UNCHANGED <<city, hub, market, address, area, catalog>>
(* cityStatus, hubStatus and marketStatus ask nothing of the others         *)
ChangeStatus(r) ==
  LET x == asked[r].on
      flip(f, none) == IF f[x] = none THEN f ELSE [f EXCEPT ![x].status = asked[r].to.status] IN
  /\ On(r, {"status"}, "start")
  /\ city' = IF x \in Cities THEN flip(city, NoCity) ELSE city
  /\ hub' = IF x \in Hubs THEN flip(hub, NoHub) ELSE hub
  /\ market' = IF x \in Markets THEN flip(market, NoMarket) ELSE market
  /\ Done(r) /\ UNCHANGED <<state, address, area, catalog>>

-----------------------------------------------------------------------------
(* Markets                                                                  *)

(* the hub is that of the request or the one the market has, and is written *)
(* when there is one, also when it was only kept                            *)
CheckMarket(r) ==
  LET m == asked[r].on
      d == [f \in {"state", "city", "hub"} |-> Chosen(asked[r].to, f, market[m])] IN
  /\ On(r, {"market"}, "start") /\ m \in Markets
  /\ Answer(r, /\ ResolveLocation(d.state, d.city) /\ state[d.state].operations
               /\ d.hub = "none" \/ EnsureHub(d.hub, d.state),
            market[m], NoMarket, Only(d, {"state", "city"} \cup IF d.hub = "none" THEN {} ELSE {"hub"}))
  /\ UNCHANGED <<records, catalog>>
CreateMarket(r) ==
  /\ On(r, {"market"}, "create") /\ market' = [market EXCEPT ![asked[r].on] = asked[r].set]
  /\ Done(r) /\ UNCHANGED <<state, city, hub, address, area, catalog>>
UpdateMarket(r) ==
  /\ On(r, {"market", "assignMarketHub"}, "write")
  /\ market' = [market EXCEPT ![asked[r].on] = With(@, asked[r].set)]
  /\ Done(r) /\ UNCHANGED <<state, city, hub, address, area, catalog>>
CheckAssignMarketHub(r) ==
  LET m == asked[r].on
      h == asked[r].to.hub IN
  /\ On(r, {"assignMarketHub"}, "start") /\ m \in Markets
  /\ IF market[m] # NoMarket /\ EnsureHub(h, market[m].state) THEN Goes(r, "write", [hub |-> h]) ELSE Done(r)
  /\ UNCHANGED <<records, catalog>>

-----------------------------------------------------------------------------
(* Hubs; a new one has no markets, whatever the request lists               *)
CheckHub(r) ==
  LET h == asked[r].on
      to == asked[r].to
      d == [state |-> Chosen(to, "state", hub[h]), city |-> Chosen(to, "city", hub[h]),
            markets |-> IF hub[h] = NoHub THEN {} ELSE Given(to, "markets", hub[h].markets)] IN
  /\ On(r, {"hub"}, "start") /\ h \in Hubs
  /\ Answer(r, ResolveLocation(d.state, d.city) /\ \A m \in d.markets : market[m].state = d.state,
            hub[h], NoHub, d)
  /\ UNCHANGED <<records, catalog>>
CreateHub(r) ==
  /\ On(r, {"hub"}, "create") /\ hub' = [hub EXCEPT ![asked[r].on] = asked[r].set]
  /\ Done(r) /\ UNCHANGED <<state, city, market, address, area, catalog>>
UpdateHub(r) ==
  /\ On(r, {"hub"}, "write") /\ hub' = [hub EXCEPT ![asked[r].on] = With(@, asked[r].set)]
  /\ Done(r) /\ UNCHANGED <<state, city, market, address, area, catalog>>

(* assignHubMarkets: the list and the markets are written side by side      *)
CheckAssignMarkets(r) ==
  LET h == asked[r].on
      ms == asked[r].to.markets IN
  /\ On(r, {"assignHubMarkets"}, "start") /\ h \in Hubs
  /\ IF hub[h] # NoHub /\ \A m \in ms : market[m] # NoMarket /\ market[m].state = hub[h].state
       THEN Goes(r, "write", [markets |-> ms]) ELSE Done(r)
  /\ UNCHANGED <<records, catalog>>
WriteHubMarkets(r) ==
  /\ On(r, {"assignHubMarkets"}, "write")
  /\ hub' = [hub EXCEPT ![asked[r].on].markets = asked[r].set.markets]
  /\ Goes(r, "markets", asked[r].set) /\ UNCHANGED <<state, city, market, address, area, catalog>>
WriteMarketsHub(r) ==
  /\ On(r, {"assignHubMarkets"}, "markets")
  /\ market' = [m \in Markets |-> IF m \in asked[r].set.markets THEN [market[m] EXCEPT !.hub = asked[r].on] ELSE market[m]]
  /\ Done(r) /\ UNCHANGED <<state, city, hub, address, area, catalog>>

-----------------------------------------------------------------------------
(* Local government areas: refreshNigerianLocationCatalog, of one state     *)
Named(s) == {a \in area : a.state = s}
ReadAreas(r) ==
  LET s == asked[r].on IN
  /\ On(r, {"refresh"}, "start")
  /\ Goes(r, "write", [new |-> catalog[s] \ {a.name : a \in Named(s)}])
  /\ UNCHANGED <<records, catalog>>
(* name and state are unique: who inserts one that is there stops           *)
WriteAreas(r) ==
  LET s == asked[r].on
      known == {a.name : a \in Named(s)}
      new == asked[r].set.new IN
  /\ On(r, {"refresh"}, "write")
  /\ area' = {IF a.state = s /\ a.name \in catalog[s] THEN [a EXCEPT !.status = "active"] ELSE a : a \in area}
             \cup {[state |-> s, name |-> n, status |-> "active"] : n \in IF new \cap known = {} THEN new ELSE {}}
  /\ IF new \cap known = {} THEN Goes(r, "stale", <<>>) ELSE Done(r)
  /\ UNCHANGED <<state, city, hub, market, address, catalog>>
RetireAreas(r) ==
  LET s == asked[r].on IN
  /\ On(r, {"refresh"}, "stale")
  /\ area' = {IF a.state = s /\ a.name \notin catalog[s] THEN [a EXCEPT !.status = "inactive"] ELSE a : a \in area}
  /\ Done(r) /\ UNCHANGED <<state, city, hub, market, address, catalog>>
-----------------------------------------------------------------------------
(* Addresses of one customer                                                *)
Kept == {a \in Addresses : address[a].status = "active"}
Defaults == {a \in Kept : address[a].default = TRUE}
ActiveAreas(s) == {n.name : n \in {k \in area : k.state = s /\ k.status = "active"}}

(* validateCoverage: what is named by its identity must be there; what is   *)
(* not is looked for by a name, and a city, or the area of an address that  *)
(* is updated, may stay unknown.                                            *)
Resolved(id, there) == IF id = "none" THEN {"none"} \cup there ELSE {id} \cap there
Covered(s, c, n) ==
  IF ~(EnsureState(s) /\ state[s].delivery) THEN {}
  ELSE {[state |-> s, city |-> k, area |-> a] :
          k \in Resolved(c, {k \in Cities : EnsureCity(k, s)}), a \in Resolved(n, ActiveAreas(s))}
(* an update saves what differs from the address as it was read             *)
CheckAddress(r) ==
  LET d == address[asked[r].on]
      to == asked[r].to
      default == Given(to, "default", FALSE) = TRUE
      places == Covered(Given(to, "state", d.state), Given(to, "city", d.city), Given(to, "area", d.area))
      found == {x \in places : d = NoAddress => x.area # "none"}
      new(x) == With([NoAddress EXCEPT !.status = "active", !.default = default], x)
      changed(x) == With([d EXCEPT !.default = Given(to, "default", @)], x) IN
  /\ On(r, {"address"}, "start") /\ asked[r].on \in Addresses
  /\ \/ (found = {} \/ d.status = "archived") /\ Done(r)
     \/ /\ d = NoAddress /\ Fresh(r)
        /\ \E x \in found : Goes(r, IF default THEN "clear" ELSE "count", new(x))
     \/ /\ d.status = "active"
        /\ \E x \in found : Goes(r, IF default THEN "clear" ELSE "write",
                                 Only(changed(x), {f \in {"state", "city", "area", "default"} : changed(x)[f] # d[f]}))
  /\ UNCHANGED <<records, catalog>>
(* of all others, or, where the default is set by name, of all              *)
ClearDefaults(r) ==
  LET spared == IF asked[r].op = "address" THEN {asked[r].on} ELSE {} IN
  /\ On(r, {"address", "setDefault"}, "clear")
  /\ address' = [a \in Addresses |-> IF a \in Kept \ spared THEN [address[a] EXCEPT !.default = FALSE] ELSE address[a]]
  /\ Goes(r, IF address[asked[r].on] = NoAddress THEN "count" ELSE "write", asked[r].set)
  /\ UNCHANGED <<state, city, hub, market, area, catalog>>
(* the first one is the default                                             *)
CountAddresses(r) ==
  /\ On(r, {"address"}, "count")
  /\ Goes(r, "create", IF Kept = {} THEN [asked[r].set EXCEPT !.default = TRUE] ELSE asked[r].set)
  /\ UNCHANGED <<records, catalog>>
CreateAddress(r) ==
  /\ On(r, {"address"}, "create") /\ address' = [address EXCEPT ![asked[r].on] = asked[r].set]
  /\ Done(r) /\ UNCHANGED <<state, city, hub, market, area, catalog>>
(* the save of update, setDefault and archive                               *)
UpdateAddress(r) ==
  /\ On(r, {"address", "setDefault", "archive"}, "write")
  /\ address' = [address EXCEPT ![asked[r].on] = With(@, asked[r].set)]
  /\ IF asked[r].op = "archive" THEN Goes(r, "look", <<>>) ELSE Done(r)
  /\ UNCHANGED <<state, city, hub, market, area, catalog>>
(* of one that was the default already, nothing will be saved               *)
StartSetDefault(r) ==
  /\ On(r, {"setDefault"}, "start") /\ asked[r].on \in Addresses
  /\ IF asked[r].on \in Kept
       THEN Goes(r, "clear", Only([default |-> TRUE], {"default"} \ IF asked[r].on \in Defaults THEN {"default"} ELSE {}))
       ELSE Done(r)
  /\ UNCHANGED <<records, catalog>>
StartArchive(r) ==
  /\ On(r, {"archive"}, "start") /\ asked[r].on \in Addresses
  /\ IF asked[r].on \in Kept
       THEN Goes(r, "write", Only([status |-> "archived", default |-> FALSE],
                                  {"status"} \cup IF asked[r].on \in Defaults THEN {"default"} ELSE {}))
       ELSE Done(r)
  /\ UNCHANGED <<records, catalog>>
LookForDefault(r) ==
  /\ On(r, {"archive"}, "look")
  /\ IF Defaults = {} THEN Goes(r, "promote", <<>>) ELSE Done(r)
  /\ UNCHANGED <<records, catalog>>
Promote(r) ==
  /\ On(r, {"archive"}, "promote")
  /\ IF Kept = {} THEN UNCHANGED address ELSE \E a \in Kept : address' = [address EXCEPT ![a].default = TRUE]
  /\ Done(r) /\ UNCHANGED <<state, city, hub, market, area, catalog>>

-----------------------------------------------------------------------------
(* The process of a request dies.                                           *)
Die(r) == Open(r) /\ Done(r) /\ UNCHANGED <<records, catalog>>

(* What a request that is open is at work on: a market, an address, the     *)
(* customer's book of addresses.                                            *)
AboutAddresses == {"address", "setDefault", "archive"}
Subjects(r) ==
  IF ~Open(r) THEN {}
  ELSE (IF asked[r].op \in {"market", "assignMarketHub", "address"} THEN {asked[r].on} ELSE {})
       \cup (IF asked[r].op = "assignHubMarkets" THEN asked[r].to.markets ELSE {})
       \cup (IF asked[r].op \in AboutAddresses THEN {"book"} ELSE {})
Overlapping ==
  {x \in Markets \cup Addresses \cup {"book"} : \E q, r \in Requests : q # r /\ x \in Subjects(q) /\ x \in Subjects(r)}

(* A record lies in a city or at a hub, or a request is about to put it     *)
(* there.                                                                   *)
LiesAt(x, p) ==
  \/ x \in Markets /\ (market[x].city = p \/ market[x].hub = p)
  \/ x \in Hubs /\ hub[x].city = p
  \/ x \in Addresses /\ address[x].city = p
  \/ \E r \in Requests : /\ Open(r) /\ asked[r].on = x
                         /\ Given(asked[r].set, "city", "none") = p \/ Given(asked[r].set, "hub", "none") = p
  \/ \E r \in Requests : Open(r) /\ asked[r].op = "assignHubMarkets" /\ x \in asked[r].to.markets /\ asked[r].on = p
Moved == {c \in Cities : city'[c].state # city[c].state} \cup {h \in Hubs : hub'[h].state # hub[h].state}
Uproots == {e \in (Markets \cup Hubs \cup Addresses) \X Moved : LiesAt(e[1], e[2])}

Next ==
  /\ \E r \in Requests :
       \/ CheckCity(r) \/ CreateCity(r) \/ UpdateCity(r)
       \/ ChangeState(r) \/ ToggleState(r) \/ ChangeStatus(r)
       \/ CheckMarket(r) \/ CreateMarket(r) \/ UpdateMarket(r) \/ CheckAssignMarketHub(r)
       \/ CheckHub(r) \/ CreateHub(r) \/ UpdateHub(r)
       \/ CheckAssignMarkets(r) \/ WriteHubMarkets(r) \/ WriteMarketsHub(r)
       \/ ReadAreas(r) \/ WriteAreas(r) \/ RetireAreas(r)
       \/ CheckAddress(r) \/ ClearDefaults(r) \/ CountAddresses(r) \/ CreateAddress(r) \/ UpdateAddress(r)
       \/ StartSetDefault(r) \/ StartArchive(r) \/ LookForDefault(r) \/ Promote(r)
       \/ Die(r)
  /\ crossed' = crossed \cup Overlapping'
  /\ uprooted' = uprooted \cup Uproots

-----------------------------------------------------------------------------
(* A city of the record's state, unless the city moved under it; a hub of   *)
(* the market's state, unless the hub moved or two requests crossed; and a  *)
(* city and an area of the address's, unless two requests crossed.          *)
InCity(x, s, c) == c \in Cities /\ (<<x, c>> \in uprooted \/ city[c].state = s)
AtHub(m, s, h) == h = "none" \/ m \in crossed \/ (h \in Hubs /\ (<<m, h>> \in uprooted \/ hub[h].state = s))
Lives(a, s, c, n) ==
  \/ a \in crossed
  \/ /\ c = "none" \/ InCity(a, s, c)
     /\ n = "none" \/ \E k \in area : k.state = s /\ k.name = n

(* However many requests there are, and however they overlap: the city of a *)
(* market or a hub is of its state; the hub of a market is too, and so are  *)
(* the city and the area of an address, unless two requests were at work on *)
(* that market or that address at once.  What moves away under a record is  *)
(* known to (README, divergences).                                          *)
PlacesAgree ==
  /\ \A m \in Markets : market[m] # NoMarket =>
       InCity(m, market[m].state, market[m].city) /\ AtHub(m, market[m].state, market[m].hub)
  /\ \A h \in Hubs : hub[h] # NoHub => InCity(h, hub[h].state, hub[h].city)
  /\ \A a \in Addresses : address[a].status = "active" =>
       Lives(a, address[a].state, address[a].city, address[a].area)

(* A customer has one default address at most, in every moment, unless two  *)
(* requests were at work on his addresses at once.                          *)
OneDefault == "book" \notin crossed => \A a, b \in Defaults : a = b

Settled == \A r \in Requests : ~Open(r)
(* He always has one.                                                       *)
AlwaysADefault == Settled /\ Kept # {} => Defaults # {}
(* He never has two.                                                        *)
NeverTwoDefaults == \A a, b \in Defaults : a = b
(* No hub is of another state than its markets.                             *)
HubsAgree == \A m \in Markets : market[m].hub # "none" => hub[market[m].hub].state = market[m].state
(* A hub's list has the markets whose hub it is.                            *)
ListsAgree == \A h \in Hubs, m \in Markets :
  Settled /\ hub[h] # NoHub /\ market[m] # NoMarket => (m \in hub[h].markets <=> market[m].hub = h)
(* A market is open only where Hook operates.                               *)
OpenWhereHookIs == \A m \in Markets :
  Settled /\ market[m].status = "active" => state[market[m].state].operations /\ state[market[m].state].status = "active"
=============================================================================
