------------------------------ MODULE Platform ------------------------------
(***************************************************************************)
(* What the platform lets people see, order and be told: access and its    *)
(* tokens, what of the past it lets see, the tree of accounts and their    *)
(* brands, the events of the control plane, orders to devices, alert       *)
(* rules.  They share no state with one another: part says which of them   *)
(* a behaviour is about, and the others stay as they began.  Access is the *)
(* module this one extends; the sizes of the others are records.           *)
(***************************************************************************)
EXTENDS Access

CONSTANTS
    Colleagues, Revokers,  \* Access, two sizes: how many people, how many revocations at once
    Book, Stay, Reading,   \* Windows, and two sizes: comings and goings, pages of trips
    Fleet,                 \* Windows again: many devices
    Forest, Reselling, Growing,  \* Tenancy, and two sizes: limits, trees
    Contract,              \* ControlPlane
    Ordering, Stock,       \* Commands, two sizes: orders, SIMs
    Definitions,           \* AlertRules
    Drafting, Hosting,     \* Branding, two sizes: editors, hosts
    None

VARIABLES
    part,
    clock, fits, grant, past, closed, trip, pager, carried, let,    \* Windows
    overwritten, edits,
    parent, path, type, status, own, hung,                          \* Tenancy
    granted, fitted, seats, deleted, tx, topic, reader, copy,       \* ControlPlane
    been, unsure, commits,
    place, card, order, sending, sms, asking, listing, patching,  \* Commands
    obeyed, moves, doubled,
    row, req, last, lost, mixed, writes,                            \* AlertRules
    brand, legible, editing, events, domain, visit, page, hour,     \* Branding
    seen, owned, dim, saves, shifts

\* A device that comes and goes between units, grants of them, and its trips,
\* read a page at a time.
Showing == INSTANCE Windows WITH
    now <- clock, fit <- fits, reader <- pager, lost <- overwritten, changes <- edits,
    Devices <- Book.devices, OwnUnits <- Book.own, Elsewhere <- Book.elsewhere,
    Trips <- Book.trips, Hour <- Book.hour, Day <- Book.day, Page <- Book.page,
    Ties <- Book.ties, MaxTime <- Book.time, MaxChanges <- Book.changes

\* Devices asked for in one call.
Together == INSTANCE Windows WITH
    now <- clock, fit <- fits, reader <- pager, lost <- overwritten, changes <- edits,
    Devices <- Fleet.devices, OwnUnits <- Fleet.own, Elsewhere <- Fleet.elsewhere,
    Trips <- Fleet.trips, Hour <- Fleet.hour, Day <- Fleet.day, Page <- Fleet.page,
    Ties <- Fleet.ties, MaxTime <- Fleet.time, MaxChanges <- Fleet.changes

\* Accounts, and the limit that each one sets.
Accounts == Forest.accounts
Tree == INSTANCE Tenancy WITH
    Accounts <- Accounts, Types <- Forest.types, Endings <- Forest.endings,
    Values <- Forest.values, MaxDepth <- Forest.depth

\* Requests on people, units and devices.
Events == INSTANCE ControlPlane WITH
    grants <- granted, changes <- commits,
    People <- Contract.people, Units <- Contract.units, Devices <- Contract.devices,
    Requests <- Contract.requests, MaxChanges <- Contract.changes, MaxTopic <- Contract.topic

\* Orders, and cards and devices that change places.
Ordered == INSTANCE Commands WITH
    Orders <- Ordering.orders, Devices <- Ordering.devices, Units <- Ordering.units, Cards <- Ordering.cards,
    Sims <- Ordering.sims, Syncs <- Ordering.syncs, Listings <- Ordering.listings, Patches <- Ordering.patches,
    MaxMoves <- Ordering.moves

\* Listings of KORE's SIMs.
SimCards == INSTANCE Commands WITH
    Orders <- Stock.orders, Devices <- Stock.devices, Units <- Stock.units, Cards <- Stock.cards,
    Sims <- Stock.sims, Syncs <- Stock.syncs, Listings <- Stock.listings, Patches <- Stock.patches,
    MaxMoves <- Stock.moves

\* Rules that may come to say the same, and geofences.
Rules == INSTANCE AlertRules WITH
    RuleIds <- Definitions.rules, FenceIds <- Definitions.geofences,
    Types <- Definitions.types, Configs <- Definitions.configs, Parts <- Definitions.parts,
    Requests <- Definitions.requests, MaxWrites <- Definitions.writes

\* Editors of the brand of an account.
Studio == INSTANCE Branding WITH
    now <- hour, writes <- saves, moves <- shifts,
    Accounts <- Drafting.accounts, Hosts <- Drafting.hosts, Editors <- Drafting.editors,
    Drafts <- Drafting.drafts, Statuses <- Drafting.statuses, MaxAge <- Drafting.age, MaxTime <- Drafting.time,
    MaxWrites <- Drafting.writes, MaxMoves <- Drafting.moves, Overlap <- Drafting.overlap

\* Hosts that change hands, and are verified, while their pages are kept.
Sites == INSTANCE Branding WITH
    now <- hour, writes <- saves, moves <- shifts,
    Accounts <- Hosting.accounts, Hosts <- Hosting.hosts, Editors <- Hosting.editors,
    Drafts <- Hosting.drafts, Statuses <- Hosting.statuses, MaxAge <- Hosting.age, MaxTime <- Hosting.time,
    MaxWrites <- Hosting.writes, MaxMoves <- Hosting.moves, Overlap <- Hosting.overlap

ASSUME PlatformAssumption ==
    /\ AccessAssumption
    /\ Showing!WindowsAssumption /\ Together!WindowsAssumption
    /\ Tree!TenancyAssumption
    /\ Events!ControlPlaneAssumption
    /\ Ordered!CommandsAssumption /\ SimCards!CommandsAssumption
    /\ Rules!AlertRulesAssumption
    /\ Studio!BrandingAssumption /\ Sites!BrandingAssumption

windowVars == <<clock, fits, grant, past, closed, trip, pager, carried, let, overwritten, edits>>
treeVars == <<parent, path, type, status, own, hung>>
eventVars == <<granted, fitted, seats, deleted, tx, topic, reader, copy, been, unsure, commits>>
orderVars ==
    <<place, card, order, sending, sms, asking, listing, patching, obeyed, moves, doubled>>
ruleVars == <<row, req, last, lost, mixed, writes>>
brandVars == <<brand, legible, editing, events, domain, visit, page, hour, seen, owned, dim,
               saves, shifts>>
platformVars ==
    <<part, vars, windowVars, treeVars, eventVars, orderVars, ruleVars, brandVars>>

NoAccess ==
    /\ role = <<>> /\ grants = {} /\ live = {} /\ fit = {} /\ token = <<>> /\ index = <<>>
    /\ job = <<>> /\ now = 0 /\ changes = 0 /\ due = {} /\ since = <<>> /\ given = {}
NoWindows ==
    /\ clock = 0 /\ fits = <<>> /\ grant = <<>> /\ past = {} /\ closed = {} /\ trip = <<>>
    /\ pager = None /\ carried = {} /\ let = {} /\ overwritten = {} /\ edits = 0
NoTree ==
    /\ parent = <<>> /\ path = <<>> /\ type = <<>> /\ status = <<>> /\ own = <<>> /\ hung = {}
NoEvents ==
    /\ granted = {} /\ fitted = <<>> /\ seats = <<>> /\ deleted = {} /\ tx = <<>>
    /\ topic = <<>> /\ reader = <<>> /\ copy = <<>> /\ been = <<>> /\ unsure = {} /\ commits = 0
NoOrders ==
    /\ place = <<>> /\ card = <<>> /\ order = <<>> /\ sending = <<>> /\ sms = <<>>
    /\ asking = <<>> /\ listing = <<>> /\ patching = <<>> /\ obeyed = {} /\ moves = 0 /\ doubled = {}
NoRules == row = <<>> /\ req = <<>> /\ last = <<>> /\ lost = {} /\ mixed = {} /\ writes = 0

NoBrands ==
    /\ brand = <<>> /\ legible = {} /\ editing = <<>> /\ events = {} /\ domain = <<>>
    /\ visit = <<>> /\ page = <<>> /\ hour = 0 /\ seen = {} /\ owned = {} /\ dim = {}
    /\ saves = 0 /\ shifts = 0

-----------------------------------------------------------------------------
(* Sizes.  Where a component has two questions to answer, each is asked of *)
(* a part of what it may use: a bound on that.                             *)

\* The people who may see anything, and the revocations under way.
Involved == {u \in Users : role[u] # "out" \/ \E v \in Units : <<u, v>> \in grants}
Busy == {j \in Jobs : job[j] # NoJob}
Within(crowd) == Cardinality(Involved) <= crowd.people /\ Cardinality(Busy) <= crowd.jobs

\* The units that a device or a grant was ever of, the trips that began, and
\* what was changed.
UnitsUsed ==
    {u \in Book.own :
        \/ grant[u] # None \/ u \in closed \/ \E g \in past : g.unit = u
        \/ \E d \in Book.devices : fits[<<u, d>>] # None}
Turned(size) ==
    /\ Cardinality(UnitsUsed) <= size.units
    /\ Showing!Begun \subseteq size.trips
    /\ edits <= size.changes

\* The accounts that hang from another or set a limit, and what they are.
Grown(size) ==
    \A a \in Accounts :
        /\ a \notin size.accounts => parent[a] = None /\ own[a].value = None
        /\ parent[a] \in size.accounts \cup {None}
        /\ type[a] \in size.types /\ status[a] \in size.statuses
        /\ own[a].value \in size.values \cup {None}

\* The hosts of anybody or ever asked for, with the moves of staff.
HostsUsed == {h \in Hosting.hosts : domain[h] # None \/ visit[h] # None \/ page[h] # None}
Spread == Cardinality(HostsUsed) + shifts <= Hosting.spread

-----------------------------------------------------------------------------
\* Each component begins in its own initial states where the behaviour is
\* about it.
PlatformInit ==
    /\ part \in {"colleagues", "revocations", "stays", "together", "pages", "limits", "tree",
                "events", "orders", "sims", "rules", "studio", "sites"}
    /\ CASE part = "colleagues" -> Init /\ Within(Colleagues)
         [] part = "revocations" -> Init /\ Within(Revokers)
         [] OTHER -> NoAccess
    /\ CASE part \in {"stays", "pages"} -> Showing!Init [] part = "together" -> Together!Init
         [] OTHER -> NoWindows
    /\ CASE part = "limits" -> Tree!Init /\ Grown(Reselling)
         [] part = "tree" -> Tree!Init /\ Grown(Growing)
         [] OTHER -> NoTree
    /\ IF part = "events" THEN Events!Init ELSE NoEvents
    /\ CASE part = "orders" -> Ordered!Init [] part = "sims" -> SimCards!Init
         [] OTHER -> NoOrders
    /\ IF part = "rules" THEN Rules!Init ELSE NoRules
    /\ CASE part = "studio" -> Studio!Init [] part = "sites" -> Sites!Init /\ Spread
         [] OTHER -> NoBrands

OnlyAccess == UNCHANGED <<windowVars, treeVars, eventVars, orderVars, ruleVars, brandVars>>
OnlyWindows == UNCHANGED <<vars, treeVars, eventVars, orderVars, ruleVars, brandVars>>
OnlyTree == UNCHANGED <<vars, windowVars, eventVars, orderVars, ruleVars, brandVars>>
OnlyEvents == UNCHANGED <<vars, windowVars, treeVars, orderVars, ruleVars, brandVars>>
OnlyOrders == UNCHANGED <<vars, windowVars, treeVars, eventVars, ruleVars, brandVars>>
OnlyRules == UNCHANGED <<vars, windowVars, treeVars, eventVars, orderVars, brandVars>>
OnlyBrands == UNCHANGED <<vars, windowVars, treeVars, eventVars, orderVars, ruleVars>>

PlatformNext ==
    /\ UNCHANGED part
    /\ \/ part = "colleagues" /\ Next /\ Within(Colleagues)' /\ OnlyAccess
       \/ part = "revocations" /\ Next /\ Within(Revokers)' /\ OnlyAccess
       \/ part = "stays" /\ Showing!Next /\ Turned(Stay)' /\ OnlyWindows
       \/ part = "pages" /\ Showing!Next /\ Turned(Reading)' /\ OnlyWindows
       \/ part = "together" /\ Together!Next /\ OnlyWindows
       \/ part = "limits" /\ Tree!Next /\ Grown(Reselling)' /\ OnlyTree
       \/ part = "tree" /\ Tree!Next /\ Grown(Growing)' /\ OnlyTree
       \/ part = "events" /\ Events!Next /\ OnlyEvents
       \/ part = "orders" /\ Ordered!Next /\ OnlyOrders
       \/ part = "sims" /\ SimCards!Next /\ OnlyOrders
       \/ part = "rules" /\ Rules!Next /\ OnlyRules
       \/ part = "studio" /\ Studio!Next /\ OnlyBrands
       \/ part = "sites" /\ Sites!Next /\ Spread' /\ OnlyBrands

PlatformSpec == PlatformInit /\ [][PlatformNext]_platformVars

\* The properties are the components' own, each where its component moves.

\* A narrowing that was not given up ends the tokens it narrowed, and nobody
\* sees for longer than a token lives what is no longer theirs.
AccessEnds ==
    part \in {"colleagues", "revocations"} =>
        /\ RevocationReaches
        /\ StaleAccessEnds

\* Telemetry and trips are shown to whoever had the device at the time, of
\* several devices as of one, and no page leaves a trip out.
PastIsSeenByItsOwners ==
    /\ part = "stays" => Showing!HoursServedAreTheirs
    /\ part = "together" => Together!BatchIsSingle
    /\ part = "pages" =>
        /\ Showing!TripsListedAreTheirs
        /\ Showing!PagesMissNothing

\* The path of an account is its line of parents, and no change of type leaves
\* somebody who operates under a customer; no account is served more than an ancestor of its
\* has, and whoever is served less than their own row says is told who cuts it.
\* A brand can go back to what it was, shows what was drafted together, on its
\* own hosts, and its letters lead to it.
TenantsAreSound ==
    /\ part = "tree" =>
        /\ Tree!PathsFollowParents
        /\ Tree!LeftUnderNoCustomer
    /\ part = "limits" =>
        /\ Tree!CeilingHolds
        /\ Tree!LimitIsNamed
    /\ part = "studio" =>
        /\ Studio!BackIsPossible
        /\ Studio!ShownTogether
    /\ part = "sites" =>
        /\ Sites!PagesOfTheirBrand
        /\ Sites!LettersLeadHome

\* No event says what was never committed, and the consumer's copy is the
\* database's, but for what was lost on the way.
EventsTellTheTruth ==
    part = "events" =>
        /\ Events!EventsWereTrue
        /\ Events!CopyConverges

\* An order shows what KORE says of it, nobody but the device that was named
\* obeys it, and no SIM has two cards but for those that staff wrote when
\* another card had it or a listing was about to make one.
OrdersReachTheirDevice ==
    /\ part = "orders" =>
        /\ Ordered!StatusIsKores
        /\ Ordered!OnlyTheNamedObeys
    /\ part = "sims" => SimCards!OneCardPerSim

\* An order that KORE settled is never shown as under way again.
SettledIsShown == [][part = "orders" => Ordered!KeepsSettled]_platformVars

\* The fingerprint of a rule is that of what it says, no two live rules say
\* the same, and the topic ends with what the row says.
RulesAreDistinctAndTold ==
    part = "rules" =>
        /\ Rules!FingerprintIsOfContent
        /\ Rules!NoTwoAlike
        /\ Rules!TopicFollows

=============================================================================
