------------------------------- MODULE Catalog ------------------------------
(***************************************************************************)
(* The plans and products that staff sell (internal/plans.py), the         *)
(* subscription that ties one organization to a plan, and the capability   *)
(* it is served under.                                                     *)
(*                                                                         *)
(* Each request runs in one transaction.  It reads first and keeps in tx   *)
(* what its statements do: the rows they delete are those they see, and    *)
(* the foreign keys and unique keys are checked against what is committed. *)
(***************************************************************************)
EXTENDS Naturals

CONSTANTS
    Plans, Products,
    Codes,      \* capabilities
    Code,       \* the one that the organization asks for
    MaxValue,   \* values of a capability, 0 the default
    Requests

CatalogAssumption == Code \in Codes /\ MaxValue \in Nat \ {0} /\ "none" \notin Plans

Values == 0..MaxValue

VARIABLES
    plans,      \* the rows of plans
    caps,       \* plan_capabilities: the value of each capability a plan has
    bundle,     \* plan_products
    products,   \* the rows of products: "active", "inactive" or "absent"
    sub,        \* the subscription of the organization
    override,   \* its row of organization_capabilities
    sent,       \* history: the capabilities each plan was last given
    mixed,      \* history: plans two requests wrote to at the same time
    tx

vars == <<plans, caps, bundle, products, sub, override, sent, mixed, tx>>
catalog == <<plans, caps, bundle, products, sent, mixed>>

NoSub == [plan |-> "none", status |-> "none"]
NoOverride == [value |-> 0, live |-> FALSE]
NoRows == [c \in {} |-> 0]
Write(kind, p) ==
    [kind |-> kind, plan |-> p, gone |-> {}, new |-> NoRows, out |-> {}, in |-> {}]
Idle == Write("idle", "none")

\* The capabilities of a plan: those of new, and of old what new has not.
With(new, old) ==
    [c \in DOMAIN new \cup DOMAIN old |-> IF c \in DOMAIN new THEN new[c] ELSE old[c]]
Without(old, gone) == [c \in DOMAIN old \ gone |-> old[c]]

Init ==
    /\ plans = {} /\ products = [x \in Products |-> "absent"]
    /\ caps = [p \in Plans |-> NoRows] /\ sent = caps
    /\ bundle = [p \in Plans |-> {}]
    /\ sub = NoSub
    /\ override = NoOverride
    /\ mixed = {}
    /\ tx = [r \in Requests |-> Idle]

-----------------------------------------------------------------------------
(* Requests.  gone and new are rows of caps, out and in rows of bundle.    *)

Writing(p) == {r \in Requests : tx[r].kind # "idle" /\ tx[r].plan = p}

Prepares(r, write) ==
    /\ tx[r] = Idle
    /\ tx' = [tx EXCEPT ![r] = write]
    /\ mixed' = IF Writing(write.plan) = {} THEN mixed ELSE mixed \cup {write.plan}
    /\ UNCHANGED <<plans, caps, bundle, products, sub, override, sent>>

\* Mutant: the capabilities a plan had are not deleted.
SyncCapabilitiesAdding(p) == {}

\* The rows that _sync_plan_capabilities and _sync_plan_products delete are
\* those committed when they run.
SyncCapabilities(p) == DOMAIN caps[p]

SyncProducts(p) == bundle[p]

Known(set) == \A x \in set : products[x] # "absent"

CreatePlan(r, p, given, set) ==
    /\ p \notin plans
    /\ Known(set)
    /\ Prepares(r, [Write("create", p) EXCEPT !.new = given, !.in = set])

\* With both lists; a PATCH of the price alone changes nothing here.
UpdatePlan(r, p, given, set) ==
    /\ p \in plans
    /\ Known(set)
    /\ Prepares(r, [Write("update", p) EXCEPT
          !.gone = SyncCapabilities(p), !.new = given,
          !.out = SyncProducts(p), !.in = set])

\* Only ACTIVE and TRIAL count.
ActiveSubscriptions(p) == sub.plan = p /\ sub.status \in {"ACTIVE", "TRIAL"}

DeletePlan(r, p) ==
    /\ p \in plans
    /\ ~ActiveSubscriptions(p)
    /\ Prepares(r, [Write("delete", p) EXCEPT
          !.gone = SyncCapabilities(p), !.out = SyncProducts(p)])

\* An existing row is updated in place.
AddCapability(r, p, c, v) ==
    /\ p \in plans
    /\ Prepares(r, [Write("capability", p) EXCEPT
          !.gone = {c} \cap DOMAIN caps[p], !.new = [d \in {c} |-> v]])

RemoveCapability(r, p, c) ==
    /\ p \in plans
    /\ c \in DOMAIN caps[p]
    /\ Prepares(r, [Write("capability", p) EXCEPT !.gone = {c}])

AddProduct(r, p, x) ==
    /\ p \in plans
    /\ Known({x})
    /\ x \notin bundle[p]
    /\ Prepares(r, [Write("product", p) EXCEPT !.in = {x}])

RemoveProduct(r, p, x) ==
    /\ p \in plans
    /\ x \in bundle[p]
    /\ Prepares(r, [Write("product", p) EXCEPT !.out = {x}])

InPlans(x) == \E p \in Plans : x \in bundle[p]

DeleteProduct(r, x) ==
    /\ products[x] # "absent"
    /\ ~InPlans(x)
    /\ Prepares(r, [Write("discard", "none") EXCEPT !.out = {x}])

\* In one statement: nothing was read before that another request may change.
CreateProduct(x) ==
    /\ products[x] = "absent"
    /\ products' = [products EXCEPT ![x] = "active"]
    /\ UNCHANGED <<plans, caps, bundle, sub, override, sent, mixed, tx>>

\* internal/products.py only deactivates; PATCH of either router reactivates.
SetProductActive(x, active) ==
    /\ products[x] = IF active THEN "inactive" ELSE "active"
    /\ products' = [products EXCEPT ![x] = IF active THEN "active" ELSE "inactive"]
    /\ UNCHANGED <<plans, caps, bundle, sub, override, sent, mixed, tx>>

-----------------------------------------------------------------------------
Kept(w) == Without(caps[w.plan], w.gone)

\* Mutant: the schema before migrations 026 and 033, without foreign keys.
ConflictsUniqueOnly(w) ==
    /\ w.kind # "discard"
    /\ \/ w.kind = "create" /\ w.plan \in plans
       \/ DOMAIN Kept(w) \cap DOMAIN w.new # {}

\* uq and primary keys; plan_products, plan_capabilities and subscriptions
\* reference plans, and plan_products references products.
Conflicts(w) ==
    IF w.kind = "discard" THEN \E p \in Plans : w.out \cap bundle[p] # {}
    ELSE \/ (w.kind = "create") # (w.plan \notin plans)
         \/ DOMAIN Kept(w) \cap DOMAIN w.new # {}
         \/ (bundle[w.plan] \ w.out) \cap w.in # {}
         \/ \E x \in w.in : products[x] = "absent"
         \/ w.kind = "delete" /\ (sub.plan = w.plan \/ DOMAIN Kept(w) # {}
                                     \/ bundle[w.plan] \ w.out # {})

\* A row already gone is deleted by nobody, which is an error for the ORM.
Stale(w) == w.kind = "capability" /\ ~(w.gone \subseteq DOMAIN caps[w.plan])

\* The answers 500 of a conflict roll everything back.
Commit(r) ==
    LET w == tx[r] IN
    /\ w # Idle
    /\ IF w.kind = "discard"
       THEN /\ ~Conflicts(w)
            /\ products' = [x \in Products |->
                  IF x \in w.out THEN "absent" ELSE products[x]]
            /\ UNCHANGED <<plans, caps, bundle, sent>>
       ELSE /\ ~Conflicts(w) /\ ~Stale(w)
            /\ plans' = IF w.kind = "delete" THEN plans \ {w.plan}
                                             ELSE plans \cup {w.plan}
            /\ caps' = [caps EXCEPT ![w.plan] = With(w.new, Kept(w))]
            /\ bundle' = [bundle EXCEPT ![w.plan] = (@ \ w.out) \cup w.in]
            /\ sent' = IF w.kind \in {"create", "update", "delete"}
                       THEN [sent EXCEPT ![w.plan] = w.new]
                       ELSE [sent EXCEPT ![w.plan] = With(w.new, Without(@, w.gone))]
            /\ UNCHANGED products
    /\ tx' = [tx EXCEPT ![r] = Idle]
    /\ UNCHANGED <<sub, override, mixed>>

Abort(r) ==
    /\ tx[r] # Idle
    /\ tx' = [tx EXCEPT ![r] = Idle]
    /\ UNCHANGED <<plans, caps, bundle, products, sub, override, sent, mixed>>

-----------------------------------------------------------------------------
(* The organization: what billing does to its subscription (Renewals and   *)
(* Checkout have the detail), and an override, which only SQL writes       *)
(* because no role has capabilities.override.                              *)

Subscribe(p) ==
    /\ p \in plans
    /\ sub' = [plan |-> p, status |-> "ACTIVE"]
    /\ UNCHANGED <<catalog, override, tx>>

SubscriptionEnds(status) ==
    /\ sub # NoSub
    /\ sub.status # status
    /\ sub' = [sub EXCEPT !.status = status]
    /\ UNCHANGED <<catalog, override, tx>>

SetOverride(o) ==
    /\ override # o
    /\ override' = o
    /\ UNCHANGED <<catalog, sub, tx>>

\* subscription_query; a PAST_DUE one here is within its grace.
ActivePlan == IF sub.status \in {"ACTIVE", "TRIAL", "PAST_DUE"} THEN {sub.plan} ELSE {}

\* Mutant: the plan of any subscription.
ResolvedEver ==
    IF override.live THEN override.value
    ELSE IF \E p \in Plans \cap {sub.plan} : Code \in DOMAIN caps[p]
         THEN caps[sub.plan][Code] ELSE 0

\* CapabilityService.get_capability.
Resolved ==
    IF override.live THEN override.value
    ELSE IF \E p \in ActivePlan : Code \in DOMAIN caps[p]
         THEN caps[sub.plan][Code] ELSE 0

Rows == UNION {[S -> Values] : S \in SUBSET Codes}

OfPlan(r, p) ==
    \/ \E given \in Rows, set \in SUBSET Products :
          CreatePlan(r, p, given, set) \/ UpdatePlan(r, p, given, set)
    \/ DeletePlan(r, p)
    \/ \E c \in Codes : RemoveCapability(r, p, c) \/ \E v \in Values : AddCapability(r, p, c, v)
    \/ \E x \in Products : AddProduct(r, p, x) \/ RemoveProduct(r, p, x)

Next ==
    \/ \E r \in Requests :
          \/ Commit(r) \/ Abort(r)
          \/ \E p \in Plans : OfPlan(r, p)
          \/ \E x \in Products : DeleteProduct(r, x)
    \/ \E x \in Products :
          CreateProduct(x) \/ \E active \in BOOLEAN : SetProductActive(x, active)
    \/ \E p \in Plans : Subscribe(p)
    \/ \E status \in {"PAST_DUE", "CANCELLED", "EXPIRED"} : SubscriptionEnds(status)
    \/ \E v \in Values, live \in BOOLEAN : SetOverride([value |-> v, live |-> live])

Spec == Init /\ [][Next]_vars

-----------------------------------------------------------------------------
\* Whoever pays has a plan, and a plan offers products that exist, although
\* each deletion looks for references before it deletes, and ignores the
\* subscriptions that are past due.
ReferencesResolve ==
    /\ sub # NoSub => sub.plan \in plans
    /\ \A p \in Plans : \A x \in bundle[p] : p \in plans /\ products[x] # "absent"
    /\ \A p \in Plans : DOMAIN caps[p] # {} => p \in plans

\* A PATCH replaces what the plan had: its capabilities are those last sent,
\* plus what was added or removed one by one since.  With a plan in mixed two
\* requests each delete the rows they saw and insert theirs, and both remain.
ReplacedWhole == \A p \in Plans \ mixed : caps[p] = sent[p]

\* Above the default, an organization is served only what an override in force
\* or the plan of a subscription in force grants.
ServedIsGranted ==
    Resolved > 0 =>
        \/ override.live /\ override.value = Resolved
        \/ /\ sub.status \notin {"none", "CANCELLED", "EXPIRED"}
           /\ sub.plan \in plans
           /\ Code \in DOMAIN caps[sub.plan] /\ caps[sub.plan][Code] = Resolved

=============================================================================
