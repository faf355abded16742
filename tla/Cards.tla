------------------------------- MODULE Cards -------------------------------
(***************************************************************************)
(* The stored cards of an account: payment_methods, and the PaymentMethods *)
(* that Stripe has attached to its customer.  A card that Stripe.js has    *)
(* confirmed is saved by the front (confirm) and by the webhook, whichever *)
(* comes first, and both may come more than once.                          *)
(*                                                                         *)
(* Each request calls Stripe in the middle of its transaction: the call    *)
(* may fail, and the process may die before the commit.  Of one account    *)
(* the requests follow one another unless Overlap; then the unique indices *)
(* of the table are all that stands between them.  No code clears          *)
(* is_active, so a row is there or is not.                                 *)
(***************************************************************************)
EXTENDS Naturals

CONSTANTS
    Methods,       \* ids of PaymentMethods
    CardOf,        \* their fingerprint
    Requests,
    MaxRequests,   \* bound on the requests
    Overlap        \* TRUE: two requests of the account may be under way

CardsAssumption == MaxRequests \in Nat /\ Overlap \in BOOLEAN /\ DOMAIN CardOf = Methods

VARIABLES
    saved,      \* payment_methods, by external_token
    default,    \* the rows with is_default
    customer,   \* the customer: "none" or "here" (payment_gateway_customers)
    attached,   \* Stripe: the methods of the customer
    invoiced,   \* Stripe: the default of the customer
    intents,    \* SetupIntents that succeeded
    events,     \* setup_intent.succeeded not handled yet
    req,        \* the requests under way
    doubtful,   \* ghost: methods Stripe detached and the table may keep
    orphans,    \* ghost: customers and cards at Stripe that nothing here will list
    count       \* requests so far

table == <<saved, default, customer>>
stripe == <<attached, invoiced, intents, events>>
vars == <<table, stripe, req, doubtful, orphans, count>>

Idle == [phase |-> "idle"]

Init ==
    /\ saved = {} /\ default = {} /\ customer = "none"
    /\ attached = {} /\ invoiced = {} /\ intents = {} /\ events = {}
    /\ req = [r \in Requests |-> Idle]
    /\ doubtful = {} /\ orphans = {}
    /\ count = 0

Starts(r, q) ==
    /\ req[r] = Idle
    /\ ~ Overlap => \A s \in Requests : req[s] = Idle
    /\ count < MaxRequests
    /\ count' = count + 1
    /\ req' = [req EXCEPT ![r] = q]

Ends(r) == req' = [req EXCEPT ![r] = Idle]

\* 4xx, 5xx, a crash: the transaction is rolled back.
Fails(r) ==
    /\ req[r] # Idle
    /\ Ends(r)
    /\ doubtful' = IF req[r].phase = "detached" THEN doubtful \cup {req[r].method} ELSE doubtful
    /\ orphans' = IF req[r].phase = "customer" THEN orphans \cup {"customer"} ELSE orphans
    /\ UNCHANGED <<table, stripe, count>>

-----------------------------------------------------------------------------
(* Adding a card. *)

\* create_setup_intent: the customer first, in a commit of its own.  A second
\* customer made at the same time is given up for the one that is there.
AskSetup(r) ==
    /\ Starts(r, [phase |-> IF customer = "none" THEN "customer" ELSE "setup"])
    /\ UNCHANGED <<table, stripe, doubtful, orphans>>

SaveCustomer(r) ==
    /\ req[r].phase = "customer"
    /\ customer' = "here"
    /\ orphans' = IF customer = "here" THEN orphans \cup {"customer"} ELSE orphans
    /\ req' = [req EXCEPT ![r] = [phase |-> "setup"]]
    /\ UNCHANGED <<saved, default, stripe, doubtful, count>>

\* Stripe.js confirms the SetupIntent with a card: it is attached, and the
\* event is on its way.
Setup(r, m) ==
    /\ req[r].phase = "setup"
    /\ m \notin intents
    /\ intents' = intents \cup {m}
    /\ attached' = attached \cup {m}
    /\ events' = events \cup {m}
    /\ Ends(r)
    /\ UNCHANGED <<table, invoiced, doubtful, orphans, count>>

\* Mutant: `existing` is not looked for.
StoredNever(m) == FALSE

\* existing, by the token.
Stored(m) == m \in saved

\* confirm_setup_intent, of an intent of this account that succeeded, and
\* _on_setup_succeeded: _persist_setup_payment_method up to its retrieve.
Confirm(r, m) ==
    /\ m \in intents
    /\ Starts(r, [phase |-> IF Stored(m) THEN "known" ELSE "retrieving",
                  method |-> m, event |-> FALSE])
    /\ UNCHANGED <<table, stripe, doubtful, orphans>>

SetupSucceeded(r, m) ==
    /\ m \in events
    /\ Starts(r, [phase |-> IF Stored(m) THEN "known" ELSE "retrieving",
                  method |-> m, event |-> TRUE])
    /\ UNCHANGED <<table, stripe, doubtful, orphans>>

\* The claim of the event is committed with what it did.
Handled(r) == events' = IF req[r].event THEN events \ {req[r].method} ELSE events

Known(r) ==
    /\ req[r].phase = "known"
    /\ Handled(r) /\ Ends(r)
    /\ UNCHANGED <<table, attached, invoiced, intents, doubtful, orphans, count>>

\* PaymentMethod.retrieve fails, or what was set up is no card: the helper
\* returns None.  confirm_setup_intent answers 502 (Fails), but
\* _on_setup_succeeded does not look at it: the event is PROCESSED, and nothing
\* but another confirm of the front will save the method.
Unread(r) ==
    /\ req[r].phase = "retrieving"
    /\ req[r].event
    /\ orphans' = IF req[r].method \in attached THEN orphans \cup {req[r].method} ELSE orphans
    /\ Handled(r) /\ Ends(r)
    /\ UNCHANGED <<table, attached, invoiced, intents, doubtful, count>>

\* Mutant: the same card is told by its token.
TwinsByToken(m) == saved \cap {m}

\* existing_fp.
Twins(m) == {x \in saved : CardOf[x] = CardOf[m]}

\* Mutant: the duplicate is left where it is.
StillAttached(m) == attached

\* detach(pm_id).
Detached(m) == attached \ {m}

\* A card that is there already is detached, if Stripe answers.
Duplicate(r) ==
    /\ req[r].phase = "retrieving"
    /\ LET m == req[r].method
       IN  /\ Twins(m) # {}
           /\ \/ attached' = Detached(m) /\ UNCHANGED orphans
              \/ /\ UNCHANGED attached
                 /\ orphans' = IF m \in attached THEN orphans \cup {m} ELSE orphans
    /\ Handled(r) /\ Ends(r)
    /\ UNCHANGED <<table, invoiced, intents, doubtful, count>>

\* The count that decides the default, and the row: in the session.
Add(r) ==
    /\ req[r].phase = "retrieving"
    /\ Twins(req[r].method) = {}
    /\ req' = [req EXCEPT ![r] = [phase |-> "adding", method |-> @.method,
                                  event |-> @.event, first |-> saved = {}]]
    /\ UNCHANGED <<table, stripe, doubtful, orphans, count>>

\* pm_external_key and uq_pm_default: the flush fails, and the request.
SaveMethod(r) ==
    /\ req[r].phase = "adding"
    /\ LET m == req[r].method
       IN  /\ m \notin saved
           /\ req[r].first => default = {}
           /\ saved' = saved \cup {m}
           /\ default' = IF req[r].first THEN {m} ELSE default
           /\ doubtful' = IF m \in attached THEN doubtful ELSE doubtful \cup {m}
    /\ Handled(r) /\ Ends(r)
    /\ UNCHANGED <<customer, attached, invoiced, intents, orphans, count>>

-----------------------------------------------------------------------------
(* Removing a card, and choosing the default. *)

\* Mutant: any card may go.
RemovableAny(m) == m \in saved

\* Neither the only card nor the default.
Removable(m) == m \in saved \ default

AskDetach(r, m) ==
    /\ Removable(m)
    /\ Starts(r, [phase |-> "detaching", method |-> m])
    /\ UNCHANGED <<table, stripe, doubtful, orphans>>

Detach(r) ==
    /\ req[r].phase = "detaching"
    /\ attached' = attached \ {req[r].method}
    /\ invoiced' = invoiced \ {req[r].method}
    /\ req' = [req EXCEPT ![r].phase = "detached"]
    /\ UNCHANGED <<table, intents, events, doubtful, orphans, count>>

\* db.delete: of a row that is still there.
DeleteMethod(r) ==
    /\ req[r].phase = "detached"
    /\ req[r].method \in saved
    /\ saved' = saved \ {req[r].method}
    /\ default' = default \ {req[r].method}
    /\ Ends(r)
    /\ UNCHANGED <<customer, stripe, doubtful, orphans, count>>

AskDefault(r, m) ==
    /\ m \in saved \ default
    /\ Starts(r, [phase |-> "choosing", method |-> m, old |-> default])
    /\ UNCHANGED <<table, stripe, doubtful, orphans>>

\* An error of Stripe is a warning; it has no default that is not attached.
ModifyCustomer(r) ==
    /\ req[r].phase = "choosing"
    /\ \/ req[r].method \in attached /\ invoiced' = {req[r].method}
       \/ UNCHANGED invoiced
    /\ req' = [req EXCEPT ![r].phase = "chosen"]
    /\ UNCHANGED <<table, attached, intents, events, doubtful, orphans, count>>

\* The UPDATE clears the defaults it saw: uq_pm_default, and a row that is
\* still there, or the request fails.
SetDefault(r) ==
    /\ req[r].phase = "chosen"
    /\ req[r].method \in saved
    /\ default \subseteq req[r].old
    /\ default' = {req[r].method}
    /\ Ends(r)
    /\ UNCHANGED <<saved, customer, stripe, doubtful, orphans, count>>

Next ==
    \E r \in Requests :
        \/ AskSetup(r) \/ SaveCustomer(r)
        \/ Known(r) \/ Unread(r) \/ Duplicate(r) \/ Add(r) \/ SaveMethod(r)
        \/ Detach(r) \/ DeleteMethod(r) \/ ModifyCustomer(r) \/ SetDefault(r)
        \/ Fails(r)
        \/ \E m \in Methods :
              Setup(r, m) \/ Confirm(r, m) \/ SetupSucceeded(r, m)
              \/ AskDetach(r, m) \/ AskDefault(r, m)

Spec == Init /\ [][Next]_vars

-----------------------------------------------------------------------------
\* An account with cards has one that is charged at the renewal, whatever was
\* added, removed, chosen or lost half way.
CardsHaveDefault == saved # {} => \E m \in saved : default = {m}

\* No card is listed twice, however often it was added, confirmed and told.
NoTwins == \A m, n \in saved : CardOf[m] = CardOf[n] => m = n

\* A card that Stripe keeps attached is listed, so that the customer can see it
\* and remove it, or its event is still to be handled, or one call to Stripe
\* failed: the detach of a duplicate, or the retrieve of the card when its
\* event was handled, after which the event does not come again.
AttachedIsListed ==
    \A m \in attached : m \in saved \/ m \in events \/ m \in orphans

\* A listed card is attached, and so can be charged, unless its removal was
\* lost half way or it was saved after it had been removed.
ListedIsAttached == saved \subseteq attached \cup doubtful \cup
    {req[r].method : r \in {s \in Requests : req[s].phase = "detached"}}

=============================================================================
