------------------------------ MODULE Billing ------------------------------
(***************************************************************************)
(* What a person does from the app with parties outside: checkouts and     *)
(* stored cards with Stripe, fiscal invoices with Facturapi, phones with   *)
(* SNS.  They share no state with one another: party says which of them a  *)
(* behaviour is about, and the others stay as they began.                  *)
(***************************************************************************)
EXTENDS Naturals

CONSTANTS
    Plans, MaxMonth, MaxPrice, Intents, MaxEvents, Unreachable, Races,   \* Checkout
    Methods, CardOf, CardRequests, MaxCardRequests,                      \* Cards
    Invoices, StampRequests, Customers, MaxVoids, MaxDeploys,            \* Cfdi
    Users, Tokens, Rows, Arns, Mobiles, Externals, Registrations,        \* Push
    Unique, Crashes, ExpiresInUse, MaxCalls,
    Overlap,     \* whether requests about the cards or a phone overlap
    None

VARIABLES
    party,
    month, price, row, intent, events, browser, checkout,          \* Checkout
    saved, default, customer, attached, invoiced, intents, told,   \* Cards
    req, doubtful, orphans, count,
    mode, invoice, profile, remote, cfdi, asking, voids, deploys,  \* Cfdi
    phone, endpoint, joining, alive, mobile, answered, tries       \* Push

Checkouts == INSTANCE Checkout

Stored == INSTANCE Cards WITH
    events <- told, Requests <- CardRequests, MaxRequests <- MaxCardRequests

Fiscal == INSTANCE Cfdi WITH
    req <- asking, Requests <- StampRequests

Phones == INSTANCE Push WITH
    row <- phone, req <- joining, told <- answered, calls <- tries,
    Requests <- Registrations

ASSUME BillingAssumption ==
    /\ Checkouts!CheckoutAssumption /\ Stored!CardsAssumption
    /\ Fiscal!CfdiAssumption /\ Phones!PushAssumption

checkoutVars == <<month, price, row, intent, events, browser, checkout>>
cardVars == <<saved, default, customer, attached, invoiced, intents, told, req, doubtful,
              orphans, count>>
cfdiVars == <<mode, invoice, profile, remote, cfdi, asking, voids, deploys>>
pushVars == <<phone, endpoint, joining, alive, mobile, answered, tries>>
billingVars == <<party, checkoutVars, cardVars, cfdiVars, pushVars>>

BillingInit ==
    /\ party \in {"checkout", "cards", "cfdi", "phones"}
    /\ Checkouts!Init /\ Stored!Init /\ Fiscal!Init /\ Phones!Init

BillingNext ==
    /\ UNCHANGED party
    /\ \/ party = "checkout" /\ Checkouts!Next /\ UNCHANGED <<cardVars, cfdiVars, pushVars>>
       \/ party = "cards" /\ Stored!Next /\ UNCHANGED <<checkoutVars, cfdiVars, pushVars>>
       \/ party = "cfdi" /\ Fiscal!Next /\ UNCHANGED <<checkoutVars, cardVars, pushVars>>
       \/ party = "phones" /\ Phones!Next /\ UNCHANGED <<checkoutVars, cardVars, cfdiVars>>

BillingSpec == BillingInit /\ [][BillingNext]_billingVars

\* The properties are the components' own, each where its component moves.

\* No plan and month is charged or granted twice, what the customer can still
\* pay is an intent some row names, and once told, what Stripe took is a
\* success here.
ChargedAndGrantedOnce ==
    party = "checkout" =>
        /\ Checkouts!ChargedOncePerPeriod
        /\ Checkouts!PayableIsKnown
        /\ Checkouts!GrantedOnce
        /\ Checkouts!PaidIsSuccess

\* The cards of an account are listed once each and one of them is the default
\* that renewals charge; they are those Stripe keeps attached, but for those of
\* which a call to Stripe or the commit failed.
CardsAreInStep ==
    party = "cards" =>
        /\ Stored!CardsHaveDefault
        /\ Stored!NoTwins
        /\ Stored!AttachedIsListed
        /\ Stored!ListedIsAttached

\* An invoice is stamped once on each side of Facturapi, for a customer that
\* side knows.
StampedOnceForItsCustomer ==
    party = "cfdi" =>
        /\ Fiscal!StampedOnce
        /\ Fiscal!CustomerIsThere

\* What is sent to a person reaches their phone and no other, and a
\* mobility device notifies a row of its own person.
PushesFindTheirPerson ==
    party = "phones" =>
        /\ Phones!PushesReachTheirPhone
        /\ Phones!LinksAreOwn

\* The fiscal uuid of an invoice is never replaced by another one.
StampStays == [][party = "cfdi" => Fiscal!KeepsStamp]_billingVars

=============================================================================
