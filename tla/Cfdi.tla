-------------------------------- MODULE Cfdi --------------------------------
(***************************************************************************)
(* Fiscal invoices of one account: its tax profile, kept here and as a     *)
(* customer of Facturapi, and the CFDI that a paid invoice is stamped      *)
(* with.  Both are written there first and here afterwards, and the answer *)
(* or the process may be lost in between.                                  *)
(*                                                                         *)
(* Facturapi has a test side and a live one; the key of the deployment     *)
(* says which, and neither knows the customers of the other.  It answers a *)
(* repeated idempotency_key with what it made for it the first time.       *)
(***************************************************************************)
EXTENDS Naturals, FiniteSets

CONSTANTS
    Invoices,
    Requests,
    Customers,    \* ids that Facturapi gives out
    MaxVoids,     \* bound on the refunds
    MaxDeploys,   \* bound on the changes of key
    None

Modes == {"test", "live"}

CfdiAssumption ==
    /\ {MaxVoids, MaxDeploys} \subseteq Nat
    /\ None \notin Customers \cup Modes

VARIABLES
    mode,       \* FACTURAPI_API_KEY
    invoice,    \* invoices: paid or not, and the cfdi_uuid
    profile,    \* account_tax_profiles: the customer and its side
    remote,     \* Facturapi: the side of each customer
    cfdi,       \* Facturapi: the CFDI it made for each key
    req,        \* the requests under way
    voids,
    deploys

vars == <<mode, invoice, profile, remote, cfdi, req, voids, deploys>>

Idle == [phase |-> "idle"]
NoProfile == [customer |-> None, mode |-> None]

Init ==
    /\ mode = "test"
    /\ invoice = [i \in Invoices |-> [paid |-> TRUE, uuid |-> None]]
    /\ profile = NoProfile
    /\ remote = [c \in Customers |-> None]
    /\ cfdi = {}
    /\ req = [r \in Requests |-> Idle]
    /\ voids = 0 /\ deploys = 0

Fresh == {c \in Customers : remote[c] = None}

-----------------------------------------------------------------------------
(* PUT /tax-profile. *)

\* Mutant: the customer that is known, of whatever side.
KnownCustomerAnySide == profile.customer

\* existing_id, and profile.facturapi_customer_id in _ensure_customer.
KnownCustomer == IF profile.mode = mode THEN profile.customer ELSE None

AskProfile(r) ==
    /\ req[r] = Idle
    /\ req' = [req EXCEPT ![r] = [phase |-> "profile", customer |-> KnownCustomer,
                                  was |-> profile]]
    /\ UNCHANGED <<mode, invoice, profile, remote, cfdi, voids, deploys>>

\* create_or_update_customer: of one that is not there, a new one.
SyncCustomer(r) ==
    /\ req[r].phase = "profile"
    /\ \E c \in Customers :
          /\ IF req[r].customer # None /\ remote[req[r].customer] = mode
             THEN c = req[r].customer ELSE c \in Fresh
          /\ remote' = [remote EXCEPT ![c] = mode]
          /\ req' = [req EXCEPT ![r].phase = "synced", ![r].customer = c]
    /\ UNCHANGED <<mode, invoice, profile, cfdi, voids, deploys>>

\* A session writes the columns whose value it changed.
Written(was, new) ==
    [column \in DOMAIN new |->
        IF new[column] = was[column] THEN profile[column] ELSE new[column]]

\* A second first profile conflicts with the key of the table.
SaveProfile(r) ==
    /\ req[r].phase = "synced"
    /\ req[r].was = NoProfile => profile = NoProfile
    /\ profile' = Written(req[r].was, [customer |-> req[r].customer, mode |-> mode])
    /\ req' = [req EXCEPT ![r] = Idle]
    /\ UNCHANGED <<mode, invoice, remote, cfdi, voids, deploys>>

-----------------------------------------------------------------------------
(* POST /invoices/{id}/cfdi. *)

\* Mutant: invoices that have a uuid are sent again.
StampableAgain(i) == invoice[i].paid

\* Not stamped yet, and paid.
Stampable(i) == invoice[i].uuid = None /\ invoice[i].paid

AskStamp(r, i) ==
    /\ req[r] = Idle
    /\ Stampable(i) /\ profile # NoProfile
    /\ req' = [req EXCEPT ![r] = [phase |-> IF KnownCustomer = None THEN "customer" ELSE "stamp",
                                  invoice |-> i, customer |-> KnownCustomer, was |-> profile]]
    /\ UNCHANGED <<mode, invoice, profile, remote, cfdi, voids, deploys>>

\* _ensure_customer: always a new one, kept in a commit of its own.
EnsureCustomer(r) ==
    /\ req[r].phase = "customer"
    /\ \E c \in Fresh :
          /\ remote' = [remote EXCEPT ![c] = mode]
          /\ req' = [req EXCEPT ![r].phase = "ensured", ![r].customer = c]
    /\ UNCHANGED <<mode, invoice, profile, cfdi, voids, deploys>>

KeepCustomer(r) ==
    /\ req[r].phase = "ensured"
    /\ profile' = Written(req[r].was, [customer |-> req[r].customer, mode |-> mode])
    /\ req' = [req EXCEPT ![r].phase = "stamp"]
    /\ UNCHANGED <<mode, invoice, remote, cfdi, voids, deploys>>

\* Mutant: a key for each attempt.
KeyOfAttempt(i, r) == <<i, mode, r>>

\* idempotency_key, on one side of Facturapi.
Key(i, r) == <<i, mode>>

\* create_invoice, for a customer of this side; once per key.
CreateInvoice(r) ==
    /\ req[r].phase = "stamp"
    /\ remote[req[r].customer] = mode
    /\ cfdi' = cfdi \cup {[key |-> Key(req[r].invoice, r), invoice |-> req[r].invoice,
                           mode |-> mode]}
    /\ req' = [req EXCEPT ![r].phase = "stamped"]
    /\ UNCHANGED <<mode, invoice, profile, remote, voids, deploys>>

\* The uuid of the answer.
SaveStamp(r) ==
    /\ req[r].phase = "stamped"
    /\ invoice' = [invoice EXCEPT ![req[r].invoice].uuid = Key(req[r].invoice, r)]
    /\ req' = [req EXCEPT ![r] = Idle]
    /\ UNCHANGED <<mode, profile, remote, cfdi, voids, deploys>>

\* An error or no answer of Facturapi, no uuid in it, a conflict, a crash.
Fails(r) ==
    /\ req[r] # Idle
    /\ req' = [req EXCEPT ![r] = Idle]
    /\ UNCHANGED <<mode, invoice, profile, remote, cfdi, voids, deploys>>

\* A full refund voids the invoice; nothing cancels its CFDI.
Refund(i) ==
    /\ invoice[i].paid /\ voids < MaxVoids
    /\ voids' = voids + 1
    /\ invoice' = [invoice EXCEPT ![i].paid = FALSE]
    /\ UNCHANGED <<mode, profile, remote, cfdi, req, deploys>>

\* The other key: the process starts again.
Deploy ==
    /\ deploys < MaxDeploys
    /\ deploys' = deploys + 1
    /\ mode' \in Modes \ {mode}
    /\ req' = [r \in Requests |-> Idle]
    /\ UNCHANGED <<invoice, profile, remote, cfdi, voids>>

Next ==
    \/ \E r \in Requests :
          \/ AskProfile(r) \/ SyncCustomer(r) \/ SaveProfile(r)
          \/ \E i \in Invoices : AskStamp(r, i)
          \/ EnsureCustomer(r) \/ KeepCustomer(r)
          \/ CreateInvoice(r) \/ SaveStamp(r) \/ Fails(r)
    \/ \E i \in Invoices : Refund(i)
    \/ Deploy

Spec == Init /\ [][Next]_vars

-----------------------------------------------------------------------------
\* "Idempotente: si ya hay UUID, lo devuelve" (billing.py): whatever requests
\* overlap, fail or are tried again, and whatever key is deployed, an invoice
\* is stamped once on each side.
StampedOnce ==
    \A x, y \in cfdi : x.invoice = y.invoice /\ x.mode = y.mode => x = y

\* The uuid an invoice has once answered with is never replaced, not by that
\* of the other side: a step that keeps it.
KeepsStamp ==
    \A i \in Invoices : invoice[i].uuid # None => invoice'[i].uuid = invoice[i].uuid

\* A stamp names a customer that the side in use knows, whatever profile was
\* kept, synced or lost before the key changed.
CustomerIsThere ==
    \A r \in Requests : req[r].phase = "stamp" => remote[req[r].customer] = mode

=============================================================================
