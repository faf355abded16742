# Formal model of siscom-admin-api

TLA+ specifications of the parts of `siscom-admin-api` where money moves, where
access is given and taken away and where processes race each other; the TLC
configurations that check them on small instances; and TLAPS proofs of their
main properties for every instance.

Every definition is translated from the source; `PROJECT.json` names, for each
one, the lines it stands for. Paths below are relative to `src/app/` unless they
begin with `docs/` or `tests/`.

| Module | Models | Run | Proved in |
|---|---|---|---|
| `Idempotency`, `OneExecution` | the reservation of `POST /billing/payment-intent`, and what it promises | `idempotency_prompt`, `_general` | `Idempotency_proofs` |
| `Renewals` | the renewal cron, its charges at Stripe, their webhooks, the auto-renew switches | `renewals_concurrent`, `_daily`, `_exhausted` | `Renewals_proofs` |
| `WebhookInbox` | claim, failure record and answer of one Stripe event | `webhook_retry` | `Billing_proofs` |
| `Fleet` | devices, units, and what is fitted to what | `fleet_serial` | `Fleet_proofs` |
| `Accounts` | memberships, roles, invitations, credentials that are enabled | `accounts_serial` | `Accounts_proofs` |
| `Credentials` | the password of a person, its codes, links and sessions | `credentials_person` | `Credentials_proofs` |
| `PaidPeriods`, `Teams`, `Catalog`, `Sessions`, and `Operations` that joins them | all that grants, revokes and restores paid time; teams of people; plans and capabilities; tokens and guards of a request | `operations` | `Operations_proofs` |
| `Checkout`, `Cards`, `Cfdi`, `Push`, and `Billing` that joins them | first payments; stored cards; fiscal invoices; phones | `billing` | `Billing_proofs` |
| `Access`, `Windows`, and `Platform` that joins them with the next | data tokens and their revocation; what of the past is shown to whom | `platform` | `Platform_proofs` |
| `Tenancy`, `Branding` | the tree of accounts and its limits; brands, domains and pages | `platform` | `Platform_proofs` |
| `ControlPlane`, `Commands`, `AlertRules` | events and their consumer; orders and SIMs; rules and geofences | `platform` | `Platform_proofs` |

To run one: `tlc -config MCRenewals_concurrent.cfg MCRenewals`; to check the
proofs of one: `tlapm Renewals_proofs.tla`.

## 1. Inventory of the system

A FastAPI service over PostgreSQL (READ COMMITTED, one session per request, with
`autoflush=False`: what a request decides is written at its commit). Most
handlers are synchronous and run in a thread pool, so any two requests
interleave between their database statements; the handlers that call KORE are
coroutines of one process and interleave at their awaits only. Around the
service are Stripe (charges, cards, webhooks), Cognito (credentials and tokens),
Valkey (scopes of data tokens), Kafka (control plane, rules, geofences), KORE
(SIMs and their SMS), Facturapi (fiscal invoices), SNS (pushes) and GAC, the
internal back office. An external scheduler calls
`POST /internal/billing/renewals/run`.

Locks in use: row locks (`SELECT ... FOR UPDATE`), advisory transaction locks of
PostgreSQL (`db/locks.py`), unique constraints, and nothing else. Many rules rely
on a read followed by a write without any of them.

### Billing

* **HTTP idempotency** (`services/idempotency_service.py`). One row per (key,
  account, endpoint): hash of the body, state, stored response, times.
  `begin_`, `complete_`, `abandon_idempotency`. Hard: each is several
  transactions, requests die, and a row older than 30 s is presumed dead.
  Correct when requests with one key do not execute together, a replay answers
  the same body, a 5xx is never replayed and a stored response is final.
* **Checkout** (`StripeGateway.create_payment_intent`). A `payments` row per
  plan and month, an intent at Stripe that is reused, cancelled or, if it turns
  out paid, fulfilled. Hard: the customer pays while the intent is replaced, and
  Stripe does not answer. Correct when no month is charged or granted twice and
  nothing the customer can still pay is unknown here.
* **Stripe webhooks** (`StripeGateway.handle_webhook`, `payment_gateway_events`).
  At least once, out of order, concurrently, until a 200. Correct when an
  acknowledged event was applied, and every event is applied in the end.
* **Paid periods** (`_activate_subscription`, `_shift_paid_period`,
  `_restore_paid_period`, `manual_payment_service`). Correct when an active
  subscription lasts what was paid and not given back.
* **Automatic renewal** (`services/renewal_service.py`, `charge_renewal`). The
  dunning columns, a payment per (subscription, expiry), Stripe's keys per
  attempt. The cron lists without locks, then takes row by row. Correct when a
  period is charged once, only while due, and is tried in time.
* **Stored cards** (`StripeGateway`, `payment_methods`). A card is saved by the
  front and by the webhook. Correct when table and Stripe agree, each card is
  there once, and one of them is the default.
* **CFDI** (`services/cfdi_service.py`). A remote invoice first, the local commit
  afterwards, a remote idempotency key between. Correct when an invoice is
  stamped once on each side of Facturapi for a customer that side knows.
* **Plans, products, capabilities** (`endpoints/internal/plans.py`,
  `services/capabilities.py`). Sets that a PATCH replaces; a capability is
  resolved through override, plan and default.

### People and access

* **Identity** (`endpoints/auth.py`, `services/identity`). Reset, verification and
  change write the provider first and the database last.
* **Tokens and guards** (`core/security.py`, `api/deps.py`). The keys of Cognito
  are cached for all threads; a guard loads the person, then the membership.
* **Data tokens and revocation** (`session_revocation`, `data_token_issuance`,
  `scope_store`). An ORM hook notes at flush whom a transaction narrows, and after
  the commit deletes their scopes. Hard: issuing and revoking interleave over two
  stores with no common transaction.
* **Users, organizations, invitations** (`organization_users`, `users`,
  `organizations`) and **teams** (`team_*`). Rules such as "the last owner stays"
  or "an invitation has `max_uses`" are a count followed by a write.
* **Visibility windows, telemetry, trips** (`services/access_control.py`,
  `telemetry.py`, `endpoints/trips.py`). What a person sees of a device is where
  its stay in a unit and their grant of the unit meet. Correct when nobody is
  shown what happened outside.
* **Accounts tree** (`db/migrations/versions/027*`, `account_tenancy`,
  `capabilities.py`). A materialized path kept by triggers; limits cut down by the
  ancestors.
* **Branding** (`endpoints/branding.py`, `tenant_config.py`, `services/tenancy.py`).
  Drafts, publication, domains; the page of a host is public and cached.

### Fleet and messaging

* **Devices, units, assignments** (`devices`, `units`, `unit_devices`). A device is
  in one unit; the check is a read before the insert.
* **SIMs and commands** (`commands`, `user_commands`, `sims`, `services/kore.py`).
  The row is committed before KORE is called; the SIM is looked up after that.
* **Alert rules and geofences**. Commit, read back, publish. A fingerprint tells
  duplicates.
* **Control plane** (`services/messaging/control_plane.py`). After the commit the
  state of every touched key is read on another connection and published.
* **Phones and mobility devices** (`user_devices`, `mobility_devices`,
  `services/sns.py`). A phone is claimed from another account, SNS asked for an
  endpoint, the row written: several transactions.
* **API platform, client versions, audit, contact, health, read models.** No rules
  of order or concurrency.

`PROJECT.json` lists these under "components", and under "hazards" the places
where the code can go wrong in a way a test would hardly reach, with the
properties that watch them. More places the properties watch and the list leaves
out: in billing, a connection error that does not say whether Stripe charged
(`services/gateways/stripe_gateway.py:811`), a webhook that precedes the commit of
its charge (`:1425`), the sweep of other periods (`:447`), the order of an intent's
webhooks (`:1733`), two first cards (`:1402`), a duplicate detached in vain
(`:1370`), a failure record over `PROCESSED` (`:1280`), row and advisory lock in
opposite orders (`:1807`), grace and retries counted from different days
(`services/renewal_service.py:192`), cash that overlaps a card
(`services/manual_payment_service.py:67`), the side of Facturapi a customer is of
(`services/cfdi_service.py:236`), two PATCHes of a plan
(`endpoints/internal/plans.py:182`); in access, a process that dies before its
revocation (`services/session_revocation.py:227`), readers asked for after the
commit (`:243`), paused and readmitted owners (`endpoints/organization_users.py:164`),
an old verification link (`endpoints/auth.py:1440`), the last OWNER of a team
(`services/team_service.py:476`), a mode without its schedule (`:627`), limits that
change above an account (`services/account_capabilities.py:143`); in the fleet, a
device freed by another endpoint (`endpoints/units.py:676`) or given away while it is
fitted (`endpoints/devices.py:688`), columns that differ from what was read before
SNS was asked (`endpoints/user_devices.py:135`), and an event that is dropped
(`services/messaging/control_plane.py:342`) or must stand for rows that did not
change (`:215`).

## 2. The modules and the code

How to read them. An action is one transaction, or one piece of a handler between
two points where somebody else may move (a commit, a call to another service, an
await). Where an endpoint reads without locks and writes at its commit, the
action named after the endpoint checks and leaves in `tx` what its session will
write, and `Commit` writes it, unless a constraint of the schema
(`tests/schema/10-public.sql`) refuses. Variables marked *history* are not in the
code: they remember what a property must compare with. The short operators that
differ from a neighbour in one detail (`RecordedAnyway`, `CountOwnersPaused`, ...)
are plausible mistakes in that neighbour: `PROJECT.json` pairs each with the
property that fails when it takes the neighbour's place.

### Idempotency and OneExecution

One key. `row` is the row or `NoRow`; `req[r]` is what request `r` holds in its
session. `Arrive` captures `now`; `InsertReservation` and `InsertConflict` are the
`INSERT`; `ReadVanished`, `ReadCompleted`, `ReadMismatch`, `ReadBusy`, `ReadStale`
the `SELECT` that follows, one per branch; `TakeOver` and `TakeOverVanished` are
`_take_over`, an `UPDATE` by id; `Execute` is the charge; `Complete` and `Abandon`
are keyed by the id; `Crash` and `Tick` are the world. A takeover keeps the id of
the row, so a late `Complete` of the request that lost it hits the row of the new
one. `OneExecution` is the abstract specification: one execution at a time, one
result for ever, every refusal justified when it is given. The refinement maps
requests that hold the row to `executing`, and the completed row to `stored`.

### Renewals

Days are the clock. A cron transaction is `Charge` (or `ChargeReplayed`,
`ChargeUnreachable`, `CheckPrior`), which takes the row lock and calls Stripe,
and `Commit` or `Rollback`. In between everybody else moves, and whoever needs
the row waits (`Locked`). `subs` are the subscriptions, `pays` the renewal
payments by (subscription, expiry), `intents` and `events` Stripe's side, `runs`
the calls of `run_renewals`. `SelectDue` lists without locks and `TurnAway` is
`_still_due` under the lock; `WebhookSucceeded`, `WebhookFailed` and
`WebhookUnknown` the handlers; `OtherReads`, `OtherWrites`, `OtherOpens` a payment that
is not the cron's, one at a time: a checkout, under the advisory lock `("sub", org)`
that a renewal needs too (`LockFree`), or cash, which takes no lock and may be written
over a renewal applied since it read (`CashOverwrites`); `SetAutoRenew` and `ToggleAutoRenew` the two
endpoints, which do different things. The answer "lost" is a charge whose response
never arrives; `ChargeReplayed` follows Stripe's idempotency keys.

### PaidPeriods

Card payments with Stripe's side of each, a queue of events per charge, and cash.
Each webhook handler runs under the advisory lock `("sub", org)` and is one
action; the cash path takes no such lock and is two. Amounts are nothing, part
and all of a charge.

### WebhookInbox

One event, several deliveries. Claim and handler are one transaction, so the
`PROCESSING` row is never visible; `LookForRow` and `MarkFailed` are the halves of
`_mark_webhook_failed`, which reads without a lock after the rollback. `Abort` is
a crash anywhere or an `HTTPException`, which leaves no record.

### Checkout, Cards, Cfdi, Push

`Checkout` follows `create_payment_intent` from the advisory lock to the commit,
one action per call to Stripe (`Look`, `Settle`, `SettleStale`, `Create`), with the
months and prices that change in between, and the four webhooks of an intent.
`Cards` has a request per endpoint (`AskSetup`, `Confirm`, `AskDetach`,
`AskDefault`) and the webhook (`SetupSucceeded`), each with its call to Stripe and
its commit; `Unread` is the webhook whose call fails, handled all the same; `doubtful` and
`orphans` are history: cards of which a call or a commit was lost. `Cfdi` writes the profile and the stamp at Facturapi first (`SyncCustomer`,
`EnsureCustomer`, `CreateInvoice`) and here afterwards; `Deploy` is the change from
the test key to the live one. `Push` takes the registration of a phone apart: `Look`,
`Claim` (turns off whoever had the token, committed), `Ask` (SNS), `Insert` or
`Write`; `endpoint` is what SNS keeps.

### Fleet, Accounts, Credentials, Teams

`Fleet` has every status transition of a device, both ways to fit one, the
replacement, the return and the free `PATCH /devices/{id}` (`UpdateDevice`), which
may write any status and organization; `patched` is history. `Accounts` is one
account: `seat` are the memberships, `home` the default organization that
`reparar_organizacion_por_defecto` repairs, `credential` what the provider knows;
`CallProvider` and `CallLost` follow the commit, and `unopened` is history: whom the
staff's PATCH made ACTIVE without opening the credential. `Credentials` is one person:
`Reset`, `Change` and `VerifyEmail` with `SetPassword`, `Revoke` and `Finish...` as
steps of their own and `Dies` between any two; `chosen` and `unrevoked` are history.
`Teams` is one team; `crashed` notes an operation that raises.

### Catalog, Sessions

`Catalog` keeps plans with their capabilities and products, one subscription and
the override that SQL may set. A request keeps in `tx` which rows it deletes (those
it saw) and inserts; `mixed` is history: plans that two overlapping requests wrote.
`Sessions` is the cache of Cognito's keys (`Peek`, `Enter`, `Answer`, `Store`,
`Stamp` are the two checks and the fetch around its lock) and the guards: `Load` for
the person, `Enters` for the membership; what a request saw of the memberships while it
ran (`once`, `ever`, `always`) is history.

### Access, Windows

`Access` issues a session or share token in the three steps of
`data_token_issuance` (`AskSession` or `AskShare`, `Resolve`, `WriteScope`), and
revokes in those of the hook: a commit that narrows (`Narrows`) leaves a job, which
finds the readers of the units, lists the scopes, drops them, and drops the index;
each may fail (`GiveUp`). Two parts share the run: two people with one job, one
person with two. `Windows` keeps the rows of stays and grants with their times,
their archive, and computes what telemetry (`Clip`, `HoursOf`) and the lists of trips
(`VisibleTrips`, `Pages`) show.

### Tenancy, Branding

`Tenancy` keeps `parent` and the materialized `path`, which `Reparent` cascades as
the triggers do, the type and end of an account, and one numeric limit; `Effective`
is `capabilities.py`'s minimum over the ancestors. The triggers look at no types and let
an account be hung from a customer: `hung` is history, the accounts that were. `Branding` has editors that
`Begin`, `Save`, `Publish` and `Discard` on what they read and `Commit` the columns
they changed, domains that staff write (`SetDomain`), and a page that is asked
(`Ask`), answered in a second read (`Answer`) and kept for `MaxAge`.

### ControlPlane, Commands, AlertRules

`ControlPlane` notes keys at flush, commits, builds events from the views
(`Build`), and publishes with retries that may arrive twice (`PublishTwice`) or not
at all; the consumer takes a snapshot in two steps (`NoteOffset`, `ReadSnapshot`)
and follows the topic. `Commands` has the order from its commit over `Address` and
`SendSms` to KORE's answer, two syncs (`SyncCommand`, `SyncUserCommand`), staff who
move devices and SIMs, and the paged listing of KORE's SIMs, which reads the cards
(`ReadCards`) and commits what it makes of them (`SaveSims`). Between the two it awaits
nothing, so no other coroutine moves (`Saving`), but `PATCH /devices/{id}` runs in a thread
and may: it has its own reading and commit (`ReadSim`, `UpdateSim`), and `POST /devices`
is the PATCH of a device without a card. `doubled` is history: SIMs that staff wrote when
another card had them, or when a listing that had found none was about to make one. `AlertRules` serves rules and geofences:
the ids say which (`RuleIds`, `FenceIds`), `Fingerprint` and the unit assignments are a
rule's only.

### The composites

`Operations`, `Billing` and `Platform` (their sizes are in `MCOperations`, `MCBilling` and
`MCPlatform`) hold several instances that share no state. `part` (`party` in `Billing`),
chosen at the start, says which of them moves; the state space is the sum, not the
product, and a property of the run is the conjunction of the components' own, each under
its `part`. `Operations` extends `PaidPeriods`, whose variables are its own, and has two
instances of `Teams` (members, rules) and of `Sessions` (shared keys, guarded doors), of
the sizes the records `Team`, `RuledTeam`, `Threads` and `Visitors` give. `Platform`
extends `Access`; where a component has two questions to answer, each is asked of a part of
what it may use, by a bound on that (`Within`, `Turned`, `Grown`, `Spread`), which keeps the
steps within it and changes nothing in them. What couples components in the code is
modelled inside one of them: memberships inside `Access`, stays inside
`ControlPlane`, the claim of an event (`WebhookInbox`) as the assumption of
`PaidPeriods` and `Checkout` that each event is applied once.

## 3. Runs

Distinct states in parentheses.

| Run | Question and answer |
|---|---|
| `idempotency_prompt` (140 424) | Three requests, two bodies, all ending within `StaleAfter`: one at a time executes, a replay matches its body, a stored response is final, and the reservation implements `OneExecution`. |
| `idempotency_general` (1 760 074) | Slow requests, a crash, expiry, racing takeovers: a 5xx is still never stored. |
| `renewals_concurrent` (422 192) | Two cron calls a day, a checkout or cash payment, both switches, a card that is removed: charged once, only while due, and time moves only with a payment, but for cash written over another payment. |
| `renewals_daily` (1 052 753) | Daily runs over two periods, charges open for days, late webhooks, a transaction lost after Stripe charged: a period is tried unless its row carries an old grace, the grace counts from the expiry, no charge is lost or repeated. |
| `renewals_exhausted` (21, violation) | The last retry leaves the state of "never tried": the card is charged on every run until the grace ends. |
| `webhook_retry` (1 770) | Three deliveries, two exceptions, one abort: 200 means applied, a repetition needs an exception, the event gets through. |
| `fleet_serial` (4 403 587) | Two devices, two units, two organizations, every sequence of operations: a device is in one unit, and `asignado` means fitted in a unit of its organization unless a PATCH wrote the row. |
| `accounts_serial` (1 521 498) | Two people, two organizations, any call to the provider lost: an owner remains, the default organization is one the person is active in, and ACTIVE people can log in, but for those in `unopened`. |
| `credentials_person` (1 165 686) | Two requests that die anywhere, two codes, three links: a replaced password lets nobody stay in, and an old link does not put a password back. |
| `operations` (3 825 499) | Parts `periods`, `people`, `rules`, `catalog`, `keys`, `doors`: time matches money; a team keeps an OWNER and its counts; its rules can be evaluated and its ends are final; plans replace what they had; members are let in and others are not. |
| `billing` (2 346 909) | Parts `checkout`, `cards`, `cfdi`, `phones`: nothing is charged, granted or stamped twice or lost; cards agree with Stripe where no call to it failed; pushes reach their person. |
| `platform` (2 729 897) | Parts `colleagues`, `revocations`; `stays`, `together`, `pages`; `limits`, `tree`; `events`; `orders`, `sims`; `rules`; `studio`, `sites`: see below. |

What the composites ask of each part is written above each property in `Operations`,
`Platform` and `Billing`, and above the component's own property in its module. The hardest:

* `StaleAccessEnds`: whatever fails between PostgreSQL and Valkey, nobody sees for
  longer than a token's life and the request that issued it; `RevocationReaches`: a
  revocation that was not given up reaches every token it should.
* `HoursServedAreTheirs`, `TripsListedAreTheirs`: what telemetry and trips show was
  recorded while the person had the device, computed against the history of stays and
  grants and not against the query.
* `CopyConverges`: a consumer that restarts anywhere ends with the database's state,
  but for the keys of which an event was lost or waited while another was built.
* `StatusIsKores` and `KeepsSettled`: an order shows what KORE says, and overlapping
  syncs do not take it back; `OnlyTheNamedObeys`: though the SIM is looked up after
  the commit, no other device obeys.
* `PayableIsKnown`: what the customer's browser can still pay is named by a row.
* `MembersAreAdmitted`: nobody who was a member all through is refused.

`CHECK_DEADLOCK FALSE` is set where the bounds let a behaviour end: the calendar
stops, a settled charge has nothing more to say, the changes are used up. `Fleet`,
`Accounts` and `Credentials` have no such bound and are checked for deadlock.

### Bounds, and why they are enough

* *Idempotency.* Three requests: a holder and two that race for its row; two bodies
  for a mismatch; the clock passes `StaleAfter` in `general` with slow requests, and
  `TTL` there. The constants keep their order, not their size (30 s, 24 h).
* *Renewals.* `Cycle = 5`, `Lead = 2`, `Grace = 3`, `Retry = <<1, 2>>` keep the order
  of 30, 3, 7 and (1, 3, 5). Two runs, two rows and two intents are what a double
  charge needs; `renewals_daily` goes past the second expiry (day 10) with four
  intents. One other payment is enough to meet a renewal half way. `MaxRollbacks = 1` is
  one lost transaction; `KeyLife = 1` is Stripe's 24 hours.
* *PaidPeriods.* Two cards of two plans and one cash payment, a cycle of two days,
  queues of two events.
* *WebhookInbox.* One delivery handles, one writes its failure record, one arrives.
* *Fleet, Accounts.* Two of everything: a second unit, owner or organization is what
  the rules are about. One request at a time, since with two the rules fail (section
  5). `FewInvitations` keeps two pending invitations.
* *Credentials.* A request that verifies and one that replaces; three passwords so
  that a third can be told from the first two.
* *Checkout.* Two plans, a month that ends, one price change, three intents: the one
  that is paid, the one it replaces, and one of another key. *Cards.* Three tokens
  of two cards, for a duplicate and another default. *Cfdi.* Two requests on two
  invoices. *Push.* Two people on two phones, three endpoints, five calls; a process that
  dies anywhere but between SNS and the write of an update, and tokens that expire while
  nobody registers them (`Crashes`, `ExpiresInUse`), since with either the property fails
  (section 5, 25).
* *Access.* One unit and one device; two people are needed for "who sees it", two
  jobs for "who revokes it", and each is an instance. *Windows.* Hours of two
  instants, so that a window may begin inside one; two units and a stranger's.
  *Tenancy.* Depth 3 has a middle, and four accounts may be too deep; two values of the
  limit. *Branding.* Three drafts, two sharing a name; a host that changes hands while its
  page is kept.
* *ControlPlane.* Two requests, three changes, a topic of two. *Commands.* One order,
  two cards, two devices, and nobody PATCHes (with a PATCH the part has 650 000 states, and
the theorem covers it for any number); of the SIMs, two listings of KORE, one PATCH and one
move. *AlertRules.* Two rules that may come
  to say the same.

### Assumptions of the environment, and fairness

* `renewals_daily` assumes a daily call, as `docs/guides/pagos-flujo-completo.md:56`
  says. `PaidPeriods` delivers the events of one charge in order (`InOrder`).
* `webhook_retry` is the only run with liveness. It assumes weak fairness of `Step`
  for each delivery, since a request that entered the handler goes on until it
  answers, and weak fairness of `Send` while nothing has been acknowledged, since
  Stripe repeats an event that was not answered 200. No fairness is put on `Raise` and
  `Abort`, and both are bounded: if the handler always raised, no code could apply the
  event. Elsewhere no progress is promised: a revocation, an event or a push that fails
  is not tried again.
* *Requests that do not overlap.* Where the code has no lock, a property may hold only
  for requests that follow one another: `Fleet`, `Accounts` and `Teams` are checked with
  one request, `Credentials`, `Cards`, `Push`, `Branding` with `Overlap = FALSE`, and so
  is `Access`, where it means that no scope is written between the listing of its
  subject's scopes and the deletion of the index. Those are the cases a test suite would
  pass; what happens without the assumption is in section 5.
* SYMMETRY is declared over sets of interchangeable model values only, and in no run
  with a liveness property. `MCPlatform` takes what is interchangeable in each part (people,
  requests, units, accounts, hosts, cards) from two sets, `Twins` and `Peers`, since the
  parts share nothing; what is told apart (the SIMs, from which KORE's answer picks) is not
  taken from them. `MCOperations` takes the threads of `Sessions` from its members of staff
  in the same way.

## 4. Proofs

All theorems hold for every value of the constants that satisfies the named
assumptions of the modules.

**Idempotency_proofs.** `TypeCorrect` and, whatever the timing,
`FailuresNeverCachedAlways`: `StoreInv` says that a row, and every copy a session
holds, is completed exactly when it has a stored response, and that this response was
definite. `MutualExclusionWhenPrompt` and `CompletedIsStableWhenPrompt` under
`PromptServer` (requests end within `StaleAfter`, none crashes, the key does not
expire): `ExclusiveInv` adds that the one that executes owns the row, and that no
other has loaded a copy it may take over. `OneExecutionWhenPrompt`: under the same
assumption each step of `Idempotency` is a step of `OneExecution` or a stutter;
`AnswerInv` says what each answer given so far is justified by.
`CachedAnswersMatchWhenPrompt`: under that assumption no takeover rewrites the hash of a
row, so what is replayed answers the body it was given for.

**Renewals_proofs.** `RenewalsTypeOK` is the types with the row locks.
`ChargeOnlyWhenDueAlways` follows, since due-ness is read again under the lock.
`ChargedOnceWithoutLoss`: no period is charged twice if no transaction is rolled back
and no answer is lost, for any number of runs, days, cards and late webhooks. The
property says nothing of how the code recognises the charge it must not repeat, so the
invariant adds `LiveIsKnown` (a live charge is named by the committed payment of its
period, or held by a run that has the lock) and `HoldersKnow` (whoever holds the lock
knows it).

The properties over several days rest on three more invariants. `BooksAgree` follows each
payment through the variables of its transaction, so that `EveryPaymentExtendsOnceAlways`
needs no assumption: what moves the end of a period is one payment that did not move it
before. A checkout finds the end it read, since it has the lock; cash may not, and that
step is the exception the property names. `Chained` takes the periods in their order (`OneAfterAnother`: a paid period ends
where the next begins), keeps the name of a charge until it is paid (`KeptUntilPaid`) and
says what the events tell (`EventsTrue`); from it follow `PaidChargeStaysReachable`, even
where transactions are lost, and `ChargesAreKeptWithoutLoss`. `GraceAnchoredAlways` and
these assume that nobody but the cron extends the period (`MaxOthers = 0`: a checkout
writes the end it read over whatever the cron wrote), the latter also that the panel does
not switch renewals off (`~PanelCalls`) and `Grace <= Cycle`, as in the code (7 and 30).
`PeriodsInOrderAreTriedDaily` assumes none of these, but a daily cron, switches left alone,
`Lead < Cycle`, a first period that begins before its window, and fewer lost transactions
than the window has days. `DaysCost` counts them: each day that the cron is done with a
period in order and has left no payment of it, a transaction was rolled back.

**Fleet_proofs.** `OneUnitPerDeviceAlone`, for requests that do not overlap. No
constraint of the schema says it, so the invariant is about what an open request is
about to write: `LeavesOne(tx[r])`, written on the rows as they are, leaves every
device in one unit at most. Each endpoint's reading establishes it (`ReadLeavesOne`,
`PatchLeavesOne`), and `CommitKeepsOne` uses it. `StatusIsOfTheUnitAlone` is proved in
the same way over the status, organization and unit of a device at once (`KeepsStatus`
over `StatusAfter`, `OrgAfter`, `OwnerAfter`, `OpenAfter`).

**Accounts_proofs.** `OwnerRemainsAlone` and `DefaultIsActiveAlone`, in the same
manner: `RowAfter`, `HomeAfter` are the tables once a request is written, and
`Keeps(w)` says that they have an owner and a default. "Not the last owner" needs
cardinalities (`AnotherOwner`). `ActiveCanLogInAlone` follows the calls to the provider
as well, any of which may be lost: `LoginInv` says that an ACTIVE person's credential is
open, or is opened by a call that the request under way still owes, or that the person is
in `unopened` (finding 11); `Says` is what the provider would say had the staff's PATCH
reached it.

**Credentials_proofs.** `SessionsMatchPasswordAlways` and `ChosenPasswordStandsAlways`,
for any requests, codes and links, if a verification overlaps no replacement: `Alone`
says so of the requests under way, `NobodyIn` that nobody is in before the
verification, `LateIsVerified` that the choice to be kept came after it.

**Billing_proofs.** One theorem for each part of `Billing`, of any size.

* `ChargedAndGrantedOnceAlone` assumes what the run does (`CheckoutAlone`: Stripe answers
  `retrieve`; no webhook inside the sweep of other periods, no price change under a
  processing payment; findings 6). Its invariant, `CheckoutInv`, agrees the books of the
  three parties: `PricesAgree` and `CausesAgree` say that an intent of a key at a price has
  one cause, which Stripe's idempotency keys make one intent; `PaymentsAgree`, `GivenAgree`,
  `PaidAgree` relate row, intent and grant; `RequestAgrees` says what the request under way
  may rely on at each of its steps, and is preserved by what anybody else does meanwhile.
* `CardsAreInStepAlone` assumes `~Overlap`. `CardsInv` says what each step of a request has
  established of the table and of Stripe, which agree but for what it is about to write and
  for the cards in `doubtful` and `orphans` (finding 7).
* `StampedOnceAlways` and `StampStaysAlways` assume nothing: `CfdiInv` ties the stamp that a
  request holds to Facturapi's answer under its key, and the side of the customer it is for
  to the key in force when the request began.
* `PushesFindTheirPersonAlone` assumes `PushAlone`: registrations that do not overlap, the
  index of the schema, a token that does not expire while it is registered, no process that
  dies between SNS and the row's write. The last two came out of the proof: the invariant
  could not be kept without them, and TLC then found why (finding 25). `PushInv` says that
  endpoints and rows have distinct tokens, that a row reaches its token (`RowsReach`) but
  for the one that is being registered (`Registering`), and that whoever was told 200 has
  a row (`ToldHaveRow`).

The inbox that events come through is proved here too: `AcknowledgedIsAppliedAlways` and
`RepeatsNeedErrorsAlways`, for any number of deliveries. The second needs a measure,
`Budget`: the applications made, one for a row that can be claimed, one for each delivery
that will write `FAILED`; no step lets it exceed `1 + errors`.

**Platform_proofs.** One inductive invariant for each component of `Platform`, of any size;
`PartBegins` and `PartSteps` carry them over to the composition.

* Access has two theorems of its own, which `AccessEndsAlways` puts together under
  `Overlap = FALSE`. `StaleAccessEndsAlways` takes nothing but `AccessAssumption`:
  `Timed` says that a request under way began before what it read stopped being true,
  and that a token ends within its life and its request of that moment, which is never
  left unset while a reference has lapsed. `RevocationReachesAlone` assumes
  `Overlap = FALSE` (finding 14), and `ReachInv` shows where: the index names every open
  scope, a job that has listed a subject has listed them all, and one that has dropped
  them has left none, so that deleting the index loses nothing. The commits need
  `Notices`: whoever loses sight of something is noted by name or still reads a unit that
  is noted when the readers are looked up, and a later commit that takes away a reader
  notes them by name (`PersonNoticed`, `UnitNoticed`).
* `PastIsSeenByItsOwnersAlways` assumes `~ Book.ties` (finding 15 says what happens
  otherwise), which only the pages need. `MergeIs` is proved first: merging windows covers
  the instants the windows cover, whatever their order of beginning. `RowsTell` and
  `GrantsTell` then say, of every instant that has passed, that the rows and the archive tell
  what was so at that instant (`carried`, `let`), so what is clipped from them is what was
  so. `ReaderInv`: a trip that the reader is owed and was not given begins before the cursor.
  `BatchHolds` needs no invariant.
* `TenantsAreSoundAlways` assumes `~ Drafting.overlap` for the brand (finding 18). Of types it
  claims what the endpoint promises, that an account becomes a customer only with nobody in
  use below; what staff hang from a customer is in `hung` (finding 17). `PathInv`
  says that a path is the parent's path and the account itself; a move is a fold along a
  recursive function on the naturals (`CascadeSteps`), whose n-th value is right for every
  account within n of the one that moved (`ReparentKeeps`). `FoundIsLeast`: what is resolved
  along a path is the least live value of it, so a prefix of the path can only be cut less.
  `BrandInv` follows the request that publishes from its reading to its commit; `SiteInv`
  says that what is kept of a host is what some account that had it then showed then
  (`HadSince`, `ShowedSince`).
* `EventsTellTheTruthAlways` assumes nothing. Of the truth of events: what a request has
  built was so once (`Truthful`). Of the copy: of a key that nobody is to read again, at most
  one request has what is still to be sent, and it is the truth, or the topic and the copy
  end with it (`Settling`); the exceptions are history (`unsure`).
* `OrdersReachTheirDeviceAlways` and `SettledIsShownAlways` assume nothing. `Progress` orders
  the row, the request that sends it and KORE's message; `AskedOf` says that what a sync has
  read is final or is `sent`, and that what it was told is still so. Of the SIMs, with PATCHes
  that enter between a listing's reading and its commit, `SimInv` needs three facts at once:
  `OneCardEach`, a SIM outside `doubled` has one card; `StillMissing`, what a listing did not
  find still has no card, or is in `doubled`; and `OneReader`, since two listings that had
  both read would make a card each. The last holds because nothing is awaited there
  (`Saving`).
* `RulesAreDistinctAndToldAlways` assumes nothing. `SeesTheRow`: a request alone on its key
  has read the row that is there; `Tells`: what it is to publish is the row.

**Operations_proofs.** One inductive invariant for each part of `Operations`.

* `PeriodsMatchMoneyInOrder` assumes what the run does: the events of a charge in order
  (`InOrder`; a refund that precedes its success is otherwise lost) and no webhook inside a
  cash registration (`~CashRaces`; finding 5). `PeriodInv` has three ideas. A property of charges whose events were all
  delivered says nothing of the others, so `PaymentFollows` says that there is a view of the
  charge with which the payment agrees (`Agrees`) and from which the queued events, one
  after the other, tell how it became what Stripe has (`TellHow`): a delivery moves the view
  by the first event, a change at Stripe adds the last. A dispute that is won is thereby
  known to find a period that was never taken, so `Lengthened` does nothing. `TimeIsBought`
  adds to `TimeMatchesMoney` that an active subscription was bought for the plan it has
  (a grant keeps the chain only if that was so) and that what counts is a finite set.
  `CashAgrees` says that what an open registration has read is there still. Both ways to
  grant are one lemma (`ExtendedTime`), both ways to take back another (`ShortenedTime`).
* `MembersAreCountedAlone`, `TeamRulesHoldAlone` and `EndsAreFinalAlone` assume requests that
  do not overlap (finding 16). As in `Fleet_proofs`, the invariant is about the team once an
  open request is written (`MembersAfter`, `InviteAfter`, `TeamAfter`, `RuleAfter`,
  `AlarmAfter`): it leaves an OWNER, counts whom it lets in, keeps a schedule with the mode
  that needs it, opens no second emergency and changes none that ended.
* `PlansStayWhole` assumes nothing: any number of members of staff overlap. `CatalogInv` says
  that a request deletes every row it saw of its plan, and that two requests which write to
  one plan are noted in `mixed`.
* `KeysAndDoorsHold` assumes nothing either. `KeyInv`: the thread that fetches has the lock
  and asked at most `MaxFetch` ago (`LockInv`), and what is cached, fetched or stored is what
  Cognito published when it was asked (`AsOf`). `DoorInv`: what a request remembers of its
  person agrees with the tables now (`Seen`) and with how far it has come (`Passed`).

**Only model-checked.** `EventuallyAcknowledged`, since liveness is out of the prover's
reach; `RetriesAreBounded` is a violation. Every other property of a passing run is stated
by a theorem.

## 5. Findings

Where code and documentation disagree, or where the code does what a reader would
not expect. The first is a violation run; of the others, the ones with constants
come from TLC: giving a module those constants makes it refute the property named.
The properties that fail are written in the modules.

### Money

1. "Agotados los reintentos no se hace nada más" (`services/renewal_service.py:15-16`):
   the card is charged every day until the grace ends. Run `renewals_exhausted`.
2. `_take_over` is not atomic (`services/idempotency_service.py:171`): two retries
   after a crash execute together. `MutualExclusion`, with `MaxCrashes = 1`,
   `StaleAfter = 2`, `TTL = 6`, `MaxClock = 4`. A takeover also overwrites
   `request_hash`, so a late completion stores the answer to another body.
3. A renewal paid by 3DS, by a late webhook or by checkout keeps `grace_until`
   (`services/gateways/stripe_gateway.py:1827`): the next period is not charged, against
   `services/renewal_service.py:6` ("El cobro se intenta 3 días antes de vencer").
   `EveryPeriodIsTried`, with the constants of `renewals_daily`; the run checks what is
   left of it, `PeriodsInOrderAreTried`.
4. Two runs create two charges when an answer of Stripe is lost (`:811`), against the
   comment at `:715`. `ChargedOncePerPeriod`, with `"lost"` among the `Replies`.
5. A cash payment overwrites a card payment fulfilled at the same time
   (`services/manual_payment_service.py:67`). `PaidDaysAreKept`, with
   `CashRaces = TRUE`; of a renewal it is `CashOverwrites`, which
   `EveryPaymentExtendsOnce` excepts and nothing else.
6. When Stripe does not answer `retrieve`, the checkout issues another intent beside
   the one it cannot see (`stripe_gateway.py:436-445`), though "Pagar el mismo plan y
   ciclo dos veces ... no es posible" (`docs/guides/pagos-flujo-completo.md:316`).
   `ChargedOncePerPeriod`, `PayableIsKnown`, with `Unreachable = {"retrieve"}`. A webhook
   inside the sweep of other periods grants twice (`:447-457`; `Races = {"sweep"}`), and
   a new price replaces an intent that is being paid (`:646`; `Races = {"reprice"}`).
7. `confirm` and the webhook of one SetupIntent overlap: the second passes the
   `existing` check (`:1337`), then finds the row of the same card as a twin and
   detaches it (`:1372`), though "El webhook `setup_intent.succeeded` hace lo mismo y
   es idempotente" (`:288`). All four properties of `Cards`, with `Overlap = TRUE` and
   two requests. Setting a default while another is removed leaves none; a late webhook
   saves a removed card again; Stripe's default and the table's part when `modify` fails.
   And where `confirm` answers 502 if Stripe does not give the card, the webhook ignores the
   `None` (`:1309-1310`, `:1347-1355`) and the event is PROCESSED (`:1168-1172`): a card
   attached at Stripe that nothing lists (`Unread`; `AttachedIsListed` fails without
   `orphans`).
8. A test stamp keeps an invoice from being stamped live; a refund does not cancel the
   CFDI; the stamp overwrites `extra_data` as it was read before the call; concurrent
   profiles may leave Facturapi with other data than the table.
9. One step from the code: `PATCH /billing/auto-renew` resets the attempt number, so
   the next charge gets a remembered decline (`:716`); `payment_failed` is ignored for a
   `PROCESSING` renewal (`:1733`) though `:838` waits for it; a webhook before the commit
   of its charge is answered 200; cron and checkout take two locks in opposite orders
   (`:1807`); cancelling at the end of the period stores `CANCELLED` at once
   (`api/v1/endpoints/subscriptions.py:293`); a late refund takes its cycle from the
   wrong period; a failure record may overwrite `PROCESSED` (`:1280`).
10. `delete_plan` counts ACTIVE and TRIAL subscriptions though `PAST_DUE` still operates
    (`services/subscription_query.py:16-19`): the foreign key refuses with a 500. Two
    overlapping PATCHes of a plan leave the union of their capabilities: `ReplacedWhole`
    without the plans in `mixed`. Nobody may set an organization's override since
    migration 041 left `capabilities.override` without a role.

### People and access

11. With two requests at once an organization loses its last owner
    (`docs/api/organizations.md:435`, `docs/api/organization-users.md:228`): `OwnerRemains`
    with two `Requests`. A readmitted owner whose `users.status` is INACTIVE counts as an
    owner who can act, against `organization_users.py:151-158`: `SomeOwnerMayAct`, even
    with one. `PATCH /internal/users/{id}/status` commits ACTIVE before it opens the
    credential (`internal/users.py:196-214`): if that call fails, or there is no credential
    to open, the person is ACTIVE and stays out until another PATCH, which the code answers
    and calls a real divergence (lines 224-227). Those people are `unopened`, and
    `ActiveCanLogIn` fails without them; an accepted invitation opens the credential before
    its commit and leaves no such person. `remove_user` keeps the grants of units, which
    return with the person.
12. `verify_email` puts the registration's password over one that was reset before the
    verification (`auth.py:1440`): `ResetSurvivesVerification`. It also makes a suspended
    organization ACTIVE. With overlapping requests `ChosenPasswordStands` fails; two resets
    with one code both succeed; a failure between `set` and the mark leaves the code valid.
13. Whoever logged out is let in with the access token until it expires: `LogoutIsFelt`,
    against `auth.py:1734-1737` ("Este endpoint invalida: Todos los access tokens del
    usuario"). A token of a key published less than TTL ago is answered 401
    (`core/security.py:139-141`). Login does not look at `users.status`; the guards do.
    `require_organization_permission` ignores `X-Organization-Id` (`api/deps.py:758`).
14. A scope written between the reading and the deletion of the index escapes
    (`services/scope_store.py:269`), though `:238` says "Revoca todos los alcances vivos
    de un sujeto": `RevocationReaches`, with `Overlap = TRUE`. `StaleAccessEnds` still
    holds: the token ends by itself. Replacing a device through
    `POST /units/{id}/device`, and the staff's ways, revoke no share links
    (`unit_devices.py:368-371`). A Valkey error leaves the hook's loop and answers 500
    after the commit.
15. Telemetry and trips: two windows of one day give two points of that day
    (`OnePointPerDay`; `docs/api/telemetry.md:151-154`); the trips of a device are not
    cut to the window (`DeviceTripsAreTheirs`; `devices.py:885-1006` against
    `trips.py:115-122`); the unit a trip names is any unit of the device
    (`NamedUnitIsTheirs`; `trips.py:253-278`, `.first()` without an order); two trips that
    begin at one instant may fall between two pages (`PagesMissNothing` with
    `Ties = TRUE`). Fitting a pair again overwrites `assigned_at`, and the earlier window
    is lost (`unit_devices.py:199-206`). An hour cut by a window is shown whole.
16. `expire_team` and `activate_team` compare an aware date with a naive one
    (`services/team_service.py:366`): TypeError, 500, so no team expires:
    `DueTeamsExpire`, against `docs/api/teams.md:190`. Invitations and the validators of
    `TeamCreate` do the same. `docs/architecture/modules/teams.md:118` says that
    `accept_invite` takes a `FOR UPDATE`; it takes none, and with two requests
    `JoinsWithinMax`, `OwnerRemains`, `OneAlarmPerPerson` and `EndsAreFinal` fail.
17. Two overlapping moves of accounts make a cycle, and a move between the count and the
    commit of a change of type leaves a child under a customer (`Tenancy`, whose moves and
    changes are one step each; they are SQL and one endpoint). A change of type looks below, the
    triggers do not: a move hangs an account from a customer, which
    `027_tenancy_esquema.py:109` foresees ("cliente -> subcliente") and
    `tests/test_tenancy_esquema.py:302` does. `LeftUnderNoCustomer` claims the change of type
    only.
18. Two overlapping publications lose the brand published between them: `BackIsPossible`
    and `ShownTogether` with `Overlap = TRUE`, against `branding.py:34` ("Cada `publish`
    deja en `account_events` el publicado anterior"). A draft saved during a publication is
    lost; two first saves end in one 500. A page without a brand says "Nexus", a letter
    "Geminis Labs".

### Fleet and messaging

19. With two requests at once a device is fitted to two units: `OneUnitPerDevice`,
    against `docs/api/unit-devices.md:452`; so do `AssignedIsFitted` and
    `AssignedWithinOrg`.
20. `PATCH /devices/{id}` writes status and organization with no check
    (`devices.py:622-630`), against `docs/api/devices.md:159` ("Sincronizar
    `status='asignado'` con la existencia de una fila activa"): `StatusIsOfTheUnit`
    without the exemption of `patched` devices. `inactivo` is documented as final
    (`docs/api/devices.md:537`) and is not. "preparado" leaves a fitted device in another
    organization's unit (`devices.py:688`). Staff's "asignado" ignores deleted units, and
    fitting a historical pair again ends in a 500.
21. The same PATCH may write an ICCID that another card has (`devices.py:557-571`),
    since nothing is UNIQUE on it: `OneCardPerSim` without the exemption of `doubled`. One that
    commits between the reading (`sims.py:280`) and the commit (`:374`) of a listing
    leaves a second card of a SIM that had none when both looked. It
    changes the ICCID without the KORE profile, as `docs/api/devices.md:945` suggests, so
    orders keep going to the old SIM.
22. A staff sync writes any status of KORE (`docs/api/commands.md:312`, `queued`) against
    the check of the table (`:649`): 500. "pending: si no se envió aún"
    (`docs/api/user-commands.md:164`), but a lost answer or a crash leaves it pending
    after it was sent. The sync writes back the whole metadata read before its awaits.
    `create_command`'s docstring promises 'failed'; nothing writes it.
23. A late retry of an event follows another request's event of the same key, and two
    commits publish in any order: the consumer then keeps the older state until it
    restarts (the keys in `unsure`; `services/messaging/control_plane.py:376`). Unit
    deletion publishes no rule event.
24. A PATCH of a rule with `type` or `config` null is answered 409 as if it were a
    duplicate; a true duplicate's 409 names no rule (`docs/api/alerts.md:338`), since the
    fingerprint is read again after the rollback. Overlapping PATCHes leave the union of
    their units.
25. "Se crea una fila nueva para quien se loguea" (`CHANGELOG.md:662`): the index
    `uq_user_devices_token` (`tests/schema/10-public.sql:1411`) refuses it; the other
    account has been turned off, and the answer is 500 (`LastAccountHasRow`). With the
    index the comments of `user_devices.py:103` speak of (`Unique = "pair"`),
    `PushesReachTheirPhone` fails. It fails too where a process dies after SNS moved the
    endpoint of a phone and before its row says so (`services/sns.py:109`,
    `user_devices.py:128-148`; `Crashes` with `"write"`): the old token stays on the row and
    whoever gets that token shares the endpoint. With `ExpiresInUse = TRUE` and three people
    a token that expires between the look and the question moves an endpoint whose row the
    index then refuses to write. With two registrations at once an update that writes only
    what differs from its reading (`:135`) leaves the other's token with its own endpoint. A
    deactivation during a registration is answered 200 with `is_active = false`.
26. `get_account_by_id` may raise when an account has two owners
    (`endpoints/internal/accounts.py:280-287`).

## 6. Not modelled

Cryptography, formatting, pagination other than that of trips, prices and taxes,
deliveries of e-mail. Of each component:

* *Renewals*: plans and cycles that change, missing plans and prices, the batch limit.
  *PaidPeriods*: amounts, invoices other than their status, the events
  `customer.subscription.*` ("No usamos Stripe Billing Subscriptions",
  `docs/guides/pagos-flujo-completo.md:440`). *Checkout*: the legacy yearly keys.
  *Catalog*: prices, orders, `cancel_organization_subscription`
  (`endpoints/internal/organization_billing.py`).
* *Fleet*: descriptive columns and profiles of units. *Commands*: the carrier, two
  assignments of one SIM at once. *ControlPlane*: descriptive fields; of the other
  producers, pushes.
* *Accounts*: profile columns. *Credentials*: the new-password challenge of somebody
  who did not register the account, token formats. *Sessions*: PASETO service tokens,
  the guards of account permissions and capabilities. *Access*: closed windows, which
  are in `Windows`.
* *Tenancy*: capabilities whose value is a text. *Branding*: how a theme derives its
  colours; the resolution of the brand at login.
* Invoice numbering, billing read models, received alerts and locations, API platform,
  client versions, audit, contact, health and configuration: reads, one statement, or
  no rule of the domain.

## 7. Plan

1. *Numbering and lock order*: `max + 1` under the advisory lock, and the locks of cron
   and checkout, as one module with deadlock checked.
2. *Refinements*: a ledger of paid time that `PaidPeriods` and `Renewals` both
   implement; "what was taken away is denied within a token's life" as the abstract
   specification of `Access`.
3. *Permissions*: account permissions and capability guards composed with `Sessions`.
4. *Batch of the cron*: 200 due rows ordered by expiry while some stay due for ever.
