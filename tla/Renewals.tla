------------------------------ MODULE Renewals ------------------------------
(***************************************************************************)
(* Automatic renewal of the subscriptions of one organization: the cron of *)
(* app/services/renewal_service.py, the off-session charge of              *)
(* StripeGateway.charge_renewal, Stripe's side of those charges, and the   *)
(* webhooks, panel calls and other payments that meet them.                *)
(*                                                                         *)
(* Time is counted in days.  One plan and one cycle: every payment chains  *)
(* Cycle days.  A cron transaction is two steps, Charge (locks, Stripe     *)
(* call) and Commit or Rollback, because the customer is charged at Stripe *)
(* before anything is committed here.                                      *)
(***************************************************************************)
EXTENDS Integers, Sequences, FiniteSets, FiniteSetsExt

CONSTANTS
    Runs,         \* the calls of POST /internal/billing/renewals/run of a day
    MaxSubs,      \* bound on the subscription rows of the organization
    MaxIntents,   \* bound on the PaymentIntents created at Stripe
    MaxDay,       \* bound on the clock
    MaxRollbacks, \* bound on cron transactions lost after the Stripe call
    MaxOthers,    \* bound on checkout and cash payments
    FirstExpiry,  \* expires_at of the first subscription
    Lead,         \* CHARGE_LEAD_DAYS
    Grace,        \* GRACE_DAYS
    Retry,        \* RETRY_SCHEDULE_DAYS
    Cycle,        \* MONTHLY_DAYS
    KeyLife,      \* days Stripe remembers an idempotency key
    Cards,        \* cards the customer may have as default
    Replies,      \* what Stripe may answer to PaymentIntent.create
    PanelCalls,   \* TRUE: the customer may use the auto-renew switch
    DailyCron,    \* TRUE: no day without a call
    SlowWebhooks  \* TRUE: a webhook may be delivered days later

ASSUME RenewalAssumption ==
    /\ MaxSubs \in Nat \ {0} /\ MaxIntents \in Nat /\ MaxDay \in Nat
    /\ MaxRollbacks \in Nat /\ MaxOthers \in Nat /\ FirstExpiry \in Nat
    /\ Lead \in Nat /\ Grace \in Nat \ {0} /\ Cycle \in Nat \ {0}
    /\ Retry \in Seq(Nat) /\ Len(Retry) > 0
    /\ \A n \in 2..Len(Retry) : Retry[n - 1] <= Retry[n]
    /\ KeyLife \in Nat
    /\ {PanelCalls, DailyCron, SlowWebhooks} \subseteq BOOLEAN
    /\ Replies \subseteq {"succeeded", "processing", "requires_action",
                          "declined", "unreachable", "lost"}

VARIABLES
    today,    \* now()
    subs,     \* the rows of subscriptions
    pays,     \* the renewal payments, by (subscription, expires_at)
    intents,  \* PaymentIntents at Stripe
    events,   \* webhooks Stripe has not delivered yet
    runs,     \* what each cron run holds
    card,     \* the default payment method
    other,    \* what a checkout or a cash payment has read before it writes
    used      \* how many rollbacks and other payments there were

vars == <<today, subs, pays, intents, events, runs, card, other, used>>

NoDay == -1
SubIds == 1..MaxSubs
IntentIds == 1..MaxIntents
Keys == SubIds \X Nat       \* RENEWAL_KEY_PREFIX + hash(sub, expires_at)

NoCard == "no_card"
NoIntent == 0

SubStatus == {"none", "ACTIVE", "PAST_DUE", "CANCELLED"}

SubRecords ==
    [status: SubStatus, auto: BOOLEAN,
     expires: Nat, grace: Nat \cup {NoDay}, attempts: Nat,
     next: Nat \cup {NoDay}]

PaymentRecords ==
    [status: {"none", "PENDING", "PROCESSING", "REQUIRES_ACTION",
              "FAILED", "SUCCESS"},
     intent: IntentIds \cup {NoIntent}]

IntentRecords ==
    [status: {"none", "succeeded", "processing", "requires_action", "failed"},
     key: Keys, attempt: Nat, card: Cards, day: Nat,
     reply: {"none", "succeeded", "processing", "requires_action",
             "declined"}]

RunRecords ==
    [began: BOOLEAN, pending: SUBSET SubIds,
     at: [sub: SubIds \cup {0}, pay: PaymentRecords,
          verdict: {"idle", "paid", "pending", "action", "declined",
                    "unavailable", "no_card"}]]

NoSub == [status |-> "none", auto |-> FALSE, expires |-> 0, grace |-> NoDay,
          attempts |-> 0, next |-> NoDay]
NoPayment == [status |-> "none", intent |-> NoIntent]
Idle == [sub |-> 0, verdict |-> "idle", pay |-> NoPayment]
Nobody == [kind |-> "none", sub |-> 0, status |-> "none", expires |-> 0]

\* _activate_subscription inserts the row with auto_renew=True.
NewSub(expires) ==
    [NoSub EXCEPT !.status = "ACTIVE", !.auto = TRUE, !.expires = expires]

Init ==
    /\ today = 0
    /\ subs = [s \in SubIds |-> IF s = 1 THEN NewSub(FirstExpiry) ELSE NoSub]
    /\ pays = <<>>
    /\ intents = [i \in IntentIds |->
                    [status |-> "none", key |-> <<1, 0>>, attempt |-> 0,
                     card |-> CHOOSE c \in Cards : TRUE, day |-> 0,
                     reply |-> "none"]]
    /\ events = {}
    /\ runs = [c \in Runs |-> [began |-> FALSE, pending |-> {}, at |-> Idle]]
    /\ card \in Cards
    /\ other = Nobody
    /\ used = [rollbacks |-> 0, others |-> 0]

-----------------------------------------------------------------------------
(* Subscriptions *)

\* subscription_query: the one rule of what is active.
IsActive(s) ==
    /\ subs[s].status \in {"ACTIVE", "PAST_DUE"}
    /\ subs[s].expires > today \/ subs[s].grace > today

\* get_primary_active_subscription: the latest started; ids follow started_at.
Primary == LET active == {s \in SubIds : IsActive(s)}
           IN  IF active = {} THEN 0 ELSE Max(active)

FreeSub == LET free == {s \in SubIds : subs[s].status = "none"}
           IN  IF free = {} THEN 0 ELSE Min(free)

\* billing_period.next_period, same plan: chained to the period in force.
NextPeriodEnd(current) == (IF current > today THEN current ELSE today) + Cycle

Extended(sub) ==
    [sub EXCEPT !.status = "ACTIVE", !.expires = NextPeriodEnd(@)]

(* _activate_subscription: the primary subscription is extended, or a new  *)
(* row is inserted when none is active.  Dunning columns are left alone.   *)
Activated ==
    IF Primary # 0
    THEN [subs EXCEPT ![Primary] = Extended(@)]
    ELSE [subs EXCEPT ![FreeSub] = NewSub(today + Cycle)]

CanActivate == Primary # 0 \/ FreeSub # 0

\* The advisory lock ("sub", org): taken by whoever activates for the gateway,
\* and not by the registration of cash.
LockFree == other.kind # "checkout"
\* Mutant: a period is looked at on the day it enters the window, and not after.
DueOnTheDay(s) ==
    /\ subs[s].auto
    /\ subs[s].status \in {"ACTIVE", "PAST_DUE"}
    /\ subs[s].expires = today + Lead \/ subs[s].status = "PAST_DUE"
    /\ subs[s].next = NoDay \/ subs[s].next <= today
    /\ subs[s].grace = NoDay \/ subs[s].grace > today

\* due_subscriptions and _still_due: the same test, without and with the lock.
Due(s) ==
    /\ subs[s].auto
    /\ subs[s].status \in {"ACTIVE", "PAST_DUE"}
    /\ subs[s].expires <= today + Lead
    /\ subs[s].next = NoDay \/ subs[s].next <= today
    /\ subs[s].grace = NoDay \/ subs[s].grace > today

MarkRenewed(sub) ==
    [sub EXCEPT !.status = "ACTIVE", !.grace = NoDay, !.attempts = 0,
                !.next = NoDay]

\* Mutant: the subscription takes the status of its payment.
MarkActionRequiredAsPayment(sub) ==
    [sub EXCEPT !.status = "REQUIRES_ACTION", !.grace = sub.expires + Grace,
                !.next = today + 1]

\* 3DS: no attempt is consumed, the next look is tomorrow.
MarkActionRequired(sub) ==
    [sub EXCEPT !.status = "PAST_DUE", !.grace = sub.expires + Grace,
                !.next = today + 1]

\* Mutant: the grace counts from the failed attempt.
MarkFailedGraceFromToday(sub) ==
    LET n == sub.attempts + 1
        previous == IF n > 1 THEN Retry[n - 1] ELSE 0
    IN  [sub EXCEPT !.attempts = n, !.status = "PAST_DUE",
                    !.grace = today + Grace,
                    !.next = IF n <= Len(Retry)
                             THEN today + Retry[n] - previous ELSE NoDay]

\* _mark_failed: the next attempt by RETRY_SCHEDULE_DAYS, or "exhausted".
MarkFailed(sub) ==
    LET n == sub.attempts + 1
        previous == IF n > 1 THEN Retry[n - 1] ELSE 0
    IN  [sub EXCEPT !.attempts = n, !.status = "PAST_DUE",
                    !.grace = sub.expires + Grace,
                    !.next = IF n <= Len(Retry)
                             THEN today + Retry[n] - previous ELSE NoDay]

Marked(sub, verdict) ==
    CASE verdict \in {"paid", "pending"} -> MarkRenewed(sub)
      [] verdict = "action"              -> MarkActionRequired(sub)
      [] OTHER                           -> MarkFailed(sub)

-----------------------------------------------------------------------------
(* Payments and Stripe *)

Payment(k) == IF k \in DOMAIN pays THEN pays[k] ELSE NoPayment

WithPayment(k, pay) ==
    [x \in DOMAIN pays \cup {k} |-> IF x = k THEN pay ELSE pays[x]]

Key(s) == <<s, subs[s].expires>>

\* Mutant: the key changes with the day of the run.
RememberedToday(k, attempt) ==
    {i \in IntentIds : /\ intents[i].status # "none"
                       /\ intents[i].key = k
                       /\ intents[i].attempt = attempt
                       /\ today = intents[i].day}

\* The intent Stripe remembers for the idempotency key of this attempt.
Remembered(k, attempt) ==
    {i \in IntentIds : /\ intents[i].status # "none"
                       /\ intents[i].key = k
                       /\ intents[i].attempt = attempt
                       /\ today <= intents[i].day + KeyLife}

FreeIntents == {i \in IntentIds : intents[i].status = "none"}

StatusOf(reply) ==
    CASE reply \in {"succeeded", "lost"} -> "succeeded"
      [] reply = "declined"              -> "failed"
      [] OTHER                           -> reply

\* What charge_renewal makes of Stripe's answer about intent i.
Verdict(reply, i) ==
    CASE reply = "succeeded" ->
            [verdict |-> "paid", pay |-> [status |-> "SUCCESS", intent |-> i]]
      [] reply = "processing" ->
            [verdict |-> "pending",
             pay |-> [status |-> "PROCESSING", intent |-> i]]
      [] reply = "requires_action" ->
            [verdict |-> "action",
             pay |-> [status |-> "REQUIRES_ACTION", intent |-> i]]
      [] reply = "declined" ->
            [verdict |-> "declined",
             pay |-> [status |-> "FAILED", intent |-> i]]
      [] OTHER ->
            [verdict |-> "unavailable",
             pay |-> [status |-> "PENDING", intent |-> NoIntent]]

(* The events Stripe sends when intent i enters a status.  Those about      *)
(* processing and requires_action only move PENDING payments, and a renewal *)
(* payment that names an intent never is, so they are left out.             *)
Announced(status, i) ==
    IF status \in {"succeeded", "failed"} THEN {<<status, i>>} ELSE {}

Locked(s) == \E c \in Runs : runs[c].at.sub = s

\* charge_renewal reached a verdict; the transaction holds row s.
Hold(c, s, v) ==
    runs' = [runs EXCEPT ![c].at = [sub |-> s, verdict |-> v.verdict,
                                    pay |-> v.pay]]

-----------------------------------------------------------------------------
(* The cron *)

\* run_renewals: the list is read without locks.
SelectDue(c) ==
    /\ ~runs[c].began
    /\ runs' = [runs EXCEPT ![c] = [began |-> TRUE, at |-> Idle,
                                    pending |-> {s \in SubIds : Due(s)}]]
    /\ UNCHANGED <<today, subs, pays, intents, events, card, other, used>>

\* _renew_one takes the row lock on s.
CanTake(c, s) ==
    /\ s \in runs[c].pending
    /\ runs[c].at = Idle
    /\ ~Locked(s)

TurnAway(c, s) ==
    /\ CanTake(c, s)
    /\ ~Due(s)
    /\ runs' = [runs EXCEPT ![c].pending = @ \ {s}]
    /\ UNCHANGED <<today, subs, pays, intents, events, card, other, used>>

(* charge_renewal ends without a new charge: no card, the period already   *)
(* paid, or a prior intent that is paid, still open or out of reach.       *)
CheckPrior(c, s) ==
    LET pay == Payment(Key(s))
        prior == pay.intent
        Ends(verdict, status) ==
            Hold(c, s, [verdict |-> verdict,
                        pay |-> [pay EXCEPT !.status = status]])
    IN
    /\ CanTake(c, s)
    /\ Due(s)
    /\ \/ card = NoCard /\ Ends("no_card", pay.status)
       \/ card # NoCard /\ pay.status = "SUCCESS" /\ Ends("paid", "SUCCESS")
       \/ /\ card # NoCard /\ pay.status # "SUCCESS" /\ prior # NoIntent
          /\ \/ "unreachable" \in Replies /\ Ends("unavailable", pay.status)
             \/ intents[prior].status = "succeeded" /\ Ends("paid", "SUCCESS")
             \/ /\ intents[prior].status \in {"requires_action", "processing"}
                /\ Ends("action", pay.status)
    /\ UNCHANGED <<today, subs, pays, intents, events, card, other, used>>

\* Mutant: the prior intent is not consulted.
MayChargeBlindly(c, s) ==
    /\ CanTake(c, s) /\ Due(s) /\ card # NoCard
    /\ Payment(Key(s)).status # "SUCCESS"

\* Mutant: the subscription is not validated again under the lock.
MayChargeUnchecked(c, s) ==
    LET pay == Payment(Key(s)) IN
    /\ CanTake(c, s)
    /\ card # NoCard
    /\ pay.status # "SUCCESS"
    /\ pay.intent # NoIntent => intents[pay.intent].status = "failed"

\* A new charge may be issued: nothing paid, no prior intent still open.
MayCharge(c, s) ==
    LET pay == Payment(Key(s)) IN
    /\ CanTake(c, s)
    /\ Due(s)
    /\ card # NoCard
    /\ pay.status # "SUCCESS"
    /\ pay.intent # NoIntent => intents[pay.intent].status = "failed"

\* PaymentIntent.create with a key Stripe does not remember.
Charge(c, s, reply) ==
    LET k == Key(s)
        n == subs[s].attempts + 1
        i == CHOOSE j \in FreeIntents : TRUE
    IN
    /\ MayCharge(c, s)
    /\ Remembered(k, n) = {}
    /\ reply # "unreachable"
    /\ FreeIntents # {}
    /\ intents' = [intents EXCEPT ![i] =
            [status |-> StatusOf(reply), key |-> k, attempt |-> n,
             card |-> card, day |-> today,
             reply |-> IF reply = "lost" THEN "succeeded" ELSE reply]]
    /\ events' = events \cup Announced(StatusOf(reply), i)
    /\ Hold(c, s, Verdict(reply, i))
    /\ UNCHANGED <<today, subs, pays, card, other, used>>

\* The key is remembered: Stripe repeats its first answer, or refuses other
\* parameters (another card).
ChargeReplayed(c, s) ==
    /\ MayCharge(c, s)
    /\ \E i \in Remembered(Key(s), subs[s].attempts + 1) :
        Hold(c, s, Verdict(IF intents[i].card = card
                           THEN intents[i].reply ELSE "unreachable", i))
    /\ UNCHANGED <<today, subs, pays, intents, events, card, other, used>>

\* Stripe cannot be reached: nothing is created.
ChargeUnreachable(c, s) ==
    /\ MayCharge(c, s)
    /\ "unreachable" \in Replies
    /\ Hold(c, s, Verdict("unreachable", NoIntent))
    /\ UNCHANGED <<today, subs, pays, intents, events, card, other, used>>

Release(c) ==
    runs' = [runs EXCEPT ![c].pending = @ \ {runs[c].at.sub},
                         ![c].at = Idle]

\* Mutant: a period already paid is granted again.
CommitGrantingAgain(c) ==
    LET at == runs[c].at
        s == at.sub
        extended == IF at.verdict = "paid" THEN Activated ELSE subs
    IN
    /\ at # Idle
    /\ at.verdict = "paid" => CanActivate
    /\ pays' = IF at.pay = NoPayment THEN pays ELSE WithPayment(Key(s), at.pay)
    /\ subs' = [extended EXCEPT ![s] = Marked(@, at.verdict)]
    /\ Release(c)
    /\ UNCHANGED <<today, intents, events, card, other, used>>

\* Mutant: the period is granted while the charge is still processing.
CommitGrantingEarly(c) ==
    LET at == runs[c].at
        s == at.sub
        fulfils == /\ at.verdict \in {"paid", "pending"}
                   /\ Payment(Key(s)).status # "SUCCESS"
        extended == IF fulfils THEN Activated ELSE subs
    IN
    /\ at # Idle
    /\ fulfils => CanActivate /\ LockFree
    /\ pays' = IF at.pay = NoPayment THEN pays ELSE WithPayment(Key(s), at.pay)
    /\ subs' = [extended EXCEPT ![s] = Marked(@, at.verdict)]
    /\ Release(c)
    /\ UNCHANGED <<today, intents, events, card, other, used>>

\* The transaction commits: payment row, period if newly paid, dunning.
Commit(c) ==
    LET at == runs[c].at
        s == at.sub
        k == Key(s)
        fulfils == at.verdict = "paid" /\ Payment(k).status # "SUCCESS"
        extended == IF fulfils THEN Activated ELSE subs
    IN
    /\ at # Idle
    /\ fulfils => /\ CanActivate /\ LockFree
                  /\ \A d \in Runs \ {c} : runs[d].at.sub # Primary
    /\ pays' = IF at.pay = NoPayment THEN pays ELSE WithPayment(k, at.pay)
    /\ subs' = [extended EXCEPT ![s] = Marked(@, at.verdict)]
    /\ Release(c)
    /\ UNCHANGED <<today, intents, events, card, other, used>>

\* The transaction is lost after the Stripe call: a crash, a deadlock, an error.
Rollback(c) ==
    /\ runs[c].at # Idle
    /\ used.rollbacks < MaxRollbacks
    /\ used' = [used EXCEPT !.rollbacks = @ + 1]
    /\ Release(c)
    /\ UNCHANGED <<today, subs, pays, intents, events, card, other>>

-----------------------------------------------------------------------------
(* Stripe, its webhooks, the customer and the calendar *)

\* The bank settles a processing charge, or the customer answers the 3DS.
Settle(i, status) ==
    /\ intents[i].status \in {"processing", "requires_action"}
    /\ intents' = [intents EXCEPT ![i].status = status]
    /\ events' = events \cup Announced(status, i)
    /\ UNCHANGED <<today, subs, pays, runs, card, other, used>>

IsLocal(i) == Payment(intents[i].key).intent = i

(* A webhook about intent i.  The payment row is looked up FOR UPDATE, so  *)
(* it waits for a cron transaction that holds the row; an intent that no   *)
(* committed row names is logged and acknowledged.                         *)
WebhookUnknown(kind, i) ==
    /\ <<kind, i>> \in events
    /\ ~IsLocal(i)
    /\ events' = events \ {<<kind, i>>}
    /\ UNCHANGED <<today, subs, pays, intents, runs, card, other, used>>

\* _on_payment_succeeded, _fulfill_local_success.
WebhookSucceeded(i) ==
    LET k == intents[i].key
        fulfils == pays[k].status # "SUCCESS"
    IN
    /\ <<"succeeded", i>> \in events
    /\ IsLocal(i)
    /\ ~Locked(k[1])
    /\ fulfils => CanActivate /\ LockFree /\ ~Locked(Primary)
    /\ pays' = WithPayment(k, [pays[k] EXCEPT !.status = "SUCCESS"])
    /\ subs' = IF fulfils THEN Activated ELSE subs
    /\ events' = events \ {<<"succeeded", i>>}
    /\ UNCHANGED <<today, intents, runs, card, other, used>>

\* _on_payment_failed: only a PENDING payment moves.
WebhookFailed(i) ==
    LET k == intents[i].key IN
    /\ <<"failed", i>> \in events
    /\ IsLocal(i)
    /\ ~Locked(k[1])
    /\ pays' = IF pays[k].status = "PENDING"
               THEN WithPayment(k, [pays[k] EXCEPT !.status = "FAILED"])
               ELSE pays
    /\ events' = events \ {<<"failed", i>>}
    /\ UNCHANGED <<today, subs, intents, runs, card, other, used>>

(* A checkout or a cash payment of the same plan and cycle, one of them at  *)
(* a time, reads the primary subscription and then writes.  Neither reads   *)
(* under the row lock that the cron holds while it charges; the checkout    *)
(* has the advisory lock, so no renewal is applied in between, and the cash *)
(* payment has none.                                                        *)
OtherReads(kind) ==
    LET read == IF Primary = 0 THEN NoSub ELSE subs[Primary] IN
    /\ other = Nobody
    /\ used.others < MaxOthers
    /\ CanActivate
    /\ other' = [kind |-> kind, sub |-> Primary,
                 status |-> read.status, expires |-> read.expires]
    /\ used' = [used EXCEPT !.others = @ + 1]
    /\ UNCHANGED <<today, subs, pays, intents, events, runs, card>>

\* The UPDATE waits for the row; a status read as ACTIVE is not written again.
OtherWrites ==
    /\ other.sub # 0
    /\ ~Locked(other.sub)
    /\ subs' = [subs EXCEPT ![other.sub].expires = NextPeriodEnd(other.expires),
                            ![other.sub].status = IF other.status = "ACTIVE"
                                                  THEN @ ELSE "ACTIVE"]
    /\ other' = Nobody
    /\ UNCHANGED <<today, pays, intents, events, runs, card, used>>

\* The payment that read no active subscription inserts one.
OtherOpens ==
    /\ other # Nobody /\ other.sub = 0
    /\ FreeSub # 0
    /\ subs' = [subs EXCEPT ![FreeSub] = NewSub(today + Cycle)]
    /\ other' = Nobody
    /\ UNCHANGED <<today, pays, intents, events, runs, card, used>>

\* PATCH /billing/auto-renew: turning it on clears the dunning state.
SetAutoRenew(on) ==
    /\ PanelCalls
    /\ Primary # 0
    /\ ~Locked(Primary)
    /\ subs' = [subs EXCEPT ![Primary] =
                    IF on THEN [@ EXCEPT !.auto = TRUE, !.next = NoDay,
                                         !.attempts = 0]
                          ELSE [@ EXCEPT !.auto = FALSE]]
    /\ UNCHANGED <<today, pays, intents, events, runs, card, other, used>>

\* PATCH /subscriptions/{id}/auto-renew: the flag alone, ACTIVE rows only.
ToggleAutoRenew(s, on) ==
    /\ PanelCalls
    /\ subs[s].status = "ACTIVE"
    /\ ~Locked(s)
    /\ subs' = [subs EXCEPT ![s].auto = on]
    /\ UNCHANGED <<today, pays, intents, events, runs, card, other, used>>

\* The customer changes or removes the default card.
ChangeCard(new) ==
    /\ card' = new
    /\ UNCHANGED <<today, subs, pays, intents, events, runs, other, used>>

\* Midnight.  A run ends on the day it began.
Tick ==
    /\ today < MaxDay
    /\ \A c \in Runs : runs[c].pending = {}
    /\ other = Nobody
    /\ SlowWebhooks \/ events = {}
    /\ DailyCron => \A c \in Runs : runs[c].began
    /\ today' = today + 1
    /\ runs' = [c \in Runs |-> [began |-> FALSE, pending |-> {}, at |-> Idle]]
    /\ UNCHANGED <<subs, pays, intents, events, card, other, used>>

Next ==
    \/ \E c \in Runs :
        \/ SelectDue(c) \/ Commit(c) \/ Rollback(c)
        \/ \E s \in SubIds :
            \/ TurnAway(c, s) \/ CheckPrior(c, s)
            \/ ChargeReplayed(c, s) \/ ChargeUnreachable(c, s)
            \/ \E reply \in Replies : Charge(c, s, reply)
    \/ \E i \in IntentIds :
        \/ \E status \in {"succeeded", "failed"} : Settle(i, status)
        \/ WebhookSucceeded(i)
        \/ WebhookFailed(i)
        \/ \E kind \in {"succeeded", "failed"} : WebhookUnknown(kind, i)
    \/ \E kind \in {"checkout", "cash"} : OtherReads(kind)
    \/ OtherWrites \/ OtherOpens
    \/ \E on \in BOOLEAN :
        SetAutoRenew(on) \/ \E s \in SubIds : ToggleAutoRenew(s, on)
    \/ \E new \in Cards : ChangeCard(new)
    \/ Tick

Spec == Init /\ [][Next]_vars

-----------------------------------------------------------------------------
(* Properties *)

\* The types of the variables.
TypeOK ==
    /\ today \in 0..MaxDay
    /\ subs \in [SubIds -> SubRecords]
    /\ DOMAIN pays \subseteq Keys
    /\ \A k \in DOMAIN pays : pays[k] \in PaymentRecords
    /\ intents \in [IntentIds -> IntentRecords]
    /\ events \subseteq {"succeeded", "failed"} \X IntentIds
    /\ runs \in [Runs -> RunRecords]
    /\ card \in Cards
    /\ other \in [kind: {"none", "checkout", "cash"}, sub: SubIds \cup {0},
                 status: SubStatus, expires: Nat]
    /\ used \in [rollbacks: Nat, others: Nat]

Exists(i) == intents[i].status # "none"
InFlight(i) == \/ \E kind \in {"succeeded", "failed"} : <<kind, i>> \in events
               \/ \E c \in Runs : runs[c].at.pay.intent = i

(* One period of one subscription is charged once: of all the intents ever *)
(* created for it at Stripe at most one has charged or may still charge.   *)
ChargedOncePerPeriod ==
    \A i, j \in IntentIds :
        /\ i # j /\ Exists(i) /\ Exists(j)
        /\ intents[i].key = intents[j].key
        => intents[i].status = "failed" \/ intents[j].status = "failed"

(* A charge is only created for the period in force of a subscription that *)
(* the customer wants renewed, near its end and before its grace is over,  *)
(* whatever happened since run_renewals read its list without locks.       *)
ChargeOnlyWhenDue ==
    [][\A i \in IntentIds :
        ~Exists(i) /\ Exists(i)' =>
            LET s == intents'[i].key[1] IN
            /\ subs[s].auto /\ intents'[i].key[2] = subs[s].expires
            /\ today + Lead >= subs[s].expires
            /\ subs[s].grace = NoDay \/ today < subs[s].grace]_vars

Paid == {k \in DOMAIN pays : pays[k].status = "SUCCESS"}

Moved == {s \in SubIds : subs'[s].expires # subs[s].expires}
OtherPaid == other # Nobody /\ other' = Nobody
MovesWithMoney ==
    /\ Paid \subseteq Paid'
    /\ Cardinality(Moved) = Cardinality(Paid' \ Paid) + IF OtherPaid THEN 1 ELSE 0
    /\ \A s \in Moved : /\ subs'[s].expires >= today + Cycle
                        /\ subs'[s].expires >= subs[s].expires + Cycle

\* Cash that was read before another payment was applied takes its place: the
\* end is a cycle from what was read, and the row is no other.
CashOverwrites ==
    /\ OtherPaid /\ other.kind = "cash" /\ other.sub # 0
    /\ subs[other.sub].expires # other.expires
    /\ subs' = [subs EXCEPT ![other.sub] = subs'[other.sub]]
    /\ subs'[other.sub].expires = NextPeriodEnd(other.expires)
    /\ Paid' = Paid

(* Time and money agree: the end of a period moves only in the step that   *)
(* turns one payment into SUCCESS, and each such step moves exactly one by *)
(* a whole cycle from its end or from today.  The cash payment that holds  *)
(* no lock is the one exception, and only where it read what another       *)
(* payment has moved since.                                                *)
EveryPaymentExtendsOnce == [][MovesWithMoney \/ CashOverwrites]_vars

(* The grace of a subscription that owes is counted from its expiry, so no *)
(* retry pushes it forward.                                                *)
GraceAnchored ==
    \A s \in SubIds :
        subs[s].status = "PAST_DUE" => subs[s].grace = subs[s].expires + Grace

(* "El cobro se intenta 3 dias antes de vencer": a subscription on auto     *)
(* renewal that passed its end ACTIVE has been tried.                       *)
EveryPeriodIsTried ==
    \A s \in SubIds :
        (subs[s].status = "ACTIVE" /\ subs[s].auto /\ subs[s].expires < today)
        => Key(s) \in DOMAIN pays

(* So it is when its row is in order.  It is not when it was renewed        *)
(* outside the cron while it owed: the grace that _activate_subscription    *)
(* leaves on the row is over when the next period enters its window, and    *)
(* due_subscriptions passes it by.                                          *)
PeriodsInOrderAreTried ==
    \A s \in SubIds :
        /\ subs[s].status = "ACTIVE" /\ subs[s].auto /\ subs[s].expires < today
        /\ subs[s].grace = NoDay
        => Key(s) \in DOMAIN pays

(* A charge that went through is never orphaned: its payment is fulfilled,  *)
(* its webhook is on the way, a transaction holds it, or the cron would     *)
(* still look at the same period and find it.                               *)
PaidChargeIsReachable ==
    \A i \in IntentIds :
        intents[i].status = "succeeded" =>
            LET k == intents[i].key IN
            \/ Payment(k).status = "SUCCESS"
            \/ InFlight(i)
            \/ k = Key(k[1]) /\ subs[k[1]].auto

\* No charge that Stripe took is lost, and no period is charged twice.
ChargesAreKept == PaidChargeIsReachable /\ ChargedOncePerPeriod

(* "Agotados los reintentos no se hace nada mas": no charge is attempted    *)
(* after the retries of RETRY_SCHEDULE_DAYS.                                *)
RetriesAreBounded ==
    \A i \in IntentIds : Exists(i) => intents[i].attempt <= Len(Retry) + 1

=============================================================================
