----------------------------- MODULE PaidPeriods -----------------------------
(***************************************************************************)
(* What the payments of an organization do to its paid time: the webhook   *)
(* handlers of StripeGateway that grant, revoke and restore a period       *)
(* (succeeded, refunded, disputed), and the cash payments of               *)
(* manual_payment_service.  Stripe's side of each charge is modelled too,  *)
(* and every change there sends an event.                                  *)
(*                                                                         *)
(* Each handler is one transaction under the advisory lock ("sub", org),   *)
(* so it is one step.  A cash payment takes no lock: it is two steps.      *)
(* Events are applied once each (see WebhookInbox).                        *)
(***************************************************************************)
EXTENDS Integers, Sequences, FiniteSets, FiniteSetsExt, SequencesExt

CONSTANTS
    Charges,     \* card payments, each with one PaymentIntent
    Cash,        \* cash payments registered by GAC
    PlanOf,      \* the plan (and cycle) each payment buys
    Cycle,       \* cycle_duration
    MaxSubs,     \* bound on subscription rows
    MaxDay,      \* bound on the clock
    MaxEvents,   \* bound on the undelivered events of a charge
    InOrder,     \* TRUE: Stripe delivers the events of a charge in order
    CashRaces    \* TRUE: a webhook may run inside a cash registration

Pays == Charges \cup Cash
SubIds == 1..MaxSubs

PeriodsAssumption ==
    /\ MaxSubs \in Nat \ {0} /\ MaxDay \in Nat /\ MaxEvents \in Nat
    /\ Cycle \in Nat \ {0}
    /\ Charges \cap Cash = {}
    /\ DOMAIN PlanOf = Pays
    /\ {InOrder, CashRaces} \subseteq BOOLEAN

VARIABLES
    today,    \* now()
    subs,     \* the rows of subscriptions
    pays,     \* the rows of payments, each with its invoice
    stripe,   \* the charges as Stripe has them
    events,   \* events not delivered yet, oldest first
    cash      \* what an open cash registration has read

vars == <<today, subs, pays, stripe, events, cash>>

NoSub == [status |-> "none", started |-> 0, expires |-> 0, plan |-> "none"]
Nobody == [pay |-> "none", sub |-> 0, expires |-> 0, plan |-> "none"]

\* A card payment waits for its charge; a cash payment is not there yet.
Init ==
    /\ today = 0
    /\ subs = [s \in SubIds |-> NoSub]
    /\ pays = [p \in Pays |->
                [status |-> IF p \in Cash THEN "none" ELSE "PENDING",
                 invoice |-> "OPEN", sub |-> 0, revoked |-> FALSE,
                 disputed |-> FALSE]]
    /\ stripe = [p \in Charges |->
                    [intent |-> "open", refund |-> "none", dispute |-> "none"]]
    /\ events = [p \in Charges |-> <<>>]
    /\ cash = Nobody

-----------------------------------------------------------------------------
(* Granting and revoking a period *)

IsActive(s) == subs[s].status = "ACTIVE" /\ subs[s].expires > today

\* get_primary_active_subscription: the latest started; ids follow started_at.
Primary == LET active == {s \in SubIds : IsActive(s)}
           IN  IF active = {} THEN 0 ELSE Max(active)

FreeSub == LET free == {s \in SubIds : subs[s].status = "none"}
           IN  IF free = {} THEN 0 ELSE Min(free)

Target == IF Primary # 0 THEN Primary ELSE FreeSub

\* next_period: chained to the end in force, or from today for another plan.
PeriodEnd(samePlan, end) ==
    (IF samePlan /\ end > today THEN end ELSE today) + Cycle

Opened(plan) == [status |-> "ACTIVE", started |-> today,
                 expires |-> today + Cycle, plan |-> plan]

\* Mutant: a renewal in advance starts today.
ActivatedFromToday(plan) ==
    IF Primary # 0
    THEN [subs EXCEPT ![Primary] =
            [subs[Primary] EXCEPT !.plan = plan, !.expires = today + Cycle]]
    ELSE [subs EXCEPT ![FreeSub] = Opened(plan)]

\* _activate_subscription: extend the primary subscription or open one.
Activated(plan) ==
    IF Primary # 0
    THEN [subs EXCEPT ![Primary] =
            [subs[Primary] EXCEPT
                !.plan = plan,
                !.expires = PeriodEnd(subs[Primary].plan = plan, @)]]
    ELSE [subs EXCEPT ![FreeSub] = Opened(plan)]

\* _shift_paid_period on the row: one cycle less, cancelled when none is left.
Shortened(s) ==
    LET end == subs[s].expires - Cycle IN
    [subs EXCEPT ![s] =
        [subs[s] EXCEPT !.expires = end,
                        !.status = IF end <= today THEN "CANCELLED" ELSE @]]

\* _restore_paid_period on the row: one cycle more, active if that is ahead.
Lengthened(s) ==
    LET end == subs[s].expires + Cycle IN
    [subs EXCEPT ![s] =
        [subs[s] EXCEPT !.expires = end,
                        !.status = IF end > today THEN "ACTIVE" ELSE @]]

\* _shift_paid_period acts once: period_revoked makes it idempotent.
Revoked(p) ==
    IF ~pays[p].revoked /\ pays[p].sub # 0 THEN Shortened(pays[p].sub) ELSE subs

Restored(p) ==
    IF pays[p].revoked /\ pays[p].sub # 0 THEN Lengthened(pays[p].sub) ELSE subs

-----------------------------------------------------------------------------
(* Webhooks *)

\* The event at position n of the queue of p is the one delivered.
Delivers(p, n, kind) ==
    /\ n \in 1..Len(events[p])
    /\ InOrder => n = 1
    /\ events[p][n] = kind
    /\ CashRaces \/ cash = Nobody
    /\ events' = [events EXCEPT ![p] = RemoveAt(@, n)]
    /\ UNCHANGED <<today, stripe, cash>>

\* _on_payment_succeeded, _fulfill_local_success.
OnSucceeded(p, n) ==
    LET fulfils == pays[p].status # "SUCCESS" IN
    /\ Delivers(p, n, "succeeded")
    /\ fulfils => Target # 0
    /\ subs' = IF fulfils THEN Activated(PlanOf[p]) ELSE subs
    /\ pays' = IF fulfils
               THEN [pays EXCEPT ![p] = [pays[p] EXCEPT !.status = "SUCCESS",
                                                        !.invoice = "PAID",
                                                        !.sub = Target]]
               ELSE pays

\* Mutant: Stripe's name of the status is stored as it came.
OnStatusAsReceived(p, n, kind) ==
    /\ Delivers(p, n, kind)
    /\ pays' = IF pays[p].status = "PENDING"
               THEN [pays EXCEPT ![p].status = kind] ELSE pays
    /\ UNCHANGED subs

LocalStatus(kind) == CASE kind = "failed"     -> "FAILED"
                       [] kind = "processing" -> "PROCESSING"
                       [] kind = "canceled"   -> "CANCELED"

\* _on_payment_failed, _on_payment_canceled and _on_payment_status: only a
\* PENDING payment moves.
OnStatus(p, n, kind) ==
    /\ Delivers(p, n, kind)
    /\ pays' = IF pays[p].status = "PENDING"
               THEN [pays EXCEPT ![p].status = LocalStatus(kind)] ELSE pays
    /\ UNCHANGED subs

\* _on_charge_refunded, amount_refunded below the amount charged.
OnPartialRefund(p, n) ==
    /\ Delivers(p, n, "partial_refund")
    /\ pays' = [pays EXCEPT ![p].status = "PARTIALLY_REFUNDED"]
    /\ UNCHANGED subs

\* _on_charge_refunded, everything given back.
OnFullRefund(p, n) ==
    /\ Delivers(p, n, "full_refund")
    /\ subs' = Revoked(p)
    /\ pays' = [pays EXCEPT ![p] = [pays[p] EXCEPT !.status = "REFUNDED",
                                                   !.invoice = "VOID",
                                                   !.revoked = TRUE]]

\* _on_dispute_opened: the service goes on.
OnDisputeOpened(p, n) ==
    /\ Delivers(p, n, "dispute_opened")
    /\ pays' = [pays EXCEPT ![p] =
                    [pays[p] EXCEPT !.disputed = TRUE,
                                    !.status = IF @ = "SUCCESS"
                                               THEN "DISPUTED" ELSE @]]
    /\ UNCHANGED subs

\* _on_dispute_closed, won.
OnDisputeWon(p, n) ==
    /\ Delivers(p, n, "dispute_won")
    /\ subs' = Restored(p)
    /\ pays' = [pays EXCEPT ![p] =
                    [pays[p] EXCEPT !.disputed = FALSE, !.invoice = "PAID",
                                    !.revoked = FALSE,
                                    !.status = IF @ = "DISPUTED"
                                               THEN "SUCCESS" ELSE @]]

\* Mutant: the lost dispute is noted and the period stays.
OnDisputeLostKeepingPeriod(p, n) ==
    /\ Delivers(p, n, "dispute_lost")
    /\ pays' = [pays EXCEPT ![p] = [pays[p] EXCEPT !.status = "DISPUTED",
                                                   !.invoice = "UNCOLLECTIBLE"]]
    /\ UNCHANGED subs

\* _on_dispute_closed, lost.
OnDisputeLost(p, n) ==
    /\ Delivers(p, n, "dispute_lost")
    /\ subs' = Revoked(p)
    /\ pays' = [pays EXCEPT ![p] = [pays[p] EXCEPT !.status = "DISPUTED",
                                                   !.invoice = "UNCOLLECTIBLE",
                                                   !.revoked = TRUE]]

-----------------------------------------------------------------------------
(* Cash payments: no lock between the read and the write *)

\* manual_payment_service._activate_subscription reads the primary one.
CashReads(p) ==
    /\ pays[p].status = "none"
    /\ cash = Nobody
    /\ Target # 0
    /\ cash' = IF Primary = 0 THEN [Nobody EXCEPT !.pay = p]
               ELSE [pay |-> p, sub |-> Primary, plan |-> subs[Primary].plan,
                     expires |-> subs[Primary].expires]
    /\ UNCHANGED <<today, subs, pays, stripe, events>>

\* register_manual_payment commits period, invoice and payment together.
CashWrites ==
    LET p == cash.pay
        plan == PlanOf[p]
        s == IF cash.sub # 0 THEN cash.sub ELSE FreeSub
    IN
    /\ cash # Nobody
    /\ s # 0
    /\ subs' = [subs EXCEPT ![s] =
                    IF cash.sub = 0 THEN Opened(plan)
                    ELSE [subs[s] EXCEPT
                            !.plan = IF cash.plan = plan THEN @ ELSE plan,
                            !.expires = PeriodEnd(cash.plan = plan,
                                                  cash.expires)]]
    /\ pays' = [pays EXCEPT ![p] = [pays[p] EXCEPT !.status = "SUCCESS",
                                                   !.invoice = "PAID",
                                                   !.sub = s]]
    /\ cash' = Nobody
    /\ UNCHANGED <<today, stripe, events>>

-----------------------------------------------------------------------------
(* Stripe and the calendar *)

\* A change of charge p at Stripe, announced by an event.
Changes(p, new, kind) ==
    /\ Len(events[p]) < MaxEvents
    /\ stripe' = [stripe EXCEPT ![p] = new]
    /\ events' = [events EXCEPT ![p] = Append(@, kind)]
    /\ UNCHANGED <<today, subs, pays, cash>>

StripeMoves(p) ==
    LET c == stripe[p] IN
    \/ /\ c.intent \in {"open", "processing"}
       /\ \/ Changes(p, [c EXCEPT !.intent = "succeeded"], "succeeded")
          \/ Changes(p, [c EXCEPT !.intent = "failed"], "failed")
    \/ /\ c.intent = "open"
       /\ Changes(p, [c EXCEPT !.intent = "processing"], "processing")
    \/ /\ c.intent = "failed"       \* the customer tries again, or gives up
       /\ \/ Changes(p, [c EXCEPT !.intent = "succeeded"], "succeeded")
          \/ Changes(p, [c EXCEPT !.intent = "canceled"], "canceled")
    \/ /\ c.intent = "succeeded" /\ c.dispute \in {"none", "won"}
       /\ \/ /\ c.refund = "none"
             /\ Changes(p, [c EXCEPT !.refund = "part"], "partial_refund")
          \/ /\ c.refund # "full"
             /\ Changes(p, [c EXCEPT !.refund = "full"], "full_refund")
    \/ /\ c.intent = "succeeded" /\ c.refund # "full" /\ c.dispute = "none"
       /\ Changes(p, [c EXCEPT !.dispute = "open"], "dispute_opened")
    \/ /\ c.dispute = "open"
       /\ \/ Changes(p, [c EXCEPT !.dispute = "won"], "dispute_won")
          \/ Changes(p, [c EXCEPT !.dispute = "lost"], "dispute_lost")

\* POST /subscriptions/{id}/cancel, at once or "at the end of the period".
Cancel(s, immediately) ==
    /\ subs[s].status = "ACTIVE"
    /\ cash = Nobody
    /\ subs' = [subs EXCEPT ![s] =
                    [subs[s] EXCEPT
                        !.status = "CANCELLED",
                        !.expires = IF immediately THEN today ELSE @]]
    /\ UNCHANGED <<today, pays, stripe, events, cash>>

\* Midnight.
Tick ==
    /\ today < MaxDay
    /\ cash = Nobody
    /\ today' = today + 1
    /\ UNCHANGED <<subs, pays, stripe, events, cash>>

Next ==
    \/ \E p \in Charges, n \in 1..MaxEvents :
        \/ OnSucceeded(p, n)
        \/ \E kind \in {"failed", "processing", "canceled"} : OnStatus(p, n, kind)
        \/ OnPartialRefund(p, n) \/ OnFullRefund(p, n)
        \/ OnDisputeOpened(p, n) \/ OnDisputeWon(p, n) \/ OnDisputeLost(p, n)
    \/ \E p \in Cash : CashReads(p)
    \/ CashWrites
    \/ \E p \in Charges : StripeMoves(p)
    \/ \E s \in SubIds, immediately \in BOOLEAN : Cancel(s, immediately)
    \/ Tick

Spec == Init /\ [][Next]_vars

-----------------------------------------------------------------------------
(* Properties *)

TypeOK ==
    /\ today \in 0..MaxDay
    /\ \A s \in SubIds :
        /\ subs[s].status \in {"none", "ACTIVE", "CANCELLED"}
        /\ subs[s].started \in 0..MaxDay /\ subs[s].expires \in Int
    /\ \A p \in Pays :
        /\ pays[p].status \in {"none", "PENDING", "PROCESSING", "FAILED",
             "CANCELED", "SUCCESS", "PARTIALLY_REFUNDED", "REFUNDED", "DISPUTED"}
        /\ pays[p].invoice \in {"OPEN", "PAID", "VOID", "UNCOLLECTIBLE"}
        /\ pays[p].sub \in SubIds \cup {0}
        /\ {pays[p].revoked, pays[p].disputed} \subseteq BOOLEAN
    /\ \A p \in Charges : Len(events[p]) <= MaxEvents
    /\ cash.sub \in SubIds \cup {0}

\* The payments that bought time of subscription s, and those still counted.
Bought(s) == {p \in Pays : pays[p].sub = s}
Counted(s) == {p \in Bought(s) : ~pays[p].revoked}

\* Subscriptions whose plan never changed: their periods form one chain.
OnePlan(s) == \A p \in Bought(s) : PlanOf[p] = subs[s].plan

PaidUntil(s) == subs[s].started + Cycle * Cardinality(Counted(s))

(* Time is what was paid for: an active subscription lasts one cycle from   *)
(* its start for each payment that extended it and was not given back,      *)
(* however card, cash, refunds, disputes and cancellations interleave.      *)
TimeMatchesMoney ==
    \A s \in SubIds :
        (subs[s].status = "ACTIVE" /\ OnePlan(s))
        => subs[s].expires = PaidUntil(s)

(* "El cliente nunca pierde los dias que ya pago" (next_period): no period  *)
(* that was paid, and not given back, is missing from the subscription.     *)
PaidDaysAreKept ==
    \A s \in SubIds :
        (subs[s].status = "ACTIVE" /\ OnePlan(s))
        => subs[s].expires >= PaidUntil(s)

(* Once Stripe has nothing left to tell about a charge, payment, invoice    *)
(* and period agree with where the money is.                                *)
SettledAgrees ==
    \A p \in Charges :
        events[p] = <<>> =>
            LET c == stripe[p]
                back == c.refund = "full" \/ c.dispute = "lost"
            IN
            /\ pays[p].revoked = back
            /\ (pays[p].sub # 0) = (c.intent = "succeeded")
            /\ pays[p].invoice = "PAID" <=> (c.intent = "succeeded" /\ ~back)
            /\ c.refund = "full" => pays[p].status = "REFUNDED"
            /\ c.dispute = "lost" => pays[p].status = "DISPUTED"
            /\ pays[p].disputed <=> c.dispute \in {"open", "lost"}

=============================================================================
