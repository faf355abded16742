------------------------------ MODULE Checkout ------------------------------
(***************************************************************************)
(* POST /stripe/payment-intent for one account: the payments row of a plan *)
(* and calendar month, the PaymentIntents it names at Stripe, and the      *)
(* webhooks that close them.                                               *)
(*                                                                         *)
(* The advisory lock ("pi", account) lets one checkout run at a time, so   *)
(* checkout is one record; its transaction commits at the end, and in      *)
(* between it calls Stripe, where the customer and the webhooks go on.     *)
(* Periods and invoices are PaidPeriods; the HTTP reservation is           *)
(* Idempotency; the claim of each event is WebhookInbox: here every event  *)
(* is handled once, in any order.  The legacy yearly keys are left out.    *)
(***************************************************************************)
EXTENDS Naturals, FiniteSets

CONSTANTS
    Plans,        \* plan and cycle
    MaxMonth,     \* bound on the clock, in periods of the key
    MaxPrice,     \* bound on the repricings
    Intents,      \* ids of PaymentIntents
    MaxEvents,    \* bound on the events not handled yet
    Unreachable,  \* calls to Stripe that may fail
    Races,        \* coincidences that may happen: "sweep", a webhook inside
                  \* the sweep of stale rows; "reprice", a new price while an
                  \* intent of the old one is processing
    None

\* _idem_keys_for_period: the plan and the bucket of the day.
Keys == Plans \X (1..MaxMonth)

\* The key a PaymentIntent is asked for with: why, for which payment, instead of which.
Causes == {"new", "reissue", "reissue_err"} \X Keys \X (Intents \cup {None})

CheckoutAssumption ==
    /\ None \notin Intents \cup Causes
    /\ MaxMonth \in Nat \ {0} /\ MaxPrice \in Nat \ {0} /\ MaxEvents \in Nat
    /\ Unreachable \subseteq {"retrieve", "cancel", "create"}
    /\ Races \subseteq {"sweep", "reprice"}

VARIABLES
    month,     \* _period_bucket of now
    price,     \* version of the price list
    row,       \* payments, by idempotency_key
    intent,    \* the intents as Stripe has them
    events,    \* webhooks not handled yet
    browser,   \* intents whose client_secret was handed out
    checkout   \* the request under way

vars == <<month, price, row, intent, events, browser, checkout>>

NoRow == [status |-> "none", pi |-> None, grants |-> 0]
NoIntent == [status |-> "none", key |-> None, price |-> 0, cause |-> None]
Idle == [phase |-> "idle"]

Init ==
    /\ month = 1
    /\ price = 1
    /\ row = [k \in Keys |-> NoRow]
    /\ intent = [i \in Intents |-> NoIntent]
    /\ events = {}
    /\ browser = {}
    /\ checkout = Idle

May(call) == call \in Unreachable
Ends == checkout' = Idle

\* Mutant: a payment that succeeded is fulfilled again.
FulfilledAgain(r) ==
    [r EXCEPT !.status = "SUCCESS", !.grants = IF r.grants < 2 THEN r.grants + 1 ELSE 2]

\* _fulfill_local_success, on the row as the session has it (more than two
\* grants count as two).
Fulfilled(r) ==
    IF r.status = "SUCCESS" THEN r
    ELSE [r EXCEPT !.status = "SUCCESS",
                   !.grants = IF r.grants < 2 THEN r.grants + 1 ELSE 2]

CancelAtStripe(i) ==
    /\ Cardinality(events) < MaxEvents
    /\ intent' = [intent EXCEPT ![i].status = "canceled"]
    /\ events' = events \cup {<<"canceled", i>>}

-----------------------------------------------------------------------------
(* create_payment_intent                                                   *)

\* The row of the period is read FOR UPDATE; one that succeeded is a 409, which
\* changes nothing.  held are the rows the transaction has locked.
Start(plan) ==
    LET key == <<plan, month>>
        fresh == row[key].status = "none"
    IN
    /\ checkout = Idle
    /\ row[key].status # "SUCCESS"
    /\ checkout' = [phase |-> IF fresh THEN "sweep" ELSE "look", key |-> key,
                    cause |-> <<"new", key, None>>, price |-> price,
                    held |-> IF fresh THEN {} ELSE {key},
                    stale |-> {}, cancel |-> {}, fulfil |-> {}, pi |-> None]
    /\ UNCHANGED <<month, price, row, intent, events, browser>>

Old == row[checkout.key].pi

\* Another intent of the same period, under another key of Stripe.
Reissues(reason) ==
    checkout' = [checkout EXCEPT !.phase = "sweep",
                                 !.cause = <<reason, checkout.key, Old>>]

\* The customer paid, and no webhook said so yet.
FulfilOld ==
    /\ intent[Old].status = "succeeded"
    /\ row' = [row EXCEPT ![checkout.key] = Fulfilled(@)]
    /\ Ends
    /\ UNCHANGED <<month, price, intent, events, browser>>

Reuse ==
    /\ checkout.phase = "look"
    /\ intent[Old].status \in {"open", "processing"}
    /\ intent[Old].price = checkout.price
    /\ browser' = browser \cup {Old}
    /\ Ends
    /\ UNCHANGED <<month, price, row, intent, events>>

Look ==
    /\ checkout.phase = "look"
    /\ \/ FulfilOld
       \/ /\ \/ intent[Old].status = "canceled" /\ Reissues("reissue")
             \/ /\ intent[Old].status \in {"open", "processing"}
                /\ intent[Old].price # checkout.price
                /\ checkout' = [checkout EXCEPT !.phase = "settle"]
             \/ May("retrieve") /\ Reissues("reissue_err")
          /\ UNCHANGED <<month, price, row, intent, events, browser>>

\* Mutant: the old intent is only set aside.
SettleWithoutCancelling ==
    /\ checkout.phase = "settle"
    /\ Reissues("reissue")
    /\ UNCHANGED <<month, price, row, intent, events, browser>>

\* _settle_obsolete_pi: an intent that cannot be cancelled and did not succeed
\* counts as cancelled; unknown is a 503.
Settle ==
    /\ checkout.phase = "settle"
    /\ \/ FulfilOld
       \/ /\ intent[Old].status \in {"open", "canceled"}
          /\ IF intent[Old].status = "open" THEN CancelAtStripe(Old)
                                            ELSE UNCHANGED <<intent, events>>
          /\ Reissues("reissue")
          /\ UNCHANGED <<month, price, row, browser>>
       \/ /\ intent[Old].status = "processing"
          /\ Reissues("reissue")
          /\ UNCHANGED <<month, price, row, intent, events, browser>>
       \/ /\ May("cancel")
          /\ Ends
          /\ UNCHANGED <<month, price, row, intent, events, browser>>

\* The PENDING rows of other periods, read without a lock.
ReadStale ==
    /\ checkout.phase = "sweep"
    /\ checkout' = [checkout EXCEPT
          !.phase = "stale",
          !.stale = {k \in Keys \ {checkout.key} : row[k].status = "PENDING"}]
    /\ UNCHANGED <<month, price, row, intent, events, browser>>

\* One stale row: it is cancelled, or fulfilled from the row as it was read, or
\* left alone when Stripe does not answer.
SettleStale(k) ==
    LET i == row[k].pi
        next == [checkout EXCEPT !.stale = @ \ {k}]
        cancels == [next EXCEPT !.cancel = @ \cup {k}]
    IN
    /\ checkout.phase = "stale"
    /\ k \in checkout.stale
    /\ \/ /\ intent[i].status = "open"
          /\ CancelAtStripe(i)
          /\ checkout' = cancels
       \/ /\ intent[i].status \in {"canceled", "processing"}
          /\ checkout' = cancels
          /\ UNCHANGED <<intent, events>>
       \/ /\ intent[i].status = "succeeded"
          /\ checkout' = [next EXCEPT !.fulfil = @ \cup {k}, !.held = @ \cup {k}]
          /\ UNCHANGED <<intent, events>>
       \/ /\ May("cancel")
          /\ checkout' = next
          /\ UNCHANGED <<intent, events>>
    /\ UNCHANGED <<month, price, row, browser>>

\* flush: the rows to cancel are written, and locked, before the call.
\* A key that Stripe has seen returns the intent it made then.
Create(i) ==
    LET co == checkout
        seen == {j \in Intents : intent[j].cause = co.cause}
    IN
    /\ co.phase = "stale"
    /\ co.stale = {}
    /\ IF seen # {} THEN i \in seen /\ intent[i].price = co.price /\ UNCHANGED intent
       ELSE /\ intent[i].status = "none"
            /\ intent' = [intent EXCEPT ![i] = [status |-> "open", key |-> co.key,
                                                price |-> co.price,
                                                cause |-> co.cause]]
    /\ checkout' = [co EXCEPT !.phase = "commit", !.pi = i,
                              !.held = @ \cup co.cancel]
    /\ UNCHANGED <<month, price, row, events, browser>>

\* No answer, or a key used for another amount: 502, and a rollback.
CreateFails ==
    LET co == checkout IN
    /\ co.phase = "stale"
    /\ co.stale = {}
    /\ \/ May("create")
       \/ \E j \in Intents : intent[j].cause = co.cause /\ intent[j].price # co.price
    /\ Ends
    /\ UNCHANGED <<month, price, row, intent, events, browser>>

\* What the session writes of a row is what it read, changed: a webhook that ran
\* since the sweep read the row is not seen.
Flushed(co, k) ==
    CASE k = co.key -> [row[k] EXCEPT !.status = "PENDING", !.pi = co.pi]
      [] k \in co.fulfil -> Fulfilled([row[k] EXCEPT !.status = "PENDING"])
      [] k \in co.cancel -> [row[k] EXCEPT !.status = "CANCELED"]
      [] OTHER -> row[k]

Commit ==
    /\ checkout.phase = "commit"
    /\ row' = [k \in Keys |-> Flushed(checkout, k)]
    /\ browser' = browser \cup {checkout.pi}
    /\ Ends
    /\ UNCHANGED <<month, price, intent, events>>

\* The process ends: what was done at Stripe remains.
Crash ==
    /\ checkout # Idle
    /\ Ends
    /\ UNCHANGED <<month, price, row, intent, events, browser>>

-----------------------------------------------------------------------------
(* Stripe and the customer                                                 *)

StripeMoves(i, status, kind) ==
    /\ Cardinality(events) < MaxEvents
    /\ intent' = [intent EXCEPT ![i].status = status]
    /\ events' = events \cup {<<kind, i>>}
    /\ UNCHANGED <<month, price, row, browser, checkout>>

Confirm(i) ==
    /\ i \in browser
    /\ intent[i].status = "open"
    /\ \/ StripeMoves(i, "succeeded", "succeeded")
       \/ StripeMoves(i, "open", "failed")
       \/ /\ "reprice" \in Races \/ intent[i].price = price
          /\ StripeMoves(i, "processing", "processing")

Finish(i) ==
    /\ intent[i].status = "processing"
    /\ \/ StripeMoves(i, "succeeded", "succeeded")
       \/ StripeMoves(i, "open", "failed")

-----------------------------------------------------------------------------
(* Webhooks                                                                *)

Held(k) ==
    /\ checkout # Idle
    /\ \/ k \in checkout.held
       \/ "sweep" \notin Races /\ checkout.phase \in {"stale", "commit"}

\* Mutant: the status the payment has is not looked at.
AfterAnything(kind, r) ==
    CASE kind = "succeeded" -> Fulfilled(r)
      [] kind = "failed" -> [r EXCEPT !.status = "FAILED"]
      [] kind = "canceled" -> [r EXCEPT !.status = "CANCELED"]
      [] OTHER -> [r EXCEPT !.status = "PROCESSING"]

\* Each handler reads the payment FOR UPDATE; the event of an intent that no
\* payment names is logged.
After(kind, r) ==
    CASE kind = "succeeded" -> Fulfilled(r)
      [] kind = "failed" /\ r.status = "PENDING" -> [r EXCEPT !.status = "FAILED"]
      [] kind = "canceled" /\ r.status = "PENDING" -> [r EXCEPT !.status = "CANCELED"]
      [] kind = "processing" /\ r.status = "PENDING" -> [r EXCEPT !.status = "PROCESSING"]
      [] OTHER -> r

Webhook(e) ==
    LET named == {k \in Keys : row[k].pi = e[2]} IN
    /\ \A k \in named : ~Held(k)
    /\ events' = events \ {e}
    /\ row' = [k \in Keys |-> IF k \in named THEN After(e[1], row[k]) ELSE row[k]]
    /\ UNCHANGED <<month, price, intent, browser, checkout>>

-----------------------------------------------------------------------------
NextMonth ==
    /\ month < MaxMonth
    /\ month' = month + 1
    /\ UNCHANGED <<price, row, intent, events, browser, checkout>>

Reprice ==
    /\ price < MaxPrice
    /\ "reprice" \in Races \/ \A i \in Intents : intent[i].status # "processing"
    /\ price' = price + 1
    /\ UNCHANGED <<month, row, intent, events, browser, checkout>>

Next ==
    \/ \E plan \in Plans : Start(plan)
    \/ Reuse \/ Look \/ Settle \/ ReadStale \/ CreateFails \/ Commit \/ Crash
    \/ \E k \in Keys : SettleStale(k)
    \/ \E i \in Intents : Create(i) \/ Confirm(i) \/ Finish(i)
    \/ \E e \in events : Webhook(e)
    \/ NextMonth \/ Reprice

Spec == Init /\ [][Next]_vars

-----------------------------------------------------------------------------
Statuses == {"none", "PENDING", "PROCESSING", "SUCCESS", "FAILED", "CANCELED"}

\* The state has its types.
TypeOK ==
    /\ month \in 1..MaxMonth /\ price \in 1..MaxPrice
    /\ row \in [Keys -> [status : Statuses, pi : Intents \cup {None}, grants : 0..2]]
    /\ \A i \in Intents : intent[i].status \in
          {"none", "open", "processing", "succeeded", "canceled"}
    /\ events \subseteq ({"succeeded", "failed", "canceled", "processing"} \X Intents)
    /\ browser \subseteq Intents

Chargeable(i) == i \in browser /\ intent[i].status \in {"open", "processing"}
Charged(i) == intent[i].status = "succeeded"

\* Whatever is requested, reissued, repriced or lost half way, the customer is
\* charged at most once for a plan and a month.
ChargedOncePerPeriod ==
    \A i, j \in Intents :
        Charged(i) /\ Charged(j) /\ intent[i].key = intent[j].key => i = j

\* An intent the customer can still confirm, or has paid, is the one a payment
\* names: its webhook will find the payment and activate the plan.
PayableIsKnown ==
    \A i \in browser :
        Chargeable(i) \/ Charged(i) => \E k \in Keys : row[k].pi = i

\* One payment grants one period: no month is given twice.
GrantedOnce == \A k \in Keys : row[k].grants <= 1

\* With the events of a charge handled and no checkout open, a charge that
\* succeeded is a payment that succeeded, and nothing said otherwise later.
PaidIsSuccess ==
    \A i \in Intents :
        Charged(i) /\ <<"succeeded", i>> \notin events /\ checkout = Idle =>
            \E k \in Keys : row[k].pi = i /\ row[k].status = "SUCCESS"

=============================================================================
