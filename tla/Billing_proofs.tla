---------------------------- MODULE Billing_proofs ----------------------------
(***************************************************************************)
(* The properties of checkouts, stored cards, fiscal invoices and phones,  *)
(* for every set of plans, intents, cards, invoices, people and phones.    *)
(* Each part moves by itself; what each relies on is assumed where it is   *)
(* stated: CheckoutAlone, ~Overlap, PushAlone.  The last part is about the *)
(* inbox that the events of a checkout and of a card come through.         *)
(***************************************************************************)
EXTENDS Billing, WebhookInbox, FiniteSetTheorems, TLAPS

-----------------------------------------------------------------------------
(* Checkout.                                                               *)

PaymentRows ==
    [status : Checkouts!Statuses, pi : Intents \cup {None}, grants : {0, 1}]

IntentRecords ==
    [status : {"open", "processing", "succeeded", "canceled"}, key : Checkouts!Keys,
     price : Nat, cause : Checkouts!Causes]

CheckoutRecords ==
    [phase : {"look", "settle", "sweep", "stale", "commit"}, key : Checkouts!Keys,
     cause : Checkouts!Causes, price : Nat, held : SUBSET Checkouts!Keys,
     stale : SUBSET Checkouts!Keys, cancel : SUBSET Checkouts!Keys,
     fulfil : SUBSET Checkouts!Keys, pi : Intents \cup {None}]

Notices == {"succeeded", "failed", "canceled", "processing"} \X Intents

CheckoutTypes ==
    /\ month \in 1..MaxMonth /\ price \in Nat
    /\ row \in [Checkouts!Keys -> PaymentRows]
    /\ intent \in [Intents -> {Checkouts!NoIntent} \cup IntentRecords]
    /\ browser \subseteq Intents /\ events \subseteq Notices

Made(i) == intent[i].status # "none"

\* What the price list allows.
PricesAgree ==
    /\ \A i \in Intents : intent[i].price <= price
    /\ \A i \in Intents : intent[i].status = "processing" => intent[i].price = price

\* A payment names an intent the customer was given, and has none only until it is
\* written; it gave its period only if it succeeded.
PaymentsAgree ==
    \A k \in Checkouts!Keys :
        /\ row[k].pi = None <=> row[k].status = "none"
        /\ row[k].pi # None => row[k].pi \in browser /\ intent[row[k].pi].key = k
        /\ row[k].grants = 1 => row[k].status = "SUCCESS"

\* An intent is asked for once with a cause, and instead of one the customer had.
CausesAgree ==
    /\ \A i \in Intents : Made(i) =>
          /\ intent[i].key = intent[i].cause[2]
          /\ intent[i].cause[3] \in browser \cup {None}
    /\ \A i, j \in Intents : Made(i) /\ Made(j) /\ intent[i].cause = intent[j].cause => i = j

\* What the customer has not been given nobody has paid or cancelled.  What they were
\* given has taken the place of what it was asked for, and is the payment's until it
\* is cancelled.
GivenAgree ==
    /\ \A i \in Intents \ browser : intent[i].status \in {"none", "open"}
    /\ \A i \in browser :
          /\ Made(i)
          /\ row[intent[i].key].pi # intent[i].cause[3]
          /\ intent[i].status # "canceled" => row[intent[i].key].pi = i

\* What is paid and was told has succeeded here.
PaidAgree ==
    \A i \in Intents :
        intent[i].status = "succeeded" /\ <<"succeeded", i>> \notin events =>
            row[intent[i].key].status = "SUCCESS"

PaymentBooks ==
    /\ CheckoutTypes /\ PricesAgree /\ PaymentsAgree /\ CausesAgree /\ GivenAgree
    /\ PaidAgree

\* The request under way: its payment is as it found it, the intent it replaces is
\* cancelled before another is asked for, and what it swept is still pending.
RequestAgrees(c) ==
    /\ c \in CheckoutRecords
    /\ c.price <= price /\ \A i \in Intents : intent[i].price <= c.price
    /\ row[c.key].status # "SUCCESS"
    /\ c.key \in c.held \/ row[c.key].pi = None
    /\ c.phase \in {"look", "settle"} => row[c.key].pi # None
    /\ c.phase = "settle" => intent[row[c.key].pi].price # c.price
    /\ c.phase \in {"look", "settle", "sweep"} => c.cancel = {} /\ c.fulfil = {}
    /\ c.phase \in {"sweep", "stale", "commit"} =>
          /\ c.cause[2] = c.key /\ c.cause[3] = row[c.key].pi
          /\ row[c.key].pi # None => intent[row[c.key].pi].status = "canceled"
    /\ c.phase \in {"stale", "commit"} =>
          \A k \in c.stale \cup c.cancel \cup c.fulfil :
              k # c.key /\ row[k].status = "PENDING"
    /\ c.phase = "commit" =>
          c.pi \in Intents /\ Made(c.pi) /\ intent[c.pi].cause = c.cause

CheckoutInv ==
    /\ PaymentBooks
    /\ checkout = Checkouts!Idle \/ RequestAgrees(checkout)

CheckoutAlone == Races = {} /\ Unreachable \subseteq {"cancel", "create"}

LEMMA CheckoutNone == None \notin Intents /\ None \notin Checkouts!Causes
BY BillingAssumption DEF Checkouts!CheckoutAssumption

LEMMA CheckoutStarts == Checkouts!Init => CheckoutInv
<1> SUFFICES ASSUME Checkouts!Init PROVE CheckoutInv
    OBVIOUS
<1> USE DEF Checkouts!Init, Checkouts!NoRow, Checkouts!NoIntent
<1>1. CheckoutTypes
    <2>1. 1 \in 1..MaxMonth
        BY BillingAssumption DEF Checkouts!CheckoutAssumption
    <2>2. QED BY <2>1 DEF CheckoutTypes, PaymentRows, Checkouts!Statuses
<1>2. PricesAgree /\ PaymentsAgree /\ CausesAgree /\ GivenAgree /\ PaidAgree
    BY DEF PricesAgree, PaymentsAgree, CausesAgree, GivenAgree, PaidAgree, Made
<1>3. QED BY <1>1, <1>2 DEF CheckoutInv, PaymentBooks

LEMMA MadeIntents ==
    ASSUME CheckoutTypes, NEW i \in Intents
    PROVE  /\ Made(i) <=> intent[i] \in IntentRecords
           /\ ~Made(i) <=> intent[i] = Checkouts!NoIntent
BY DEF CheckoutTypes, Made, IntentRecords, Checkouts!NoIntent

\* What a payment names was made, and its key is the payment's.
LEMMA NamedIntents ==
    ASSUME PaymentBooks, NEW k \in Checkouts!Keys, row[k].pi # None
    PROVE  /\ row[k].pi \in browser /\ row[k].pi \in Intents /\ Made(row[k].pi)
           /\ intent[row[k].pi] \in IntentRecords /\ intent[row[k].pi].key = k
<1>1. row[k].pi \in browser /\ intent[row[k].pi].key = k /\ CheckoutTypes
    BY DEF PaymentBooks, PaymentsAgree
<1>2. Made(row[k].pi) /\ row[k].pi \in Intents
    BY <1>1 DEF PaymentBooks, GivenAgree, CheckoutTypes
<1>3. QED BY <1>1, <1>2, MadeIntents

\* Only the request changes.
LEMMA RequestMoves ==
    ASSUME CheckoutInv, UNCHANGED <<month, price, row, intent, events, browser>>,
           NEW q, checkout' = q, q = Checkouts!Idle \/ RequestAgrees(q)
    PROVE  CheckoutInv'
<1>1. CheckoutTypes' /\ PricesAgree' /\ PaymentsAgree' /\ CausesAgree' /\ GivenAgree'
      /\ PaidAgree'
    BY DEF CheckoutInv, PaymentBooks, CheckoutTypes, PricesAgree, PaymentsAgree, CausesAgree,
           GivenAgree, PaidAgree, Made
<1>2. RequestAgrees(q) => RequestAgrees(checkout)'
    BY DEF RequestAgrees, Made
<1>3. QED BY <1>1, <1>2 DEF CheckoutInv, PaymentBooks

\* An intent the customer was given moves at Stripe, and a success is an event.
IntentMoves(i, s) ==
    /\ i \in browser /\ intent[i].status \in {"open", "processing"}
    /\ s \in {"open", "processing", "succeeded", "canceled"}
    /\ intent' = [intent EXCEPT ![i].status = s]
    /\ events \subseteq events' /\ events' \subseteq Notices
    /\ s = "succeeded" => <<"succeeded", i>> \in events'
    /\ s = "processing" => intent[i].price = price
    /\ UNCHANGED <<month, price, row, browser>>

LEMMA MovedIntents ==
    ASSUME PaymentBooks, NEW i \in Intents, NEW s, IntentMoves(i, s)
    PROVE  /\ PaymentBooks'
           /\ \A c : RequestAgrees(c) => RequestAgrees(c)'
           /\ \A k \in Checkouts!Keys : row[k].pi # None =>
                 row[k].pi \in Intents /\ (row[k].pi = i => intent'[row[k].pi].status = s)
<1>0. /\ CheckoutTypes /\ PricesAgree /\ PaymentsAgree /\ CausesAgree /\ GivenAgree
      /\ PaidAgree
    BY DEF PaymentBooks
<1>1. PICK w : w = intent[i]
    OBVIOUS
<1>2. /\ i \in browser /\ w.status \in {"open", "processing"} /\ w \in IntentRecords
      /\ s \in {"open", "processing", "succeeded", "canceled"}
      /\ s = "processing" => w.price = price
      /\ UNCHANGED <<month, price, row, browser>>
    BY <1>0, <1>1, MadeIntents DEF IntentMoves, Made
<1>3. PICK n : n = [w EXCEPT !.status = s]
    OBVIOUS
<1>4. n \in IntentRecords /\ n.status = s /\ n.key = w.key /\ n.price = w.price
      /\ n.cause = w.cause
    BY <1>2, <1>3 DEF IntentRecords
<1>5. intent' = [intent EXCEPT ![i] = n]
    BY <1>1, <1>3 DEF IntentMoves
<1>6. /\ intent'[i] = n /\ \A j \in Intents \ {i} : intent'[j] = intent[j]
      /\ intent' \in [Intents -> {Checkouts!NoIntent} \cup IntentRecords]
    BY <1>0, <1>4, <1>5 DEF CheckoutTypes
<1>7. \A j \in Intents : /\ intent'[j].key = intent[j].key
                         /\ intent'[j].price = intent[j].price
                         /\ intent'[j].cause = intent[j].cause
                         /\ Made(j)' <=> Made(j)
                         /\ intent[j].status = "canceled" => intent'[j].status = "canceled"
    BY <1>1, <1>2, <1>4, <1>6 DEF Made
<1>8. CheckoutTypes'
    BY <1>0, <1>2, <1>6 DEF CheckoutTypes, IntentMoves
<1>9. PricesAgree'
    BY <1>0, <1>2, <1>4, <1>6, <1>7 DEF PricesAgree
<1>10. \A k \in Checkouts!Keys : row[k].pi # None => row[k].pi \in Intents
    BY NamedIntents
<1>11. PaymentsAgree'
    BY <1>0, <1>2, <1>7, <1>10 DEF PaymentsAgree
<1>12. CausesAgree'
    BY <1>0, <1>2, <1>7 DEF CausesAgree
<1>13. GivenAgree'
    <2>1. \A j \in Intents \ browser : intent'[j].status \in {"none", "open"}
        BY <1>0, <1>2, <1>6 DEF GivenAgree
    <2>2. \A j \in browser : j \in Intents
        BY <1>0 DEF CheckoutTypes
    <2>3. \A j \in browser : intent'[j].status # "canceled" => intent[j].status # "canceled"
        BY <1>7, <2>2
    <2>4. QED BY <1>0, <1>2, <1>7, <2>1, <2>2, <2>3 DEF GivenAgree
<1>14. PaidAgree'
    <2> SUFFICES ASSUME NEW j \in Intents, intent'[j].status = "succeeded",
                        <<"succeeded", j>> \notin events'
                 PROVE  row'[intent'[j].key].status = "SUCCESS"
        BY DEF PaidAgree
    <2>1. j # i
        BY <1>4, <1>6 DEF IntentMoves
    <2>2. intent[j].status = "succeeded" /\ <<"succeeded", j>> \notin events
        BY <1>6, <2>1 DEF IntentMoves
    <2>3. QED BY <1>0, <1>2, <1>7, <2>2 DEF PaidAgree
<1>15. ASSUME NEW c, RequestAgrees(c)
       PROVE  RequestAgrees(c)'
    <2>1. c \in CheckoutRecords /\ c.key \in Checkouts!Keys
        BY <1>15 DEF RequestAgrees, CheckoutRecords
    <2>2. c.pi \in Intents => /\ Made(c.pi)' <=> Made(c.pi)
                              /\ intent'[c.pi].cause = intent[c.pi].cause
        BY <1>7
    <2>3. row[c.key].pi # None =>
              /\ intent'[row[c.key].pi].price = intent[row[c.key].pi].price
              /\ intent[row[c.key].pi].status = "canceled" =>
                     intent'[row[c.key].pi].status = "canceled"
        BY <1>7, <1>10, <2>1
    <2>4. QED BY <1>2, <1>7, <1>15, <2>1, <2>2, <2>3 DEF RequestAgrees
<1>16. PaymentBooks'
    BY <1>8, <1>9, <1>11, <1>12, <1>13, <1>14 DEF PaymentBooks
<1>17. \A k \in Checkouts!Keys : row[k].pi # None =>
           row[k].pi \in Intents /\ (row[k].pi = i => intent'[row[k].pi].status = s)
    BY <1>4, <1>6, <1>10
<1>18. QED BY <1>15, <1>16, <1>17

\* Payments change their status, and none that succeeded does.
RowsMove ==
    /\ row' \in [Checkouts!Keys -> PaymentRows]
    /\ \A k \in Checkouts!Keys :
          /\ row'[k].pi = row[k].pi
          /\ row'[k].status = "none" <=> row[k].status = "none"
          /\ row'[k].grants = 1 => row'[k].status = "SUCCESS"
          /\ row[k].status = "SUCCESS" => row'[k].status = "SUCCESS"
    /\ \A i \in Intents :
          intent[i].status = "succeeded" /\ <<"succeeded", i>> \notin events' =>
              row'[intent[i].key].status = "SUCCESS"
    /\ events' \subseteq events
    /\ UNCHANGED <<month, price, intent, browser>>

LEMMA MovedRows == ASSUME PaymentBooks, RowsMove PROVE PaymentBooks'
<1>0. /\ CheckoutTypes /\ PricesAgree /\ PaymentsAgree /\ CausesAgree /\ GivenAgree
      /\ PaidAgree
    BY DEF PaymentBooks
<1>1. CheckoutTypes' /\ PricesAgree' /\ CausesAgree'
    BY <1>0 DEF RowsMove, CheckoutTypes, PricesAgree, CausesAgree, Made
<1>2. PaymentsAgree'
    BY <1>0 DEF RowsMove, PaymentsAgree
<1>3. \A i \in browser : intent[i].key \in Checkouts!Keys
    BY <1>0, MadeIntents DEF GivenAgree, CheckoutTypes, IntentRecords
<1>4. GivenAgree'
    BY <1>0, <1>3 DEF RowsMove, GivenAgree, Made
<1>5. PaidAgree'
    BY DEF RowsMove, PaidAgree
<1>6. QED BY <1>1, <1>2, <1>4, <1>5 DEF PaymentBooks

LEMMA FulfilledRow ==
    ASSUME NEW w \in PaymentRows, w.grants = 1 => w.status = "SUCCESS"
    PROVE  /\ Checkouts!Fulfilled(w) \in PaymentRows
           /\ Checkouts!Fulfilled(w).pi = w.pi
           /\ Checkouts!Fulfilled(w).status = "SUCCESS"
<1>1. CASE w.status = "SUCCESS"
    BY <1>1 DEF Checkouts!Fulfilled
<1>2. CASE w.status # "SUCCESS"
    <2>1. w.grants = 0
        BY <1>2 DEF PaymentRows
    <2>2. Checkouts!Fulfilled(w) = [w EXCEPT !.status = "SUCCESS", !.grants = 1]
        BY <1>2, <2>1 DEF Checkouts!Fulfilled
    <2>3. QED BY <2>2 DEF PaymentRows, Checkouts!Statuses
<1>3. QED BY <1>1, <1>2

\* What a request is, when there is one.
LEMMA Requesting ==
    ASSUME CheckoutInv, checkout # Checkouts!Idle
    PROVE  /\ RequestAgrees(checkout) /\ checkout \in CheckoutRecords
           /\ checkout.key \in Checkouts!Keys
BY DEF CheckoutInv, RequestAgrees, CheckoutRecords

LEMMA FulfilOldKeeps ==
    ASSUME CheckoutInv, checkout.phase \in {"look", "settle"}, Checkouts!FulfilOld
    PROVE  CheckoutInv'
<1>1. PICK o : o = checkout
    OBVIOUS
<1>2. RequestAgrees(o) /\ o.key \in Checkouts!Keys /\ o.phase \in {"look", "settle"}
    BY <1>1, Requesting DEF Checkouts!Idle
<1>3. PICK k, w : k = o.key /\ w = row[k]
    OBVIOUS
<1>4. /\ PaymentBooks /\ CheckoutTypes /\ k \in Checkouts!Keys
      /\ w \in PaymentRows /\ w.status # "SUCCESS" /\ w.pi # None
      /\ w.grants = 1 => w.status = "SUCCESS"
      /\ w.status # "none"
    BY <1>2, <1>3 DEF CheckoutInv, PaymentBooks, CheckoutTypes, PaymentsAgree, RequestAgrees
<1>5. PICK n : n = Checkouts!Fulfilled(w)
    OBVIOUS
<1>6. n \in PaymentRows /\ n.pi = w.pi /\ n.status = "SUCCESS"
    BY <1>4, <1>5, FulfilledRow
<1>7. /\ row' = [row EXCEPT ![k] = n] /\ checkout' = Checkouts!Idle
      /\ UNCHANGED <<month, price, intent, events, browser>>
    BY <1>1, <1>3, <1>5 DEF Checkouts!FulfilOld, Checkouts!Ends
<1>8. /\ row' \in [Checkouts!Keys -> PaymentRows] /\ row'[k] = n
      /\ \A j \in Checkouts!Keys \ {k} : row'[j] = row[j]
    BY <1>4, <1>6, <1>7 DEF CheckoutTypes
<1>9. \A j \in Checkouts!Keys :
          /\ row'[j].pi = row[j].pi
          /\ row'[j].status = "none" <=> row[j].status = "none"
          /\ row'[j].grants = 1 => row'[j].status = "SUCCESS"
          /\ row[j].status = "SUCCESS" => row'[j].status = "SUCCESS"
    BY <1>3, <1>4, <1>6, <1>8 DEF PaymentBooks, PaymentsAgree
<1>10. \A i \in Intents : intent[i].status = "succeeded" => intent[i].key \in Checkouts!Keys
    BY <1>4, MadeIntents DEF Made, IntentRecords
<1>11. RowsMove
    BY <1>4, <1>7, <1>8, <1>9, <1>10 DEF RowsMove, PaymentBooks, PaidAgree
<1>12. QED BY <1>4, <1>7, <1>11, MovedRows DEF CheckoutInv

LEMMA StartKeeps ==
    ASSUME CheckoutInv, NEW plan \in Plans, Checkouts!Start(plan)
    PROVE  CheckoutInv'
<1>1. PICK key : key = <<plan, month>>
    OBVIOUS
<1>2. /\ PaymentBooks /\ CheckoutTypes /\ key \in Checkouts!Keys
    BY <1>1 DEF CheckoutInv, PaymentBooks, CheckoutTypes, Checkouts!Keys
<1>3. PICK q : q = [phase |-> IF row[key].status = "none" THEN "sweep" ELSE "look",
                    key |-> key, cause |-> <<"new", key, None>>, price |-> price,
                    held |-> IF row[key].status = "none" THEN {} ELSE {key},
                    stale |-> {}, cancel |-> {}, fulfil |-> {}, pi |-> None]
    OBVIOUS
<1>4. checkout' = q /\ row[key].status # "SUCCESS"
      /\ UNCHANGED <<month, price, row, intent, events, browser>>
    BY <1>1, <1>3 DEF Checkouts!Start
<1>5. <<"new", key, None>> \in Checkouts!Causes
    BY <1>2 DEF Checkouts!Causes
<1>6. q \in CheckoutRecords
    BY <1>2, <1>3, <1>5 DEF CheckoutRecords, CheckoutTypes
<1>7. row[key].pi = None <=> row[key].status = "none"
    BY <1>2 DEF PaymentBooks, PaymentsAgree
<1>8. price <= price /\ \A i \in Intents : intent[i].price <= price
    BY <1>2 DEF PaymentBooks, PricesAgree, CheckoutTypes
<1>9. RequestAgrees(q)
    BY <1>3, <1>4, <1>6, <1>7, <1>8 DEF RequestAgrees
<1>10. QED BY <1>4, <1>9, RequestMoves

LEMMA ReuseKeeps == ASSUME CheckoutInv, Checkouts!Reuse PROVE CheckoutInv'
<1>1. checkout.phase = "look" /\ checkout # Checkouts!Idle
    BY DEF Checkouts!Reuse, Checkouts!Idle
<1>2. RequestAgrees(checkout) /\ checkout.key \in Checkouts!Keys /\ PaymentBooks
    BY <1>1, Requesting DEF CheckoutInv
<1>3. row[checkout.key].pi \in browser
    BY <1>1, <1>2, NamedIntents DEF RequestAgrees
<1>4. checkout' = Checkouts!Idle /\ UNCHANGED <<month, price, row, intent, events, browser>>
    BY <1>3 DEF Checkouts!Reuse, Checkouts!Ends, Checkouts!Old
<1>5. QED BY <1>4, RequestMoves

\* The old intent is cancelled, and another is asked for in its place.
LEMMA Reissued ==
    ASSUME NEW o, NEW q, RequestAgrees(o)', PaymentBooks',
           o.phase \in {"look", "settle"},
           intent'[row'[o.key].pi].status = "canceled",
           q = [o EXCEPT !.phase = "sweep",
                         !.cause = <<"reissue", o.key, row'[o.key].pi>>]
    PROVE  RequestAgrees(q)'
<1>1. o \in CheckoutRecords /\ o.key \in Checkouts!Keys
    BY DEF RequestAgrees, CheckoutRecords
<1>2. PICK x : x = <<"reissue", o.key, row'[o.key].pi>>
    OBVIOUS
<1>3. row'[o.key].pi \in Intents \cup {None}
    BY <1>1 DEF PaymentBooks, CheckoutTypes, PaymentRows
<1>4. x \in Checkouts!Causes /\ x[2] = o.key /\ x[3] = row'[o.key].pi
    BY <1>1, <1>2, <1>3 DEF Checkouts!Causes
<1>5. q = [o EXCEPT !.phase = "sweep", !.cause = x]
    BY <1>2
<1>6. /\ q \in CheckoutRecords /\ q.phase = "sweep" /\ q.cause = x /\ q.key = o.key
      /\ q.price = o.price /\ q.held = o.held /\ q.cancel = o.cancel /\ q.fulfil = o.fulfil
    BY <1>1, <1>4, <1>5 DEF CheckoutRecords
<1>7. QED BY <1>4, <1>6 DEF RequestAgrees

LEMMA LookingKeeps == ASSUME CheckoutInv, CheckoutAlone, Checkouts!Look PROVE CheckoutInv'
<1>1. checkout.phase = "look" /\ checkout # Checkouts!Idle
    BY DEF Checkouts!Look, Checkouts!Idle
<1>2. PICK o : o = checkout
    OBVIOUS
<1>3. /\ RequestAgrees(o) /\ o.key \in Checkouts!Keys /\ PaymentBooks /\ o \in CheckoutRecords
      /\ o.phase = "look"
    BY <1>1, <1>2, Requesting DEF CheckoutInv
<1>4. PICK p : p = row[o.key].pi
    OBVIOUS
<1>5. p # None /\ p \in Intents
    BY <1>3, <1>4, NamedIntents DEF RequestAgrees
<1>6. CASE Checkouts!FulfilOld
    BY <1>1, <1>6, FulfilOldKeeps
<1>7. ASSUME UNCHANGED <<month, price, row, intent, events, browser>>,
             intent[p].status = "canceled",
             checkout' = [o EXCEPT !.phase = "sweep", !.cause = <<"reissue", o.key, p>>]
      PROVE  CheckoutInv'
    <2>1. PICK q : q = [o EXCEPT !.phase = "sweep", !.cause = <<"reissue", o.key, p>>]
        OBVIOUS
    <2>2. PaymentBooks'
        BY <1>7 DEF CheckoutInv, PaymentBooks, CheckoutTypes, PricesAgree, PaymentsAgree,
                    CausesAgree, GivenAgree, PaidAgree, Made
    <2>3. RequestAgrees(o)'
        BY <1>3, <1>7 DEF RequestAgrees, Made
    <2>4. RequestAgrees(q)'
        BY <1>3, <1>4, <1>7, <2>1, <2>2, <2>3, Reissued
    <2>5. checkout' = q
        BY <1>7, <2>1
    <2>6. RequestAgrees(checkout)'
        BY <2>4, <2>5 DEF RequestAgrees
    <2>7. QED BY <2>2, <2>6 DEF CheckoutInv
<1>8. ASSUME UNCHANGED <<month, price, row, intent, events, browser>>,
             intent[p].price # o.price, checkout' = [o EXCEPT !.phase = "settle"]
      PROVE  CheckoutInv'
    <2>1. PICK q : q = [o EXCEPT !.phase = "settle"]
        OBVIOUS
    <2>2. /\ q \in CheckoutRecords /\ q.phase = "settle" /\ q.key = o.key
          /\ q.price = o.price /\ q.held = o.held /\ q.cancel = o.cancel
          /\ q.fulfil = o.fulfil
        BY <1>3, <2>1 DEF CheckoutRecords
    <2>3. RequestAgrees(q)
        BY <1>3, <1>4, <1>5, <1>8, <2>2 DEF RequestAgrees
    <2>4. QED BY <1>8, <2>1, <2>3, RequestMoves
<1>9. ~Checkouts!May("retrieve")
    BY DEF CheckoutAlone, Checkouts!May
<1>10. QED BY <1>2, <1>4, <1>6, <1>7, <1>8, <1>9 DEF Checkouts!Look, Checkouts!Old,
                                                    Checkouts!Reissues

\* An intent to settle is of an old price, and none of those is being paid.
LEMMA SettleKeeps == ASSUME CheckoutInv, Checkouts!Settle PROVE CheckoutInv'
<1>1. checkout.phase = "settle" /\ checkout # Checkouts!Idle
    BY DEF Checkouts!Settle, Checkouts!Idle
<1>2. PICK o : o = checkout
    OBVIOUS
<1>3. /\ RequestAgrees(o) /\ o.key \in Checkouts!Keys /\ PaymentBooks /\ o \in CheckoutRecords
      /\ o.phase = "settle"
    BY <1>1, <1>2, Requesting DEF CheckoutInv
<1>4. PICK p : p = row[o.key].pi
    OBVIOUS
<1>5. p # None /\ p \in Intents /\ p \in browser
    BY <1>3, <1>4, NamedIntents DEF RequestAgrees
<1>6. intent[p].status # "processing"
    <2>1. /\ intent[p].price # o.price /\ intent[p].price <= o.price /\ o.price <= price
        BY <1>3, <1>4, <1>5 DEF RequestAgrees
    <2>2. intent[p].price \in Nat /\ o.price \in Nat /\ price \in Nat
        BY <1>3, <1>4, <1>5, NamedIntents DEF IntentRecords, CheckoutRecords, PaymentBooks,
                                              CheckoutTypes
    <2>3. intent[p].price # price
        BY <2>1, <2>2
    <2>4. QED BY <1>3, <1>5, <2>3 DEF PaymentBooks, PricesAgree
<1>7. CASE Checkouts!FulfilOld
    BY <1>1, <1>7, FulfilOldKeeps
<1>8. PICK q : q = [o EXCEPT !.phase = "sweep", !.cause = <<"reissue", o.key, p>>]
    OBVIOUS
<1>9. ASSUME intent[p].status \in {"open", "canceled"},
             IF intent[p].status = "open" THEN Checkouts!CancelAtStripe(p)
                                          ELSE UNCHANGED <<intent, events>>,
             checkout' = q, UNCHANGED <<month, price, row, browser>>
      PROVE  CheckoutInv'
    <2>1. CASE intent[p].status = "open"
        <3>1. IntentMoves(p, "canceled")
            BY <1>3, <1>5, <1>9, <2>1 DEF IntentMoves, Checkouts!CancelAtStripe, Notices,
                                          PaymentBooks, CheckoutTypes
        <3>2. /\ PaymentBooks' /\ RequestAgrees(o)' /\ intent'[p].status = "canceled"
            BY <1>3, <1>4, <1>5, <3>1, MovedIntents
        <3>3. row'[o.key].pi = p
            BY <1>4, <1>9
        <3>4. RequestAgrees(q)'
            BY <1>3, <1>8, <3>2, <3>3, Reissued
        <3>5. RequestAgrees(checkout)'
            BY <1>9, <3>4 DEF RequestAgrees
        <3>6. QED BY <3>2, <3>5 DEF CheckoutInv
    <2>2. CASE intent[p].status = "canceled"
        <3>1. UNCHANGED <<month, price, row, intent, events, browser>>
            BY <1>9, <2>2
        <3>2. PaymentBooks'
            BY <3>1 DEF CheckoutInv, PaymentBooks, CheckoutTypes, PricesAgree, PaymentsAgree,
                        CausesAgree, GivenAgree, PaidAgree, Made
        <3>3. RequestAgrees(o)'
            BY <1>3, <3>1 DEF RequestAgrees, Made
        <3>4. RequestAgrees(q)'
            BY <1>3, <1>4, <1>8, <2>2, <3>1, <3>2, <3>3, Reissued
        <3>5. RequestAgrees(checkout)'
            BY <1>9, <3>4 DEF RequestAgrees
        <3>6. QED BY <3>2, <3>5 DEF CheckoutInv
    <2>3. QED BY <1>9, <2>1, <2>2
<1>10. ASSUME checkout' = Checkouts!Idle,
              UNCHANGED <<month, price, row, intent, events, browser>>
       PROVE  CheckoutInv'
    BY <1>10, RequestMoves
<1>11. QED BY <1>2, <1>4, <1>6, <1>7, <1>8, <1>9, <1>10 DEF Checkouts!Settle, Checkouts!Old,
                                                Checkouts!Reissues, Checkouts!Ends

LEMMA ReadStaleKeeps == ASSUME CheckoutInv, Checkouts!ReadStale PROVE CheckoutInv'
<1>1. PICK o : o = checkout
    OBVIOUS
<1>2. /\ RequestAgrees(o) /\ o \in CheckoutRecords /\ o.phase = "sweep"
    BY <1>1, Requesting DEF Checkouts!ReadStale, Checkouts!Idle
<1>3. PICK S : S = {k \in Checkouts!Keys \ {o.key} : row[k].status = "PENDING"}
    OBVIOUS
<1>4. PICK q : q = [o EXCEPT !.phase = "stale", !.stale = S]
    OBVIOUS
<1>5. checkout' = q /\ UNCHANGED <<month, price, row, intent, events, browser>>
    BY <1>1, <1>3, <1>4 DEF Checkouts!ReadStale
<1>6. S \in SUBSET Checkouts!Keys /\ \A k \in S : k # o.key /\ row[k].status = "PENDING"
    BY <1>3
<1>7. /\ q \in CheckoutRecords /\ q.phase = "stale" /\ q.key = o.key /\ q.cause = o.cause
      /\ q.price = o.price /\ q.held = o.held /\ q.stale = S /\ q.cancel = o.cancel
      /\ q.fulfil = o.fulfil
    BY <1>2, <1>4, <1>6 DEF CheckoutRecords
<1>8. RequestAgrees(q)
    BY <1>2, <1>6, <1>7 DEF RequestAgrees
<1>9. QED BY <1>5, <1>8, RequestMoves

\* A pending payment that was swept is to be cancelled, to be fulfilled, or left.
LEMMA SweptKeeps ==
    ASSUME CheckoutInv, NEW k \in Checkouts!Keys, Checkouts!SettleStale(k)
    PROVE  CheckoutInv'
<1>1. PICK o : o = checkout
    OBVIOUS
<1>2. /\ RequestAgrees(o) /\ o \in CheckoutRecords /\ o.phase = "stale" /\ k \in o.stale
      /\ PaymentBooks /\ UNCHANGED <<month, price, row, browser>>
    BY <1>1, Requesting DEF Checkouts!SettleStale, Checkouts!Idle, CheckoutInv
<1>3. PICK p : p = row[k].pi
    OBVIOUS
<1>4. row[k].status = "PENDING" /\ p # None /\ p \in Intents /\ p \in browser
    BY <1>2, <1>3, NamedIntents DEF RequestAgrees, PaymentBooks, PaymentsAgree
<1>5. PICK n : n = [o EXCEPT !.stale = o.stale \ {k}]
    OBVIOUS
<1>6. /\ n \in CheckoutRecords /\ n.phase = "stale" /\ n.key = o.key /\ n.cause = o.cause
      /\ n.price = o.price /\ n.held = o.held /\ n.stale = o.stale \ {k}
      /\ n.cancel = o.cancel /\ n.fulfil = o.fulfil
    BY <1>2, <1>5 DEF CheckoutRecords
<1>7. RequestAgrees(n)
    BY <1>2, <1>6 DEF RequestAgrees
<1>8. PICK c : c = [n EXCEPT !.cancel = n.cancel \cup {k}]
    OBVIOUS
<1>9. /\ c \in CheckoutRecords /\ c.phase = "stale" /\ c.key = n.key /\ c.cause = n.cause
      /\ c.price = n.price /\ c.held = n.held /\ c.stale = n.stale
      /\ c.cancel = n.cancel \cup {k} /\ c.fulfil = n.fulfil
    BY <1>6, <1>8 DEF CheckoutRecords
<1>10. k # o.key
    BY <1>2 DEF RequestAgrees
<1>11. RequestAgrees(c)
    BY <1>4, <1>6, <1>7, <1>9, <1>10 DEF RequestAgrees
<1>12. PICK f : f = [n EXCEPT !.fulfil = n.fulfil \cup {k}, !.held = n.held \cup {k}]
    OBVIOUS
<1>13. /\ f \in CheckoutRecords /\ f.phase = "stale" /\ f.key = n.key /\ f.cause = n.cause
       /\ f.price = n.price /\ f.held = n.held \cup {k} /\ f.stale = n.stale
       /\ f.cancel = n.cancel /\ f.fulfil = n.fulfil \cup {k}
    BY <1>6, <1>12 DEF CheckoutRecords
<1>14. RequestAgrees(f)
    BY <1>4, <1>6, <1>7, <1>10, <1>13 DEF RequestAgrees
<1>15. ASSUME intent[p].status = "open", Checkouts!CancelAtStripe(p), checkout' = c
       PROVE  CheckoutInv'
    <2>1. IntentMoves(p, "canceled")
        BY <1>2, <1>4, <1>15 DEF IntentMoves, Checkouts!CancelAtStripe, Notices,
                                 PaymentBooks, CheckoutTypes
    <2>2. PaymentBooks' /\ RequestAgrees(c)'
        BY <1>2, <1>4, <1>11, <2>1, MovedIntents
    <2>3. RequestAgrees(checkout)'
        BY <1>15, <2>2 DEF RequestAgrees
    <2>4. QED BY <2>2, <2>3 DEF CheckoutInv
<1>16. ASSUME UNCHANGED <<intent, events>>, checkout' \in {n, c, f}
       PROVE  CheckoutInv'
    BY <1>2, <1>7, <1>11, <1>14, <1>16, RequestMoves
<1>17. QED
    <2>1. [checkout EXCEPT !.stale = @ \ {k}] = n
        BY <1>1, <1>5
    <2>2. [[checkout EXCEPT !.stale = @ \ {k}] EXCEPT !.cancel = @ \cup {k}] = c
        BY <1>8, <2>1
    <2>3. [[checkout EXCEPT !.stale = @ \ {k}] EXCEPT
              !.fulfil = @ \cup {k}, !.held = @ \cup {k}] = f
        BY <1>12, <2>1
    <2>4. QED BY <1>3, <1>15, <1>16, <2>1, <2>2, <2>3 DEF Checkouts!SettleStale

LEMMA CreateKeeps ==
    ASSUME CheckoutInv, NEW i \in Intents, Checkouts!Create(i)
    PROVE  CheckoutInv'
<1>1. PICK o : o = checkout
    OBVIOUS
<1>2. /\ RequestAgrees(o) /\ o \in CheckoutRecords /\ o.phase = "stale"
      /\ PaymentBooks /\ CheckoutTypes /\ o.key \in Checkouts!Keys
      /\ UNCHANGED <<month, price, row, events, browser>>
    BY <1>1, Requesting DEF Checkouts!Create, Checkouts!Idle, CheckoutInv, PaymentBooks
<1>3. PICK q : q = [o EXCEPT !.phase = "commit", !.pi = i, !.held = o.held \cup o.cancel]
    OBVIOUS
<1>4. checkout' = q
    BY <1>1, <1>3 DEF Checkouts!Create
<1>5. /\ q \in CheckoutRecords /\ q.phase = "commit" /\ q.key = o.key /\ q.cause = o.cause
      /\ q.price = o.price /\ q.held = o.held \cup o.cancel /\ q.stale = o.stale
      /\ q.cancel = o.cancel /\ q.fulfil = o.fulfil /\ q.pi = i
    BY <1>2, <1>3 DEF CheckoutRecords
<1>6. o.cause \in Checkouts!Causes /\ o.cause # None /\ o.price \in Nat
    BY <1>2, CheckoutNone DEF CheckoutRecords
<1>7. CASE {j \in Intents : intent[j].cause = o.cause} # {}
    <2>1. intent[i].cause = o.cause /\ UNCHANGED intent
        BY <1>1, <1>7 DEF Checkouts!Create
    <2>2. Made(i)
        BY <1>2, <1>6, <2>1, MadeIntents DEF Checkouts!NoIntent
    <2>3. RequestAgrees(q)
        BY <1>2, <1>5, <2>1, <2>2 DEF RequestAgrees
    <2>4. QED BY <1>2, <1>4, <2>1, <2>3, RequestMoves
<1>8. CASE {j \in Intents : intent[j].cause = o.cause} = {}
    <2>1. PICK n : n = [status |-> "open", key |-> o.key, price |-> o.price,
                        cause |-> o.cause]
        OBVIOUS
    <2>2. intent' = [intent EXCEPT ![i] = n] /\ ~Made(i)
        BY <1>1, <1>8, <2>1 DEF Checkouts!Create, Made
    <2>3. n \in IntentRecords
        BY <1>2, <1>6, <2>1 DEF IntentRecords
    <2>4. /\ intent'[i] = n /\ \A j \in Intents \ {i} : intent'[j] = intent[j]
          /\ intent' \in [Intents -> {Checkouts!NoIntent} \cup IntentRecords]
        BY <1>2, <2>2, <2>3 DEF CheckoutTypes
    <2>5. i \notin browser /\ \A j \in browser : j \in Intents /\ intent'[j] = intent[j]
        BY <1>2, <2>2, <2>4 DEF PaymentBooks, GivenAgree, CheckoutTypes
    <2>6. \A k \in Checkouts!Keys : row[k].pi # None =>
              row[k].pi \in browser /\ intent'[row[k].pi] = intent[row[k].pi]
        BY <1>2, <2>5, NamedIntents
    <2>7. CheckoutTypes'
        BY <1>2, <2>4 DEF CheckoutTypes
    <2>8. PricesAgree'
        BY <1>2, <2>1, <2>4 DEF PaymentBooks, PricesAgree, RequestAgrees
    <2>9. PaymentsAgree'
        BY <1>2, <2>6 DEF PaymentBooks, PaymentsAgree
    <2>10. CausesAgree'
        <3>1. n.key = n.cause[2] /\ n.cause[3] \in browser \cup {None}
            BY <1>2, <2>1, <2>6 DEF RequestAgrees
        <3>2. \A j \in Intents \ {i} : Made(j)' <=> Made(j)
            BY <2>4 DEF Made
        <3>3. \A j \in Intents : intent[j].cause # n.cause
            BY <1>8, <2>1
        <3>4. \A j \in Intents : Made(j)' =>
                  /\ intent'[j].key = intent'[j].cause[2]
                  /\ intent'[j].cause[3] \in browser' \cup {None}
            BY <1>2, <2>4, <3>1, <3>2 DEF PaymentBooks, CausesAgree
        <3>5. \A j, k \in Intents :
                  Made(j)' /\ Made(k)' /\ intent'[j].cause = intent'[k].cause => j = k
            BY <1>2, <2>4, <3>2, <3>3 DEF PaymentBooks, CausesAgree
        <3>6. QED BY <3>4, <3>5 DEF CausesAgree
    <2>11. GivenAgree'
        <3>1. \A j \in Intents \ browser : intent'[j].status \in {"none", "open"}
            BY <1>2, <2>1, <2>4 DEF PaymentBooks, GivenAgree
        <3>2. QED BY <1>2, <2>5, <3>1 DEF PaymentBooks, GivenAgree, Made
    <2>12. PaidAgree'
        BY <1>2, <2>1, <2>4 DEF PaymentBooks, PaidAgree
    <2>13. RequestAgrees(q)'
        <3>1. \A j \in Intents : intent'[j].price <= q.price
            BY <1>2, <1>5, <1>6, <2>1, <2>4 DEF RequestAgrees
        <3>2. Made(i)' /\ intent'[i].cause = q.cause
            BY <1>5, <2>1, <2>4 DEF Made
        <3>3. QED BY <1>2, <1>5, <2>6, <3>1, <3>2 DEF RequestAgrees
    <2>14. RequestAgrees(checkout)'
        BY <1>4, <2>13 DEF RequestAgrees
    <2>15. QED BY <2>7, <2>8, <2>9, <2>10, <2>11, <2>12, <2>14 DEF CheckoutInv, PaymentBooks
<1>9. QED BY <1>7, <1>8

\* A request that ends with nothing written.
LEMMA AbandonedKeeps ==
    ASSUME CheckoutInv, Checkouts!CreateFails \/ Checkouts!Crash
    PROVE  CheckoutInv'
BY RequestMoves DEF Checkouts!CreateFails, Checkouts!Crash, Checkouts!Ends

\* The commit gives the customer an intent they did not have, in the place of one
\* that is cancelled.
LEMMA CommitKeeps == ASSUME CheckoutInv, Checkouts!Commit PROVE CheckoutInv'
<1>1. PICK o : o = checkout
    OBVIOUS
<1>2. /\ RequestAgrees(o) /\ o \in CheckoutRecords /\ o.phase = "commit"
      /\ PaymentBooks /\ CheckoutTypes /\ o.key \in Checkouts!Keys
      /\ UNCHANGED <<month, price, intent, events>> /\ checkout' = Checkouts!Idle
    BY <1>1, Requesting DEF Checkouts!Commit, Checkouts!Idle, Checkouts!Ends, CheckoutInv,
                            PaymentBooks
<1>3. PICK p, key, old : p = o.pi /\ key = o.key /\ old = row[o.key].pi
    OBVIOUS
<1>4. /\ p \in Intents /\ Made(p) /\ intent[p].key = key /\ intent[p].cause[3] = old
      /\ old \in browser \cup {None} /\ (old # None => intent[old].status = "canceled")
      /\ row[key].status # "SUCCESS" /\ key \in Checkouts!Keys
    BY <1>2, <1>3 DEF RequestAgrees, PaymentBooks, CausesAgree
<1>5. p \notin browser
    BY <1>2, <1>3, <1>4 DEF PaymentBooks, GivenAgree
<1>6. browser' = browser \cup {p}
    BY <1>1, <1>3 DEF Checkouts!Commit
<1>7. /\ \A k \in o.fulfil \cup o.cancel : k # key /\ row[k].status = "PENDING"
    BY <1>2, <1>3 DEF RequestAgrees
<1>8. row' = [k \in Checkouts!Keys |-> Checkouts!Flushed(o, k)]
    BY <1>1 DEF Checkouts!Commit
<1>a. row'[key] = [row[key] EXCEPT !.status = "PENDING", !.pi = p]
    <2>1. row'[key] = Checkouts!Flushed(o, key)
        BY <1>4, <1>8
    <2>2. Checkouts!Flushed(o, key) = [row[key] EXCEPT !.status = "PENDING", !.pi = o.pi]
        BY <1>3, <1>7 DEF Checkouts!Flushed
    <2>3. QED BY <1>3, <2>1, <2>2
<1>b. ASSUME NEW k \in Checkouts!Keys, k # key
      PROVE  \/ /\ k \in o.fulfil
                /\ row'[k] = Checkouts!Fulfilled([row[k] EXCEPT !.status = "PENDING"])
             \/ k \in o.cancel /\ row'[k] = [row[k] EXCEPT !.status = "CANCELED"]
             \/ k \notin o.fulfil \cup o.cancel /\ row'[k] = row[k]
    <2>1. row'[k] = Checkouts!Flushed(o, k) /\ k # o.key
        BY <1>3, <1>8, <1>b
    <2>2. CASE k \in o.fulfil
        BY <2>1, <2>2 DEF Checkouts!Flushed
    <2>3. CASE k \notin o.fulfil /\ k \in o.cancel
        BY <2>1, <2>3 DEF Checkouts!Flushed
    <2>4. CASE k \notin o.fulfil \cup o.cancel
        BY <2>1, <2>4 DEF Checkouts!Flushed
    <2>5. QED BY <2>2, <2>3, <2>4
<1>9. /\ row'[key] \in PaymentRows /\ row'[key].pi = p /\ row'[key].status = "PENDING"
      /\ row'[key].grants # 1
    <2>1. PICK w : w = row[key]
        OBVIOUS
    <2>2. w \in PaymentRows /\ w.grants # 1
        BY <1>2, <1>4, <2>1 DEF CheckoutTypes, PaymentBooks, PaymentsAgree
    <2>3. PICK n : n = [w EXCEPT !.status = "PENDING", !.pi = p]
        OBVIOUS
    <2>4. n \in PaymentRows /\ n.pi = p /\ n.status = "PENDING" /\ n.grants = w.grants
        BY <1>4, <2>2, <2>3 DEF PaymentRows, Checkouts!Statuses
    <2>5. QED BY <1>a, <2>1, <2>2, <2>3, <2>4
<1>10. ASSUME NEW k \in Checkouts!Keys, k # key
       PROVE  /\ row'[k] \in PaymentRows /\ row'[k].pi = row[k].pi
              /\ row'[k].status = "none" <=> row[k].status = "none"
              /\ row'[k].grants = 1 => row'[k].status = "SUCCESS"
              /\ row[k].status = "SUCCESS" => row'[k].status = "SUCCESS"
    <2>1. PICK w : w = row[k]
        OBVIOUS
    <2>2. w \in PaymentRows /\ (w.grants = 1 => w.status = "SUCCESS")
        BY <1>2, <2>1 DEF CheckoutTypes, PaymentBooks, PaymentsAgree
    <2>3. CASE k \in o.fulfil /\ row'[k] = Checkouts!Fulfilled([w EXCEPT !.status = "PENDING"])
        <3>1. PICK v : v = [w EXCEPT !.status = "PENDING"]
            OBVIOUS
        <3>2. w.status = "PENDING"
            BY <1>7, <2>1, <2>3
        <3>3. v \in PaymentRows /\ v.pi = w.pi /\ v.status = "PENDING" /\ v.grants = w.grants
            BY <2>2, <3>1 DEF PaymentRows, Checkouts!Statuses
        <3>4. v.grants = 1 => v.status = "SUCCESS"
            BY <2>2, <3>2, <3>3
        <3>5. row'[k] = Checkouts!Fulfilled(v)
            BY <2>3, <3>1
        <3>6. QED BY <2>1, <3>2, <3>3, <3>4, <3>5, FulfilledRow
    <2>4. CASE k \in o.cancel /\ row'[k] = [w EXCEPT !.status = "CANCELED"]
        <3>1. w.status = "PENDING"
            BY <1>7, <2>1, <2>4
        <3>2. row'[k] \in PaymentRows /\ row'[k].pi = w.pi /\ row'[k].status = "CANCELED"
              /\ row'[k].grants = w.grants
            BY <2>2, <2>4 DEF PaymentRows, Checkouts!Statuses
        <3>3. QED BY <2>1, <2>2, <3>1, <3>2
    <2>5. CASE row'[k] = w
        BY <2>1, <2>2, <2>5
    <2>6. QED BY <1>b, <1>10, <2>1, <2>3, <2>4, <2>5
<1>11. row' \in [Checkouts!Keys -> PaymentRows]
    BY <1>8, <1>9, <1>10
<1>12. CheckoutTypes' /\ PricesAgree'
    BY <1>2, <1>4, <1>6, <1>11 DEF CheckoutTypes, PaymentBooks, PricesAgree
<1>13. PaymentsAgree'
    BY <1>2, <1>4, <1>6, <1>9, <1>10, CheckoutNone DEF PaymentBooks, PaymentsAgree
<1>14. CausesAgree'
    BY <1>2, <1>6 DEF PaymentBooks, CausesAgree, Made
<1>15. ASSUME NEW i \in browser'
       PROVE  /\ Made(i)'
              /\ row'[intent'[i].key].pi # intent'[i].cause[3]
              /\ intent'[i].status # "canceled" => row'[intent'[i].key].pi = i
    <2>1. CASE i = p
        BY <1>2, <1>4, <1>5, <1>9, <2>1, CheckoutNone DEF Made
    <2>2. CASE i # p
        <3>1. /\ i \in browser /\ i \in Intents /\ Made(i)
              /\ row[intent[i].key].pi # intent[i].cause[3]
              /\ intent[i].status # "canceled" => row[intent[i].key].pi = i
            BY <1>2, <1>6, <1>15, <2>2 DEF PaymentBooks, GivenAgree, CheckoutTypes
        <3>2. intent[i].key \in Checkouts!Keys /\ intent[i].cause[3] \in browser \cup {None}
            BY <1>2, <3>1, MadeIntents DEF IntentRecords, PaymentBooks, CausesAgree
        <3>3. CASE intent[i].key # key
            BY <1>2, <1>10, <3>1, <3>2, <3>3 DEF Made
        <3>4. CASE intent[i].key = key
            <4>1. intent[i].status = "canceled"
                BY <1>3, <1>4, <2>2, <3>1, <3>4, CheckoutNone
            <4>2. p # intent[i].cause[3]
                BY <1>4, <1>5, <3>2, CheckoutNone
            <4>3. QED BY <1>2, <1>9, <3>1, <3>4, <4>1, <4>2 DEF Made
        <3>5. QED BY <3>3, <3>4
    <2>3. QED BY <2>1, <2>2
<1>16. GivenAgree'
    BY <1>2, <1>6, <1>15 DEF GivenAgree, PaymentBooks
<1>17. PaidAgree'
    <2> SUFFICES ASSUME NEW i \in Intents, intent[i].status = "succeeded",
                        <<"succeeded", i>> \notin events
                 PROVE  row'[intent[i].key].status = "SUCCESS"
        BY <1>2 DEF PaidAgree
    <2>1. row[intent[i].key].status = "SUCCESS"
        BY <1>2 DEF PaymentBooks, PaidAgree
    <2>2. intent[i].key \in Checkouts!Keys
        BY <1>2, MadeIntents DEF Made, IntentRecords
    <2>3. intent[i].key # key
        BY <1>4, <2>1
    <2>4. QED BY <1>10, <2>1, <2>2, <2>3
<1>18. QED BY <1>2, <1>12, <1>13, <1>14, <1>16, <1>17 DEF CheckoutInv, PaymentBooks

\* The customer, or Stripe, moves an intent they were given.
LEMMA PayingKeeps ==
    ASSUME CheckoutInv, CheckoutAlone, NEW i \in Intents,
           Checkouts!Confirm(i) \/ Checkouts!Finish(i)
    PROVE  CheckoutInv'
<1>0. PaymentBooks
    BY DEF CheckoutInv
<1>1. i \in browser /\ intent[i].status \in {"open", "processing"}
    BY <1>0 DEF Checkouts!Confirm, Checkouts!Finish, PaymentBooks, GivenAgree
<1>2. PICK s \in {"open", "processing", "succeeded"},
           kind \in {"succeeded", "failed", "processing"} :
          /\ Checkouts!StripeMoves(i, s, kind)
          /\ s = "succeeded" => kind = "succeeded"
          /\ s = "processing" => intent[i].price = price
    BY DEF Checkouts!Confirm, Checkouts!Finish, CheckoutAlone
<1>3. IntentMoves(i, s) /\ checkout' = checkout
    BY <1>0, <1>1, <1>2 DEF IntentMoves, Checkouts!StripeMoves, Notices, PaymentBooks,
                            CheckoutTypes
<1>4. PaymentBooks' /\ \A c : RequestAgrees(c) => RequestAgrees(c)'
    BY <1>0, <1>3, MovedIntents
<1>5. CASE checkout = Checkouts!Idle
    BY <1>3, <1>4, <1>5 DEF CheckoutInv
<1>6. CASE checkout # Checkouts!Idle
    <2>1. PICK o : o = checkout
        OBVIOUS
    <2>2. RequestAgrees(o)
        BY <1>6, <2>1 DEF CheckoutInv
    <2>3. RequestAgrees(o)'
        BY <1>4, <2>2
    <2>4. RequestAgrees(checkout)'
        BY <1>3, <2>1, <2>3 DEF RequestAgrees
    <2>5. QED BY <1>4, <2>4 DEF CheckoutInv
<1>7. QED BY <1>5, <1>6

\* What an event does to the payment that names its intent.
LEMMA AfterEvent ==
    ASSUME NEW w \in PaymentRows, w.grants = 1 => w.status = "SUCCESS", w.status # "none",
           NEW kind
    PROVE  /\ Checkouts!After(kind, w) \in PaymentRows
           /\ Checkouts!After(kind, w).pi = w.pi
           /\ Checkouts!After(kind, w).status # "none"
           /\ Checkouts!After(kind, w).grants = 1 =>
                 Checkouts!After(kind, w).status = "SUCCESS"
           /\ w.status = "SUCCESS" \/ kind = "succeeded" =>
                 Checkouts!After(kind, w).status = "SUCCESS"
<1>1. CASE kind = "succeeded"
    BY <1>1, FulfilledRow DEF Checkouts!After
<1>2. CASE kind # "succeeded" /\ w.status = "PENDING"
    <2>1. w.grants # 1
        BY <1>2
    <2>2. PICK n : n = Checkouts!After(kind, w)
        OBVIOUS
    <2>3. \/ n = [w EXCEPT !.status = "FAILED"]
          \/ n = [w EXCEPT !.status = "CANCELED"]
          \/ n = [w EXCEPT !.status = "PROCESSING"]
          \/ n = w
        BY <1>2, <2>2 DEF Checkouts!After
    <2>4. /\ n \in PaymentRows /\ n.pi = w.pi /\ n.status # "none" /\ n.grants = w.grants
        BY <1>2, <2>3 DEF PaymentRows, Checkouts!Statuses
    <2>5. QED BY <1>2, <2>1, <2>2, <2>4
<1>3. CASE kind # "succeeded" /\ w.status # "PENDING"
    <2>1. Checkouts!After(kind, w) = w
        BY <1>3 DEF Checkouts!After
    <2>2. QED BY <1>3, <2>1
<1>4. QED BY <1>1, <1>2, <1>3

LEMMA WebhookKeeps ==
    ASSUME CheckoutInv, CheckoutAlone, NEW e \in events, Checkouts!Webhook(e)
    PROVE  CheckoutInv'
<1>1. PaymentBooks /\ CheckoutTypes /\ PaymentsAgree /\ PaidAgree /\ GivenAgree
    BY DEF CheckoutInv, PaymentBooks
<1>2. PICK named : named = {k \in Checkouts!Keys : row[k].pi = e[2]}
    OBVIOUS
<1>3. /\ \A k \in named : ~Checkouts!Held(k)
      /\ events' = events \ {e}
      /\ row' = [k \in Checkouts!Keys |->
                    IF k \in named THEN Checkouts!After(e[1], row[k]) ELSE row[k]]
      /\ UNCHANGED <<month, price, intent, browser, checkout>>
    BY <1>2 DEF Checkouts!Webhook
<1>4. PICK kind, i : e = <<kind, i>> /\ i \in Intents /\ kind = e[1] /\ i = e[2]
    BY <1>1 DEF CheckoutTypes, Notices
<1>5. i # None
    BY <1>4, CheckoutNone
<1>6. ASSUME NEW k \in Checkouts!Keys
      PROVE  /\ row'[k] \in PaymentRows
             /\ row'[k].pi = row[k].pi
             /\ row'[k].status = "none" <=> row[k].status = "none"
             /\ row'[k].grants = 1 => row'[k].status = "SUCCESS"
             /\ row[k].status = "SUCCESS" => row'[k].status = "SUCCESS"
             /\ row[k].pi = i /\ kind = "succeeded" => row'[k].status = "SUCCESS"
    <2>1. PICK w : w = row[k]
        OBVIOUS
    <2>2. w \in PaymentRows /\ (w.grants = 1 => w.status = "SUCCESS")
          /\ (w.pi = None <=> w.status = "none")
        BY <1>1, <2>1 DEF CheckoutTypes, PaymentsAgree
    <2>3. CASE k \in named
        <3>1. w.status # "none"
            BY <1>2, <1>4, <1>5, <2>1, <2>2, <2>3
        <3>2. row'[k] = Checkouts!After(kind, w)
            BY <1>3, <1>4, <2>1, <2>3
        <3>3. QED BY <2>1, <2>2, <3>1, <3>2, AfterEvent
    <2>4. CASE k \notin named
        BY <1>2, <1>3, <1>4, <2>1, <2>2, <2>4
    <2>5. QED BY <2>3, <2>4
<1>7. row' \in [Checkouts!Keys -> PaymentRows]
    BY <1>3, <1>6
<1>8. ASSUME NEW j \in Intents, intent[j].status = "succeeded",
             <<"succeeded", j>> \notin events'
      PROVE  row'[intent[j].key].status = "SUCCESS"
    <2>1. intent[j].key \in Checkouts!Keys
        BY <1>1, <1>8, MadeIntents DEF Made, IntentRecords
    <2>2. CASE <<"succeeded", j>> \notin events
        BY <1>1, <1>6, <1>8, <2>1, <2>2 DEF PaidAgree
    <2>3. CASE <<"succeeded", j>> \in events
        <3>1. e = <<"succeeded", j>>
            BY <1>3, <1>8, <2>3
        <3>2. kind = "succeeded" /\ j = i
            BY <1>4, <3>1
        <3>3. row[intent[j].key].pi = j
            BY <1>1, <1>8 DEF GivenAgree
        <3>4. QED BY <1>6, <2>1, <3>2, <3>3
    <2>4. QED BY <2>2, <2>3
<1>9. RowsMove
    BY <1>3, <1>6, <1>7, <1>8 DEF RowsMove
<1>10. PaymentBooks'
    BY <1>1, <1>9, MovedRows
<1>11. ASSUME NEW o, o = checkout, RequestAgrees(o)
       PROVE  RequestAgrees(o)'
    <2>1. o \in CheckoutRecords /\ o.key \in Checkouts!Keys /\ o # Checkouts!Idle
        BY <1>11 DEF RequestAgrees, CheckoutRecords, Checkouts!Idle
    <2>2. \A k \in named : k \notin o.held /\ o.phase \notin {"stale", "commit"}
        BY <1>3, <1>11, <2>1 DEF Checkouts!Held, CheckoutAlone
    <2>3. o.key \notin named
        BY <1>2, <1>4, <1>5, <1>11, <2>1, <2>2 DEF RequestAgrees
    <2>4. row'[o.key] = row[o.key]
        BY <1>3, <2>1, <2>3
    <2>5. o.phase \in {"stale", "commit"} => \A k \in Checkouts!Keys : row'[k] = row[k]
        BY <1>3, <2>2
    <2>6. o.stale \cup o.cancel \cup o.fulfil \subseteq Checkouts!Keys
        BY <2>1 DEF CheckoutRecords
    <2>7. QED BY <1>3, <1>11, <2>4, <2>5, <2>6 DEF RequestAgrees, Made
<1>12. CASE checkout = Checkouts!Idle
    BY <1>3, <1>10, <1>12 DEF CheckoutInv
<1>13. CASE checkout # Checkouts!Idle
    <2>1. PICK o : o = checkout
        OBVIOUS
    <2>2. RequestAgrees(o)
        BY <1>13, <2>1 DEF CheckoutInv
    <2>3. RequestAgrees(o)'
        BY <1>11, <2>1, <2>2
    <2>4. RequestAgrees(checkout)'
        BY <1>3, <2>1, <2>3 DEF RequestAgrees
    <2>5. QED BY <1>10, <2>4 DEF CheckoutInv
<1>14. QED BY <1>12, <1>13

\* A month goes by, or the price list changes while nobody is paying the old price.
LEMMA TimeKeeps ==
    ASSUME CheckoutInv, CheckoutAlone, Checkouts!NextMonth \/ Checkouts!Reprice
    PROVE  CheckoutInv'
<1>1. PaymentBooks /\ CheckoutTypes /\ PricesAgree
    BY DEF CheckoutInv, PaymentBooks
<1>2. /\ UNCHANGED <<row, intent, events, browser, checkout>>
      /\ month' \in 1..MaxMonth /\ price' \in Nat /\ price <= price'
      /\ price' # price => \A i \in Intents : intent[i].status # "processing"
    <2>1. MaxMonth \in Nat /\ month \in 1..MaxMonth /\ price \in Nat
        BY <1>1, BillingAssumption DEF Checkouts!CheckoutAssumption, CheckoutTypes
    <2>2. CASE Checkouts!NextMonth
        BY <2>1, <2>2 DEF Checkouts!NextMonth
    <2>3. CASE Checkouts!Reprice
        BY <2>1, <2>3 DEF Checkouts!Reprice, CheckoutAlone
    <2>4. QED BY <2>2, <2>3
<1>3. CheckoutTypes'
    BY <1>1, <1>2 DEF CheckoutTypes
<1>4. PaymentsAgree' /\ CausesAgree' /\ GivenAgree' /\ PaidAgree'
    BY <1>1, <1>2 DEF PaymentBooks, PaymentsAgree, CausesAgree, GivenAgree, PaidAgree, Made
<1>5. \A i \in Intents : intent[i].price \in Nat
    BY <1>1, MadeIntents DEF Checkouts!NoIntent, IntentRecords
<1>6. PricesAgree'
    BY <1>1, <1>2, <1>5 DEF PricesAgree, CheckoutTypes
<1>7. ASSUME RequestAgrees(checkout)
      PROVE  RequestAgrees(checkout)'
    <2>1. checkout.price \in Nat /\ price \in Nat
        BY <1>1, <1>7 DEF RequestAgrees, CheckoutRecords, CheckoutTypes
    <2>2. checkout'.price <= price'
        BY <1>2, <1>7, <2>1 DEF RequestAgrees
    <2>3. QED BY <1>2, <1>7, <2>2 DEF RequestAgrees, Made
<1>8. checkout' = Checkouts!Idle \/ RequestAgrees(checkout)'
    BY <1>2, <1>7 DEF CheckoutInv
<1>9. QED BY <1>3, <1>4, <1>6, <1>8 DEF CheckoutInv, PaymentBooks

LEMMA CheckoutSteps == ASSUME CheckoutInv, CheckoutAlone, Checkouts!Next PROVE CheckoutInv'
<1>1. ASSUME NEW plan \in Plans, Checkouts!Start(plan) PROVE CheckoutInv'
    BY <1>1, StartKeeps
<1>2. CASE Checkouts!Reuse \/ Checkouts!Look \/ Checkouts!Settle \/ Checkouts!ReadStale
    BY <1>2, ReuseKeeps, LookingKeeps, SettleKeeps, ReadStaleKeeps
<1>3. CASE Checkouts!CreateFails \/ Checkouts!Commit \/ Checkouts!Crash
    BY <1>3, AbandonedKeeps, CommitKeeps
<1>4. ASSUME NEW k \in Checkouts!Keys, Checkouts!SettleStale(k) PROVE CheckoutInv'
    BY <1>4, SweptKeeps
<1>5. ASSUME NEW i \in Intents, Checkouts!Create(i) PROVE CheckoutInv'
    BY <1>5, CreateKeeps
<1>6. ASSUME NEW i \in Intents, Checkouts!Confirm(i) \/ Checkouts!Finish(i)
      PROVE  CheckoutInv'
    BY <1>6, PayingKeeps
<1>7. ASSUME NEW e \in events, Checkouts!Webhook(e) PROVE CheckoutInv'
    BY <1>7, WebhookKeeps
<1>8. CASE Checkouts!NextMonth \/ Checkouts!Reprice
    BY <1>8, TimeKeeps
<1>9. QED BY <1>1, <1>2, <1>3, <1>4, <1>5, <1>6, <1>7, <1>8 DEF Checkouts!Next

LEMMA CheckoutUnchanged ==
    ASSUME CheckoutInv, UNCHANGED checkoutVars
    PROVE  CheckoutInv'
BY RequestMoves DEF checkoutVars, CheckoutInv

LEMMA CheckoutHolds == ASSUME CheckoutInv PROVE ChargedAndGrantedOnce
<1>1. PaymentBooks /\ CheckoutTypes /\ PaymentsAgree /\ PaidAgree /\ GivenAgree
    BY DEF CheckoutInv, PaymentBooks
<1>2. \A i \in Intents : intent[i].status = "succeeded" =>
          /\ i \in browser /\ row[intent[i].key].pi = i
          /\ intent[i].key \in Checkouts!Keys
    BY <1>1, MadeIntents DEF GivenAgree, Made, IntentRecords
<1>3. Checkouts!ChargedOncePerPeriod
    BY <1>2 DEF Checkouts!ChargedOncePerPeriod, Checkouts!Charged
<1>4. Checkouts!PayableIsKnown
    <2>1. \A i \in browser : intent[i].key \in Checkouts!Keys
        BY <1>1, MadeIntents DEF GivenAgree, CheckoutTypes, IntentRecords
    <2>2. QED BY <1>1, <2>1 DEF GivenAgree, Checkouts!PayableIsKnown, Checkouts!Chargeable,
                               Checkouts!Charged
<1>5. Checkouts!GrantedOnce
    BY <1>1 DEF Checkouts!GrantedOnce, CheckoutTypes, PaymentRows
<1>6. Checkouts!PaidIsSuccess
    BY <1>1, <1>2 DEF Checkouts!PaidIsSuccess, Checkouts!Charged, PaidAgree
<1>7. QED BY <1>3, <1>4, <1>5, <1>6 DEF ChargedAndGrantedOnce

\* While Stripe answers what an intent is, no webhook comes between the sweep of other
\* periods and its commit, and no price changes under a payment being processed:
\* whatever is requested, reissued, repriced or lost half way, a plan and month is
\* charged once and granted once, what can be paid is named by a payment, and what
\* was paid and told has succeeded (create_payment_intent, _settle_obsolete_pi,
\* the payment_intent webhooks).
THEOREM ChargedAndGrantedOnceAlone ==
    ASSUME CheckoutAlone
    PROVE  BillingSpec => []ChargedAndGrantedOnce
<1>1. BillingInit => CheckoutInv
    BY CheckoutStarts DEF BillingInit
<1>2. CheckoutInv /\ [BillingNext]_billingVars => CheckoutInv'
    BY CheckoutSteps, CheckoutUnchanged DEF BillingNext, billingVars
<1>3. CheckoutInv => ChargedAndGrantedOnce
    BY CheckoutHolds
<1>4. QED BY <1>1, <1>2, <1>3, PTL DEF BillingSpec

-----------------------------------------------------------------------------
(* Cards.                                                                  *)

CardRecords ==
    {Stored!Idle}
    \cup [phase : {"customer", "setup"}]
    \cup [phase : {"known", "retrieving"}, method : Methods, event : BOOLEAN]
    \cup [phase : {"adding"}, method : Methods, event : BOOLEAN, first : BOOLEAN]
    \cup [phase : {"detaching", "detached"}, method : Methods]
    \cup [phase : {"choosing", "chosen"}, method : Methods, old : SUBSET Methods]

CardTypes ==
    /\ saved \subseteq Methods /\ default \subseteq Methods
    /\ attached \subseteq Methods /\ intents \subseteq Methods /\ told \subseteq Methods
    /\ req \in [CardRequests -> CardRecords]

OneAtATime ==
    \A r, s \in CardRequests : req[r] # Stored!Idle /\ req[s] # Stored!Idle => r = s

\* What a request read of the table still holds: nobody else writes.
StillTrue(q) ==
    /\ q.phase = "known" => q.method \in saved
    /\ q.phase = "retrieving" => q.method \notin saved
    /\ q.phase = "adding" => Stored!Twins(q.method) = {} /\ (q.first <=> saved = {})
    /\ q.phase \in {"detaching", "detached"} => q.method \in saved \ default
    /\ q.phase = "detached" => q.method \notin attached
    /\ q.phase \in {"choosing", "chosen"} => q.method \in saved /\ q.old = default

HasDefault ==
    IF saved = {} THEN default = {} ELSE \E d \in saved : default = {d}

CardsInv ==
    /\ CardTypes
    /\ OneAtATime
    /\ \A r \in CardRequests : StillTrue(req[r])
    /\ HasDefault
    /\ Stored!NoTwins
    /\ Stored!AttachedIsListed
    /\ Stored!ListedIsAttached

LEMMA CardsStart == Stored!Init => CardsInv
<1> SUFFICES ASSUME Stored!Init PROVE CardsInv
    OBVIOUS
<1> USE DEF Stored!Init
<1>1. CardTypes
    BY DEF CardTypes, CardRecords
<1>2. OneAtATime /\ \A r \in CardRequests : StillTrue(req[r])
    BY DEF OneAtATime, StillTrue, Stored!Idle
<1>3. QED BY <1>1, <1>2 DEF CardsInv, HasDefault, Stored!NoTwins, Stored!AttachedIsListed,
                            Stored!ListedIsAttached

Others(r) == CardRequests \ {r}

\* While it is the turn of one request, what is left to show is about it and the
\* cards.
LEMMA CardTurn ==
    ASSUME CardsInv, NEW r \in CardRequests, NEW q \in CardRecords,
           \A s \in Others(r) : req[s] = Stored!Idle,
           req' = [req EXCEPT ![r] = q],
           saved' \subseteq Methods, default' \subseteq Methods, attached' \subseteq Methods,
           intents' \subseteq Methods, told' \subseteq Methods,
           StillTrue(q)', HasDefault', Stored!NoTwins', Stored!AttachedIsListed',
           \A m \in saved' : m \in attached' \/ m \in doubtful'
                             \/ (q.phase = "detached" /\ m = q.method)
    PROVE  CardsInv'
<1>1. CardTypes
    BY DEF CardsInv
<1>2. req'[r] = q /\ \A s \in Others(r) : req'[s] = Stored!Idle
    BY <1>1 DEF CardTypes, Others
<1>3. CardTypes'
    BY <1>1 DEF CardTypes
<1>4. OneAtATime'
    BY <1>2 DEF OneAtATime, Others
<1>5. ASSUME NEW s \in CardRequests PROVE StillTrue(req[s])'
    <2>1. CASE s = r
        BY <1>2, <2>1 DEF StillTrue
    <2>2. CASE s # r
        BY <1>2, <2>2 DEF StillTrue, Others, Stored!Idle
    <2>3. QED BY <2>1, <2>2
<1>6. Stored!ListedIsAttached'
    BY <1>2 DEF Stored!ListedIsAttached
<1>7. QED BY <1>3, <1>4, <1>5, <1>6 DEF CardsInv

LEMMA MyTurn ==
    ASSUME CardsInv, NEW r \in CardRequests, req[r] # Stored!Idle
    PROVE  /\ \A s \in Others(r) : req[s] = Stored!Idle
           /\ req[r] \in CardRecords /\ StillTrue(req[r])
           /\ \A m \in saved : m \in attached \/ m \in doubtful
                               \/ (req[r].phase = "detached" /\ m = req[r].method)
<1>1. \A s \in Others(r) : req[s] = Stored!Idle
    BY DEF CardsInv, OneAtATime, Others
<1>2. req[r] \in CardRecords /\ StillTrue(req[r])
    BY DEF CardsInv, CardTypes
<1>3. \A m \in saved : m \in attached \/ m \in doubtful
                       \/ (req[r].phase = "detached" /\ m = req[r].method)
    BY <1>1 DEF CardsInv, Stored!ListedIsAttached, Others, Stored!Idle
<1>4. QED BY <1>1, <1>2, <1>3

\* A request that begins, and has changed nothing yet.
LEMMA CardsBegin ==
    ASSUME CardsInv, ~Overlap, NEW r \in CardRequests, NEW q \in CardRecords,
           Stored!Starts(r, q), StillTrue(q), q.phase # "detached",
           UNCHANGED <<saved, default, customer, attached, invoiced, intents, told,
                       doubtful, orphans>>
    PROVE  CardsInv'
<1>1. /\ \A s \in CardRequests : req[s] = Stored!Idle
      /\ req' = [req EXCEPT ![r] = q]
    BY DEF Stored!Starts
<1>2. CardTypes /\ HasDefault /\ Stored!NoTwins /\ Stored!AttachedIsListed
    BY DEF CardsInv
<1>3. \A m \in saved : m \in attached \/ m \in doubtful
    BY <1>1 DEF CardsInv, Stored!ListedIsAttached, Stored!Idle
<1>4. StillTrue(q)'
    BY DEF StillTrue, Stored!Twins
<1>5. HasDefault' /\ Stored!NoTwins' /\ Stored!AttachedIsListed'
    BY <1>2 DEF HasDefault, Stored!NoTwins, Stored!AttachedIsListed
<1>6. \A s \in Others(r) : req[s] = Stored!Idle
    BY <1>1 DEF Others
<1>7. QED BY <1>1, <1>2, <1>3, <1>4, <1>5, <1>6, CardTurn DEF CardTypes

LEMMA CardsAsk ==
    ASSUME CardsInv, ~Overlap, NEW r \in CardRequests,
           \/ Stored!AskSetup(r)
           \/ \E m \in Methods : \/ Stored!Confirm(r, m) \/ Stored!SetupSucceeded(r, m)
                                 \/ Stored!AskDetach(r, m) \/ Stored!AskDefault(r, m)
    PROVE  CardsInv'
<1> USE DEF Stored!table, Stored!stripe
<1>1. ASSUME Stored!AskSetup(r) PROVE CardsInv'
    <2>1. PICK q : q = [phase |-> IF customer = "none" THEN "customer" ELSE "setup"]
        OBVIOUS
    <2>2. q \in CardRecords
        BY <2>1 DEF CardRecords
    <2>3. StillTrue(q) /\ q.phase # "detached" /\ Stored!Starts(r, q)
        BY <1>1, <2>1 DEF StillTrue, Stored!AskSetup
    <2>4. UNCHANGED <<saved, default, customer, attached, invoiced, intents, told,
                      doubtful, orphans>>
        BY <1>1 DEF Stored!AskSetup
    <2>5. QED BY <2>2, <2>3, <2>4, CardsBegin
<1>2. ASSUME NEW m \in Methods, NEW e \in BOOLEAN,
             Stored!Starts(r, [phase |-> IF Stored!Stored(m) THEN "known" ELSE "retrieving",
                               method |-> m, event |-> e]),
             UNCHANGED <<saved, default, customer, attached, invoiced, intents, told,
                         doubtful, orphans>>
      PROVE  CardsInv'
    <2>1. PICK q : q = [phase |-> IF Stored!Stored(m) THEN "known" ELSE "retrieving",
                        method |-> m, event |-> e]
        OBVIOUS
    <2>2. q \in CardRecords
        BY <2>1 DEF CardRecords
    <2>3. StillTrue(q) /\ q.phase # "detached"
        BY <2>1 DEF StillTrue, Stored!Stored
    <2>4. QED BY <1>2, <2>1, <2>2, <2>3, CardsBegin
<1>3. ASSUME NEW m \in Methods, Stored!AskDetach(r, m) PROVE CardsInv'
    <2>1. PICK q : q = [phase |-> "detaching", method |-> m]
        OBVIOUS
    <2>2. q \in CardRecords
        BY <2>1 DEF CardRecords
    <2>3. StillTrue(q) /\ q.phase # "detached" /\ Stored!Starts(r, q)
        BY <1>3, <2>1 DEF StillTrue, Stored!AskDetach, Stored!Removable
    <2>4. UNCHANGED <<saved, default, customer, attached, invoiced, intents, told,
                      doubtful, orphans>>
        BY <1>3 DEF Stored!AskDetach
    <2>5. QED BY <2>2, <2>3, <2>4, CardsBegin
<1>4. ASSUME NEW m \in Methods, Stored!AskDefault(r, m) PROVE CardsInv'
    <2>1. PICK q : q = [phase |-> "choosing", method |-> m, old |-> default]
        OBVIOUS
    <2>2. q \in CardRecords
        BY <2>1 DEF CardRecords, CardsInv, CardTypes
    <2>3. StillTrue(q) /\ q.phase # "detached" /\ Stored!Starts(r, q)
        BY <1>4, <2>1 DEF StillTrue, Stored!AskDefault
    <2>4. UNCHANGED <<saved, default, customer, attached, invoiced, intents, told,
                      doubtful, orphans>>
        BY <1>4 DEF Stored!AskDefault
    <2>5. QED BY <2>2, <2>3, <2>4, CardsBegin
<1>5. ASSUME NEW m \in Methods, Stored!Confirm(r, m) PROVE CardsInv'
    BY <1>2, <1>5 DEF Stored!Confirm
<1>6. ASSUME NEW m \in Methods, Stored!SetupSucceeded(r, m) PROVE CardsInv'
    BY <1>2, <1>6 DEF Stored!SetupSucceeded
<1>7. QED BY <1>1, <1>3, <1>4, <1>5, <1>6

LEMMA SaveCustomerKeeps ==
    ASSUME CardsInv, NEW r \in CardRequests, Stored!SaveCustomer(r)
    PROVE  CardsInv'
<1> USE DEF Stored!SaveCustomer, Stored!stripe
<1>1. PICK q : q = [phase |-> "setup"]
    OBVIOUS
<1>2. req[r] # Stored!Idle /\ req[r].phase = "customer"
    BY DEF Stored!Idle
<1>3. q \in CardRecords /\ req' = [req EXCEPT ![r] = q] /\ StillTrue(q)'
    BY <1>1 DEF CardRecords, StillTrue
<1>4. CardTypes /\ HasDefault /\ Stored!NoTwins /\ Stored!AttachedIsListed
    BY DEF CardsInv
<1>5. HasDefault' /\ Stored!NoTwins' /\ Stored!AttachedIsListed'
    BY <1>4 DEF HasDefault, Stored!NoTwins, Stored!AttachedIsListed
<1>6. \A m \in saved' : m \in attached' \/ m \in doubtful'
    BY <1>2, MyTurn
<1>7. QED BY <1>2, <1>3, <1>4, <1>5, <1>6, MyTurn, CardTurn DEF CardTypes

LEMMA SetupKeeps ==
    ASSUME CardsInv, NEW r \in CardRequests, NEW m \in Methods, Stored!Setup(r, m)
    PROVE  CardsInv'
<1> USE DEF Stored!Setup, Stored!table, Stored!Ends
<1>1. req[r] # Stored!Idle /\ req[r].phase = "setup"
    BY DEF Stored!Idle
<1>2. Stored!Idle \in CardRecords /\ req' = [req EXCEPT ![r] = Stored!Idle]
      /\ StillTrue(Stored!Idle)'
    BY DEF CardRecords, StillTrue, Stored!Idle
<1>3. CardTypes /\ HasDefault /\ Stored!NoTwins /\ Stored!AttachedIsListed
    BY DEF CardsInv
<1>4. HasDefault' /\ Stored!NoTwins' /\ Stored!AttachedIsListed'
    BY <1>3 DEF HasDefault, Stored!NoTwins, Stored!AttachedIsListed
<1>5. \A x \in saved' : x \in attached' \/ x \in doubtful'
    BY <1>1, MyTurn
<1>6. QED BY <1>1, <1>2, <1>3, <1>4, <1>5, MyTurn, CardTurn DEF CardTypes

LEMMA KnownKeeps ==
    ASSUME CardsInv, NEW r \in CardRequests, Stored!Known(r)
    PROVE  CardsInv'
<1> USE DEF Stored!Known, Stored!table, Stored!Ends, Stored!Handled
<1>1. req[r] # Stored!Idle /\ req[r].phase = "known"
    BY DEF Stored!Idle
<1>2. Stored!Idle \in CardRecords /\ req' = [req EXCEPT ![r] = Stored!Idle]
      /\ StillTrue(Stored!Idle)'
    BY DEF CardRecords, StillTrue, Stored!Idle
<1>3. CardTypes /\ HasDefault /\ Stored!NoTwins /\ Stored!AttachedIsListed
    BY DEF CardsInv
<1>4. told' \subseteq told /\ \A x \in told \ told' : x = req[r].method
    OBVIOUS
<1>5. req[r].method \in saved
    BY <1>1, MyTurn DEF StillTrue
<1>6. HasDefault' /\ Stored!NoTwins'
    BY <1>3 DEF HasDefault, Stored!NoTwins
<1>7. Stored!AttachedIsListed'
    BY <1>3, <1>4, <1>5 DEF Stored!AttachedIsListed
<1>8. \A x \in saved' : x \in attached' \/ x \in doubtful'
    BY <1>1, MyTurn
<1>9. QED BY <1>1, <1>2, <1>3, <1>4, <1>6, <1>7, <1>8, MyTurn, CardTurn DEF CardTypes

\* What is rejected is not in the table, so nothing listed loses its method.
LEMMA UnreadKeeps ==
    ASSUME CardsInv, NEW r \in CardRequests, Stored!Unread(r)
    PROVE  CardsInv'
<1> USE DEF Stored!Unread, Stored!table, Stored!Ends, Stored!Handled
<1>1. req[r] # Stored!Idle /\ req[r].phase = "retrieving"
    BY DEF Stored!Idle
<1>2. Stored!Idle \in CardRecords /\ req' = [req EXCEPT ![r] = Stored!Idle]
      /\ StillTrue(Stored!Idle)'
    BY DEF CardRecords, StillTrue, Stored!Idle
<1>3. CardTypes /\ HasDefault /\ Stored!NoTwins /\ Stored!AttachedIsListed
    BY DEF CardsInv
<1>4. told' \subseteq told /\ \A x \in told \ told' : x = req[r].method
    OBVIOUS
<1>5. HasDefault' /\ Stored!NoTwins'
    BY <1>3 DEF HasDefault, Stored!NoTwins
<1>6. /\ attached' = attached
      /\ req[r].method \in attached' => req[r].method \in orphans'
      /\ orphans \subseteq orphans'
    OBVIOUS
<1>7. Stored!AttachedIsListed'
    BY <1>3, <1>4, <1>6 DEF Stored!AttachedIsListed
<1>8. \A x \in saved' : x \in attached' \/ x \in doubtful'
    BY <1>1, <1>6, MyTurn
<1>9. QED BY <1>1, <1>2, <1>3, <1>4, <1>5, <1>6, <1>7, <1>8, MyTurn, CardTurn DEF CardTypes

LEMMA DuplicateKeeps ==
    ASSUME CardsInv, NEW r \in CardRequests, Stored!Duplicate(r)
    PROVE  CardsInv'
<1> USE DEF Stored!Duplicate, Stored!table, Stored!Ends, Stored!Handled, Stored!Detached
<1>1. req[r] # Stored!Idle /\ req[r].phase = "retrieving"
    BY DEF Stored!Idle
<1>2. Stored!Idle \in CardRecords /\ req' = [req EXCEPT ![r] = Stored!Idle]
      /\ StillTrue(Stored!Idle)'
    BY DEF CardRecords, StillTrue, Stored!Idle
<1>3. CardTypes /\ HasDefault /\ Stored!NoTwins /\ Stored!AttachedIsListed
    BY DEF CardsInv
<1>4. told' \subseteq told /\ \A x \in told \ told' : x = req[r].method
    OBVIOUS
<1>5. req[r].method \notin saved
    BY <1>1, MyTurn DEF StillTrue
<1>6. HasDefault' /\ Stored!NoTwins'
    BY <1>3 DEF HasDefault, Stored!NoTwins
<1>7. /\ attached' \subseteq attached
      /\ req[r].method \in attached' => req[r].method \in orphans'
      /\ orphans \subseteq orphans'
      /\ \A x \in attached \ attached' : x = req[r].method
    OBVIOUS
<1>8. Stored!AttachedIsListed'
    BY <1>3, <1>4, <1>7 DEF Stored!AttachedIsListed
<1>9. \A x \in saved' : x \in attached' \/ x \in doubtful'
    BY <1>1, <1>5, <1>7, MyTurn
<1>10. QED BY <1>1, <1>2, <1>3, <1>4, <1>6, <1>7, <1>8, <1>9, MyTurn, CardTurn DEF CardTypes

LEMMA AddKeeps ==
    ASSUME CardsInv, NEW r \in CardRequests, Stored!Add(r)
    PROVE  CardsInv'
<1> USE DEF Stored!Add, Stored!table, Stored!stripe
<1>1. req[r] # Stored!Idle /\ req[r].phase = "retrieving"
    BY DEF Stored!Idle
<1>2. PICK o : o = req[r]
    OBVIOUS
<1>3. CardTypes /\ HasDefault /\ Stored!NoTwins /\ Stored!AttachedIsListed
    BY DEF CardsInv
<1>4. o.method \in Methods /\ o.event \in BOOLEAN
    BY <1>1, <1>2, MyTurn DEF CardRecords, Stored!Idle
<1>5. PICK q : q = [phase |-> "adding", method |-> o.method, event |-> o.event,
                    first |-> saved = {}]
    OBVIOUS
<1>6. q \in CardRecords
    BY <1>4, <1>5 DEF CardRecords
<1>7. req' = [req EXCEPT ![r] = q]
    BY <1>2, <1>3, <1>5 DEF CardTypes
<1>8. StillTrue(q)'
    BY <1>2, <1>5 DEF StillTrue, Stored!Twins
<1>9. HasDefault' /\ Stored!NoTwins' /\ Stored!AttachedIsListed'
    BY <1>3 DEF HasDefault, Stored!NoTwins, Stored!AttachedIsListed
<1>10. \A x \in saved' : x \in attached' \/ x \in doubtful'
    BY <1>1, MyTurn
<1>11. QED BY <1>1, <1>3, <1>6, <1>7, <1>8, <1>9, <1>10, MyTurn, CardTurn DEF CardTypes

LEMMA SaveMethodKeeps ==
    ASSUME CardsInv, NEW r \in CardRequests, Stored!SaveMethod(r)
    PROVE  CardsInv'
<1> USE DEF Stored!SaveMethod, Stored!Ends, Stored!Handled
<1>1. req[r] # Stored!Idle /\ req[r].phase = "adding"
    BY DEF Stored!Idle
<1>2. Stored!Idle \in CardRecords /\ req' = [req EXCEPT ![r] = Stored!Idle]
      /\ StillTrue(Stored!Idle)'
    BY DEF CardRecords, StillTrue, Stored!Idle
<1>3. CardTypes /\ HasDefault /\ Stored!NoTwins /\ Stored!AttachedIsListed
    BY DEF CardsInv
<1>4. PICK m : m = req[r].method
    OBVIOUS
<1>5. m \in Methods
    BY <1>1, <1>4, MyTurn DEF CardRecords, Stored!Idle
<1>6. Stored!Twins(m) = {} /\ (req[r].first <=> saved = {})
    BY <1>1, <1>4, MyTurn DEF StillTrue
<1>7. /\ saved' = saved \cup {m} /\ default' = IF req[r].first THEN {m} ELSE default
      /\ told' \subseteq told /\ \A x \in told \ told' : x = m
      /\ attached' = attached /\ intents' = intents /\ orphans' = orphans
      /\ doubtful' = IF m \in attached THEN doubtful ELSE doubtful \cup {m}
    BY <1>4
<1>8. HasDefault'
    BY <1>3, <1>6, <1>7 DEF HasDefault
<1>9. Stored!NoTwins'
    BY <1>3, <1>6, <1>7 DEF Stored!NoTwins, Stored!Twins
<1>10. Stored!AttachedIsListed'
    BY <1>3, <1>7 DEF Stored!AttachedIsListed
<1>11. \A x \in saved' : x \in attached' \/ x \in doubtful'
    BY <1>1, <1>7, MyTurn
<1>12. default' \subseteq Methods
    BY <1>3, <1>5, <1>7 DEF CardTypes
<1>13. QED BY <1>1, <1>2, <1>3, <1>5, <1>7, <1>8, <1>9, <1>10, <1>11, <1>12, MyTurn, CardTurn
           DEF CardTypes

LEMMA DetachKeeps ==
    ASSUME CardsInv, NEW r \in CardRequests, Stored!Detach(r)
    PROVE  CardsInv'
<1> USE DEF Stored!Detach, Stored!table
<1>1. req[r] # Stored!Idle /\ req[r].phase = "detaching"
    BY DEF Stored!Idle
<1>2. CardTypes /\ HasDefault /\ Stored!NoTwins /\ Stored!AttachedIsListed
    BY DEF CardsInv
<1>3. PICK m : m = req[r].method
    OBVIOUS
<1>4. req[r] = [phase |-> "detaching", method |-> m] /\ m \in Methods
    BY <1>1, <1>3, MyTurn DEF CardRecords, Stored!Idle
<1>5. PICK q : q = [phase |-> "detached", method |-> m]
    OBVIOUS
<1>6. q \in CardRecords
    BY <1>4, <1>5 DEF CardRecords
<1>7. req' = [req EXCEPT ![r] = q]
    <2>1. [req[r] EXCEPT !.phase = "detached"] = q
        BY <1>4, <1>5
    <2>2. QED BY <1>2, <2>1 DEF CardTypes
<1>8. m \in saved \ default
    BY <1>1, <1>3, MyTurn DEF StillTrue
<1>9. attached' = attached \ {m}
    BY <1>3
<1>10. StillTrue(q)'
    BY <1>5, <1>8, <1>9 DEF StillTrue
<1>11. HasDefault' /\ Stored!NoTwins' /\ Stored!AttachedIsListed'
    BY <1>2 DEF HasDefault, Stored!NoTwins, Stored!AttachedIsListed
<1>12. \A x \in saved' : x \in attached' \/ x \in doubtful'
                         \/ (q.phase = "detached" /\ x = q.method)
    BY <1>1, <1>5, <1>9, MyTurn
<1>13. QED BY <1>1, <1>2, <1>6, <1>7, <1>9, <1>10, <1>11, <1>12, MyTurn, CardTurn DEF CardTypes

LEMMA DeleteMethodKeeps ==
    ASSUME CardsInv, NEW r \in CardRequests, Stored!DeleteMethod(r)
    PROVE  CardsInv'
<1> USE DEF Stored!DeleteMethod, Stored!stripe, Stored!Ends
<1>1. req[r] # Stored!Idle /\ req[r].phase = "detached"
    BY DEF Stored!Idle
<1>2. Stored!Idle \in CardRecords /\ req' = [req EXCEPT ![r] = Stored!Idle]
      /\ StillTrue(Stored!Idle)'
    BY DEF CardRecords, StillTrue, Stored!Idle
<1>3. CardTypes /\ HasDefault /\ Stored!NoTwins /\ Stored!AttachedIsListed
    BY DEF CardsInv
<1>4. PICK m : m = req[r].method
    OBVIOUS
<1>5. m \in saved \ default /\ m \notin attached
    BY <1>1, <1>4, MyTurn DEF StillTrue
<1>6. saved' = saved \ {m} /\ default' = default
    BY <1>4, <1>5
<1>7. HasDefault' /\ Stored!NoTwins' /\ Stored!AttachedIsListed'
    BY <1>3, <1>5, <1>6 DEF HasDefault, Stored!NoTwins, Stored!AttachedIsListed
<1>8. \A x \in saved' : x \in attached' \/ x \in doubtful'
    BY <1>1, <1>4, <1>6, MyTurn
<1>9. QED BY <1>1, <1>2, <1>3, <1>6, <1>7, <1>8, MyTurn, CardTurn DEF CardTypes

LEMMA ModifyCustomerKeeps ==
    ASSUME CardsInv, NEW r \in CardRequests, Stored!ModifyCustomer(r)
    PROVE  CardsInv'
<1> USE DEF Stored!ModifyCustomer, Stored!table
<1>1. req[r] # Stored!Idle /\ req[r].phase = "choosing"
    BY DEF Stored!Idle
<1>2. CardTypes /\ HasDefault /\ Stored!NoTwins /\ Stored!AttachedIsListed
    BY DEF CardsInv
<1>3. PICK o : o = req[r]
    OBVIOUS
<1>4. o = [phase |-> "choosing", method |-> o.method, old |-> o.old]
      /\ o.method \in Methods /\ o.old \subseteq Methods
    BY <1>1, <1>3, MyTurn DEF CardRecords, Stored!Idle
<1>5. PICK q : q = [phase |-> "chosen", method |-> o.method, old |-> o.old]
    OBVIOUS
<1>6. q \in CardRecords
    BY <1>4, <1>5 DEF CardRecords
<1>7. req' = [req EXCEPT ![r] = q]
    <2>1. [o EXCEPT !.phase = "chosen"] = q
        BY <1>4, <1>5
    <2>2. QED BY <1>2, <1>3, <2>1 DEF CardTypes
<1>8. StillTrue(q)'
    BY <1>1, <1>3, <1>5, MyTurn DEF StillTrue
<1>9. HasDefault' /\ Stored!NoTwins' /\ Stored!AttachedIsListed'
    BY <1>2 DEF HasDefault, Stored!NoTwins, Stored!AttachedIsListed
<1>10. \A x \in saved' : x \in attached' \/ x \in doubtful'
    BY <1>1, MyTurn
<1>11. QED BY <1>1, <1>2, <1>6, <1>7, <1>8, <1>9, <1>10, MyTurn, CardTurn DEF CardTypes

LEMMA SetDefaultKeeps ==
    ASSUME CardsInv, NEW r \in CardRequests, Stored!SetDefault(r)
    PROVE  CardsInv'
<1> USE DEF Stored!SetDefault, Stored!stripe, Stored!Ends
<1>1. req[r] # Stored!Idle /\ req[r].phase = "chosen"
    BY DEF Stored!Idle
<1>2. Stored!Idle \in CardRecords /\ req' = [req EXCEPT ![r] = Stored!Idle]
      /\ StillTrue(Stored!Idle)'
    BY DEF CardRecords, StillTrue, Stored!Idle
<1>3. CardTypes /\ HasDefault /\ Stored!NoTwins /\ Stored!AttachedIsListed
    BY DEF CardsInv
<1>4. HasDefault' /\ Stored!NoTwins' /\ Stored!AttachedIsListed'
    BY <1>3 DEF HasDefault, Stored!NoTwins, Stored!AttachedIsListed
<1>5. \A x \in saved' : x \in attached' \/ x \in doubtful'
    BY <1>1, MyTurn
<1>6. default' \subseteq Methods
    BY <1>3 DEF CardTypes
<1>7. QED BY <1>1, <1>2, <1>3, <1>4, <1>5, <1>6, MyTurn, CardTurn DEF CardTypes

LEMMA CardsFailsKeeps ==
    ASSUME CardsInv, NEW r \in CardRequests, Stored!Fails(r)
    PROVE  CardsInv'
<1> USE DEF Stored!Fails, Stored!table, Stored!stripe, Stored!Ends
<1>1. req[r] # Stored!Idle
    OBVIOUS
<1>2. Stored!Idle \in CardRecords /\ req' = [req EXCEPT ![r] = Stored!Idle]
      /\ StillTrue(Stored!Idle)'
    BY DEF CardRecords, StillTrue, Stored!Idle
<1>3. CardTypes /\ HasDefault /\ Stored!NoTwins /\ Stored!AttachedIsListed
    BY DEF CardsInv
<1>4. HasDefault' /\ Stored!NoTwins' /\ Stored!AttachedIsListed'
    BY <1>3 DEF HasDefault, Stored!NoTwins, Stored!AttachedIsListed
<1>5. \A x \in saved' : x \in attached' \/ x \in doubtful'
    BY <1>1, MyTurn
<1>6. QED BY <1>1, <1>2, <1>3, <1>4, <1>5, MyTurn, CardTurn DEF CardTypes

LEMMA CardsUnchanged ==
    ASSUME CardsInv, UNCHANGED cardVars
    PROVE  CardsInv'
BY DEF cardVars, CardsInv, CardTypes, OneAtATime, StillTrue, HasDefault, Stored!Twins,
       Stored!NoTwins, Stored!AttachedIsListed, Stored!ListedIsAttached

LEMMA CardsSteps ==
    ASSUME ~Overlap, CardsInv, Stored!Next
    PROVE  CardsInv'
BY CardsAsk, SaveCustomerKeeps, SetupKeeps, KnownKeeps, UnreadKeeps, DuplicateKeeps,
   AddKeeps, SaveMethodKeeps, DetachKeeps, DeleteMethodKeeps, ModifyCustomerKeeps, SetDefaultKeeps,
   CardsFailsKeeps DEF Stored!Next

\* One request about the cards at a time: an account with cards has one
\* default, lists no card twice, lists every card Stripe keeps attached and no
\* other, but for those whose call to Stripe or commit failed (doubtful and
\* orphans: the removal that did not commit, the duplicate not detached, the
\* event handled without the card), whatever is added twice, told late,
\* removed or chosen (_persist_setup_payment_method, detach_payment_method).
THEOREM CardsAreInStepAlone ==
    ASSUME ~Overlap
    PROVE  BillingSpec => []CardsAreInStep
<1>1. BillingInit => CardsInv
    BY CardsStart DEF BillingInit
<1>2. CardsInv /\ [BillingNext]_billingVars => CardsInv'
    BY CardsSteps, CardsUnchanged DEF BillingNext, billingVars
<1>3. CardsInv => CardsAreInStep
    BY DEF CardsInv, HasDefault, Stored!CardsHaveDefault, CardsAreInStep
<1>4. QED BY <1>1, <1>2, <1>3, PTL DEF BillingSpec

-----------------------------------------------------------------------------
(* Cfdi.                                                                   *)

Profiles == [customer : Customers \cup {None}, mode : Fiscal!Modes \cup {None}]

\* A profile that is kept or was read: none, or a customer that its side knows.
KnownThere(p) ==
    \/ p = Fiscal!NoProfile
    \/ /\ p.customer \in Customers /\ p.mode \in Fiscal!Modes
       /\ remote[p.customer] = p.mode

Syncing == [phase : {"profile", "synced"}, customer : Customers \cup {None},
            was : Profiles]
Stamping == [phase : {"customer", "ensured", "stamp", "stamped"}, invoice : Invoices,
             customer : Customers \cup {None}, was : Profiles]

CfdiTypes ==
    /\ mode \in Fiscal!Modes
    /\ invoice \in [Invoices -> [paid : BOOLEAN,
                                 uuid : {None} \cup (Invoices \X Fiscal!Modes)]]
    /\ profile \in Profiles
    /\ remote \in [Customers -> Fiscal!Modes \cup {None}]
    /\ asking \in [StampRequests -> {Fiscal!Idle} \cup Syncing \cup Stamping]

\* What a request read and was given, at the side that is in use: a customer
\* here, or none, and then another is written over both columns.
Consistent(q) ==
    /\ q # Fiscal!Idle => KnownThere(q.was)
    /\ q.phase = "profile" =>
          q.customer = IF q.was.mode = mode THEN q.was.customer ELSE None
    /\ q.phase \in {"synced", "ensured", "stamp", "stamped"} =>
          q.customer \in Customers /\ remote[q.customer] = mode
    /\ q.phase = "synced" /\ q.was.mode = mode => q.customer = q.was.customer
    /\ q.phase \in {"customer", "ensured"} => q.was.mode # mode

\* The uuid of an invoice that is being stamped is none or this side's.
StampsItsOwn(q) ==
    q \in Stamping => invoice[q.invoice].uuid \in {None, <<q.invoice, mode>>}

CfdiInv ==
    /\ CfdiTypes
    /\ KnownThere(profile)
    /\ \A r \in StampRequests : Consistent(asking[r]) /\ StampsItsOwn(asking[r])
    /\ \A x \in cfdi : x = [key |-> <<x.invoice, x.mode>>, invoice |-> x.invoice,
                            mode |-> x.mode]

LEMMA NoneIsNoSide == None \notin Customers /\ None \notin Fiscal!Modes
BY BillingAssumption DEF Fiscal!CfdiAssumption

LEMMA CfdiStarts == Fiscal!Init => CfdiInv
<1> SUFFICES ASSUME Fiscal!Init PROVE CfdiInv
    OBVIOUS
<1> USE DEF Fiscal!Init
<1>1. CfdiTypes
    BY DEF CfdiTypes, Fiscal!Modes, Profiles, Fiscal!NoProfile, Fiscal!Idle
<1>2. KnownThere(profile)
    BY DEF KnownThere
<1>3. ASSUME NEW r \in StampRequests
      PROVE  Consistent(asking[r]) /\ StampsItsOwn(asking[r])
    BY DEF Consistent, StampsItsOwn, Stamping, Fiscal!Idle
<1>4. QED BY <1>1, <1>2, <1>3 DEF CfdiInv

\* What a step leaves of what other requests rely on.
Grows == \A c \in Customers : remote[c] # None => remote'[c] = remote[c]
UuidStays ==
    \A i \in Invoices : invoice'[i].uuid \in {invoice[i].uuid, <<i, mode>>}

LEMMA KnownStays ==
    ASSUME NEW p, CfdiTypes, Grows, KnownThere(p)
    PROVE  KnownThere(p)'
BY NoneIsNoSide DEF KnownThere, Grows, Fiscal!NoProfile

LEMMA OthersStay ==
    ASSUME CfdiInv, mode' = mode, Grows, UuidStays,
           NEW r \in StampRequests,
           asking'[r] = asking[r]
    PROVE  Consistent(asking[r])' /\ StampsItsOwn(asking[r])'
<1>1. PICK q : q = asking[r]
    OBVIOUS
<1>2. Consistent(q) /\ StampsItsOwn(q) /\ asking'[r] = q
    BY <1>1 DEF CfdiInv
<1>3. q # Fiscal!Idle => KnownThere(q.was)'
    BY <1>2, KnownStays DEF Consistent, CfdiInv
<1>4. q.customer \in Customers /\ remote[q.customer] = mode
      => remote'[q.customer] = mode'
    BY NoneIsNoSide DEF Grows, CfdiInv, CfdiTypes
<1>5. Consistent(q)'
    BY <1>2, <1>3, <1>4 DEF Consistent
<1>6. StampsItsOwn(q)'
    <2>1. CASE q \in Stamping
        <3>1. q.invoice \in Invoices
            BY <2>1 DEF Stamping
        <3>2. invoice'[q.invoice].uuid \in {invoice[q.invoice].uuid, <<q.invoice, mode>>}
            BY <3>1 DEF UuidStays
        <3>3. QED BY <1>2, <2>1, <3>2 DEF StampsItsOwn
    <2>2. CASE q \notin Stamping
        BY <2>2 DEF StampsItsOwn
    <2>3. QED BY <2>1, <2>2
<1>7. QED BY <1>2, <1>5, <1>6 DEF Consistent, StampsItsOwn

\* A step of one request that keeps the others' ground: what is left to show
\* is about the request itself.
LEMMA OneRequestMoves ==
    ASSUME CfdiInv, CfdiTypes', mode' = mode, Grows, UuidStays,
           NEW r \in StampRequests,
           \A s \in StampRequests \ {r} : asking'[s] = asking[s],
           Consistent(asking[r])', StampsItsOwn(asking[r])',
           KnownThere(profile)',
           \A x \in cfdi' : x = [key |-> <<x.invoice, x.mode>>, invoice |-> x.invoice,
                                 mode |-> x.mode]
    PROVE  CfdiInv'
<1>1. ASSUME NEW s \in StampRequests
      PROVE  Consistent(asking[s])' /\ StampsItsOwn(asking[s])'
    <2>1. CASE s = r
        BY <2>1
    <2>2. CASE s # r
        BY <2>2, OthersStay
    <2>3. QED BY <2>1, <2>2
<1>2. QED BY <1>1 DEF CfdiInv

LEMMA SideKnown ==
    ASSUME CfdiInv, profile # Fiscal!NoProfile
    PROVE  /\ profile.customer \in Customers /\ profile.mode \in Fiscal!Modes
           /\ remote[profile.customer] = profile.mode
BY DEF CfdiInv, KnownThere

LEMMA AskProfileKeeps ==
    ASSUME CfdiInv, NEW r \in StampRequests, Fiscal!AskProfile(r)
    PROVE  CfdiInv'
<1> USE DEF Fiscal!AskProfile
<1>0. CfdiTypes /\ KnownThere(profile)
    BY DEF CfdiInv
<1>1. asking'[r] = [phase |-> "profile", customer |-> Fiscal!KnownCustomer, was |-> profile]
    BY <1>0 DEF CfdiTypes
<1>2. Fiscal!KnownCustomer \in Customers \cup {None}
    BY <1>0 DEF Fiscal!KnownCustomer, CfdiTypes, Profiles
<1>3. asking'[r] \in Syncing
    BY <1>0, <1>1, <1>2 DEF Syncing, CfdiTypes
<1>4. CfdiTypes'
    BY <1>0, <1>3 DEF CfdiTypes
<1>5. Consistent(asking[r])'
    BY <1>0, <1>1 DEF Consistent, KnownThere, Fiscal!KnownCustomer
<1>6. StampsItsOwn(asking[r])'
    BY <1>1 DEF StampsItsOwn, Stamping
<1>7. KnownThere(profile)'
    BY <1>0 DEF KnownThere
<1>8. Grows /\ UuidStays /\ mode' = mode /\ \A s \in StampRequests \ {r} : asking'[s] = asking[s]
    BY <1>0 DEF Grows, UuidStays, CfdiTypes
<1>9. \A x \in cfdi' : x = [key |-> <<x.invoice, x.mode>>, invoice |-> x.invoice,
                            mode |-> x.mode]
    BY DEF CfdiInv
<1>10. QED BY <1>4, <1>5, <1>6, <1>7, <1>8, <1>9, OneRequestMoves

LEMMA SyncCustomerKeeps ==
    ASSUME CfdiInv, NEW r \in StampRequests, Fiscal!SyncCustomer(r)
    PROVE  CfdiInv'
<1>0. CfdiTypes /\ KnownThere(profile) /\ Consistent(asking[r])
    BY DEF CfdiInv
<1>1. PICK q : q = asking[r]
    OBVIOUS
<1>2. q.phase = "profile" /\ q # Fiscal!Idle /\ q \in Syncing /\ Consistent(q)
    BY <1>0, <1>1 DEF Fiscal!SyncCustomer, CfdiTypes, Stamping, Fiscal!Idle
<1>3. PICK c \in Customers :
          /\ IF q.customer # None /\ remote[q.customer] = mode
             THEN c = q.customer ELSE c \in Fiscal!Fresh
          /\ remote' = [remote EXCEPT ![c] = mode]
          /\ asking' = [asking EXCEPT ![r].phase = "synced", ![r].customer = c]
    BY <1>1 DEF Fiscal!SyncCustomer
<1>4. /\ asking'[r] = [q EXCEPT !.phase = "synced", !.customer = c]
      /\ \A s \in StampRequests \ {r} : asking'[s] = asking[s]
      /\ DOMAIN asking' = StampRequests
      /\ asking' = [s \in StampRequests |-> asking'[s]]
    BY <1>0, <1>1, <1>3 DEF CfdiTypes
<1>5. asking'[r] = [phase |-> "synced", customer |-> c, was |-> q.was]
    BY <1>2, <1>4 DEF Syncing
<1>6. asking'[r] \in Syncing
    BY <1>2, <1>5 DEF Syncing
<1>7. UNCHANGED <<mode, invoice, profile, cfdi>>
    BY DEF Fiscal!SyncCustomer
<1>8. CfdiTypes'
    BY <1>0, <1>3, <1>4, <1>6, <1>7 DEF CfdiTypes
<1>9. Grows
    BY <1>0, <1>3 DEF Grows, CfdiTypes, Fiscal!Fresh
<1>10. remote'[c] = mode /\ mode' = mode
    BY <1>0, <1>3, <1>7 DEF CfdiTypes
<1>11. KnownThere(q.was)'
    BY <1>0, <1>2, <1>9, KnownStays DEF Consistent
<1>12. q.was.mode = mode => c = q.was.customer
    <2>1. SUFFICES ASSUME q.was.mode = mode PROVE c = q.was.customer
        OBVIOUS
    <2>2. q.customer = q.was.customer /\ KnownThere(q.was)
        BY <1>2, <2>1 DEF Consistent
    <2>3. q.was # Fiscal!NoProfile
        BY <1>0, <2>1, NoneIsNoSide DEF Fiscal!NoProfile, CfdiTypes
    <2>4. q.customer # None /\ remote[q.customer] = mode
        BY <2>1, <2>2, <2>3, NoneIsNoSide DEF KnownThere
    <2>5. QED BY <1>3, <2>2, <2>4
<1>13. Consistent(asking[r])'
    BY <1>5, <1>10, <1>11, <1>12 DEF Consistent
<1>14. StampsItsOwn(asking[r])'
    BY <1>5 DEF StampsItsOwn, Stamping
<1>15. KnownThere(profile)'
    <2>1. PICK p : p = profile
        OBVIOUS
    <2>2. KnownThere(p)'
        BY <1>0, <1>9, <2>1, KnownStays
    <2>3. QED BY <1>7, <2>1, <2>2 DEF KnownThere
<1>16. UuidStays /\ \A s \in StampRequests \ {r} : asking'[s] = asking[s]
    BY <1>0, <1>4, <1>7 DEF UuidStays, CfdiTypes
<1>17. \A x \in cfdi' : x = [key |-> <<x.invoice, x.mode>>, invoice |-> x.invoice,
                            mode |-> x.mode]
    BY <1>7 DEF CfdiInv
<1>18. QED BY <1>8, <1>9, <1>10, <1>13, <1>14, <1>15, <1>16, <1>17, OneRequestMoves

LEMMA SaveProfileKeeps ==
    ASSUME CfdiInv, NEW r \in StampRequests, Fiscal!SaveProfile(r)
    PROVE  CfdiInv'
<1>0. CfdiTypes /\ KnownThere(profile) /\ Consistent(asking[r])
    BY DEF CfdiInv
<1>1. PICK q, n : q = asking[r] /\ n = [customer |-> q.customer, mode |-> mode]
    OBVIOUS
<1>2. /\ q.phase = "synced" /\ q # Fiscal!Idle /\ q \in Syncing /\ Consistent(q)
      /\ q.was = Fiscal!NoProfile => profile = Fiscal!NoProfile
      /\ UNCHANGED <<mode, invoice, remote, cfdi>>
    BY <1>0, <1>1 DEF Fiscal!SaveProfile, CfdiTypes, Stamping, Fiscal!Idle
<1>3. asking' = [asking EXCEPT ![r] = Fiscal!Idle]
    BY DEF Fiscal!SaveProfile
<1>4. profile' = Fiscal!Written(q.was, n)
    BY <1>1 DEF Fiscal!SaveProfile
<1>5. DOMAIN n = {"customer", "mode"} /\ n.customer = q.customer /\ n.mode = mode
    BY <1>1
<1>6. profile' \in Profiles /\ (profile' = profile \/ profile' = n)
    <2>1. profile = [customer |-> profile.customer, mode |-> profile.mode]
        BY <1>0 DEF CfdiTypes, Profiles
    <2>2. n \in Profiles
        BY <1>0, <1>1, <1>2 DEF Consistent, Profiles, CfdiTypes
    <2>3. CASE q.was.mode = mode
        <3>1. n.customer = q.was.customer /\ n.mode = q.was.mode
            BY <1>2, <1>5, <2>3 DEF Consistent
        <3>2. profile' = [column \in {"customer", "mode"} |-> profile[column]]
            BY <1>4, <1>5, <3>1 DEF Fiscal!Written
        <3>3. profile' = profile
            BY <2>1, <3>2
        <3>4. QED BY <1>0, <3>3 DEF CfdiTypes
    <2>4. CASE q.was.mode # mode
        <3>1. n.customer # q.was.customer /\ n.mode # q.was.mode
            BY <1>2, <1>5, <2>4, NoneIsNoSide DEF Consistent, KnownThere, Fiscal!NoProfile
        <3>2. profile' = [column \in {"customer", "mode"} |-> n[column]]
            BY <1>4, <1>5, <3>1 DEF Fiscal!Written
        <3>3. profile' = n
            BY <1>1, <3>2
        <3>4. QED BY <2>2, <3>3
    <2>5. QED BY <2>3, <2>4
<1>7. KnownThere(n)
    BY <1>0, <1>1, <1>2 DEF KnownThere, Consistent, CfdiTypes
<1>8. KnownThere(profile)'
    BY <1>0, <1>2, <1>6, <1>7 DEF KnownThere
<1>9. CfdiTypes'
    BY <1>0, <1>2, <1>3, <1>6 DEF CfdiTypes
<1>10. asking'[r] = Fiscal!Idle /\ \A s \in StampRequests \ {r} : asking'[s] = asking[s]
    BY <1>0, <1>3 DEF CfdiTypes
<1>11. Consistent(asking[r])' /\ StampsItsOwn(asking[r])'
    BY <1>10 DEF Consistent, StampsItsOwn, Stamping, Fiscal!Idle
<1>12. Grows /\ UuidStays /\ mode' = mode
    BY <1>2 DEF Grows, UuidStays
<1>13. \A x \in cfdi' : x = [key |-> <<x.invoice, x.mode>>, invoice |-> x.invoice,
                            mode |-> x.mode]
    BY <1>2 DEF CfdiInv
<1>14. QED BY <1>8, <1>9, <1>10, <1>11, <1>12, <1>13, OneRequestMoves

LEMMA AskStampKeeps ==
    ASSUME CfdiInv, NEW r \in StampRequests, NEW i \in Invoices, Fiscal!AskStamp(r, i)
    PROVE  CfdiInv'
<1>0. CfdiTypes /\ KnownThere(profile)
    BY DEF CfdiInv
<1>1. PICK q : q = [phase |-> IF Fiscal!KnownCustomer = None THEN "customer" ELSE "stamp",
                    invoice |-> i, customer |-> Fiscal!KnownCustomer, was |-> profile]
    OBVIOUS
<1>2. /\ asking' = [asking EXCEPT ![r] = q]
      /\ UNCHANGED <<mode, invoice, profile, remote, cfdi>>
      /\ profile # Fiscal!NoProfile /\ invoice[i].uuid = None
    BY <1>1 DEF Fiscal!AskStamp, Fiscal!Stampable
<1>3. profile.customer \in Customers /\ remote[profile.customer] = profile.mode
    BY <1>2, SideKnown
<1>4. Fiscal!KnownCustomer = IF profile.mode = mode THEN profile.customer ELSE None
    BY DEF Fiscal!KnownCustomer
<1>5. q \in Stamping
    BY <1>0, <1>1, <1>3, <1>4 DEF Stamping, CfdiTypes
<1>6. CfdiTypes'
    BY <1>0, <1>2, <1>5 DEF CfdiTypes
<1>7. asking'[r] = q /\ \A s \in StampRequests \ {r} : asking'[s] = asking[s]
    BY <1>0, <1>2 DEF CfdiTypes
<1>8. KnownThere(q.was)'
    BY <1>0, <1>1, <1>2 DEF KnownThere
<1>9. q.phase = "stamp" => remote[q.customer] = mode /\ q.customer \in Customers
    BY <1>1, <1>3, <1>4
<1>10. q.phase = "customer" => q.was.mode # mode
    BY <1>1, <1>3, <1>4, NoneIsNoSide
<1>11. q.phase \in {"customer", "stamp"}
    BY <1>1
<1>12. Consistent(asking[r])'
    BY <1>2, <1>7, <1>8, <1>9, <1>10, <1>11 DEF Consistent
<1>13. StampsItsOwn(asking[r])'
    BY <1>1, <1>2, <1>7 DEF StampsItsOwn
<1>14. KnownThere(profile)'
    BY <1>0, <1>2 DEF KnownThere
<1>15. Grows /\ UuidStays /\ mode' = mode
    BY <1>2 DEF Grows, UuidStays
<1>16. \A x \in cfdi' : x = [key |-> <<x.invoice, x.mode>>, invoice |-> x.invoice,
                            mode |-> x.mode]
    BY <1>2 DEF CfdiInv
<1>17. QED BY <1>6, <1>7, <1>12, <1>13, <1>14, <1>15, <1>16, OneRequestMoves

LEMMA EnsureCustomerKeeps ==
    ASSUME CfdiInv, NEW r \in StampRequests, Fiscal!EnsureCustomer(r)
    PROVE  CfdiInv'
<1>0. CfdiTypes /\ KnownThere(profile) /\ Consistent(asking[r]) /\ StampsItsOwn(asking[r])
    BY DEF CfdiInv
<1>1. PICK q : q = asking[r]
    OBVIOUS
<1>2. /\ q.phase = "customer" /\ q # Fiscal!Idle /\ q \in Stamping /\ Consistent(q)
      /\ UNCHANGED <<mode, invoice, profile, cfdi>>
    BY <1>0, <1>1 DEF Fiscal!EnsureCustomer, CfdiTypes, Syncing, Fiscal!Idle
<1>3. PICK c \in Customers :
          /\ remote[c] = None
          /\ remote' = [remote EXCEPT ![c] = mode]
          /\ asking' = [asking EXCEPT ![r].phase = "ensured", ![r].customer = c]
    BY DEF Fiscal!EnsureCustomer, Fiscal!Fresh
<1>4. /\ asking'[r] = [q EXCEPT !.phase = "ensured", !.customer = c]
      /\ \A s \in StampRequests \ {r} : asking'[s] = asking[s]
      /\ DOMAIN asking' = StampRequests
      /\ asking' = [s \in StampRequests |-> asking'[s]]
    BY <1>0, <1>1, <1>3 DEF CfdiTypes
<1>5. asking'[r] = [phase |-> "ensured", invoice |-> q.invoice, customer |-> c, was |-> q.was]
    BY <1>2, <1>4 DEF Stamping
<1>6. asking'[r] \in Stamping
    BY <1>2, <1>5 DEF Stamping
<1>7. CfdiTypes'
    BY <1>0, <1>2, <1>3, <1>4, <1>6 DEF CfdiTypes
<1>8. Grows
    BY <1>0, <1>3 DEF Grows, CfdiTypes
<1>9. remote'[c] = mode /\ mode' = mode
    BY <1>0, <1>2, <1>3 DEF CfdiTypes
<1>10. KnownThere(q.was)'
    BY <1>0, <1>2, <1>8, KnownStays DEF Consistent
<1>11. q.was.mode # mode
    BY <1>2 DEF Consistent
<1>12. Consistent(asking[r])'
    BY <1>5, <1>9, <1>10, <1>11 DEF Consistent
<1>13. StampsItsOwn(asking[r])'
    BY <1>0, <1>1, <1>2, <1>5 DEF StampsItsOwn
<1>14. KnownThere(profile)'
    <2>1. PICK p : p = profile
        OBVIOUS
    <2>2. KnownThere(p)'
        BY <1>0, <1>8, <2>1, KnownStays
    <2>3. QED BY <1>2, <2>1, <2>2 DEF KnownThere
<1>15. UuidStays
    BY <1>2 DEF UuidStays
<1>16. \A x \in cfdi' : x = [key |-> <<x.invoice, x.mode>>, invoice |-> x.invoice,
                            mode |-> x.mode]
    BY <1>2 DEF CfdiInv
<1>17. QED BY <1>4, <1>7, <1>8, <1>9, <1>12, <1>13, <1>14, <1>15, <1>16, OneRequestMoves

LEMMA KeepCustomerKeeps ==
    ASSUME CfdiInv, NEW r \in StampRequests, Fiscal!KeepCustomer(r)
    PROVE  CfdiInv'
<1>0. CfdiTypes /\ KnownThere(profile) /\ Consistent(asking[r]) /\ StampsItsOwn(asking[r])
    BY DEF CfdiInv
<1>1. PICK q, n : q = asking[r] /\ n = [customer |-> q.customer, mode |-> mode]
    OBVIOUS
<1>2. /\ q.phase = "ensured" /\ q # Fiscal!Idle /\ q \in Stamping /\ Consistent(q)
      /\ UNCHANGED <<mode, invoice, remote, cfdi>>
    BY <1>0, <1>1 DEF Fiscal!KeepCustomer, CfdiTypes, Syncing, Fiscal!Idle
<1>3. asking' = [asking EXCEPT ![r].phase = "stamp"]
    BY DEF Fiscal!KeepCustomer
<1>4. /\ asking'[r] = [q EXCEPT !.phase = "stamp"]
      /\ \A s \in StampRequests \ {r} : asking'[s] = asking[s]
      /\ DOMAIN asking' = StampRequests
      /\ asking' = [s \in StampRequests |-> asking'[s]]
    BY <1>0, <1>1, <1>3 DEF CfdiTypes
<1>5. asking'[r] = [phase |-> "stamp", invoice |-> q.invoice, customer |-> q.customer,
                    was |-> q.was]
    BY <1>2, <1>4 DEF Stamping
<1>6. asking'[r] \in Stamping
    BY <1>2, <1>5 DEF Stamping
<1>7. DOMAIN n = {"customer", "mode"} /\ n.customer = q.customer /\ n.mode = mode
    BY <1>1
<1>8. profile' = n
    <2>1. n.customer # q.was.customer /\ n.mode # q.was.mode
        BY <1>2, <1>7, NoneIsNoSide DEF Consistent, KnownThere, Fiscal!NoProfile
    <2>2. profile' = Fiscal!Written(q.was, n)
        BY <1>1 DEF Fiscal!KeepCustomer
    <2>3. profile' = [column \in {"customer", "mode"} |-> n[column]]
        BY <1>7, <2>1, <2>2 DEF Fiscal!Written
    <2>4. QED BY <1>1, <2>3
<1>9. n \in Profiles /\ KnownThere(n)
    BY <1>0, <1>1, <1>2 DEF Consistent, KnownThere, Profiles, CfdiTypes
<1>10. CfdiTypes'
    BY <1>0, <1>2, <1>4, <1>6, <1>8, <1>9 DEF CfdiTypes
<1>11. KnownThere(profile)'
    BY <1>2, <1>8, <1>9 DEF KnownThere
<1>12. Consistent(asking[r])'
    BY <1>2, <1>5 DEF Consistent, KnownThere
<1>13. StampsItsOwn(asking[r])'
    BY <1>0, <1>1, <1>2, <1>5 DEF StampsItsOwn
<1>14. Grows /\ UuidStays /\ mode' = mode
    BY <1>2 DEF Grows, UuidStays
<1>15. \A x \in cfdi' : x = [key |-> <<x.invoice, x.mode>>, invoice |-> x.invoice,
                            mode |-> x.mode]
    BY <1>2 DEF CfdiInv
<1>16. QED BY <1>4, <1>10, <1>11, <1>12, <1>13, <1>14, <1>15, OneRequestMoves

LEMMA CreateInvoiceKeeps ==
    ASSUME CfdiInv, NEW r \in StampRequests, Fiscal!CreateInvoice(r)
    PROVE  CfdiInv'
<1>0. CfdiTypes /\ KnownThere(profile) /\ Consistent(asking[r]) /\ StampsItsOwn(asking[r])
    BY DEF CfdiInv
<1>1. PICK q : q = asking[r]
    OBVIOUS
<1>2. /\ q.phase = "stamp" /\ q # Fiscal!Idle /\ q \in Stamping /\ Consistent(q)
      /\ UNCHANGED <<mode, invoice, profile, remote>>
    BY <1>0, <1>1 DEF Fiscal!CreateInvoice, CfdiTypes, Syncing, Fiscal!Idle
<1>3. asking' = [asking EXCEPT ![r].phase = "stamped"]
    BY DEF Fiscal!CreateInvoice
<1>4. /\ asking'[r] = [q EXCEPT !.phase = "stamped"]
      /\ \A s \in StampRequests \ {r} : asking'[s] = asking[s]
      /\ DOMAIN asking' = StampRequests
      /\ asking' = [s \in StampRequests |-> asking'[s]]
    BY <1>0, <1>1, <1>3 DEF CfdiTypes
<1>5. asking'[r] = [phase |-> "stamped", invoice |-> q.invoice, customer |-> q.customer,
                    was |-> q.was]
    BY <1>2, <1>4 DEF Stamping
<1>6. asking'[r] \in Stamping
    BY <1>2, <1>5 DEF Stamping
<1>7. CfdiTypes'
    BY <1>0, <1>2, <1>4, <1>6 DEF CfdiTypes
<1>8. KnownThere(profile)'
    BY <1>0, <1>2 DEF KnownThere
<1>9. Consistent(asking[r])'
    BY <1>2, <1>5 DEF Consistent, KnownThere
<1>10. StampsItsOwn(asking[r])'
    BY <1>0, <1>1, <1>2, <1>5 DEF StampsItsOwn
<1>11. Grows /\ UuidStays /\ mode' = mode
    BY <1>2 DEF Grows, UuidStays
<1>12. \A x \in cfdi' : x = [key |-> <<x.invoice, x.mode>>, invoice |-> x.invoice,
                            mode |-> x.mode]
    BY DEF CfdiInv, Fiscal!CreateInvoice, Fiscal!Key
<1>13. QED BY <1>4, <1>7, <1>8, <1>9, <1>10, <1>11, <1>12, OneRequestMoves

LEMMA SaveStampKeeps ==
    ASSUME CfdiInv, NEW r \in StampRequests, Fiscal!SaveStamp(r)
    PROVE  CfdiInv' /\ Fiscal!KeepsStamp
<1>0. CfdiTypes /\ KnownThere(profile) /\ Consistent(asking[r]) /\ StampsItsOwn(asking[r])
    BY DEF CfdiInv
<1>1. PICK i : i = asking[r].invoice
    OBVIOUS
<1>2. /\ asking[r] \in Stamping /\ i \in Invoices
      /\ invoice[i].uuid \in {None, <<i, mode>>}
      /\ UNCHANGED <<mode, profile, remote, cfdi>>
      /\ invoice' = [invoice EXCEPT ![i].uuid = <<i, mode>>]
      /\ asking' = [asking EXCEPT ![r] = Fiscal!Idle]
    <2>1. asking[r] \in Stamping
        BY <1>0 DEF Fiscal!SaveStamp, CfdiTypes, Syncing, Fiscal!Idle
    <2>2. i \in Invoices /\ invoice[i].uuid \in {None, <<i, mode>>}
        BY <1>0, <1>1, <2>1 DEF Stamping, StampsItsOwn
    <2>3. QED BY <1>1, <2>1, <2>2 DEF Fiscal!SaveStamp, Fiscal!Key
<1>3. <<i, mode>> \in Invoices \X Fiscal!Modes
    BY <1>0, <1>2 DEF CfdiTypes
<1>4. /\ invoice' \in [Invoices -> [paid : BOOLEAN,
                                    uuid : {None} \cup (Invoices \X Fiscal!Modes)]]
      /\ invoice'[i].uuid = <<i, mode>>
      /\ \A j \in Invoices \ {i} : invoice'[j].uuid = invoice[j].uuid
    BY <1>0, <1>2, <1>3 DEF CfdiTypes
<1>5. CfdiTypes'
    BY <1>0, <1>2, <1>4 DEF CfdiTypes
<1>6. asking'[r] = Fiscal!Idle /\ \A s \in StampRequests \ {r} : asking'[s] = asking[s]
    BY <1>0, <1>2 DEF CfdiTypes
<1>7. Consistent(asking[r])' /\ StampsItsOwn(asking[r])'
    BY <1>6 DEF Consistent, StampsItsOwn, Stamping, Fiscal!Idle
<1>8. KnownThere(profile)'
    BY <1>0, <1>2 DEF KnownThere
<1>9. Grows /\ UuidStays /\ mode' = mode
    BY <1>2, <1>4 DEF Grows, UuidStays
<1>10. \A x \in cfdi' : x = [key |-> <<x.invoice, x.mode>>, invoice |-> x.invoice,
                            mode |-> x.mode]
    BY <1>2 DEF CfdiInv
<1>11. CfdiInv'
    BY <1>5, <1>6, <1>7, <1>8, <1>9, <1>10, OneRequestMoves
<1>12. Fiscal!KeepsStamp
    BY <1>2, <1>4 DEF Fiscal!KeepsStamp
<1>13. QED BY <1>11, <1>12

LEMMA CfdiFailsKeeps ==
    ASSUME CfdiInv, NEW r \in StampRequests, Fiscal!Fails(r)
    PROVE  CfdiInv'
<1>0. CfdiTypes /\ KnownThere(profile)
    BY DEF CfdiInv
<1>1. /\ asking' = [asking EXCEPT ![r] = Fiscal!Idle]
      /\ UNCHANGED <<mode, invoice, profile, remote, cfdi>>
    BY DEF Fiscal!Fails
<1>2. CfdiTypes'
    BY <1>0, <1>1 DEF CfdiTypes
<1>3. asking'[r] = Fiscal!Idle /\ \A s \in StampRequests \ {r} : asking'[s] = asking[s]
    BY <1>0, <1>1 DEF CfdiTypes
<1>4. Consistent(asking[r])' /\ StampsItsOwn(asking[r])'
    BY <1>3 DEF Consistent, StampsItsOwn, Stamping, Fiscal!Idle
<1>5. KnownThere(profile)'
    BY <1>0, <1>1 DEF KnownThere
<1>6. Grows /\ UuidStays /\ mode' = mode
    BY <1>1 DEF Grows, UuidStays
<1>7. \A x \in cfdi' : x = [key |-> <<x.invoice, x.mode>>, invoice |-> x.invoice,
                            mode |-> x.mode]
    BY <1>1 DEF CfdiInv
<1>8. QED BY <1>2, <1>3, <1>4, <1>5, <1>6, <1>7, OneRequestMoves

LEMMA RefundKeeps ==
    ASSUME CfdiInv, NEW i \in Invoices, Fiscal!Refund(i)
    PROVE  CfdiInv' /\ Fiscal!KeepsStamp
<1>0. CfdiTypes
    BY DEF CfdiInv
<1>1. /\ invoice' = [invoice EXCEPT ![i].paid = FALSE]
      /\ UNCHANGED <<mode, profile, remote, cfdi, asking>>
    BY DEF Fiscal!Refund
<1>2. /\ invoice' \in [Invoices -> [paid : BOOLEAN,
                                    uuid : {None} \cup (Invoices \X Fiscal!Modes)]]
      /\ \A j \in Invoices : invoice'[j].uuid = invoice[j].uuid
    <2>1. PICK v : v = invoice[i]
        OBVIOUS
    <2>2. v \in [paid : BOOLEAN, uuid : {None} \cup (Invoices \X Fiscal!Modes)]
        BY <1>0, <2>1 DEF CfdiTypes
    <2>3. invoice'[i] = [paid |-> FALSE, uuid |-> v.uuid]
        BY <1>0, <1>1, <2>1, <2>2 DEF CfdiTypes
    <2>4. invoice'[i] \in [paid : BOOLEAN, uuid : {None} \cup (Invoices \X Fiscal!Modes)]
        BY <2>2, <2>3
    <2>5. \A j \in Invoices \ {i} : invoice'[j] = invoice[j]
        BY <1>0, <1>1 DEF CfdiTypes
    <2>6. invoice' = [j \in Invoices |-> invoice'[j]]
        BY <1>0, <1>1 DEF CfdiTypes
    <2>7. invoice' \in [Invoices -> [paid : BOOLEAN,
                                    uuid : {None} \cup (Invoices \X Fiscal!Modes)]]
        BY <1>0, <2>4, <2>5, <2>6 DEF CfdiTypes
    <2>8. QED BY <2>1, <2>3, <2>5, <2>7
<1>3. CfdiTypes'
    BY <1>0, <1>1, <1>2 DEF CfdiTypes
<1>4. Grows /\ UuidStays /\ mode' = mode
    BY <1>1, <1>2 DEF Grows, UuidStays
<1>5. KnownThere(profile)'
    BY <1>1 DEF CfdiInv, KnownThere
<1>6. \A s \in StampRequests : Consistent(asking[s])' /\ StampsItsOwn(asking[s])'
    BY <1>1, <1>4, OthersStay
<1>7. CfdiInv'
    BY <1>1, <1>3, <1>5, <1>6 DEF CfdiInv
<1>8. QED BY <1>2, <1>7 DEF Fiscal!KeepsStamp

\* The requests die with the process, and the other side is another key.
LEMMA DeployKeeps ==
    ASSUME CfdiInv, Fiscal!Deploy
    PROVE  CfdiInv'
<1>0. CfdiTypes /\ KnownThere(profile)
    BY DEF CfdiInv
<1>1. /\ asking' = [r \in StampRequests |-> Fiscal!Idle] /\ mode' \in Fiscal!Modes
      /\ UNCHANGED <<invoice, profile, remote, cfdi>>
    BY DEF Fiscal!Deploy
<1>2. CfdiTypes'
    BY <1>0, <1>1 DEF CfdiTypes
<1>3. KnownThere(profile)'
    BY <1>0, <1>1 DEF KnownThere
<1>4. \A s \in StampRequests : Consistent(asking[s])' /\ StampsItsOwn(asking[s])'
    BY <1>1 DEF Consistent, StampsItsOwn, Stamping, Fiscal!Idle
<1>5. QED BY <1>1, <1>2, <1>3, <1>4 DEF CfdiInv

LEMMA CfdiUnchanged ==
    ASSUME CfdiInv, UNCHANGED cfdiVars
    PROVE  CfdiInv' /\ Fiscal!KeepsStamp
<1>1. UNCHANGED <<mode, invoice, profile, remote, cfdi, asking>>
    BY DEF cfdiVars
<1>2. CfdiTypes'
    BY <1>1 DEF CfdiInv, CfdiTypes
<1>3. KnownThere(profile)'
    BY <1>1 DEF CfdiInv, KnownThere
<1>4. Grows /\ UuidStays
    BY <1>1 DEF Grows, UuidStays
<1>5. \A s \in StampRequests : Consistent(asking[s])' /\ StampsItsOwn(asking[s])'
    BY <1>1, <1>4, OthersStay
<1>6. QED BY <1>1, <1>2, <1>3, <1>5 DEF CfdiInv, Fiscal!KeepsStamp

LEMMA CfdiSteps ==
    ASSUME CfdiInv, Fiscal!Next
    PROVE  CfdiInv' /\ Fiscal!KeepsStamp
<1>1. ASSUME NEW r \in StampRequests,
             \/ Fiscal!AskProfile(r) \/ Fiscal!SyncCustomer(r) \/ Fiscal!SaveProfile(r)
             \/ \E i \in Invoices : Fiscal!AskStamp(r, i)
             \/ Fiscal!EnsureCustomer(r) \/ Fiscal!KeepCustomer(r)
             \/ Fiscal!CreateInvoice(r) \/ Fiscal!Fails(r)
      PROVE  CfdiInv' /\ Fiscal!KeepsStamp
    <2>1. CfdiInv'
        BY <1>1, AskProfileKeeps, SyncCustomerKeeps, SaveProfileKeeps, AskStampKeeps,
           EnsureCustomerKeeps, KeepCustomerKeeps, CreateInvoiceKeeps, CfdiFailsKeeps
    <2>2. invoice' = invoice
        BY <1>1 DEF Fiscal!AskProfile, Fiscal!SyncCustomer, Fiscal!SaveProfile,
           Fiscal!AskStamp, Fiscal!EnsureCustomer, Fiscal!KeepCustomer,
           Fiscal!CreateInvoice, Fiscal!Fails
    <2>3. QED BY <2>1, <2>2 DEF Fiscal!KeepsStamp
<1>2. ASSUME Fiscal!Deploy PROVE CfdiInv' /\ Fiscal!KeepsStamp
    BY <1>2, DeployKeeps DEF Fiscal!KeepsStamp, Fiscal!Deploy
<1>3. QED BY <1>1, <1>2, SaveStampKeeps, RefundKeeps DEF Fiscal!Next

\* Facturapi and the table agree on what was stamped, and for whom.
LEMMA CfdiInvGives ==
    ASSUME CfdiInv
    PROVE  Fiscal!StampedOnce /\ Fiscal!CustomerIsThere
<1>1. Fiscal!StampedOnce
    BY DEF CfdiInv, Fiscal!StampedOnce
<1>2. Fiscal!CustomerIsThere
    BY DEF CfdiInv, Consistent, Fiscal!CustomerIsThere
<1>3. QED BY <1>1, <1>2

LEMMA CfdiInvariant ==
    BillingSpec => [](CfdiInv) /\ [][Fiscal!KeepsStamp]_billingVars
<1>1. BillingInit => CfdiInv
    BY CfdiStarts DEF BillingInit
<1>2. CfdiInv /\ [BillingNext]_billingVars => CfdiInv' /\ Fiscal!KeepsStamp
    BY CfdiSteps, CfdiUnchanged DEF BillingNext, billingVars
<1>3. QED BY <1>1, <1>2, PTL DEF BillingSpec

\* An invoice is stamped once on each side of Facturapi, for a customer that
\* this side knows, whatever profiles, stamps, refunds and changes of key
\* overlap or are lost half way (create_cfdi, _ensure_customer).
THEOREM StampedOnceAlways == BillingSpec => []StampedOnceForItsCustomer
<1>1. CfdiInv => StampedOnceForItsCustomer
    BY CfdiInvGives DEF StampedOnceForItsCustomer
<1>2. QED BY <1>1, CfdiInvariant, PTL

\* The fiscal uuid of an invoice is never replaced: not by that of a request
\* that overlaps, and not by that of the other side.
THEOREM StampStaysAlways == BillingSpec => StampStays
<1>1. Fiscal!KeepsStamp => (party = "cfdi" => Fiscal!KeepsStamp)
    OBVIOUS
<1>2. QED BY <1>1, CfdiInvariant, PTL DEF StampStays

-----------------------------------------------------------------------------
(* Push.                                                                   *)

PhoneRows == [user : Users, token : Tokens, arn : Arns, active : BOOLEAN]
MobileRows == [user : Users, external : Externals \cup {None}, link : Rows \cup {None}]

JoinRecords ==
    {Phones!Idle}
    \cup [phase : {"claim", "ask"}, user : Users, token : Tokens]
    \cup [phase : {"insert"}, user : Users, token : Tokens, arn : Arns]
    \cup [phase : {"refresh"}, user : Users, token : Tokens, id : Rows, read : PhoneRows]
    \cup [phase : {"write"}, user : Users, token : Tokens, id : Rows, read : PhoneRows,
          arn : Arns]

PushTypes ==
    /\ phone \in [Rows -> {None} \cup PhoneRows]
    /\ endpoint \in [Arns -> {None} \cup Tokens]
    /\ joining \in [Registrations -> JoinRecords]
    /\ mobile \in [Mobiles -> {None} \cup MobileRows]
    /\ answered \in [Users -> {None} \cup Tokens]

\* SNS has one endpoint for a token, and none for a token that is gone.
EndpointsAreDistinct ==
    /\ \A a, b \in Arns : endpoint[a] = endpoint[b] /\ endpoint[a] # None => a = b
    /\ \A a \in Arns : endpoint[a] # None => endpoint[a] \in alive

\* The table: a token and an endpoint are of one row.
RowsAreDistinct ==
    \A i, j \in Phones!Kept :
        phone[i].token = phone[j].token \/ phone[i].arn = phone[j].arn => i = j

\* The endpoint of a row is of its token, unless the token is gone.
Reaches(i) ==
    /\ endpoint[phone[i].arn] \in {phone[i].token, None}
    /\ phone[i].token \in alive => endpoint[phone[i].arn] = phone[i].token

BeingWritten(i) ==
    \E r \in Registrations : joining[r].phase = "write" /\ joining[r].id = i

RowsReach == \A i \in Phones!Kept : Reaches(i) \/ BeingWritten(i)

\* What a registration relies on between its steps.
Registering(q) ==
    /\ q # Phones!Idle => q.token \in alive /\ answered[q.user] = None
    /\ q.phase \in {"claim", "ask", "insert"} => Phones!Of(q.user) = {}
    /\ q.phase \in {"insert", "write"} => endpoint[q.arn] = q.token
    /\ q.phase \in {"refresh", "write"} =>
          /\ q.id \in Phones!Of(q.user) /\ q.read = phone[q.id]
          /\ Phones!With(q.user, q.token) # {} => phone[q.id].token = q.token
    /\ q.phase = "write" /\ ~Reaches(q.id) =>
          \A j \in Phones!Kept \ {q.id} : phone[j].token # q.token

ToldHaveRow ==
    \A u \in Users : answered[u] # None =>
        \E i \in Phones!With(u, answered[u]) : phone[i].active

LinksHold ==
    \A m \in Mobiles : mobile[m] # None /\ mobile[m].link # None =>
        /\ mobile[m].link \in Phones!Kept
        /\ phone[mobile[m].link].user = mobile[m].user
        /\ ~Phones!Linked(mobile[m].link, m)

PushInv ==
    /\ PushTypes
    /\ EndpointsAreDistinct
    /\ RowsAreDistinct
    /\ RowsReach
    /\ \A r \in Registrations : Registering(joining[r])
    /\ ToldHaveRow
    /\ LinksHold

PushAlone ==
    /\ ~Overlap /\ ~ExpiresInUse /\ Unique = "token" /\ "write" \notin Crashes
    /\ \A r, s \in Registrations : r = s

LEMMA PhoneNone ==
    /\ None \notin Users \cup Tokens \cup Rows \cup Arns
    /\ None \notin PhoneRows /\ None \notin MobileRows
BY BillingAssumption DEF Phones!PushAssumption, PhoneRows, MobileRows

LEMMA PushStarts == Phones!Init => PushInv
<1> SUFFICES ASSUME Phones!Init PROVE PushInv
    OBVIOUS
<1> USE DEF Phones!Init
<1>1. PushTypes
    BY DEF PushTypes, JoinRecords
<1>2. Phones!Kept = {}
    BY DEF Phones!Kept
<1>3. EndpointsAreDistinct /\ RowsAreDistinct /\ RowsReach
    BY <1>2 DEF EndpointsAreDistinct, RowsAreDistinct, RowsReach
<1>4. \A r \in Registrations : Registering(joining[r])
    BY DEF Registering, Phones!Idle
<1>5. ToldHaveRow /\ LinksHold
    BY DEF ToldHaveRow, LinksHold
<1>6. QED BY <1>1, <1>3, <1>4, <1>5 DEF PushInv

LEMMA KeptRows ==
    ASSUME PushTypes, NEW i \in Phones!Kept
    PROVE  i \in Rows /\ phone[i] \in PhoneRows
BY DEF PushTypes, Phones!Kept

LEMMA SwitchedRow ==
    ASSUME NEW w \in PhoneRows
    PROVE  [w EXCEPT !.active = FALSE] =
               [user |-> w.user, token |-> w.token, arn |-> w.arn, active |-> FALSE]
<1>1. PICK v : v = [w EXCEPT !.active = FALSE]
    OBVIOUS
<1>2. v \in [user : {w.user}, token : {w.token}, arn : {w.arn}, active : {FALSE}]
    BY <1>1 DEF PhoneRows
<1>3. QED BY <1>1, <1>2

LEMMA ChangedRow ==
    ASSUME NEW S, NEW w \in [user : Users, token : Tokens, arn : Arns, active : S],
           NEW t, NEW e, NEW c
    PROVE  [w EXCEPT !.token = t, !.arn = e, !.active = c] =
               [user |-> w.user, token |-> t, arn |-> e, active |-> c]
<1>1. PICK v : v = [w EXCEPT !.token = t, !.arn = e, !.active = c]
    OBVIOUS
<1>2. v \in [user : {w.user}, token : {t}, arn : {e}, active : {c}]
    BY <1>1
<1>3. QED BY <1>1, <1>2

Rewritten(w, t, e) ==
    [w EXCEPT !.token = IF w.token = t THEN @ ELSE t,
              !.arn = IF w.arn = e THEN @ ELSE e,
              !.active = IF w.active THEN @ ELSE TRUE]

LEMMA WrittenRow ==
    ASSUME NEW w \in PhoneRows, NEW t, NEW e
    PROVE  Rewritten(w, t, e) = [user |-> w.user, token |-> t, arn |-> e, active |-> TRUE]
<1>1. PICK x, y, z : /\ x = IF w.token = t THEN w.token ELSE t
                     /\ y = IF w.arn = e THEN w.arn ELSE e
                     /\ z = IF w.active THEN w.active ELSE TRUE
    OBVIOUS
<1>2. x = t /\ y = e
    BY <1>1
<1>3. w.active \in BOOLEAN
    BY DEF PhoneRows
<1>4. z = TRUE
    BY <1>1, <1>3, Zenon
<1>5. PICK S : S = BOOLEAN
    OBVIOUS
<1>6. w \in [user : Users, token : Tokens, arn : Arns, active : S]
    BY <1>5, Zenon DEF PhoneRows
<1>7. [w EXCEPT !.token = x, !.arn = y, !.active = z] =
          [user |-> w.user, token |-> x, arn |-> y, active |-> z]
    BY <1>6, ChangedRow
<1>8. Rewritten(w, t, e) = [w EXCEPT !.token = x, !.arn = y, !.active = z]
    BY <1>1, Zenon DEF Rewritten
<1>9. QED BY <1>2, <1>4, <1>7, <1>8, Zenon

\* No registration is writing: then every row reaches its phone.
LEMMA NobodyWrites ==
    ASSUME PushInv, PushAlone, NEW r \in Registrations, joining[r].phase # "write"
    PROVE  \A i \in Phones!Kept : Reaches(i) /\ ~BeingWritten(i)
BY DEF PushInv, PushAlone, RowsReach, BeingWritten

LEMMA OnlyWhatIsWritten ==
    ASSUME PushInv, PushAlone, NEW r \in Registrations,
           NEW i \in Phones!Kept, i # joining[r].id
    PROVE  Reaches(i)
BY DEF PushInv, PushAlone, RowsReach, BeingWritten

\* A row is turned on or off, and nothing else of it changes.
OnlySwitched ==
    \A i \in Rows :
        /\ phone'[i] # None <=> phone[i] # None
        /\ phone[i] # None => /\ phone'[i].user = phone[i].user
                              /\ phone'[i].token = phone[i].token
                              /\ phone'[i].arn = phone[i].arn

LEMMA SwitchedKeeps ==
    ASSUME PushInv, OnlySwitched, UNCHANGED <<endpoint, alive, mobile>>
    PROVE  /\ Phones!Kept' = Phones!Kept
           /\ EndpointsAreDistinct' /\ RowsAreDistinct' /\ LinksHold'
           /\ \A i \in Phones!Kept : Reaches(i)' <=> Reaches(i)
<1>1. Phones!Kept' = Phones!Kept
    BY DEF OnlySwitched, Phones!Kept
<1>2. \A i \in Phones!Kept : /\ phone'[i].user = phone[i].user
                             /\ phone'[i].token = phone[i].token
                             /\ phone'[i].arn = phone[i].arn
    BY DEF OnlySwitched, Phones!Kept
<1>3. EndpointsAreDistinct'
    BY DEF PushInv, EndpointsAreDistinct
<1>4. RowsAreDistinct'
    BY <1>1, <1>2 DEF PushInv, RowsAreDistinct
<1>5. LinksHold'
    BY <1>1, <1>2 DEF PushInv, LinksHold, Phones!Linked, Phones!Known
<1>6. \A i \in Phones!Kept : Reaches(i)' <=> Reaches(i)
    BY <1>2 DEF Reaches
<1>7. QED BY <1>1, <1>3, <1>4, <1>5, <1>6

LEMMA LookKeeps ==
    ASSUME PushInv, PushAlone, NEW r \in Registrations, NEW u \in Users, NEW t \in Tokens,
           Phones!Look(r, u, t)
    PROVE  PushInv'
<1>0. PushTypes
    BY DEF PushInv
<1>1. /\ joining[r] = Phones!Idle /\ t \in alive
      /\ answered' = [answered EXCEPT ![u] = None]
      /\ UNCHANGED <<phone, endpoint, alive, mobile>>
    BY DEF Phones!Look
<1>2. DEFINE found == IF Phones!With(u, t) # {} THEN Phones!With(u, t) ELSE Phones!Of(u)
<1>3. PICK q :
          /\ joining' = [joining EXCEPT ![r] = q]
          /\ \/ found = {} /\ q = [phase |-> "claim", user |-> u, token |-> t]
             \/ \E i \in found : q = [phase |-> "refresh", user |-> u, token |-> t, id |-> i,
                                      read |-> phone[i]]
    BY DEF Phones!Look
<1>4. \A i \in found : i \in Phones!Of(u) /\ i \in Phones!Kept
                       /\ (Phones!With(u, t) # {} => phone[i].token = t)
    BY DEF Phones!With, Phones!Of
<1>5. found = {} => Phones!Of(u) = {}
    BY DEF Phones!With
<1> HIDE DEF found
<1>6. q \in JoinRecords
    BY <1>0, <1>3, <1>4, KeptRows DEF JoinRecords
<1>7. answered'[u] = None /\ answered' \in [Users -> {None} \cup Tokens]
      /\ \A v \in Users : answered'[v] # None => v # u /\ answered'[v] = answered[v]
    BY <1>0, <1>1 DEF PushTypes
<1>8. Registering(q)'
    <2>1. CASE found = {} /\ q = [phase |-> "claim", user |-> u, token |-> t]
        <3>1. Phones!Of(u)' = {}
            BY <1>1, <1>5, <2>1 DEF Phones!Of, Phones!Kept
        <3>2. QED BY <1>1, <1>7, <2>1, <3>1 DEF Registering
    <2>2. CASE \E i \in found : q = [phase |-> "refresh", user |-> u, token |-> t,
                                      id |-> i, read |-> phone[i]]
        <3>1. PICK i \in found : q = [phase |-> "refresh", user |-> u, token |-> t,
                                      id |-> i, read |-> phone[i]]
            BY <2>2
        <3>2. i \in Phones!Of(u)' /\ (Phones!With(u, t)' # {} => phone'[i].token = t)
            BY <1>1, <1>4 DEF Phones!With, Phones!Of, Phones!Kept
        <3>3. QED BY <1>1, <1>7, <3>1, <3>2 DEF Registering
    <2>3. QED BY <1>3, <2>1, <2>2
<1>9. joining'[r] = q /\ \A s \in Registrations : s = r
    BY <1>0, <1>3 DEF PushTypes, PushAlone
<1>10. \A s \in Registrations : Registering(joining[s])'
    BY <1>8, <1>9 DEF Registering
<1>11. joining[r].phase # "write"
    BY <1>1 DEF Phones!Idle
<1>12. RowsReach'
    BY <1>1, <1>11, NobodyWrites DEF RowsReach, Reaches, Phones!Kept
<1>13. ToldHaveRow'
    BY <1>1, <1>7 DEF PushInv, ToldHaveRow, Phones!With, Phones!Of, Phones!Kept
<1>14. EndpointsAreDistinct' /\ RowsAreDistinct' /\ LinksHold'
    BY <1>1 DEF PushInv, EndpointsAreDistinct, RowsAreDistinct, LinksHold, Phones!Linked,
                Phones!Known, Phones!Kept
<1>15. PushTypes'
    BY <1>0, <1>1, <1>3, <1>6, <1>7 DEF PushTypes
<1>16. QED BY <1>10, <1>12, <1>13, <1>14, <1>15 DEF PushInv

LEMMA ClaimKeeps ==
    ASSUME PushInv, PushAlone, NEW r \in Registrations, Phones!Claim(r)
    PROVE  PushInv'
<1>0. PushTypes
    BY DEF PushInv
<1>1. PICK o : o = joining[r]
    OBVIOUS
<1>2. /\ o.phase = "claim" /\ o # Phones!Idle /\ Registering(o)
      /\ o = [phase |-> "claim", user |-> o.user, token |-> o.token]
      /\ o.user \in Users /\ o.token \in Tokens
    BY <1>0, <1>1 DEF Phones!Claim, PushInv, PushTypes, JoinRecords, Phones!Idle
<1>3. UNCHANGED <<endpoint, alive, mobile>>
    BY DEF Phones!Claim
<1>4. PICK q : q = [phase |-> "ask", user |-> o.user, token |-> o.token]
    OBVIOUS
<1>5. joining' = [joining EXCEPT ![r] = q] /\ q \in JoinRecords
    <2>1. [o EXCEPT !.phase = "ask"] = q
        BY <1>2, <1>4
    <2>2. q \in JoinRecords
        BY <1>2, <1>4 DEF JoinRecords
    <2>3. QED BY <1>0, <1>1, <2>1, <2>2 DEF Phones!Claim, PushTypes
<1>6. ASSUME UNCHANGED <<phone, answered>> \/
             \E i \in Phones!Others(o) :
                /\ phone' = [phone EXCEPT ![i] = Phones!TurnedOff(i, o)]
                /\ answered' = [answered EXCEPT ![phone[i].user] =
                                    IF @ = o.token THEN None ELSE @]
      PROVE  /\ phone' \in [Rows -> {None} \cup PhoneRows] /\ OnlySwitched
             /\ answered' \in [Users -> {None} \cup Tokens] /\ answered'[o.user] = None
             /\ ToldHaveRow'
    <2>0. answered[o.user] = None /\ ToldHaveRow
        BY <1>2 DEF Registering, PushInv
    <2>1. CASE UNCHANGED <<phone, answered>>
        BY <1>0, <2>0, <2>1 DEF PushTypes, OnlySwitched, ToldHaveRow, Phones!With, Phones!Of,
                                Phones!Kept
    <2>2. CASE \E i \in Phones!Others(o) :
                /\ phone' = [phone EXCEPT ![i] = Phones!TurnedOff(i, o)]
                /\ answered' = [answered EXCEPT ![phone[i].user] =
                                    IF @ = o.token THEN None ELSE @]
        <3>1. PICK i \in Phones!Others(o) :
                /\ phone' = [phone EXCEPT ![i] = Phones!TurnedOff(i, o)]
                /\ answered' = [answered EXCEPT ![phone[i].user] =
                                    IF @ = o.token THEN None ELSE @]
            BY <2>2
        <3>2. PICK w : w = phone[i]
            OBVIOUS
        <3>3. i \in Phones!Kept /\ w.token = o.token /\ w.user # o.user
            BY <3>1, <3>2 DEF Phones!Others
        <3>4. i \in Rows /\ w \in PhoneRows /\ w # None
            BY <1>0, <3>2, <3>3, KeptRows, PhoneNone
        <3>5. PICK n : n = [user |-> w.user, token |-> w.token, arn |-> w.arn,
                            active |-> FALSE]
            OBVIOUS
        <3>6. n \in PhoneRows /\ n = [w EXCEPT !.active = FALSE]
            <4>1. n = [w EXCEPT !.active = FALSE]
                BY <3>4, <3>5, SwitchedRow
            <4>2. n \in PhoneRows
                BY <3>4, <3>5 DEF PhoneRows
            <4>3. QED BY <4>1, <4>2
        <3>7. phone' = [phone EXCEPT ![i] = n]
            BY <3>1, <3>2, <3>6 DEF Phones!TurnedOff
        <3>8. phone'[i] = n /\ n # None /\ \A j \in Rows \ {i} : phone'[j] = phone[j]
            BY <1>0, <3>4, <3>6, <3>7, PhoneNone DEF PushTypes
        <3>9. phone' \in [Rows -> {None} \cup PhoneRows]
            BY <1>0, <3>6, <3>7 DEF PushTypes
        <3>10. OnlySwitched
            BY <3>2, <3>4, <3>5, <3>8 DEF OnlySwitched
        <3>11. w.user \in Users
            BY <3>4 DEF PhoneRows
        <3>12. /\ answered' \in [Users -> {None} \cup Tokens]
               /\ \A v \in Users : v # w.user => answered'[v] = answered[v]
               /\ answered'[w.user] # None => /\ answered'[w.user] = answered[w.user]
                                              /\ answered[w.user] # o.token
            BY <1>0, <3>1, <3>2, <3>11 DEF PushTypes
        <3>13. answered'[o.user] = None
            BY <1>2, <2>0, <3>3, <3>12
        <3>14. ASSUME NEW v \in Users, answered'[v] # None
               PROVE  \E j \in Phones!With(v, answered[v])' : phone'[j].active
            <4>1. answered'[v] = answered[v] /\ (v = w.user => answered[v] # w.token)
                BY <3>3, <3>12, <3>14
            <4>2. PICK j \in Phones!With(v, answered[v]) : phone[j].active
                BY <2>0, <3>14, <4>1 DEF ToldHaveRow
            <4>3. j # i /\ j \in Rows /\ phone[j] # None
                BY <3>2, <4>1, <4>2 DEF Phones!With, Phones!Of, Phones!Kept
            <4>4. phone'[j] = phone[j]
                BY <3>8, <4>3
            <4>5. j \in Phones!With(v, answered[v])'
                BY <4>1, <4>2, <4>3, <4>4 DEF Phones!With, Phones!Of, Phones!Kept
            <4>6. QED BY <4>2, <4>4, <4>5
        <3>15. ToldHaveRow'
            BY <3>14 DEF ToldHaveRow
        <3>16. QED BY <3>9, <3>10, <3>12, <3>13, <3>15
    <2>3. QED BY <1>6, <2>1, <2>2
<1>7. /\ phone' \in [Rows -> {None} \cup PhoneRows] /\ OnlySwitched
      /\ answered' \in [Users -> {None} \cup Tokens] /\ answered'[o.user] = None
      /\ ToldHaveRow'
    BY <1>1, <1>6 DEF Phones!Claim
<1>8. PushTypes'
    BY <1>0, <1>3, <1>5, <1>7 DEF PushTypes
<1>9. joining'[r] = q /\ \A s \in Registrations : s = r
    BY <1>0, <1>5 DEF PushTypes, PushAlone
<1>10. /\ Phones!Kept' = Phones!Kept
       /\ EndpointsAreDistinct' /\ RowsAreDistinct' /\ LinksHold'
       /\ \A i \in Phones!Kept : Reaches(i)' <=> Reaches(i)
    BY <1>3, <1>7, SwitchedKeeps
<1>11. RowsReach'
    BY <1>1, <1>2, <1>10, NobodyWrites DEF RowsReach
<1>12. Phones!Of(o.user)' = {}
    BY <1>2, <1>7, <1>10 DEF Registering, Phones!Of, OnlySwitched, Phones!Kept
<1>13. Registering(q)'
    BY <1>2, <1>3, <1>4, <1>7, <1>12 DEF Registering
<1>14. \A s \in Registrations : Registering(joining[s])'
    BY <1>9, <1>13 DEF Registering
<1>15. QED BY <1>7, <1>8, <1>10, <1>11, <1>14 DEF PushInv

\* What SNS answers: it moved the row's own endpoint, had one for the token, or
\* made one that no row names.
Answer(a, named, t) ==
    /\ a.arn \in Arns
    /\ \/ /\ a.arn = named /\ named # None /\ a.new = FALSE
          /\ a.endpoint = [endpoint EXCEPT ![named] = t]
          /\ \A b \in Arns : b # named => endpoint[b] # t
       \/ a.endpoint = endpoint /\ endpoint[a.arn] = t /\ a.new = TRUE
       \/ /\ a.endpoint = [endpoint EXCEPT ![a.arn] = t] /\ a.new = TRUE
          /\ \A b \in Arns : endpoint[b] # t
          /\ \A i \in Phones!Kept : phone[i].arn # a.arn

LEMMA AskAnswers ==
    ASSUME PushInv, PushAlone, NEW named \in {None} \cup Arns, NEW t \in Tokens,
           NEW a \in Phones!GetOrRecreate(named, t)
    PROVE  Answer(a, named, t)
<1>1. CASE /\ named # None /\ endpoint[named] # None
           /\ \A b \in Arns \ {named} : endpoint[b] # t
    <2>1. a = [arn |-> named, endpoint |-> [endpoint EXCEPT ![named] = t], new |-> FALSE]
        BY <1>1 DEF Phones!GetOrRecreate
    <2>2. QED BY <1>1, <2>1 DEF Answer
<1>2. CASE ~(/\ named # None /\ endpoint[named] # None
             /\ \A b \in Arns \ {named} : endpoint[b] # t)
    <2>1. a \in Phones!Created(t)
        BY <1>2 DEF Phones!GetOrRecreate
    <2>2. CASE {b \in Arns : endpoint[b] = t} # {}
        BY <2>1, <2>2 DEF Phones!Created, Answer
    <2>3. CASE {b \in Arns : endpoint[b] = t} = {}
        <3>1. PICK b \in Phones!One(Phones!Fresh) :
                  a = [arn |-> b, endpoint |-> [endpoint EXCEPT ![b] = t], new |-> TRUE]
            BY <2>1, <2>3 DEF Phones!Created
        <3>2. b \in Phones!Fresh
            BY <3>1 DEF Phones!One
        <3>3. QED BY <2>3, <3>1, <3>2 DEF Phones!Fresh, Answer
    <2>4. QED BY <2>2, <2>3
<1>3. QED BY <1>1, <1>2

\* What an answer of SNS leaves: an endpoint for the token, and the other rows'
\* where they were.
LEMMA AskMoves ==
    ASSUME PushInv, PushAlone, NEW named \in {None} \cup Arns, NEW t \in Tokens \cap alive,
           NEW a \in Phones!GetOrRecreate(named, t), endpoint' = a.endpoint,
           UNCHANGED <<phone, alive, mobile>>
    PROVE  /\ endpoint' \in [Arns -> {None} \cup Tokens] /\ endpoint'[a.arn] = t
           /\ EndpointsAreDistinct' /\ RowsAreDistinct' /\ LinksHold'
           /\ \A i \in Phones!Kept : phone[i].arn # named =>
                                         endpoint'[phone[i].arn] = endpoint[phone[i].arn]
           /\ a.new => \A i \in Phones!Kept :
                           endpoint'[phone[i].arn] = endpoint[phone[i].arn]
           /\ ~a.new => a.arn = named /\ \A b \in Arns : b # named => endpoint[b] # t
<1>0. PushTypes /\ EndpointsAreDistinct /\ RowsAreDistinct /\ LinksHold
    BY DEF PushInv
<1>a. t \in Tokens /\ t # None /\ t \in alive
    BY PhoneNone
<1>1. Answer(a, named, t)
    BY <1>a, AskAnswers
<1>2. PICK e, f, n : e = a.arn /\ f = a.endpoint /\ n = a.new
    OBVIOUS
<1>3. /\ e \in Arns /\ endpoint' = f
      /\ \/ /\ e = named /\ named # None /\ n = FALSE
            /\ f = [endpoint EXCEPT ![e] = t]
            /\ \A b \in Arns : b # e => endpoint[b] # t
         \/ f = endpoint /\ endpoint[e] = t /\ n = TRUE
         \/ /\ f = [endpoint EXCEPT ![e] = t] /\ n = TRUE
            /\ \A b \in Arns : endpoint[b] # t
            /\ \A i \in Phones!Kept : phone[i].arn # e
    BY <1>1, <1>2 DEF Answer
<1>4. f \in [Arns -> {None} \cup Tokens] /\ f[e] = t
      /\ \A b \in Arns : b # e => f[b] = endpoint[b]
    BY <1>0, <1>3 DEF PushTypes
<1>5. EndpointsAreDistinct'
    <2>1. \A b \in Arns : b # e => endpoint[b] # t
        BY <1>0, <1>a, <1>3 DEF EndpointsAreDistinct
    <2>2. QED BY <1>0, <1>a, <1>3, <1>4, <2>1 DEF EndpointsAreDistinct
<1>6. RowsAreDistinct' /\ LinksHold'
    BY <1>0 DEF RowsAreDistinct, LinksHold, Phones!Kept, Phones!Linked, Phones!Known
<1>7. \A i \in Phones!Kept : phone[i].arn \in Arns
    BY <1>0, KeptRows DEF PhoneRows
<1>8. QED BY <1>2, <1>3, <1>4, <1>5, <1>6, <1>7

\* A registration that ends with the table and SNS as they are.
LEMMA GivesUp ==
    ASSUME PushInv, PushAlone, NEW r \in Registrations,
           joining' = [joining EXCEPT ![r] = Phones!Idle],
           UNCHANGED <<phone, endpoint, alive, mobile, answered>>,
           \A i \in Phones!Kept : Reaches(i)
    PROVE  PushInv'
<1>1. PushTypes'
    BY DEF PushInv, PushTypes, JoinRecords
<1>2. joining'[r] = Phones!Idle /\ \A s \in Registrations : s = r
    BY DEF PushInv, PushTypes, PushAlone
<1>3. \A s \in Registrations : Registering(joining[s])'
    BY <1>2 DEF Registering, Phones!Idle
<1>4. RowsReach'
    BY DEF RowsReach, Reaches, Phones!Kept
<1>5. EndpointsAreDistinct' /\ RowsAreDistinct' /\ LinksHold' /\ ToldHaveRow'
    BY DEF PushInv, EndpointsAreDistinct, RowsAreDistinct, LinksHold, ToldHaveRow,
           Phones!Linked, Phones!Known, Phones!Kept, Phones!With, Phones!Of
<1>6. QED BY <1>1, <1>3, <1>4, <1>5 DEF PushInv

LEMMA AskKeeps ==
    ASSUME PushInv, PushAlone, NEW r \in Registrations, Phones!Ask(r)
    PROVE  PushInv'
<1>0. PushTypes
    BY DEF PushInv
<1>1. PICK o : o = joining[r]
    OBVIOUS
<1>2. PICK named : named = IF o.phase = "refresh" THEN o.read.arn ELSE None
    OBVIOUS
<1>3. o.phase \in {"ask", "refresh"} /\ Registering(o) /\ o # Phones!Idle
      /\ UNCHANGED <<phone, alive, mobile, answered>>
    BY <1>1 DEF Phones!Ask, PushInv, Phones!Idle
<1>4. o \in [phase : {"claim", "ask"}, user : Users, token : Tokens]
         \cup [phase : {"refresh"}, user : Users, token : Tokens, id : Rows,
               read : PhoneRows]
    BY <1>0, <1>1, <1>3 DEF PushTypes, JoinRecords, Phones!Idle
<1>5. o.user \in Users /\ o.token \in Tokens \cap alive /\ named \in {None} \cup Arns
    BY <1>2, <1>3, <1>4 DEF Registering, PhoneRows
<1>6. \A i \in Phones!Kept : Reaches(i)
    BY <1>1, <1>3, NobodyWrites
<1>7. CASE endpoint' = endpoint /\ joining' = [joining EXCEPT ![r] = Phones!Idle]
    BY <1>3, <1>6, <1>7, GivesUp
<1>8. ASSUME NEW a \in Phones!GetOrRecreate(named, o.token), endpoint' = a.endpoint,
             joining' = [joining EXCEPT ![r] =
                  IF o.phase = "ask"
                  THEN [phase |-> "insert", user |-> o.user, token |-> o.token, arn |-> a.arn]
                  ELSE [phase |-> "write", user |-> o.user, token |-> o.token, id |-> o.id,
                        read |-> o.read, arn |-> IF a.new THEN a.arn ELSE o.read.arn]]
      PROVE  PushInv'
    <2>1. PICK e, n, t : e = a.arn /\ n = a.new /\ t = o.token
        OBVIOUS
    <2>2. /\ e \in Arns
          /\ endpoint' \in [Arns -> {None} \cup Tokens] /\ endpoint'[e] = t
          /\ EndpointsAreDistinct' /\ RowsAreDistinct' /\ LinksHold'
          /\ \A i \in Phones!Kept : phone[i].arn # named =>
                                        endpoint'[phone[i].arn] = endpoint[phone[i].arn]
          /\ n => \A i \in Phones!Kept :
                          endpoint'[phone[i].arn] = endpoint[phone[i].arn]
          /\ ~n => e = named /\ \A b \in Arns : b # named => endpoint[b] # t
        <3>1. a.arn \in Arns
            BY <1>5, <1>8, AskAnswers DEF Answer
        <3>2. /\ endpoint' \in [Arns -> {None} \cup Tokens] /\ endpoint'[a.arn] = o.token
              /\ EndpointsAreDistinct' /\ RowsAreDistinct' /\ LinksHold'
              /\ \A i \in Phones!Kept : phone[i].arn # named =>
                                            endpoint'[phone[i].arn] = endpoint[phone[i].arn]
              /\ a.new => \A i \in Phones!Kept :
                              endpoint'[phone[i].arn] = endpoint[phone[i].arn]
              /\ ~a.new => a.arn = named /\ \A b \in Arns : b # named => endpoint[b] # o.token
            BY <1>3, <1>5, <1>8, AskMoves
        <3>3. QED BY <2>1, <3>1, <3>2
    <2>3. PICK q : q = IF o.phase = "ask"
                       THEN [phase |-> "insert", user |-> o.user, token |-> t, arn |-> e]
                       ELSE [phase |-> "write", user |-> o.user, token |-> t, id |-> o.id,
                             read |-> o.read, arn |-> IF n THEN e ELSE o.read.arn]
        OBVIOUS
    <2>4. joining' = [joining EXCEPT ![r] = q]
        BY <1>8, <2>1, <2>3
    <2>5. joining'[r] = q /\ \A s \in Registrations : s = r
        BY <1>0, <2>4 DEF PushTypes, PushAlone
    <2>6. Phones!Kept' = Phones!Kept
        BY <1>3 DEF Phones!Kept
    <2>7. ASSUME o.phase = "ask"
          PROVE  q \in JoinRecords /\ Registering(q)' /\ RowsReach'
        <3>1. q = [phase |-> "insert", user |-> o.user, token |-> t, arn |-> e]
            BY <2>3, <2>7
        <3>2. q \in JoinRecords
            BY <1>5, <2>1, <2>2, <3>1 DEF JoinRecords
        <3>3. Phones!Of(o.user)' = {}
            BY <1>3, <2>7 DEF Registering, Phones!Of, Phones!Kept
        <3>4. Registering(q)'
            BY <1>3, <2>1, <2>2, <3>1, <3>3 DEF Registering
        <3>5. named = None
            BY <1>2, <2>7
        <3>6. \A i \in Phones!Kept : phone[i].arn # named
            BY <1>0, <3>5, KeptRows, PhoneNone DEF PhoneRows
        <3>7. RowsReach'
            BY <1>3, <1>6, <2>2, <2>6, <3>6 DEF RowsReach, Reaches
        <3>8. QED BY <3>2, <3>4, <3>7
    <2>8. ASSUME o.phase = "refresh"
          PROVE  q \in JoinRecords /\ Registering(q)' /\ RowsReach'
        <3>1. named = o.read.arn /\ o.read \in PhoneRows /\ o.id \in Rows
            BY <1>2, <1>4, <2>8
        <3>2. q = [phase |-> "write", user |-> o.user, token |-> t, id |-> o.id,
                   read |-> o.read, arn |-> e]
            BY <2>2, <2>3, <2>8, <3>1
        <3>3. q \in JoinRecords
            BY <1>5, <2>1, <2>2, <3>1, <3>2 DEF JoinRecords
        <3>4. /\ o.id \in Phones!Of(o.user) /\ o.id \in Phones!Kept /\ o.read = phone[o.id]
              /\ Phones!With(o.user, t) # {} => phone[o.id].token = t
              /\ answered[o.user] = None /\ t \in alive
            BY <1>3, <2>1, <2>8 DEF Registering, Phones!Of
        <3>5. ASSUME NEW i \in Phones!Kept, i # o.id
              PROVE  Reaches(i)' /\ phone[i].arn # named
            <4>1. phone[i].arn # named
                BY <3>1, <3>4, <3>5 DEF PushInv, RowsAreDistinct
            <4>2. QED BY <1>3, <1>6, <2>2, <4>1 DEF Reaches
        <3>6. BeingWritten(o.id)'
            BY <2>5, <3>2 DEF BeingWritten
        <3>7. RowsReach'
            BY <2>6, <3>5, <3>6 DEF RowsReach
        <3>8. ASSUME ~Reaches(o.id)', NEW j \in Phones!Kept, j # o.id, phone[j].token = t
              PROVE  FALSE
            <4>1. ~n
                BY <1>3, <1>6, <2>2, <3>4, <3>8 DEF Reaches
            <4>2. Reaches(j) /\ phone[j].arn # named
                BY <1>6, <3>5, <3>8
            <4>3. endpoint[phone[j].arn] = t /\ phone[j].arn \in Arns
                BY <1>0, <3>4, <3>8, <4>2, KeptRows DEF Reaches, PhoneRows
            <4>4. QED BY <2>2, <4>1, <4>2, <4>3
        <3>9. Registering(q)'
            BY <1>3, <2>2, <2>6, <3>2, <3>4, <3>8 DEF Registering, Phones!With, Phones!Of
        <3>10. QED BY <3>3, <3>7, <3>9
    <2>9. q \in JoinRecords /\ Registering(q)' /\ RowsReach'
        BY <1>3, <2>7, <2>8
    <2>10. PushTypes'
        BY <1>0, <1>3, <2>2, <2>4, <2>9 DEF PushTypes
    <2>11. \A s \in Registrations : Registering(joining[s])'
        BY <2>5, <2>9 DEF Registering
    <2>12. ToldHaveRow'
        BY <1>3 DEF PushInv, ToldHaveRow, Phones!With, Phones!Of, Phones!Kept
    <2>13. QED BY <2>2, <2>9, <2>10, <2>11, <2>12 DEF PushInv
<1>9. QED BY <1>1, <1>2, <1>7, <1>8 DEF Phones!Ask

\* A registration ends with a row written: its endpoint is the token's, and no other
\* row has the token.
RowWritten(r, i, u, t, e) ==
    /\ answered[u] = None /\ t \in alive /\ endpoint[e] = t
    /\ phone[i] # None => phone[i].user = u
    /\ \A j \in Phones!Kept \ {i} : Reaches(j) /\ phone[j].token # t
    /\ phone' = [phone EXCEPT ![i] = [user |-> u, token |-> t, arn |-> e, active |-> TRUE]]
    /\ answered' = [answered EXCEPT ![u] = t]
    /\ joining' = [joining EXCEPT ![r] = Phones!Idle]
    /\ UNCHANGED <<endpoint, alive, mobile>>

LEMMA RowIsWritten ==
    ASSUME PushInv, PushAlone, NEW r \in Registrations, NEW i \in Rows,
           NEW u \in Users, NEW t \in Tokens, NEW e \in Arns, RowWritten(r, i, u, t, e)
    PROVE  PushInv'
<1>a. /\ answered[u] = None /\ t \in alive /\ endpoint[e] = t
      /\ phone[i] # None => phone[i].user = u
      /\ \A j \in Phones!Kept \ {i} : Reaches(j) /\ phone[j].token # t
      /\ phone' = [phone EXCEPT ![i] =
                      [user |-> u, token |-> t, arn |-> e, active |-> TRUE]]
      /\ answered' = [answered EXCEPT ![u] = t]
      /\ joining' = [joining EXCEPT ![r] = Phones!Idle]
      /\ UNCHANGED <<endpoint, alive, mobile>>
    BY DEF RowWritten
<1>0. PushTypes
    BY DEF PushInv
<1>1. PICK n : n = [user |-> u, token |-> t, arn |-> e, active |-> TRUE]
    OBVIOUS
<1>2. phone' = [phone EXCEPT ![i] = n] /\ n \in PhoneRows /\ n # None /\ t # None
    <2>1. phone' = [phone EXCEPT ![i] = n]
        BY <1>a, <1>1
    <2>2. n \in PhoneRows
        BY <1>1 DEF PhoneRows
    <2>3. QED BY <2>1, <2>2, PhoneNone
<1>3. phone'[i] = n /\ \A j \in Rows \ {i} : phone'[j] = phone[j]
    BY <1>0, <1>2 DEF PushTypes
<1>4. Phones!Kept' = Phones!Kept \cup {i} /\ \A j \in Phones!Kept : j \in Rows
    BY <1>2, <1>3 DEF Phones!Kept
<1>5. answered' \in [Users -> {None} \cup Tokens] /\ answered'[u] = t
      /\ \A v \in Users \ {u} : answered'[v] = answered[v]
    BY <1>a, <1>0 DEF PushTypes
<1>6. PushTypes'
    <2>1. phone' \in [Rows -> {None} \cup PhoneRows]
        BY <1>0, <1>2 DEF PushTypes
    <2>2. joining' \in [Registrations -> JoinRecords]
        BY <1>a, <1>0 DEF PushTypes, JoinRecords
    <2>3. QED BY <1>a, <1>0, <1>5, <2>1, <2>2 DEF PushTypes
<1>7. EndpointsAreDistinct'
    BY <1>a DEF PushInv, EndpointsAreDistinct
<1>8. \A j \in Phones!Kept \ {i} : phone[j].token # t /\ phone[j].arn # e
    BY <1>a, <1>2 DEF Reaches
<1>9. RowsAreDistinct'
    <2> SUFFICES ASSUME NEW j \in Phones!Kept', NEW k \in Phones!Kept',
                        phone'[j].token = phone'[k].token \/ phone'[j].arn = phone'[k].arn
                 PROVE  j = k
        BY DEF RowsAreDistinct
    <2>1. CASE j # i /\ k # i
        BY <1>3, <1>4, <2>1 DEF PushInv, RowsAreDistinct
    <2>2. CASE j = i /\ k # i
        BY <1>1, <1>3, <1>4, <1>8, <2>2
    <2>3. CASE j # i /\ k = i
        BY <1>1, <1>3, <1>4, <1>8, <2>3
    <2>4. QED BY <2>1, <2>2, <2>3
<1>10. RowsReach'
    <2>1. Reaches(i)'
        BY <1>a, <1>1, <1>3 DEF Reaches
    <2>2. \A j \in Phones!Kept \ {i} : Reaches(j)'
        BY <1>a, <1>3, <1>4 DEF Reaches
    <2>3. QED BY <1>4, <2>1, <2>2 DEF RowsReach
<1>11. \A s \in Registrations : Registering(joining[s])'
    <2>1. \A s \in Registrations : joining'[s] = Phones!Idle
        BY <1>a, <1>0 DEF PushTypes, PushAlone
    <2>2. QED BY <2>1 DEF Registering, Phones!Idle
<1>12. ASSUME NEW v \in Users, answered'[v] # None
       PROVE  \E j \in Phones!With(v, answered[v])' : phone'[j].active
    <2>1. CASE v = u
        <3>1. i \in Phones!With(v, answered[v])'
            BY <1>1, <1>2, <1>3, <1>5, <2>1 DEF Phones!With, Phones!Of, Phones!Kept
        <3>2. QED BY <1>1, <1>3, <3>1
    <2>2. CASE v # u
        <3>1. answered'[v] = answered[v]
            BY <1>5, <2>2
        <3>2. PICK j \in Phones!With(v, answered[v]) : phone[j].active
            BY <1>12, <3>1 DEF PushInv, ToldHaveRow
        <3>3. j \in Rows /\ j # i /\ phone[j] # None
            BY <1>a, <2>2, <3>2 DEF Phones!With, Phones!Of, Phones!Kept
        <3>4. phone'[j] = phone[j]
            BY <1>3, <3>3
        <3>5. j \in Phones!With(v, answered[v])'
            BY <3>1, <3>2, <3>3, <3>4 DEF Phones!With, Phones!Of, Phones!Kept
        <3>6. QED BY <3>2, <3>4, <3>5
    <2>3. QED BY <2>1, <2>2
<1>13. ToldHaveRow'
    BY <1>12 DEF ToldHaveRow
<1>14. \A j \in Phones!Kept : phone'[j].user = phone[j].user
    <2>1. phone'[i].user = u
        BY <1>1, <1>3
    <2>2. QED BY <1>a, <1>3, <1>4, <2>1 DEF Phones!Kept
<1>15. LinksHold'
    BY <1>a, <1>4, <1>14 DEF PushInv, LinksHold, Phones!Linked, Phones!Known
<1>16. QED BY <1>6, <1>7, <1>9, <1>10, <1>11, <1>13, <1>15 DEF PushInv

LEMMA InsertKeeps ==
    ASSUME PushInv, PushAlone, NEW r \in Registrations, Phones!Insert(r)
    PROVE  PushInv'
<1>0. PushTypes
    BY DEF PushInv
<1>1. PICK o : o = joining[r]
    OBVIOUS
<1>2. /\ o.phase = "insert" /\ o # Phones!Idle /\ Registering(o)
      /\ UNCHANGED <<endpoint, alive, mobile>>
    BY <1>1 DEF Phones!Insert, PushInv, Phones!Idle
<1>3. o.user \in Users /\ o.token \in Tokens /\ o.arn \in Arns
    BY <1>0, <1>1, <1>2 DEF PushTypes, JoinRecords, Phones!Idle
<1>4. /\ answered[o.user] = None /\ o.token \in alive /\ endpoint[o.arn] = o.token
      /\ Phones!With(o.user, o.token) = {}
    BY <1>2 DEF Registering, Phones!With
<1>5. \A i \in Phones!Kept : Reaches(i)
    BY <1>1, <1>2, NobodyWrites
<1>6. CASE Phones!Clash(o.user, o.token, None)
    <2>1. joining' = [joining EXCEPT ![r] = Phones!Idle] /\ UNCHANGED <<phone, answered>>
        BY <1>1, <1>4, <1>6 DEF Phones!Insert
    <2>2. QED BY <1>2, <1>5, <2>1, GivesUp
<1>7. CASE ~Phones!Clash(o.user, o.token, None)
    <2>1. PICK i \in Phones!One(Rows \ Phones!Kept) :
              /\ phone' = [phone EXCEPT ![i] = [user |-> o.user, token |-> o.token,
                                               arn |-> o.arn, active |-> TRUE]]
              /\ answered' = [answered EXCEPT ![o.user] = o.token]
              /\ joining' = [joining EXCEPT ![r] = Phones!Idle]
        BY <1>1, <1>7 DEF Phones!Insert
    <2>2. i \in Rows /\ phone[i] = None
        BY <2>1 DEF Phones!One, Phones!Kept
    <2>3. \A j \in Phones!Kept : j # None
        BY PhoneNone DEF Phones!Kept
    <2>4. \A j \in Phones!Kept \ {i} : Reaches(j) /\ phone[j].token # o.token
        BY <1>5, <1>7, <2>3 DEF Phones!Clash, PushAlone
    <2>5. RowWritten(r, i, o.user, o.token, o.arn)
        BY <1>2, <1>4, <2>1, <2>2, <2>4 DEF RowWritten
    <2>6. QED BY <1>3, <2>2, <2>5, RowIsWritten
<1>8. QED BY <1>6, <1>7

LEMMA WriteKeeps ==
    ASSUME PushInv, PushAlone, NEW r \in Registrations, Phones!Write(r)
    PROVE  PushInv'
<1>0. PushTypes
    BY DEF PushInv
<1>1. PICK o : o = joining[r]
    OBVIOUS
<1>2. /\ o.phase = "write" /\ o # Phones!Idle /\ Registering(o)
      /\ UNCHANGED <<endpoint, alive, mobile>>
      /\ joining' = [joining EXCEPT ![r] = Phones!Idle]
    BY <1>1 DEF Phones!Write, PushInv, Phones!Idle
<1>3. o.user \in Users /\ o.token \in Tokens /\ o.arn \in Arns /\ o.id \in Rows
    BY <1>0, <1>1, <1>2 DEF PushTypes, JoinRecords, Phones!Idle
<1>4. /\ answered[o.user] = None /\ o.token \in alive /\ endpoint[o.arn] = o.token
      /\ o.read = phone[o.id] /\ o.id \in Phones!Kept /\ phone[o.id].user = o.user
      /\ Phones!With(o.user, o.token) # {} => phone[o.id].token = o.token
      /\ ~Reaches(o.id) => \A j \in Phones!Kept \ {o.id} : phone[j].token # o.token
    BY <1>2 DEF Registering, Phones!Of
<1>5. \A i \in Phones!Kept \ {o.id} : Reaches(i)
    BY <1>1, OnlyWhatIsWritten
<1>6. CASE Phones!Clash(o.user, o.token, o.id)
    <2>1. PICK j \in Phones!Kept \ {o.id} : phone[j].token = o.token
        BY <1>6 DEF Phones!Clash
    <2>2. Phones!With(o.user, o.token) = {}
        BY <1>4, <2>1 DEF PushInv, RowsAreDistinct
    <2>3. UNCHANGED <<phone, answered>>
        BY <1>1, <1>6, <2>2 DEF Phones!Write
    <2>4. \A i \in Phones!Kept : Reaches(i)
        BY <1>4, <1>5, <2>1
    <2>5. QED BY <1>2, <2>3, <2>4, GivesUp
<1>7. CASE ~Phones!Clash(o.user, o.token, o.id)
    <2>1. /\ phone' = [phone EXCEPT ![o.id] = Phones!Written(o.id, o)]
          /\ answered' = [answered EXCEPT ![o.user] = o.token]
        BY <1>1, <1>7 DEF Phones!Write
    <2>2. PICK w : w = phone[o.id]
        OBVIOUS
    <2>3. w \in PhoneRows /\ w.user = o.user /\ o.read = w
        BY <1>0, <1>4, <2>2, KeptRows
    <2>4. Phones!Written(o.id, o) = [user |-> o.user, token |-> o.token, arn |-> o.arn,
                                     active |-> TRUE]
        <3>1. PICK t, e : t = o.token /\ e = o.arn
            OBVIOUS
        <3>2. Phones!Written(o.id, o) = Rewritten(w, t, e)
            BY <2>2, <2>3, <3>1 DEF Phones!Written, Rewritten
        <3>3. Phones!Written(o.id, o) =
                  [user |-> w.user, token |-> t, arn |-> e, active |-> TRUE]
            BY <2>3, <3>2, WrittenRow
        <3>4. QED BY <2>3, <3>1, <3>3
    <2>5. \A j \in Phones!Kept \ {o.id} : Reaches(j) /\ phone[j].token # o.token
        BY <1>5, <1>7 DEF Phones!Clash, PushAlone
    <2>6. phone' = [phone EXCEPT ![o.id] = [user |-> o.user, token |-> o.token,
                                            arn |-> o.arn, active |-> TRUE]]
        BY <2>1, <2>4
    <2>7. RowWritten(r, o.id, o.user, o.token, o.arn)
        BY <1>2, <1>4, <2>1, <2>5, <2>6 DEF RowWritten
    <2>8. QED BY <1>3, <2>7, RowIsWritten
<1>8. QED BY <1>6, <1>7

\* A process that dies was not writing a row.
LEMMA CrashKeeps ==
    ASSUME PushInv, PushAlone, NEW r \in Registrations, Phones!Crash(r)
    PROVE  PushInv'
<1>1. joining[r].phase # "write"
    BY DEF Phones!Crash, PushAlone
<1>2. \A i \in Phones!Kept : Reaches(i)
    BY <1>1, NobodyWrites
<1>3. QED BY <1>2, GivesUp DEF Phones!Crash

LEMMA DeactivateKeeps ==
    ASSUME PushInv, PushAlone, NEW u \in Users, NEW t \in Tokens, Phones!Deactivate(u, t)
    PROVE  PushInv'
<1>0. PushTypes
    BY DEF PushInv
<1>1. PICK i \in Phones!With(u, t) : phone' = [phone EXCEPT ![i].active = FALSE]
    BY DEF Phones!Deactivate, Phones!Found
<1>2. /\ u \notin Phones!Busy /\ UNCHANGED <<endpoint, joining, alive, mobile>>
      /\ answered' = [answered EXCEPT ![u] = IF @ = t THEN None ELSE @]
    BY DEF Phones!Deactivate, PushAlone
<1>3. PICK w : w = phone[i]
    OBVIOUS
<1>4. i \in Phones!Kept /\ w.user = u /\ w.token = t
    BY <1>1, <1>3 DEF Phones!With, Phones!Of
<1>5. i \in Rows /\ w \in PhoneRows
    BY <1>0, <1>3, <1>4, KeptRows
<1>6. PICK n : n = [user |-> w.user, token |-> w.token, arn |-> w.arn, active |-> FALSE]
    OBVIOUS
<1>7. n = [w EXCEPT !.active = FALSE] /\ n \in PhoneRows /\ n # None
    <2>1. n = [w EXCEPT !.active = FALSE]
        BY <1>5, <1>6, SwitchedRow
    <2>2. n \in PhoneRows
        BY <1>5, <1>6 DEF PhoneRows
    <2>3. QED BY <2>1, <2>2, PhoneNone
<1>8. phone' = [phone EXCEPT ![i] = n]
    BY <1>1, <1>3, <1>7
<1>9. /\ phone'[i] = n /\ \A j \in Rows \ {i} : phone'[j] = phone[j]
      /\ phone' \in [Rows -> {None} \cup PhoneRows]
    BY <1>0, <1>5, <1>7, <1>8 DEF PushTypes
<1>10. OnlySwitched
    BY <1>3, <1>4, <1>6, <1>7, <1>9 DEF OnlySwitched, Phones!Kept
<1>11. /\ Phones!Kept' = Phones!Kept
       /\ EndpointsAreDistinct' /\ RowsAreDistinct' /\ LinksHold'
       /\ \A j \in Phones!Kept : Reaches(j)' <=> Reaches(j)
    BY <1>2, <1>10, SwitchedKeeps
<1>12. /\ answered' \in [Users -> {None} \cup Tokens]
       /\ \A v \in Users : answered'[v] # None =>
              answered'[v] = answered[v] /\ (v = u => answered[v] # t)
       /\ \A v \in Users : answered[v] = None => answered'[v] = None
    BY <1>0, <1>2 DEF PushTypes
<1>13. PushTypes'
    BY <1>0, <1>2, <1>9, <1>12 DEF PushTypes
<1>14. RowsReach'
    BY <1>2, <1>11 DEF PushInv, RowsReach, BeingWritten
<1>15. ASSUME NEW s \in Registrations
       PROVE  Registering(joining[s])'
    <2>1. PICK o : o = joining[s]
        OBVIOUS
    <2>2. Registering(o) /\ joining'[s] = o
        BY <1>2, <2>1 DEF PushInv
    <2>3. CASE o = Phones!Idle
        BY <2>2, <2>3 DEF Registering, Phones!Idle
    <2>4. CASE o # Phones!Idle
        <3>1. o.user # u /\ o.user \in Users
            BY <1>0, <1>2, <2>1, <2>4 DEF Phones!Busy, PushTypes, JoinRecords
        <3>2. /\ Phones!Of(o.user)' = Phones!Of(o.user)
              /\ Phones!With(o.user, o.token)' = Phones!With(o.user, o.token)
            BY <1>10, <1>11 DEF OnlySwitched, Phones!Of, Phones!With, Phones!Kept
        <3>3. o.id \in Phones!Of(o.user) => phone'[o.id] = phone[o.id] /\ o.id \in Phones!Kept
            BY <1>3, <1>4, <1>9, <3>1 DEF Phones!Of, Phones!Kept
        <3>4. \A j \in Phones!Kept : phone'[j].token = phone[j].token
            BY <1>10 DEF OnlySwitched, Phones!Kept
        <3>5. Registering(o)'
            BY <1>2, <1>11, <1>12, <2>2, <2>4, <3>1, <3>2, <3>3, <3>4 DEF Registering
        <3>6. QED BY <2>2, <3>5 DEF Registering
    <2>5. QED BY <2>3, <2>4
<1>16. ASSUME NEW v \in Users, answered'[v] # None
       PROVE  \E j \in Phones!With(v, answered[v])' : phone'[j].active
    <2>1. answered'[v] = answered[v] /\ (v = u => answered[v] # t)
        BY <1>12, <1>16
    <2>2. PICK j \in Phones!With(v, answered[v]) : phone[j].active
        BY <1>16, <2>1 DEF PushInv, ToldHaveRow
    <2>3. j # i /\ j \in Rows /\ phone[j] # None
        BY <1>3, <1>4, <2>1, <2>2 DEF Phones!With, Phones!Of, Phones!Kept
    <2>4. phone'[j] = phone[j]
        BY <1>9, <2>3
    <2>5. j \in Phones!With(v, answered[v])'
        BY <2>1, <2>2, <2>3, <2>4 DEF Phones!With, Phones!Of, Phones!Kept
    <2>6. QED BY <2>2, <2>4, <2>5
<1>17. ToldHaveRow'
    BY <1>16 DEF ToldHaveRow
<1>18. QED BY <1>11, <1>13, <1>14, <1>15, <1>17 DEF PushInv

\* A mobility device changes, and its link is sound.
LEMMA MobileKeeps ==
    ASSUME PushInv, NEW m \in Mobiles, NEW n \in MobileRows,
           mobile' = [mobile EXCEPT ![m] = n],
           n.link # None => /\ n.link \in Phones!Kept /\ phone[n.link].user = n.user
                            /\ ~Phones!Linked(n.link, m),
           UNCHANGED <<phone, endpoint, joining, alive, answered>>
    PROVE  PushInv'
<1>0. PushTypes /\ n # None
    BY PhoneNone DEF PushInv
<1>1. mobile'[m] = n /\ \A k \in Mobiles \ {m} : mobile'[k] = mobile[k]
    BY <1>0 DEF PushTypes
<1>2. PushTypes'
    BY <1>0 DEF PushTypes
<1>3. ASSUME NEW k \in Mobiles, mobile'[k] # None, mobile'[k].link # None
      PROVE  /\ mobile'[k].link \in Phones!Kept'
             /\ phone'[mobile'[k].link].user = mobile'[k].user
             /\ ~Phones!Linked(mobile[k].link, k)'
    <2>1. CASE k = m
        <3>1. ~\E j \in Mobiles \ {m} : mobile[j] # None /\ mobile[j].link = n.link
            BY <1>1, <1>3, <2>1 DEF Phones!Linked, Phones!Known
        <3>2. ~Phones!Linked(mobile[k].link, k)'
            BY <1>1, <2>1, <3>1 DEF Phones!Linked, Phones!Known
        <3>3. QED BY <1>1, <1>3, <2>1, <3>2 DEF Phones!Kept
    <2>2. CASE k # m
        <3>1. mobile'[k] = mobile[k]
            BY <1>1, <2>2
        <3>2. /\ mobile[k].link \in Phones!Kept /\ phone[mobile[k].link].user = mobile[k].user
              /\ ~Phones!Linked(mobile[k].link, k)
            BY <1>3, <3>1 DEF PushInv, LinksHold
        <3>3. ~\E j \in Mobiles \ {k} : mobile[j] # None /\ mobile[j].link = mobile[k].link
            BY <1>3, <3>1, <3>2 DEF Phones!Linked, Phones!Known
        <3>4. n.link # mobile[k].link
            BY <1>3, <2>2, <3>1 DEF Phones!Linked, Phones!Known
        <3>5. ~Phones!Linked(mobile[k].link, k)'
            BY <1>1, <3>1, <3>3, <3>4 DEF Phones!Linked, Phones!Known
        <3>6. QED BY <3>1, <3>2, <3>5 DEF Phones!Kept
    <2>3. QED BY <2>1, <2>2
<1>4. LinksHold'
    BY <1>3 DEF LinksHold
<1>5. EndpointsAreDistinct' /\ RowsAreDistinct' /\ RowsReach' /\ ToldHaveRow'
    BY DEF PushInv, EndpointsAreDistinct, RowsAreDistinct, RowsReach, ToldHaveRow, Reaches,
           BeingWritten, Phones!Kept, Phones!With, Phones!Of
<1>6. \A r \in Registrations : Registering(joining[r])'
    BY DEF PushInv, Registering, Reaches, Phones!Kept, Phones!With, Phones!Of
<1>7. QED BY <1>2, <1>4, <1>5, <1>6 DEF PushInv

LEMMA EnrollKeeps ==
    ASSUME PushInv, NEW u \in Users, NEW e \in Externals \cup {None},
           NEW i \in Phones!Kept \cup {None}, Phones!Enroll(u, e, i)
    PROVE  PushInv'
<1>0. PushTypes
    BY DEF PushInv
<1> DEFINE byExternal == {m \in Phones!Known :
                            mobile[m].user = u /\ e # None /\ mobile[m].external = e}
           byLink == {m \in Phones!Known :
                            mobile[m].user = u /\ i # None /\ mobile[m].link = i}
           found == IF byExternal # {} THEN byExternal ELSE byLink
<1>1. PICK m \in IF found # {} THEN found ELSE Phones!One(Mobiles \ Phones!Known) :
          /\ ~Phones!Linked(i, m)
          /\ mobile' = [mobile EXCEPT ![m] =
                IF found = {} THEN [user |-> u, external |-> e, link |-> i]
                ELSE [mobile[m] EXCEPT !.external = e, !.link = IF i = None THEN @ ELSE i]]
    BY DEF Phones!Enroll
<1>2. Phones!MayLink(u, i) /\ UNCHANGED <<phone, endpoint, joining, alive, answered>>
    BY DEF Phones!Enroll
<1>3. \A k \in found : k \in Phones!Known /\ mobile[k].user = u
    OBVIOUS
<1> HIDE DEF found
<1>4. i # None => i \in Phones!Kept /\ phone[i].user = u /\ i \in Rows
    BY <1>2 DEF Phones!MayLink, Phones!Of, Phones!Kept
<1>5. CASE found = {}
    <2>1. m \in Mobiles
        BY <1>1, <1>5 DEF Phones!One
    <2>2. PICK n : n = [user |-> u, external |-> e, link |-> i]
        OBVIOUS
    <2>3. n \in MobileRows /\ n.link = i /\ n.user = u
        BY <1>4, <2>2 DEF MobileRows
    <2>4. mobile' = [mobile EXCEPT ![m] = n]
        BY <1>1, <1>5, <2>2
    <2>5. QED BY <1>1, <1>2, <1>4, <2>1, <2>3, <2>4, MobileKeeps
<1>6. CASE found # {}
    <2>1. m \in found
        BY <1>1, <1>6
    <2>2. m \in Mobiles /\ mobile[m] # None /\ mobile[m].user = u
        BY <1>3, <2>1 DEF Phones!Known
    <2>3. PICK w : w = mobile[m]
        OBVIOUS
    <2>4. w \in MobileRows /\ w.user = u
        BY <1>0, <2>2, <2>3 DEF PushTypes
    <2>5. PICK l : l = IF i = None THEN w.link ELSE i
        OBVIOUS
    <2>6. PICK n : n = [w EXCEPT !.external = e, !.link = l]
        OBVIOUS
    <2>7. n \in MobileRows /\ n.link = l /\ n.user = u
        BY <1>4, <2>4, <2>5, <2>6 DEF MobileRows
    <2>8. mobile' = [mobile EXCEPT ![m] = n]
        <3>1. mobile' = [mobile EXCEPT ![m] =
                             [mobile[m] EXCEPT !.external = e, !.link = IF i = None THEN @ ELSE i]]
            BY <1>1, <1>6
        <3>2. mobile' = [mobile EXCEPT ![m] =
                             [w EXCEPT !.external = e, !.link = IF i = None THEN @ ELSE i]]
            BY <2>3, <3>1
        <3>3. [w EXCEPT !.external = e, !.link = IF i = None THEN @ ELSE i] =
                  [w EXCEPT !.external = e, !.link = l]
            BY <2>4, <2>5 DEF MobileRows
        <3>4. QED BY <2>6, <3>2, <3>3
    <2>9. ASSUME l # None
          PROVE  /\ l \in Phones!Kept /\ phone[l].user = u /\ ~Phones!Linked(l, m)
        <3>1. CASE i = None
            BY <2>2, <2>3, <2>5, <2>9, <3>1 DEF PushInv, LinksHold
        <3>2. CASE i # None
            BY <1>1, <1>4, <2>5, <3>2
        <3>3. QED BY <3>1, <3>2
    <2>10. QED BY <1>2, <2>2, <2>7, <2>8, <2>9, MobileKeeps
<1>7. QED BY <1>5, <1>6

LEMMA RelinkKeeps ==
    ASSUME PushInv, NEW u \in Users, NEW m \in Mobiles, NEW i \in Phones!Kept \cup {None},
           Phones!Relink(u, m, i)
    PROVE  PushInv'
<1>0. PushTypes
    BY DEF PushInv
<1>1. /\ mobile[m] # None /\ mobile[m].user = u /\ ~Phones!Linked(i, m)
      /\ Phones!MayLink(u, i) /\ UNCHANGED <<phone, endpoint, joining, alive, answered>>
      /\ mobile' = [mobile EXCEPT ![m].link = i]
    BY DEF Phones!Relink, Phones!Known
<1>2. i # None => i \in Phones!Kept /\ phone[i].user = u /\ i \in Rows
    BY <1>1 DEF Phones!MayLink, Phones!Of, Phones!Kept
<1>3. PICK w : w = mobile[m]
    OBVIOUS
<1>4. PICK n : n = [w EXCEPT !.link = i]
    OBVIOUS
<1>5. w \in MobileRows
    BY <1>0, <1>1, <1>3 DEF PushTypes
<1>6. n \in MobileRows /\ n.link = i /\ n.user = u
    BY <1>1, <1>2, <1>3, <1>4, <1>5 DEF MobileRows
<1>7. mobile' = [mobile EXCEPT ![m] = n]
    BY <1>1, <1>3, <1>4
<1>8. QED BY <1>1, <1>2, <1>6, <1>7, MobileKeeps

\* SNS drops an endpoint whose token is nobody's, and none that is being written.
LEMMA ExpireKeeps ==
    ASSUME PushInv, PushAlone, NEW t \in Tokens, Phones!Expire(t)
    PROVE  PushInv'
<1>0. PushTypes /\ EndpointsAreDistinct /\ t # None
    BY PhoneNone DEF PushInv
<1>1. PICK a \in Arns : endpoint[a] = t /\ endpoint' = [endpoint EXCEPT ![a] = None]
    BY DEF Phones!Expire
<1>2. /\ t \notin Phones!InUse /\ alive' = alive \ {t}
      /\ UNCHANGED <<phone, joining, mobile, answered>>
    BY DEF Phones!Expire, PushAlone
<1>3. /\ endpoint' \in [Arns -> {None} \cup Tokens] /\ endpoint'[a] = None
      /\ \A b \in Arns \ {a} : endpoint'[b] = endpoint[b] /\ endpoint[b] # t
    BY <1>0, <1>1 DEF PushTypes, EndpointsAreDistinct
<1>4. \A b \in Arns : endpoint[b] # t => endpoint'[b] = endpoint[b]
    BY <1>1, <1>3
<1>5. EndpointsAreDistinct'
    BY <1>0, <1>2, <1>3 DEF EndpointsAreDistinct
<1>6. Phones!Kept' = Phones!Kept
    BY <1>2 DEF Phones!Kept
<1>7. ASSUME NEW i \in Phones!Kept, Reaches(i)
      PROVE  Reaches(i)'
    <2>1. phone[i].arn \in Arns
        BY <1>0, KeptRows DEF PhoneRows
    <2>2. QED BY <1>1, <1>2, <1>3, <1>7, <2>1 DEF Reaches
<1>8. RowsReach'
    BY <1>2, <1>6, <1>7 DEF PushInv, RowsReach, BeingWritten
<1>9. ASSUME NEW r \in Registrations
      PROVE  Registering(joining[r])'
    <2>1. PICK o : o = joining[r]
        OBVIOUS
    <2>2. Registering(o) /\ joining'[r] = o
        BY <1>2, <2>1 DEF PushInv
    <2>3. CASE o = Phones!Idle
        BY <2>2, <2>3 DEF Registering, Phones!Idle
    <2>4. CASE o # Phones!Idle
        <3>1. o.token # t
            BY <1>2, <2>1, <2>4 DEF Phones!InUse
        <3>2. o.phase \in {"insert", "write"} => o.arn \in Arns
            BY <1>0, <2>1, <2>4 DEF PushTypes, JoinRecords
        <3>3. o.phase \in {"insert", "write"} => endpoint'[o.arn] = o.token
            BY <1>4, <2>2, <3>1, <3>2 DEF Registering
        <3>4. o.phase = "write" /\ ~Reaches(o.id)' => ~Reaches(o.id)
            BY <1>7, <2>2 DEF Registering, Phones!Of
        <3>5. Phones!Of(o.user)' = Phones!Of(o.user)
              /\ Phones!With(o.user, o.token)' = Phones!With(o.user, o.token)
            BY <1>2 DEF Phones!Of, Phones!With, Phones!Kept
        <3>6. Registering(o)'
            BY <1>2, <1>6, <2>2, <3>1, <3>3, <3>4, <3>5 DEF Registering
        <3>7. QED BY <2>2, <3>6 DEF Registering
    <2>5. QED BY <2>3, <2>4
<1>10. ToldHaveRow' /\ RowsAreDistinct' /\ LinksHold'
    BY <1>2 DEF PushInv, ToldHaveRow, RowsAreDistinct, LinksHold, Phones!Linked,
                Phones!Known, Phones!Kept, Phones!With, Phones!Of
<1>11. PushTypes'
    BY <1>0, <1>2, <1>3 DEF PushTypes
<1>12. QED BY <1>5, <1>8, <1>9, <1>10, <1>11 DEF PushInv

LEMMA PushUnchanged ==
    ASSUME PushInv, UNCHANGED pushVars
    PROVE  PushInv'
<1> USE DEF pushVars
<1>1. PushTypes' /\ EndpointsAreDistinct' /\ RowsAreDistinct' /\ RowsReach'
    BY DEF PushInv, PushTypes, EndpointsAreDistinct, RowsAreDistinct, RowsReach, Reaches,
           BeingWritten, Phones!Kept
<1>2. \A r \in Registrations : Registering(joining[r])'
    BY DEF PushInv, Registering, Reaches, Phones!Kept, Phones!With, Phones!Of
<1>3. ToldHaveRow' /\ LinksHold'
    BY DEF PushInv, ToldHaveRow, LinksHold, Phones!Linked, Phones!Known, Phones!Kept,
           Phones!With, Phones!Of
<1>4. QED BY <1>1, <1>2, <1>3 DEF PushInv

LEMMA PushSteps ==
    ASSUME PushInv, PushAlone, Phones!Next
    PROVE  PushInv'
<1>1. ASSUME NEW r \in Registrations, NEW u \in Users, NEW t \in Tokens,
             Phones!Look(r, u, t)
      PROVE  PushInv'
    BY <1>1, LookKeeps
<1>2. ASSUME NEW r \in Registrations,
             \/ Phones!Claim(r) \/ Phones!Ask(r) \/ Phones!Insert(r) \/ Phones!Write(r)
             \/ Phones!Crash(r)
      PROVE  PushInv'
    BY <1>2, ClaimKeeps, AskKeeps, InsertKeeps, WriteKeeps, CrashKeeps
<1>3. ASSUME NEW u \in Users, NEW t \in Tokens, Phones!Deactivate(u, t)
      PROVE  PushInv'
    BY <1>3, DeactivateKeeps
<1>4. ASSUME NEW u \in Users, NEW i \in Phones!Kept \cup {None},
             \/ \E e \in Externals \cup {None} : Phones!Enroll(u, e, i)
             \/ \E m \in Mobiles : Phones!Relink(u, m, i)
      PROVE  PushInv'
    BY <1>4, EnrollKeeps, RelinkKeeps
<1>5. ASSUME NEW t \in Tokens, Phones!Expire(t)
      PROVE  PushInv'
    BY <1>5, ExpireKeeps
<1>6. QED BY <1>1, <1>2, <1>3, <1>4, <1>5 DEF Phones!Next

LEMMA PushHolds == ASSUME PushInv, PushAlone PROVE PushesFindTheirPerson
<1>0. PushTypes
    BY DEF PushInv
<1>1. ASSUME NEW u \in Users, answered[u] # None
      PROVE  \E i \in Phones!With(u, answered[u]) :
                 phone[i].active /\ endpoint[phone[i].arn] \in {answered[u], None}
    <2>1. PICK i \in Phones!With(u, answered[u]) : phone[i].active
        BY <1>1 DEF PushInv, ToldHaveRow
    <2>2. i \in Phones!Kept /\ phone[i].user = u /\ phone[i].token = answered[u]
        BY <2>1 DEF Phones!With, Phones!Of
    <2>3. ~BeingWritten(i)
        <3> SUFFICES ASSUME NEW r \in Registrations, joining[r].phase = "write",
                            joining[r].id = i
                     PROVE  FALSE
            BY DEF BeingWritten
        <3>1. Registering(joining[r]) /\ joining[r] # Phones!Idle
            BY DEF PushInv, Phones!Idle
        <3>2. answered[joining[r].user] = None /\ i \in Phones!Of(joining[r].user)
            BY <3>1 DEF Registering
        <3>3. QED BY <1>1, <2>2, <3>2 DEF Phones!Of
    <2>4. Reaches(i)
        BY <2>2, <2>3 DEF PushInv, RowsReach
    <2>5. QED BY <2>1, <2>2, <2>4 DEF Reaches
<1>2. Phones!PushesReachTheirPhone
    BY <1>1 DEF Phones!PushesReachTheirPhone
<1>3. Phones!LinksAreOwn
    BY DEF PushInv, LinksHold, Phones!LinksAreOwn, Phones!Known
<1>4. QED BY <1>2, <1>3 DEF PushesFindTheirPerson

\* For registrations that do not overlap, a token that no phone leaves while it is
\* being registered, one row for each token and no process that dies between SNS and
\* the row it writes: whoever was told 200 has a row in use for the token, whose
\* endpoint is of that token, and a link is to a row of the device's own person
\* (register_user_device, get_or_recreate_endpoint, MobilityDeviceService).
THEOREM PushesFindTheirPersonAlone ==
    ASSUME PushAlone
    PROVE  BillingSpec => []PushesFindTheirPerson
<1>1. BillingInit => PushInv
    BY PushStarts DEF BillingInit
<1>2. PushInv /\ [BillingNext]_billingVars => PushInv'
    BY PushSteps, PushUnchanged DEF BillingNext, billingVars
<1>3. PushInv => PushesFindTheirPerson
    BY PushHolds
<1>4. QED BY <1>1, <1>2, <1>3, PTL DEF BillingSpec

-----------------------------------------------------------------------------
(* The inbox of Stripe's events.                                           *)
(*                                                                         *)
(* RepeatsNeedErrors is not inductive.  Every exception leaves behind a    *)
(* delivery that will write FAILED, perhaps over a PROCESSED row, and so   *)
(* reopen the event once.  Budget counts what may still be applied: the    *)
(* row if it can be claimed, and one for each such delivery.               *)

Phases == {"away", "arrived", "handling", "raised", "inserts", "updates",
           "200", "500"}

InboxTypes ==
    /\ recorded \in {"none", "FAILED", "PROCESSED"}
    /\ phase \in [Deliveries -> Phases]
    /\ applied \in Nat /\ errors \in Nat /\ aborts \in Nat

\* Deliveries whose handler raised and whose failure record is still to come.
Pending == {d \in Deliveries : phase[d] \in {"raised", "inserts", "updates"}}

\* The row can be claimed, now or by the transaction that holds it.
Reopened == IF recorded = "PROCESSED" THEN 0 ELSE 1

Budget == applied + Reopened + Cardinality(Pending) <= 1 + errors

\* One transaction holds the row, and only one that was not processed.
OneHandler ==
    \A d \in Deliveries :
        Handling(d) => /\ recorded # "PROCESSED"
                       /\ \A e \in Deliveries : Handling(e) => e = d

\* A processed row was applied, and so was what is acknowledged.
AppliedFirst == recorded = "PROCESSED" \/ Acknowledged => applied > 0

InboxInv == InboxTypes /\ OneHandler /\ AppliedFirst /\ Budget

(* The set of pending deliveries is finite, so it can be counted.          *)
LEMMA PendingFinite == IsFiniteSet(Pending) /\ Cardinality(Pending) \in Nat
<1>1. IsFiniteSet(Pending)
  BY InboxAssumption, FS_Subset DEF Pending
<1> QED
  BY <1>1, FS_CardinalityType

(* What a step of d does to the pending deliveries: it may join them,      *)
(* leave them, or do neither.                                              *)
LEMMA PendingStep ==
    ASSUME InboxTypes, NEW d \in Deliveries, NEW next \in Phases, Goes(d, next)
    PROVE  /\ d \notin Pending /\ next = "raised"
              => Cardinality(Pending') = Cardinality(Pending) + 1
           /\ d \in Pending /\ next = "500"
              => Cardinality(Pending') = Cardinality(Pending) - 1
           /\ (d \in Pending <=> next \in {"raised", "inserts", "updates"})
              => Pending' = Pending
<1>1. CASE next \in {"raised", "inserts", "updates"}
  <2>1. Pending' = Pending \cup {d}
    BY <1>1 DEF Pending, Goes, InboxTypes
  <2> QED
    BY <2>1, <1>1, PendingFinite, FS_AddElement
<1>2. CASE next \notin {"raised", "inserts", "updates"}
  <2>1. Pending' = Pending \ {d}
    BY <1>2 DEF Pending, Goes, InboxTypes
  <2> QED
    BY <2>1, <1>2, PendingFinite, FS_RemoveElement
<1> QED
  BY <1>1, <1>2

(* The initial state: nothing arrived, nothing applied.                    *)
LEMMA InboxStarts == Init => InboxInv
<1> SUFFICES ASSUME Init PROVE InboxInv
  OBVIOUS
<1>1. Pending = {}
  BY DEF Init, Pending
<1>2. Cardinality(Pending) = 0
  BY <1>1, FS_EmptySet
<1>3. InboxTypes /\ OneHandler /\ AppliedFirst
  BY DEF Init, InboxTypes, Phases, OneHandler, Handling, AppliedFirst, Acknowledged
<1> QED
  BY <1>2, <1>3 DEF Init, InboxInv, Budget, Reopened

(* Types, the exclusive handler and AppliedFirst are kept by every step.   *)
LEMMA InboxOrder ==
    InboxTypes /\ OneHandler /\ AppliedFirst /\ [Next]_vars
    => InboxTypes' /\ OneHandler' /\ AppliedFirst'
<1> SUFFICES ASSUME InboxTypes, OneHandler, AppliedFirst, [Next]_vars
             PROVE  InboxTypes' /\ OneHandler' /\ AppliedFirst'
  OBVIOUS
<1> USE DEF InboxTypes, Phases, OneHandler, Handling, AppliedFirst, Acknowledged,
            Goes
<1>1. CASE UNCHANGED vars
  BY <1>1 DEF vars
<1>2. ASSUME NEW d \in Deliveries, Send(d)
      PROVE  InboxTypes' /\ OneHandler' /\ AppliedFirst'
  BY <1>2 DEF Send
<1>3. ASSUME NEW d \in Deliveries, Claim(d)
      PROVE  InboxTypes' /\ OneHandler' /\ AppliedFirst'
  BY <1>3 DEF Claim, RowIsFree
<1>4. ASSUME NEW d \in Deliveries, Ignore(d)
      PROVE  InboxTypes' /\ OneHandler' /\ AppliedFirst'
  BY <1>4 DEF Ignore
<1>5. ASSUME NEW d \in Deliveries, Finish(d)
      PROVE  InboxTypes' /\ OneHandler' /\ AppliedFirst'
  BY <1>5 DEF Finish
<1>6. ASSUME NEW d \in Deliveries, Raise(d)
      PROVE  InboxTypes' /\ OneHandler' /\ AppliedFirst'
  BY <1>6 DEF Raise
<1>7. ASSUME NEW d \in Deliveries, LookForRow(d)
      PROVE  InboxTypes' /\ OneHandler' /\ AppliedFirst'
  BY <1>7 DEF LookForRow
<1>8. ASSUME NEW d \in Deliveries, MarkFailed(d)
      PROVE  InboxTypes' /\ OneHandler' /\ AppliedFirst'
  BY <1>8 DEF MarkFailed, RowIsFree
<1>9. ASSUME NEW d \in Deliveries, Abort(d)
      PROVE  InboxTypes' /\ OneHandler' /\ AppliedFirst'
  BY <1>9 DEF Abort
<1> QED
  BY <1>1, <1>2, <1>3, <1>4, <1>5, <1>6, <1>7, <1>8, <1>9 DEF Next, Step

(* No step spends more than the budget.                                    *)
LEMMA InboxBudget == InboxInv /\ [Next]_vars => Budget'
<1> SUFFICES ASSUME InboxInv, [Next]_vars PROVE Budget'
  OBVIOUS
<1> USE PendingFinite DEF InboxInv, InboxTypes, Budget, Reopened
<1> DEFINE Joins(d) == phase[d] \in {"raised", "inserts", "updates"}
<1>0. \A d \in Deliveries : d \in Pending <=> Joins(d)
  BY DEF Pending
<1>1. CASE UNCHANGED vars
  BY <1>1 DEF vars, Pending
<1>2. ASSUME NEW d \in Deliveries, Send(d) PROVE Budget'
  <2>1. Pending' = Pending
    BY <1>2, <1>0, PendingStep DEF Send, Phases
  <2> QED
    BY <1>2, <2>1 DEF Send
<1>3. ASSUME NEW d \in Deliveries, Claim(d) PROVE Budget'
  <2>1. Pending' = Pending
    BY <1>3, <1>0, PendingStep DEF Claim, Phases
  <2> QED
    BY <1>3, <2>1 DEF Claim
<1>4. ASSUME NEW d \in Deliveries, Ignore(d) PROVE Budget'
  <2>1. Pending' = Pending
    BY <1>4, <1>0, PendingStep DEF Ignore, Phases
  <2> QED
    BY <1>4, <2>1 DEF Ignore
<1>5. ASSUME NEW d \in Deliveries, Finish(d) PROVE Budget'
  <2>1. Pending' = Pending
    BY <1>5, <1>0, PendingStep DEF Finish, Handling, Phases
  <2>2. Reopened = 1
    BY <1>5 DEF Finish, OneHandler
  <2> QED
    BY <1>5, <2>1, <2>2 DEF Finish
<1>6. ASSUME NEW d \in Deliveries, Raise(d) PROVE Budget'
  <2>1. Cardinality(Pending') = Cardinality(Pending) + 1
    BY <1>6, <1>0, PendingStep DEF Raise, Handling, Phases
  <2> QED
    BY <1>6, <2>1 DEF Raise
<1>7. ASSUME NEW d \in Deliveries, LookForRow(d) PROVE Budget'
  <2>1. Pending' = Pending
    BY <1>7, <1>0, PendingStep DEF LookForRow, Phases
  <2> QED
    BY <1>7, <2>1 DEF LookForRow
<1>8. ASSUME NEW d \in Deliveries, MarkFailed(d) PROVE Budget'
  <2>1. Cardinality(Pending') = Cardinality(Pending) - 1
    BY <1>8, <1>0, PendingStep DEF MarkFailed, Phases
  <2> QED
    BY <1>8, <2>1 DEF MarkFailed
<1>9. ASSUME NEW d \in Deliveries, Abort(d) PROVE Budget'
  <2>1. Goes(d, "500") /\ "500" \in Phases
    BY <1>9 DEF Abort, Phases
  <2>2. \/ Cardinality(Pending') = Cardinality(Pending) - 1
        \/ Pending' = Pending
    BY <2>1, PendingStep
  <2>3. Cardinality(Pending') <= Cardinality(Pending)
    BY <2>2
  <2>4. Cardinality(Pending') \in Int
    BY <2>2
  <2> QED
    BY <1>9, <2>3, <2>4 DEF Abort
<1> QED
  BY <1>1, <1>2, <1>3, <1>4, <1>5, <1>6, <1>7, <1>8, <1>9 DEF Next, Step

(* The inductive invariant holds throughout.                               *)
THEOREM InboxHolds == Spec => []InboxInv
<1>1. Init => InboxInv
  BY InboxStarts
<1>2. InboxInv /\ [Next]_vars => InboxInv'
  BY InboxOrder, InboxBudget DEF InboxInv
<1> QED
  BY <1>1, <1>2, PTL DEF Spec

(* Stripe is answered 200 only when the event has been applied: no crash,  *)
(* exception or concurrent delivery makes handle_webhook lose an event.    *)
THEOREM AcknowledgedIsAppliedAlways == Spec => []AcknowledgedIsApplied
<1>1. InboxInv => AcknowledgedIsApplied
  BY DEF InboxInv, AppliedFirst, AcknowledgedIsApplied
<1> QED
  BY InboxHolds, <1>1, PTL

(* An event is applied again only after an exception, once for each: with  *)
(* no exceptions, duplicates are no-ops.                                   *)
THEOREM RepeatsNeedErrorsAlways == Spec => []RepeatsNeedErrors
<1>1. InboxInv => RepeatsNeedErrors
  BY PendingFinite DEF InboxInv, InboxTypes, Budget, Reopened, RepeatsNeedErrors
<1> QED
  BY InboxHolds, <1>1, PTL

=============================================================================
