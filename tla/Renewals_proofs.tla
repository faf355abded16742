--------------------------- MODULE Renewals_proofs ---------------------------
(***************************************************************************)
(* Theorems about Renewals, for any number of cron runs, subscriptions,    *)
(* charges and days, and any calendar of retries.                          *)
(*                                                                         *)
(* ChargedOncePerPeriod is not inductive: it says nothing of how the code  *)
(* finds the charge it must not repeat.  The invariant adds that a live    *)
(* charge is named by the payment row of its period or held by a run that  *)
(* has locked the subscription, and that a run holds every live charge of  *)
(* the period it has locked.                                               *)
(*                                                                         *)
(* That time moves with money rests on BooksAgree: a checkout still finds  *)
(* the end it read, and a transaction knows whether its period was paid.   *)
(* That no charge is lost rests on Chained: the subscriptions follow one   *)
(* another a cycle apart and only the newest can have an unpaid period, so *)
(* the payment of a period moves its own row.  That a period in order is   *)
(* tried rests on DaysCost: every day that the cron is done with it and    *)
(* has left no payment, one of its transactions was rolled back.           *)
(***************************************************************************)
EXTENDS Renewals, FiniteSetTheorems, WellFoundedInduction, TLAPS

Held(c) == runs[c].at # Idle

\* A run holds a row it has read as due, and no other run holds that row.
LockOK ==
    /\ \A c \in Runs :
        /\ Held(c) => /\ runs[c].began
                      /\ runs[c].at.sub \in runs[c].pending
                      /\ subs[runs[c].at.sub].status # "none"
        /\ ~runs[c].began => runs[c].pending = {}
    /\ \A c, d \in Runs :
        Held(c) /\ Held(d) /\ c # d => runs[c].at.sub # runs[d].at.sub

\* A charge that took the money or may still take it.
Live(i) == Exists(i) /\ intents[i].status # "failed"

Holds(c, k) == Held(c) /\ Key(runs[c].at.sub) = k

LiveIsKnown ==
    \A i \in IntentIds :
        Live(i) => \/ Payment(intents[i].key).intent = i
                   \/ \E c \in Runs : Holds(c, intents[i].key)

HoldersKnow ==
    \A c \in Runs : \A i \in IntentIds :
        Live(i) /\ Holds(c, intents[i].key) => runs[c].at.pay.intent = i

Safe == LockOK /\ LiveIsKnown /\ HoldersKnow

\* The steps that are not the cron's, and leave the calendar alone.
Outside ==
    \/ \E i \in IntentIds :
        \/ \E status \in {"succeeded", "failed"} : Settle(i, status)
        \/ WebhookSucceeded(i)
        \/ WebhookFailed(i)
        \/ \E kind \in {"succeeded", "failed"} : WebhookUnknown(kind, i)
    \/ \E kind \in {"checkout", "cash"} : OtherReads(kind)
    \/ OtherWrites \/ OtherOpens
    \/ \E on \in BOOLEAN :
        SetAutoRenew(on) \/ \E s \in SubIds : ToggleAutoRenew(s, on)
    \/ \E new \in Cards : ChangeCard(new)

-----------------------------------------------------------------------------
(* Lemmas about the operators of Renewals                                  *)

\* A non-empty set of naturals has a least element.
LEMMA LeastExists ==
    ASSUME NEW S, S \subseteq Nat, S # {}
    PROVE  \E x \in S : \A y \in S : x <= y
<1> DEFINE R == OpToRel(<, Nat)
<1>1. IsWellFoundedOn(R, Nat)
  BY NatLessThanWellFounded
<1>2. \A x, y \in Nat : x < y => <<x, y>> \in R
  BY DEF OpToRel
<1> HIDE DEF R
<1>3. PICK x \in S : \A y \in S : ~ (<<y, x>> \in R)
  BY <1>1, WFMin
<1>4. \A y \in S : x <= y
  <2> TAKE y \in S
  <2>1. x \in Nat /\ y \in Nat
    OBVIOUS
  <2>2. ~ (y < x)
    BY <1>2, <1>3, <2>1
  <2> QED
    BY <2>1, <2>2
<1> QED
  BY <1>4

\* Min of a non-empty set of naturals is its least element.
LEMMA SmallestOf ==
    ASSUME NEW S, S \subseteq Nat, S # {}
    PROVE  Min(S) \in S /\ \A y \in S : Min(S) <= y
  BY LeastExists DEF Min

\* Max of a non-empty set of row ids is its greatest element.
LEMMA LargestOf ==
    ASSUME NEW S, S \subseteq 1..MaxSubs, S # {}
    PROVE  Max(S) \in S /\ \A y \in S : y <= Max(S)
<1> DEFINE D == {MaxSubs - x : x \in S}
<1>1. D \subseteq Nat /\ D # {}
  <2>1. \A x \in S : x \in Int /\ x <= MaxSubs
    BY RenewalAssumption DEF RenewalAssumption
  <2>2. \A x \in S : MaxSubs - x \in Nat
    BY <2>1, RenewalAssumption DEF RenewalAssumption
  <2> QED
    BY <2>2
<1>2. PICK x \in D : \A y \in D : x <= y
  BY <1>1, LeastExists
<1>3. PICK m \in S : x = MaxSubs - m
  BY <1>2
<1>4. \A y \in S : m >= y
  <2> TAKE y \in S
  <2>1. MaxSubs - m <= MaxSubs - y
    BY <1>2, <1>3
  <2>2. MaxSubs \in Nat /\ m \in Nat /\ y \in Nat
    BY RenewalAssumption DEF RenewalAssumption
  <2> QED
    BY <2>1, <2>2
<1>5. \E n \in S : \A y \in S : n >= y
  BY <1>4
<1>6. Max(S) \in S /\ \A y \in S : Max(S) >= y
  BY <1>5 DEF Max
<1> QED
  BY <1>6, RenewalAssumption DEF RenewalAssumption

\* The row that is inserted is the first that is free.
LEMMA FreeSubIsFree ==
    /\ FreeSub # 0 => FreeSub \in SubIds /\ subs[FreeSub].status = "none"
    /\ \A t \in SubIds : subs[t].status = "none" => FreeSub <= t
<1> DEFINE free == {s \in SubIds : subs[s].status = "none"}
<1>1. CASE free = {}
  BY <1>1 DEF FreeSub
<1>2. CASE free # {}
  <2>1. free \subseteq Nat
    BY RenewalAssumption DEF SubIds, RenewalAssumption
  <2>2. FreeSub = Min(free)
    BY <1>2 DEF FreeSub
  <2> HIDE DEF free
  <2>3. FreeSub \in free /\ \A t \in free : FreeSub <= t
    BY <1>2, <2>1, <2>2, SmallestOf
  <2> QED
    BY <2>3 DEF free
<1> QED
  BY <1>1, <1>2

\* The primary subscription is the active one that started last.
LEMMA PrimaryIsActive ==
    /\ Primary # 0 => Primary \in SubIds /\ IsActive(Primary)
    /\ \A s \in SubIds : IsActive(s) => Primary # 0 /\ s <= Primary
<1> DEFINE active == {s \in SubIds : IsActive(s)}
<1>1. CASE active = {}
  BY <1>1 DEF Primary
<1>2. CASE active # {}
  <2>1. active \subseteq 1..MaxSubs
    BY DEF SubIds
  <2>2. Primary = Max(active)
    BY <1>2 DEF Primary
  <2> HIDE DEF active
  <2>3. Primary \in active /\ \A s \in active : s <= Primary
    BY <1>2, <2>1, <2>2, LargestOf
  <2>4. \A s \in active : s \in SubIds /\ IsActive(s) /\ s # 0
    BY DEF active, SubIds
  <2> QED
    BY <2>3, <2>4 DEF active
<1> QED
  BY <1>1, <1>2

\* _activate_subscription touches the primary subscription or a new row.
LEMMA ActivatedType ==
    ASSUME TypeOK
    PROVE  Activated \in [SubIds -> SubRecords]
<1>1. today \in Nat
  BY RenewalAssumption DEF TypeOK, RenewalAssumption
<1>2. \A e \in Nat : NextPeriodEnd(e) \in Nat
  BY <1>1, RenewalAssumption DEF NextPeriodEnd, RenewalAssumption
<1>3. \A e \in Nat : NewSub(e) \in SubRecords
  BY DEF NewSub, NoSub, SubRecords, SubStatus
<1>4. today + Cycle \in Nat
  BY <1>1, RenewalAssumption DEF RenewalAssumption
<1>5. \A x \in SubRecords : Extended(x) \in SubRecords
  BY <1>2 DEF SubRecords, SubStatus, Extended
<1> QED
  BY <1>3, <1>4, <1>5 DEF Activated, TypeOK

\* _activate_subscription leaves every row but its target alone.
LEMMA ActivatedElsewhere ==
    ASSUME TypeOK, CanActivate, NEW h \in SubIds, subs[h].status # "none"
    PROVE  /\ Activated[h].status # "none"
           /\ h # Primary => Activated[h] = subs[h]
<1>1. h # 0
  BY DEF SubIds
<1>2. CASE Primary # 0
  BY <1>2 DEF Activated, TypeOK, SubRecords, SubStatus, Extended
<1>3. CASE Primary = 0
  BY <1>1, <1>3, FreeSubIsFree DEF Activated, TypeOK, CanActivate, NewSub, NoSub
<1> QED
  BY <1>2, <1>3

\* The dunning marks keep the period and never erase a subscription.
LEMMA MarkedType ==
    ASSUME TypeOK, NEW sub \in SubRecords, NEW verdict
    PROVE  /\ Marked(sub, verdict) \in SubRecords
           /\ Marked(sub, verdict).expires = sub.expires
           /\ Marked(sub, verdict).status # "none"
<1>1. today \in Nat /\ Grace \in Nat
  BY RenewalAssumption DEF TypeOK, RenewalAssumption
<1>2. MarkRenewed(sub) \in SubRecords
      /\ MarkRenewed(sub).expires = sub.expires
      /\ MarkRenewed(sub).status # "none"
  BY DEF MarkRenewed, SubRecords, SubStatus
<1>3. today + 1 \in Nat /\ sub.expires + Grace \in Nat
  BY <1>1 DEF SubRecords, SubStatus
<1>4. MarkActionRequired(sub) \in SubRecords
      /\ MarkActionRequired(sub).expires = sub.expires
      /\ MarkActionRequired(sub).status # "none"
  BY <1>3 DEF MarkActionRequired, SubRecords, SubStatus
<1>5. MarkFailed(sub) \in SubRecords
      /\ MarkFailed(sub).expires = sub.expires
      /\ MarkFailed(sub).status # "none"
  <2> DEFINE n == sub.attempts + 1
             previous == IF n > 1 THEN Retry[n - 1] ELSE 0
             next == IF n <= Len(Retry) THEN today + Retry[n] - previous
                     ELSE NoDay
  <2>1. n \in Nat \ {0} /\ sub.expires + Grace \in Nat
    BY <1>1 DEF SubRecords, SubStatus
  <2>2. next \in Nat \cup {NoDay}
    <3>1. CASE n <= Len(Retry) /\ n > 1
      BY <1>1, <2>1, <3>1, RenewalAssumption DEF RenewalAssumption
    <3>2. CASE n <= Len(Retry) /\ n = 1
      BY <1>1, <2>1, <3>2, RenewalAssumption DEF RenewalAssumption
    <3> QED
      BY <2>1, <3>1, <3>2, RenewalAssumption DEF RenewalAssumption
  <2>3. MarkFailed(sub) = [sub EXCEPT !.attempts = n, !.status = "PAST_DUE",
                                     !.grace = sub.expires + Grace,
                                     !.next = next]
    BY DEF MarkFailed
  <2> HIDE DEF n, next
  <2> QED
    BY <2>1, <2>2, <2>3 DEF SubRecords, SubStatus
<1> QED
  BY <1>2, <1>4, <1>5 DEF Marked

Verdicts == {"idle", "paid", "pending", "action", "declined", "unavailable",
             "no_card"}

\* charge_renewal ends in a known verdict with a well-formed payment.
LEMMA VerdictType ==
    ASSUME NEW reply, NEW i \in IntentIds \cup {NoIntent}
    PROVE  Verdict(reply, i).verdict \in Verdicts
           /\ Verdict(reply, i).pay \in PaymentRecords
  BY DEF Verdict, Verdicts, PaymentRecords

\* The payment of a key, with or without a row, is well-formed.
LEMMA PaymentType ==
    ASSUME TypeOK, NEW k
    PROVE  Payment(k) \in PaymentRecords
  BY DEF TypeOK, Payment, PaymentRecords, NoPayment

\* Writing one payment row keeps the table well-formed.
LEMMA WithPaymentType ==
    ASSUME TypeOK, NEW k \in Keys, NEW pay \in PaymentRecords
    PROVE  LET new == WithPayment(k, pay)
           IN  /\ DOMAIN new \subseteq Keys
               /\ \A x \in DOMAIN new : new[x] \in PaymentRecords
  BY DEF TypeOK, WithPayment

\* The idempotency key of a row is one of the keys.
LEMMA KeyType ==
    ASSUME TypeOK, NEW s \in SubIds
    PROVE  Key(s) \in Keys
  BY DEF TypeOK, Key, Keys, SubRecords, SubStatus

-----------------------------------------------------------------------------
(* The types of the variables                                              *)

\* Taking a row keeps the record of the run well-formed.
LEMMA HoldType ==
    ASSUME TypeOK, NEW c \in Runs, NEW s \in SubIds, NEW v,
           v.verdict \in Verdicts, v.pay \in PaymentRecords, Hold(c, s, v)
    PROVE  /\ runs' \in [Runs -> RunRecords]
           /\ runs'[c].at = [sub |-> s, verdict |-> v.verdict, pay |-> v.pay]
           /\ \A d \in Runs : /\ runs'[d].began = runs[d].began
                              /\ runs'[d].pending = runs[d].pending
                              /\ d # c => runs'[d].at = runs[d].at
<1> DEFINE at == [sub |-> s, verdict |-> v.verdict, pay |-> v.pay]
<1>1. at \in [sub: SubIds \cup {0}, pay: PaymentRecords, verdict: Verdicts]
  OBVIOUS
<1>2. runs' = [runs EXCEPT ![c].at = at]
  BY DEF Hold
<1> HIDE DEF at
<1>3. runs' \in [Runs -> RunRecords]
  BY <1>1, <1>2 DEF TypeOK, RunRecords, Verdicts
<1> QED
  BY <1>2, <1>3 DEF at, TypeOK, RunRecords

\* The end of a transaction leaves the run idle, the others as they were.
LEMMA ReleaseType ==
    ASSUME TypeOK, NEW c \in Runs, Release(c)
    PROVE  /\ runs' \in [Runs -> RunRecords]
           /\ runs'[c].at = Idle
           /\ \A d \in Runs : /\ runs'[d].began = runs[d].began
                              /\ runs'[d].pending \subseteq runs[d].pending
                              /\ d # c => runs'[d] = runs[d]
<1>1. Idle \in [sub: SubIds \cup {0}, pay: PaymentRecords, verdict: Verdicts]
  BY DEF Idle, NoPayment, PaymentRecords, Verdicts
<1> QED
  BY <1>1 DEF TypeOK, RunRecords, Release, Verdicts

\* An action that only holds a row with some verdict.
LEMMA OnlyHoldType ==
    ASSUME TypeOK, NEW c \in Runs, NEW s \in SubIds, NEW v,
           v.verdict \in Verdicts, v.pay \in PaymentRecords, Hold(c, s, v),
           UNCHANGED <<today, subs, pays, intents, events, card, other, used>>
    PROVE  TypeOK'
<1>1. runs' \in [Runs -> RunRecords]
  BY HoldType
<1> QED
  BY <1>1 DEF TypeOK

\* Every way charge_renewal may end without a charge.
LEMMA CheckPriorHolds ==
    ASSUME TypeOK, NEW c \in Runs, NEW s \in SubIds, CheckPrior(c, s)
    PROVE  \E verdict \in Verdicts :
           \E status \in {"none", "PENDING", "PROCESSING", "REQUIRES_ACTION",
                          "FAILED", "SUCCESS"} :
             /\ Hold(c, s, [verdict |-> verdict,
                            pay |-> [Payment(Key(s)) EXCEPT !.status = status]])
             /\ status = "SUCCESS"
                  <=> verdict = "paid" \/ Payment(Key(s)).status = "SUCCESS"
<1>1. Payment(Key(s)).status \in {"none", "PENDING", "PROCESSING",
                                  "REQUIRES_ACTION", "FAILED", "SUCCESS"}
  BY PaymentType DEF PaymentRecords
<1> QED
  BY <1>1 DEF CheckPrior, Verdicts

\* Stripe announces only events the code handles.
LEMMA AnnouncedType ==
    ASSUME NEW i \in IntentIds, NEW status
    PROVE  Announced(status, i) \subseteq {"succeeded", "failed"} \X IntentIds
<1>1. CASE status \in {"succeeded", "failed"}
  BY <1>1 DEF Announced
<1>2. CASE status \notin {"succeeded", "failed"}
  BY <1>2 DEF Announced
<1> QED
  BY <1>1, <1>2

\* What a new charge adds.
LEMMA ChargeType ==
    ASSUME TypeOK, NEW c \in Runs, NEW s \in SubIds, NEW reply \in Replies,
           Charge(c, s, reply)
    PROVE  \E i \in IntentIds :
             /\ intents[i].status = "none"
             /\ intents' \in [IntentIds -> IntentRecords]
             /\ intents'[i].status = StatusOf(reply)
             /\ intents'[i].key = Key(s)
             /\ \A j \in IntentIds \ {i} : intents'[j] = intents[j]
             /\ events' \subseteq {"succeeded", "failed"} \X IntentIds
             /\ Hold(c, s, Verdict(reply, i))
<1> DEFINE i == CHOOSE j \in FreeIntents : TRUE
           new == [status |-> StatusOf(reply), key |-> Key(s),
                   attempt |-> subs[s].attempts + 1, card |-> card,
                   day |-> today,
                   reply |-> IF reply = "lost" THEN "succeeded" ELSE reply]
<1>1. i \in IntentIds /\ intents[i].status = "none"
  BY DEF Charge, FreeIntents
<1>2. /\ intents' = [intents EXCEPT ![i] = new]
      /\ events' = events \cup Announced(StatusOf(reply), i)
      /\ Hold(c, s, Verdict(reply, i))
  BY DEF Charge
<1>3. new \in IntentRecords
  <2>1. reply \in {"succeeded", "processing", "requires_action", "declined",
                   "unreachable", "lost"} /\ reply # "unreachable"
    BY RenewalAssumption DEF RenewalAssumption, Charge
  <2>2. StatusOf(reply) \in {"succeeded", "processing", "requires_action",
                             "failed"}
    BY <2>1 DEF StatusOf
  <2>3. subs[s].attempts + 1 \in Nat /\ today \in Nat /\ card \in Cards
    BY RenewalAssumption DEF TypeOK, SubRecords, SubStatus, RenewalAssumption
  <2>4. Key(s) \in Keys
    BY KeyType
  <2>5. (IF reply = "lost" THEN "succeeded" ELSE reply)
            \in {"succeeded", "processing", "requires_action", "declined"}
    BY <2>1
  <2> QED
    BY <2>2, <2>3, <2>4, <2>5 DEF IntentRecords
<1>4. new.status = StatusOf(reply) /\ new.key = Key(s)
  OBVIOUS
<1>5. Announced(StatusOf(reply), i) \subseteq {"succeeded", "failed"} \X IntentIds
  BY <1>1, AnnouncedType
<1> HIDE DEF i, new
<1>6. intents' \in [IntentIds -> IntentRecords]
  BY <1>1, <1>2, <1>3 DEF TypeOK
<1>7. events' \subseteq {"succeeded", "failed"} \X IntentIds
  BY <1>2, <1>5 DEF TypeOK
<1> QED
  BY <1>1, <1>2, <1>4, <1>6, <1>7 DEF TypeOK

\* Nobody has read anything.
LEMMA NobodyType ==
    Nobody \in [kind: {"none", "checkout", "cash"}, sub: SubIds \cup {0},
                status: SubStatus, expires: Nat]
  BY DEF Nobody, SubStatus

\* The initial tables are well-formed.
LEMMA TypeInit == Init => TypeOK
<1> SUFFICES ASSUME Init PROVE TypeOK
  OBVIOUS
<1>1. 0 \in 0..MaxDay /\ FirstExpiry \in Nat /\ 1 \in SubIds
  BY RenewalAssumption DEF RenewalAssumption, SubIds
<1>2. subs \in [SubIds -> SubRecords]
  BY <1>1 DEF Init, NewSub, NoSub, SubRecords, SubStatus
<1>3. DOMAIN pays = {}
  BY DEF Init
<1>4. intents \in [IntentIds -> IntentRecords]
  <2>1. card \in Cards /\ <<1, 0>> \in Keys
    BY <1>1 DEF Init, Keys
  <2>2. (CHOOSE c \in Cards : TRUE) \in Cards
    BY <2>1
  <2> QED
    BY <2>1, <2>2 DEF Init, IntentRecords
<1>5. runs \in [Runs -> RunRecords]
  BY DEF Init, RunRecords, Idle, NoPayment, PaymentRecords
<1>6. other \in [kind: {"none", "checkout", "cash"}, sub: SubIds \cup {0},
                 status: SubStatus, expires: Nat]
  BY NobodyType DEF Init
<1>7. used \in [rollbacks: Nat, others: Nat]
  BY DEF Init
<1> QED
  BY <1>1, <1>2, <1>3, <1>4, <1>5, <1>6, <1>7 DEF Init, TypeOK

\* Every step of the cron, of Stripe and of the customer keeps the types.
LEMMA TypeStep == TypeOK /\ LockOK /\ [Next]_vars => TypeOK'
<1> SUFFICES ASSUME TypeOK, LockOK, [Next]_vars PROVE TypeOK'
  OBVIOUS
<1>1. ASSUME NEW c \in Runs, SelectDue(c) PROVE TypeOK'
  <2>1. runs' = [runs EXCEPT ![c] = [began |-> TRUE, at |-> Idle,
                                     pending |-> {s \in SubIds : Due(s)}]]
    BY <1>1 DEF SelectDue
  <2>2. Idle \in [sub: SubIds \cup {0}, pay: PaymentRecords, verdict: Verdicts]
    BY DEF Idle, NoPayment, PaymentRecords, Verdicts
  <2>3. {s \in SubIds : Due(s)} \in SUBSET SubIds
    OBVIOUS
  <2>4. runs' \in [Runs -> RunRecords]
    BY <2>1, <2>2, <2>3 DEF TypeOK, RunRecords, Verdicts
  <2> QED
    BY <1>1, <2>4 DEF SelectDue, TypeOK
<1>2. ASSUME NEW c \in Runs, Commit(c) PROVE TypeOK'
  <2> DEFINE at == runs[c].at
             extended == IF at.verdict = "paid"
                            /\ Payment(Key(at.sub)).status # "SUCCESS"
                         THEN Activated ELSE subs
  <2>1. at.pay \in PaymentRecords /\ at.sub \in SubIds
    BY <1>2 DEF Commit, LockOK, Held, TypeOK, RunRecords
  <2>2. extended \in [SubIds -> SubRecords]
    BY ActivatedType DEF TypeOK
  <2>3. subs' = [extended EXCEPT ![at.sub] = Marked(@, at.verdict)]
    BY <1>2 DEF Commit
  <2> HIDE DEF extended
  <2>4. subs' \in [SubIds -> SubRecords]
    BY <2>2, <2>3, MarkedType
  <2>5. /\ DOMAIN pays' \subseteq Keys
        /\ \A k \in DOMAIN pays' : pays'[k] \in PaymentRecords
    <3>1. CASE at.pay = NoPayment
      BY <1>2, <3>1 DEF Commit, TypeOK
    <3>2. CASE at.pay # NoPayment
      <4>1. pays' = WithPayment(Key(at.sub), at.pay)
        BY <1>2, <3>2 DEF Commit
      <4> QED
        BY <4>1, <3>2, <2>1, KeyType, WithPaymentType
    <3> QED
      BY <3>1, <3>2
  <2>6. runs' \in [Runs -> RunRecords]
    BY <1>2, ReleaseType DEF Commit
  <2> QED
    BY <1>2, <2>4, <2>5, <2>6 DEF Commit, TypeOK
<1>3. ASSUME NEW c \in Runs, Rollback(c) PROVE TypeOK'
  <2>1. runs' \in [Runs -> RunRecords]
    BY <1>3, ReleaseType DEF Rollback
  <2>2. used' \in [rollbacks: Nat, others: Nat]
    BY <1>3 DEF Rollback, TypeOK
  <2> QED
    BY <1>3, <2>1, <2>2 DEF Rollback, TypeOK
<1>4. ASSUME NEW c \in Runs, NEW s \in SubIds, TurnAway(c, s) PROVE TypeOK'
  <2>1. runs' \in [Runs -> RunRecords]
    BY <1>4 DEF TurnAway, TypeOK, RunRecords
  <2> QED
    BY <1>4, <2>1 DEF TurnAway, TypeOK
<1>5. ASSUME NEW c \in Runs, NEW s \in SubIds, CheckPrior(c, s) PROVE TypeOK'
  <2>1. PICK verdict \in Verdicts,
             status \in {"none", "PENDING", "PROCESSING", "REQUIRES_ACTION",
                         "FAILED", "SUCCESS"} :
          Hold(c, s, [verdict |-> verdict,
                      pay |-> [Payment(Key(s)) EXCEPT !.status = status]])
    BY <1>5, CheckPriorHolds
  <2> DEFINE v == [verdict |-> verdict,
                   pay |-> [Payment(Key(s)) EXCEPT !.status = status]]
  <2>2. v.verdict \in Verdicts /\ v.pay \in PaymentRecords
    BY PaymentType DEF PaymentRecords
  <2>3. UNCHANGED <<today, subs, pays, intents, events, card, other, used>>
    BY <1>5 DEF CheckPrior
  <2>4. Hold(c, s, v)
    BY <2>1
  <2> HIDE DEF v
  <2> QED
    BY <2>2, <2>3, <2>4, OnlyHoldType
<1>6. ASSUME NEW c \in Runs, NEW s \in SubIds, ChargeReplayed(c, s)
      PROVE  TypeOK'
  <2>1. PICK i, reply :
          i \in IntentIds /\ Hold(c, s, Verdict(reply, i))
    BY <1>6 DEF ChargeReplayed, Remembered
  <2> QED
    BY <1>6, <2>1, VerdictType, OnlyHoldType DEF ChargeReplayed
<1>7. ASSUME NEW c \in Runs, NEW s \in SubIds, ChargeUnreachable(c, s)
      PROVE  TypeOK'
  BY <1>7, VerdictType, OnlyHoldType DEF ChargeUnreachable
<1>8. ASSUME NEW c \in Runs, NEW s \in SubIds, NEW reply \in Replies,
             Charge(c, s, reply)
      PROVE  TypeOK'
  <2>1. PICK i \in IntentIds :
          /\ intents' \in [IntentIds -> IntentRecords]
          /\ events' \subseteq {"succeeded", "failed"} \X IntentIds
          /\ Hold(c, s, Verdict(reply, i))
    BY <1>8, ChargeType
  <2>2. runs' \in [Runs -> RunRecords]
    BY <2>1, VerdictType, HoldType
  <2> QED
    BY <1>8, <2>1, <2>2 DEF Charge, TypeOK
<1>9. ASSUME NEW i \in IntentIds, NEW status \in {"succeeded", "failed"},
             Settle(i, status)
      PROVE  TypeOK'
  <2>1. intents' \in [IntentIds -> IntentRecords]
    BY <1>9 DEF Settle, TypeOK, IntentRecords
  <2>2. events' \subseteq {"succeeded", "failed"} \X IntentIds
    BY <1>9, AnnouncedType DEF Settle, TypeOK
  <2> QED
    BY <1>9, <2>1, <2>2 DEF Settle, TypeOK
<1>10. ASSUME NEW i \in IntentIds, WebhookSucceeded(i) PROVE TypeOK'
  <2>1. intents[i].key \in DOMAIN pays
    BY <1>10 DEF WebhookSucceeded, IsLocal, Payment, NoPayment, NoIntent,
                 IntentIds
  <2>2. [pays[intents[i].key] EXCEPT !.status = "SUCCESS"] \in PaymentRecords
        /\ intents[i].key \in Keys
    BY <2>1 DEF TypeOK, PaymentRecords
  <2>3. /\ DOMAIN pays' \subseteq Keys
        /\ \A k \in DOMAIN pays' : pays'[k] \in PaymentRecords
    BY <1>10, <2>2, WithPaymentType DEF WebhookSucceeded
  <2>4. subs' \in [SubIds -> SubRecords]
    BY <1>10, ActivatedType DEF WebhookSucceeded, TypeOK
  <2> QED
    BY <1>10, <2>3, <2>4 DEF WebhookSucceeded, TypeOK
<1>11. ASSUME NEW i \in IntentIds, WebhookFailed(i) PROVE TypeOK'
  <2>1. intents[i].key \in DOMAIN pays
    BY <1>11 DEF WebhookFailed, IsLocal, Payment, NoPayment, NoIntent,
                 IntentIds
  <2>2. [pays[intents[i].key] EXCEPT !.status = "FAILED"] \in PaymentRecords
        /\ intents[i].key \in Keys
    BY <2>1 DEF TypeOK, PaymentRecords
  <2>3. /\ DOMAIN pays' \subseteq Keys
        /\ \A k \in DOMAIN pays' : pays'[k] \in PaymentRecords
    BY <1>11, <2>2, WithPaymentType DEF WebhookFailed, TypeOK
  <2> QED
    BY <1>11, <2>3 DEF WebhookFailed, TypeOK
<1>12. ASSUME NEW i \in IntentIds, NEW kind \in {"succeeded", "failed"},
              WebhookUnknown(kind, i)
       PROVE  TypeOK'
  BY <1>12 DEF WebhookUnknown, TypeOK
<1>13. ASSUME NEW kind \in {"checkout", "cash"}, OtherReads(kind) PROVE TypeOK'
  <2>1. IF Primary = 0 THEN NoSub.status \in SubStatus /\ NoSub.expires \in Nat
        ELSE /\ Primary \in SubIds
             /\ subs[Primary].status \in SubStatus /\ subs[Primary].expires \in Nat
    BY PrimaryIsActive DEF TypeOK, SubRecords, NoSub, SubStatus
  <2>2. other' \in [kind: {"none", "checkout", "cash"}, sub: SubIds \cup {0},
                    status: SubStatus, expires: Nat]
    BY <1>13, <2>1 DEF OtherReads
  <2>3. used' \in [rollbacks: Nat, others: Nat]
    BY <1>13 DEF OtherReads, TypeOK
  <2> QED
    BY <1>13, <2>2, <2>3 DEF OtherReads, TypeOK
<1>14. ASSUME OtherWrites PROVE TypeOK'
  <2>1. NextPeriodEnd(other.expires) \in Nat
    BY RenewalAssumption DEF TypeOK, NextPeriodEnd, RenewalAssumption
  <2>2. subs' \in [SubIds -> SubRecords]
    <3> DEFINE moved == [subs EXCEPT ![other.sub].expires =
                                        NextPeriodEnd(other.expires)]
    <3>1. moved \in [SubIds -> SubRecords]
      BY <2>1 DEF TypeOK, SubRecords
    <3>2. subs' = [moved EXCEPT ![other.sub].status =
                        IF other.status = "ACTIVE" THEN @ ELSE "ACTIVE"]
      BY <1>14 DEF OtherWrites
    <3> HIDE DEF moved
    <3> QED
      BY <3>1, <3>2 DEF SubRecords, SubStatus
  <2>3. other' = Nobody
    BY <1>14 DEF OtherWrites
  <2> QED
    BY <1>14, <2>2, <2>3, NobodyType DEF OtherWrites, TypeOK
<1>15. ASSUME OtherOpens PROVE TypeOK'
  <2>1. NewSub(today + Cycle) \in SubRecords
    <3>1. today + Cycle \in Nat
      BY RenewalAssumption DEF TypeOK, RenewalAssumption
    <3> QED
      BY <3>1 DEF NewSub, NoSub, SubRecords, SubStatus
  <2>2. subs' \in [SubIds -> SubRecords]
    BY <1>15, <2>1 DEF OtherOpens, TypeOK
  <2>3. other' = Nobody
    BY <1>15 DEF OtherOpens
  <2> QED
    BY <1>15, <2>2, <2>3, NobodyType DEF OtherOpens, TypeOK
<1>16. ASSUME NEW on \in BOOLEAN, SetAutoRenew(on) PROVE TypeOK'
  <2>1. subs' \in [SubIds -> SubRecords]
    BY <1>16 DEF SetAutoRenew, TypeOK, SubRecords
  <2> QED
    BY <1>16, <2>1 DEF SetAutoRenew, TypeOK
<1>17. ASSUME NEW on \in BOOLEAN, NEW s \in SubIds, ToggleAutoRenew(s, on)
       PROVE  TypeOK'
  <2>1. subs' \in [SubIds -> SubRecords]
    BY <1>17 DEF ToggleAutoRenew, TypeOK, SubRecords
  <2> QED
    BY <1>17, <2>1 DEF ToggleAutoRenew, TypeOK
<1>18. ASSUME NEW new \in Cards, ChangeCard(new) PROVE TypeOK'
  BY <1>18 DEF ChangeCard, TypeOK
<1>19. ASSUME Tick PROVE TypeOK'
  <2>1. today' \in 0..MaxDay
    BY <1>19, RenewalAssumption DEF Tick, TypeOK, RenewalAssumption
  <2>2. runs' \in [Runs -> RunRecords]
    BY <1>19 DEF Tick, RunRecords, Idle, NoPayment, PaymentRecords
  <2> QED
    BY <1>19, <2>1, <2>2 DEF Tick, TypeOK
<1>20. CASE UNCHANGED vars
  BY <1>20 DEF vars, TypeOK
<1> QED
  BY <1>1, <1>2, <1>3, <1>4, <1>5, <1>6, <1>7, <1>8, <1>9, <1>10, <1>11,
     <1>12, <1>13, <1>14, <1>15, <1>16, <1>17, <1>18, <1>19, <1>20 DEF Next
-----------------------------------------------------------------------------
(* Locks                                                                   *)

\* A held row is a subscription, and so is not the row 0 of an idle run.
LEMMA HeldIsSub ==
    ASSUME TypeOK, LockOK, NEW c \in Runs
    PROVE  /\ Held(c) => runs[c].at.sub \in SubIds
           /\ \A s \in SubIds : runs[c].at.sub = s => Held(c)
  BY DEF TypeOK, RunRecords, LockOK, Held, Idle, SubIds

\* A run takes a row that is due and free.
LEMMA HoldLock ==
    ASSUME TypeOK, LockOK, NEW c \in Runs, NEW s \in SubIds, NEW v,
           v.verdict \in Verdicts, v.pay \in PaymentRecords,
           CanTake(c, s), Due(s), Hold(c, s, v), subs' = subs
    PROVE  /\ LockOK'
           /\ runs'[c].at = [sub |-> s, verdict |-> v.verdict, pay |-> v.pay]
           /\ \A k : ~Holds(c, k) /\ (Holds(c, k)' <=> k = Key(s))
           /\ \A d \in Runs : d # c =>
                /\ runs'[d].at = runs[d].at
                /\ \A k : Holds(d, k)' <=> Holds(d, k)
<1>1. /\ runs'[c].at = [sub |-> s, verdict |-> v.verdict, pay |-> v.pay]
      /\ \A d \in Runs : /\ runs'[d].began = runs[d].began
                         /\ runs'[d].pending = runs[d].pending
                         /\ d # c => runs'[d].at = runs[d].at
  BY HoldType
<1>2. /\ runs[c].began /\ s \in runs[c].pending /\ runs[c].at = Idle
      /\ subs[s].status # "none"
  BY DEF LockOK, CanTake, Due
<1>3. LockOK'
  BY <1>1, <1>2 DEF LockOK, Held, CanTake, Locked
<1>4. \A d \in Runs : \A k : d # c => (Holds(d, k)' <=> Holds(d, k))
  BY <1>1 DEF Holds, Held, Key
<1>5. runs'[c].at # Idle
  BY <1>1 DEF Idle, SubIds
<1>6. \A k : ~Holds(c, k) /\ (Holds(c, k)' <=> k = Key(s))
  BY <1>1, <1>2, <1>5 DEF Holds, Held, Key
<1> QED
  BY <1>1, <1>3, <1>4, <1>6

\* The rows the other runs hold are not touched by a commit.
LEMMA CommitLock ==
    ASSUME TypeOK, LockOK, NEW c \in Runs, Commit(c)
    PROVE  /\ LockOK'
           /\ \A d \in Runs : d # c => runs'[d] = runs[d]
           /\ \A k : ~Holds(c, k)'
           /\ \A d \in Runs : \A k : d # c => (Holds(d, k)' <=> Holds(d, k))
<1> DEFINE at == runs[c].at
           fulfils == at.verdict = "paid"
                        /\ Payment(Key(at.sub)).status # "SUCCESS"
           extended == IF fulfils THEN Activated ELSE subs
<1>1. Held(c) /\ at.sub \in SubIds
  BY HeldIsSub DEF Commit, Held
<1>2. /\ runs'[c].at = Idle
      /\ \A d \in Runs : /\ runs'[d].began = runs[d].began
                         /\ runs'[d].pending \subseteq runs[d].pending
                         /\ d # c => runs'[d] = runs[d]
  BY ReleaseType DEF Commit
<1>3. /\ subs' = [extended EXCEPT ![at.sub] = Marked(@, at.verdict)]
      /\ fulfils => CanActivate
                    /\ \A d \in Runs \ {c} : runs[d].at.sub # Primary
  BY DEF Commit
<1>4. extended \in [SubIds -> SubRecords]
  BY ActivatedType DEF TypeOK
<1>5. \A d \in Runs : d # c /\ Held(d) =>
        subs'[runs[d].at.sub] = subs[runs[d].at.sub]
  <2> SUFFICES ASSUME NEW d \in Runs, d # c, Held(d)
               PROVE  subs'[runs[d].at.sub] = subs[runs[d].at.sub]
    OBVIOUS
  <2>1. /\ runs[d].at.sub \in SubIds /\ runs[d].at.sub # at.sub
        /\ subs[runs[d].at.sub].status # "none"
    BY <1>1, HeldIsSub DEF LockOK
  <2>2. extended[runs[d].at.sub] = subs[runs[d].at.sub]
    BY <1>3, <2>1, ActivatedElsewhere
  <2> HIDE DEF extended
  <2> QED
    BY <1>3, <1>4, <2>1, <2>2
<1>6. LockOK'
  BY <1>2, <1>5 DEF LockOK, Held
<1>7. \A d \in Runs : \A k : /\ d # c => (Holds(d, k)' <=> Holds(d, k))
                             /\ ~Holds(c, k)'
  BY <1>2, <1>5 DEF Holds, Held, Key
<1> QED
  BY <1>2, <1>6, <1>7

\* SelectDue, TurnAway and Tick neither take a row nor release one.
LEMMA IdleLock ==
    ASSUME TypeOK, LockOK, NEW c \in Runs,
           SelectDue(c) \/ (\E s \in SubIds : TurnAway(c, s)) \/ Tick
    PROVE  LockOK' /\ \A d \in Runs : runs'[d].at = runs[d].at
<1>1. CASE SelectDue(c)
  <2>1. ~Held(c)
    BY <1>1 DEF SelectDue, LockOK
  <2>2. /\ runs'[c].began /\ runs'[c].at = Idle
        /\ \A d \in Runs : d # c => runs'[d] = runs[d]
    BY <1>1 DEF SelectDue, TypeOK
  <2> QED
    BY <1>1, <2>1, <2>2 DEF SelectDue, LockOK, Held
<1>2. ASSUME NEW s \in SubIds, TurnAway(c, s)
      PROVE  LockOK' /\ \A d \in Runs : runs'[d].at = runs[d].at
  <2>1. \A d \in Runs : /\ runs'[d].at = runs[d].at
                        /\ runs'[d].began = runs[d].began
                        /\ d # c => runs'[d].pending = runs[d].pending
                        /\ runs'[d].pending \subseteq runs[d].pending
    BY <1>2 DEF TurnAway, TypeOK, RunRecords
  <2>2. ~Held(c)
    BY <1>2 DEF TurnAway, CanTake, Held
  <2> QED
    BY <1>2, <2>1, <2>2 DEF TurnAway, LockOK, Held
<1>3. CASE Tick
  <2>1. \A d \in Runs : /\ ~Held(d) /\ runs'[d].at = Idle
                        /\ runs'[d].pending = {}
    BY <1>3 DEF Tick, LockOK, Held
  <2> QED
    BY <2>1 DEF LockOK, Held
<1> QED
  BY <1>1, <1>2, <1>3

\* A row nobody holds may change: the held rows are as they were.
LEMMA UnlockedRow ==
    ASSUME TypeOK, LockOK, NEW x, ~Locked(x),
           \A h \in SubIds : h # x => subs'[h] = subs[h]
    PROVE  \A c \in Runs : Held(c) =>
              subs'[runs[c].at.sub] = subs[runs[c].at.sub]
  BY HeldIsSub DEF Locked

\* A payment activates the primary row, if no run holds it, or a free row.
LEMMA ActivatedOutside ==
    ASSUME TypeOK, LockOK, CanActivate, Primary = 0 \/ ~Locked(Primary),
           subs' = Activated
    PROVE  \A c \in Runs : Held(c) =>
              subs'[runs[c].at.sub] = subs[runs[c].at.sub]
<1> SUFFICES ASSUME NEW c \in Runs, Held(c)
             PROVE  subs'[runs[c].at.sub] = subs[runs[c].at.sub]
  OBVIOUS
<1>1. /\ runs[c].at.sub \in SubIds /\ subs[runs[c].at.sub].status # "none"
      /\ runs[c].at.sub # 0
  BY HeldIsSub DEF LockOK, SubIds
<1>2. runs[c].at.sub # Primary
  BY <1>1 DEF Locked
<1> QED
  BY <1>1, <1>2, ActivatedElsewhere

\* The row lock of the cron keeps everybody else out.
LEMMA OutsideLock ==
    ASSUME TypeOK, LockOK, Outside
    PROVE  /\ LockOK'
           /\ runs' = runs
           /\ \A c \in Runs : Held(c) =>
                subs'[runs[c].at.sub] = subs[runs[c].at.sub]
<1> DEFINE Kept == \A c \in Runs : Held(c) =>
                      subs'[runs[c].at.sub] = subs[runs[c].at.sub]
<1>1. runs' = runs
  BY DEF Outside, Settle, WebhookSucceeded, WebhookFailed, WebhookUnknown,
         OtherReads, OtherWrites, OtherOpens, SetAutoRenew, ToggleAutoRenew,
         ChangeCard
<1>2. ASSUME NEW i \in IntentIds, WebhookSucceeded(i) PROVE Kept
  <2>1. CASE pays[intents[i].key].status # "SUCCESS"
    <3>1. CanActivate /\ ~Locked(Primary) /\ subs' = Activated
      BY <1>2, <2>1 DEF WebhookSucceeded
    <3> QED
      BY <3>1, ActivatedOutside
  <2>2. CASE pays[intents[i].key].status = "SUCCESS"
    BY <1>2, <2>2 DEF WebhookSucceeded
  <2> QED
    BY <2>1, <2>2
<1>3. ASSUME OtherWrites PROVE Kept
  <2>1. \A h \in SubIds : h # other.sub => subs'[h] = subs[h]
    BY <1>3 DEF OtherWrites, TypeOK
  <2> QED
    BY <1>3, <2>1, UnlockedRow DEF OtherWrites
<1>4. ASSUME OtherOpens PROVE Kept
  <2>1. FreeSub \in SubIds /\ subs[FreeSub].status = "none"
    BY <1>4, FreeSubIsFree DEF OtherOpens
  <2>2. \A h \in SubIds : h # FreeSub => subs'[h] = subs[h]
    BY <1>4 DEF OtherOpens, TypeOK
  <2> QED
    BY <2>1, <2>2, HeldIsSub DEF LockOK
<1>5. ASSUME NEW on \in BOOLEAN, SetAutoRenew(on) PROVE Kept
  <2>1. \A h \in SubIds : h # Primary => subs'[h] = subs[h]
    BY <1>5 DEF SetAutoRenew, TypeOK
  <2> QED
    BY <1>5, <2>1, UnlockedRow DEF SetAutoRenew
<1>6. ASSUME NEW on \in BOOLEAN, NEW s \in SubIds, ToggleAutoRenew(s, on)
      PROVE  Kept
  <2>1. \A h \in SubIds : h # s => subs'[h] = subs[h]
    BY <1>6 DEF ToggleAutoRenew, TypeOK
  <2> QED
    BY <1>6, <2>1, UnlockedRow DEF ToggleAutoRenew
<1>7. ASSUME subs' = subs PROVE Kept
  BY <1>7
<1>8. Kept
  BY <1>2, <1>3, <1>4, <1>5, <1>6, <1>7
     DEF Outside, Settle, WebhookFailed, WebhookUnknown, OtherReads, ChangeCard
<1>9. LockOK'
  BY <1>1, <1>8 DEF LockOK, Held
<1> QED
  BY <1>1, <1>8, <1>9

\* The steps of Next, grouped as the lemmas are.
LEMMA NextIs ==
    Next <=> \/ Outside \/ Tick
             \/ \E c \in Runs :
                 \/ SelectDue(c) \/ Commit(c) \/ Rollback(c)
                 \/ \E s \in SubIds :
                     \/ TurnAway(c, s) \/ CheckPrior(c, s)
                     \/ ChargeReplayed(c, s) \/ ChargeUnreachable(c, s)
                     \/ \E reply \in Replies : Charge(c, s, reply)
  BY DEF Next, Outside

\* No step lets two runs hold the same subscription row.
LEMMA LockStep ==
    ASSUME TypeOK, LockOK, [Next]_vars
    PROVE  LockOK'
<1>1. CASE Outside
  BY <1>1, OutsideLock
<1>2. ASSUME NEW c \in Runs,
             SelectDue(c) \/ (\E s \in SubIds : TurnAway(c, s))
      PROVE  LockOK'
  BY <1>2, IdleLock
<1>3. CASE Tick
  <2>1. CASE Runs = {}
    BY <2>1 DEF LockOK
  <2>2. ASSUME NEW c \in Runs PROVE LockOK'
    BY <1>3, IdleLock
  <2> QED
    BY <2>1, <2>2
<1>4. ASSUME NEW c \in Runs, Commit(c) PROVE LockOK'
  BY <1>4, CommitLock
<1>5. ASSUME NEW c \in Runs, Rollback(c) PROVE LockOK'
  BY <1>5, ReleaseType DEF Rollback, LockOK, Held
<1>6. ASSUME NEW c \in Runs, NEW s \in SubIds, CheckPrior(c, s) PROVE LockOK'
  <2>1. PICK verdict \in Verdicts,
             status \in {"none", "PENDING", "PROCESSING", "REQUIRES_ACTION",
                         "FAILED", "SUCCESS"} :
          Hold(c, s, [verdict |-> verdict,
                      pay |-> [Payment(Key(s)) EXCEPT !.status = status]])
    BY <1>6, CheckPriorHolds
  <2> DEFINE v == [verdict |-> verdict,
                   pay |-> [Payment(Key(s)) EXCEPT !.status = status]]
  <2>2. v.verdict \in Verdicts /\ v.pay \in PaymentRecords /\ Hold(c, s, v)
    BY <2>1, PaymentType DEF PaymentRecords
  <2> HIDE DEF v
  <2> QED
    BY <1>6, <2>2, HoldLock DEF CheckPrior
<1>7. ASSUME NEW c \in Runs, NEW s \in SubIds, ChargeReplayed(c, s)
      PROVE  LockOK'
  <2>1. PICK i, reply :
          i \in IntentIds /\ Hold(c, s, Verdict(reply, i))
    BY <1>7 DEF ChargeReplayed, Remembered
  <2> QED
    BY <1>7, <2>1, VerdictType, HoldLock DEF ChargeReplayed, MayCharge
<1>8. ASSUME NEW c \in Runs, NEW s \in SubIds, ChargeUnreachable(c, s)
      PROVE  LockOK'
  BY <1>8, VerdictType, HoldLock DEF ChargeUnreachable, MayCharge
<1>9. ASSUME NEW c \in Runs, NEW s \in SubIds, NEW reply \in Replies,
             Charge(c, s, reply)
      PROVE  LockOK'
  <2>1. PICK i \in IntentIds : Hold(c, s, Verdict(reply, i))
    BY <1>9, ChargeType
  <2> QED
    BY <1>9, <2>1, VerdictType, HoldLock DEF Charge, MayCharge
<1>10. CASE UNCHANGED vars
  BY <1>10 DEF vars, LockOK, Held
<1> QED
  BY <1>1, <1>2, <1>3, <1>4, <1>5, <1>6, <1>7, <1>8, <1>9, <1>10, NextIs

-----------------------------------------------------------------------------
(* Live charges are known                                                  *)

\* Steps that hold what was held and create no charge.
LEMMA QuietStep ==
    ASSUME TypeOK, Safe, LockOK',
           \A c \in Runs : /\ runs'[c].at = runs[c].at
                           /\ Held(c) => subs'[runs[c].at.sub].expires
                                           = subs[runs[c].at.sub].expires,
           \A i \in IntentIds :
              Live(i)' => Live(i) /\ intents'[i].key = intents[i].key,
           \A k \in Keys : Payment(k)'.intent = Payment(k).intent
    PROVE  Safe'
<1>1. \A c \in Runs : \A k : Holds(c, k)' <=> Holds(c, k)
  BY DEF Holds, Held, Key
<1>2. \A i \in IntentIds : intents[i].key \in Keys
  BY DEF TypeOK, IntentRecords
<1>3. LiveIsKnown'
  BY <1>1, <1>2 DEF Safe, LiveIsKnown
<1>4. HoldersKnow'
  BY <1>1 DEF Safe, HoldersKnow
<1> QED
  BY <1>3, <1>4 DEF Safe

\* A run that takes row s sees, under its lock, the one live charge there is.
LEMMA LiveIsNamed ==
    ASSUME TypeOK, Safe, NEW s \in SubIds, ~Locked(s), NEW i \in IntentIds,
           Live(i), intents[i].key = Key(s)
    PROVE  Payment(Key(s)).intent = i
<1>1. ASSUME NEW c \in Runs, Holds(c, Key(s)) PROVE FALSE
  BY <1>1 DEF Holds, Key, Locked
<1> QED
  BY <1>1 DEF Safe, LiveIsKnown

\* Before a new charge, every charge of the period has failed.
LEMMA NothingLive ==
    ASSUME TypeOK, Safe, NEW c \in Runs, NEW s \in SubIds, MayCharge(c, s),
           NEW i \in IntentIds, Live(i)
    PROVE  intents[i].key # Key(s)
<1> SUFFICES ASSUME intents[i].key = Key(s) PROVE FALSE
  OBVIOUS
<1>1. Payment(Key(s)).intent = i
  BY LiveIsNamed DEF MayCharge, CanTake
<1>2. i # NoIntent
  BY DEF IntentIds, NoIntent
<1> QED
  BY <1>1, <1>2 DEF MayCharge, Live

\* Steps that take row s for run c and create no charge.
LEMMA HoldStep ==
    ASSUME TypeOK, Safe, NEW c \in Runs, NEW s \in SubIds, NEW v,
           v.verdict \in Verdicts, v.pay \in PaymentRecords,
           CanTake(c, s), Due(s), Hold(c, s, v),
           UNCHANGED <<subs, pays, intents>>,
           \A i \in IntentIds :
              Live(i) /\ intents[i].key = Key(s) => v.pay.intent = i
    PROVE  Safe'
<1>1. /\ LockOK'
      /\ runs'[c].at = [sub |-> s, verdict |-> v.verdict, pay |-> v.pay]
      /\ \A k : ~Holds(c, k) /\ (Holds(c, k)' <=> k = Key(s))
      /\ \A d \in Runs : d # c =>
           /\ runs'[d].at = runs[d].at
           /\ \A k : Holds(d, k)' <=> Holds(d, k)
  BY HoldLock DEF Safe
<1>2. LiveIsKnown'
  BY <1>1 DEF Safe, LiveIsKnown, Live, Exists, Payment
<1>3. HoldersKnow'
  BY <1>1 DEF Safe, HoldersKnow, Live, Exists
<1> QED
  BY <1>1, <1>2, <1>3 DEF Safe

(* A new charge is held by the run that made it, and is the only live one  *)
(* of its period.                                                          *)
LEMMA ChargeStep ==
    ASSUME TypeOK, Safe, "lost" \notin Replies,
           NEW c \in Runs, NEW s \in SubIds, NEW reply \in Replies,
           Charge(c, s, reply)
    PROVE  Safe'
<1>1. PICK i \in IntentIds :
        /\ intents[i].status = "none"
        /\ intents'[i].status = StatusOf(reply)
        /\ intents'[i].key = Key(s)
        /\ \A j \in IntentIds \ {i} : intents'[j] = intents[j]
        /\ Hold(c, s, Verdict(reply, i))
  BY ChargeType
<1>2. /\ subs' = subs /\ pays' = pays
      /\ MayCharge(c, s) /\ CanTake(c, s) /\ Due(s)
  BY DEF Charge, MayCharge
<1>3. /\ LockOK'
      /\ runs'[c].at = [sub |-> s, verdict |-> Verdict(reply, i).verdict,
                        pay |-> Verdict(reply, i).pay]
      /\ \A k : ~Holds(c, k) /\ (Holds(c, k)' <=> k = Key(s))
      /\ \A d \in Runs : d # c =>
           /\ runs'[d].at = runs[d].at
           /\ \A k : Holds(d, k)' <=> Holds(d, k)
  BY <1>1, <1>2, VerdictType, HoldLock DEF Safe
<1>4. \A j \in IntentIds \ {i} :
        (Live(j)' <=> Live(j)) /\ intents'[j].key = intents[j].key
  BY <1>1 DEF Live, Exists
<1>5. LiveIsKnown'
  BY <1>1, <1>2, <1>3, <1>4 DEF Safe, LiveIsKnown, Payment
<1>6. HoldersKnow'
  <2> SUFFICES ASSUME NEW d \in Runs, NEW j \in IntentIds,
                      Live(j)', Holds(d, intents[j].key)'
               PROVE  runs'[d].at.pay.intent = j
    BY DEF HoldersKnow
  <2>1. CASE d = c /\ j = i
    <3>1. reply \in {"succeeded", "processing", "requires_action", "declined"}
      BY RenewalAssumption DEF RenewalAssumption, Charge
    <3>2. Verdict(reply, i).pay.intent = i
      BY <3>1 DEF Verdict
    <3> QED
      BY <1>3, <2>1, <3>2
  <2>2. CASE d = c /\ j # i
    BY <1>2, <1>3, <1>4, <2>2, NothingLive
  <2>3. CASE d # c /\ j = i
    <3>1. Holds(d, Key(s))
      BY <1>1, <1>3, <2>3
    <3> QED
      BY <1>2, <3>1 DEF Holds, Key, CanTake, Locked
  <2>4. CASE d # c /\ j # i
    BY <1>3, <1>4, <2>4 DEF Safe, HoldersKnow
  <2> QED
    BY <2>1, <2>2, <2>3, <2>4
<1> QED
  BY <1>3, <1>5, <1>6 DEF Safe

\* The payment row that is committed names the live charge it was made for.
LEMMA CommitStep ==
    ASSUME TypeOK, Safe, NEW c \in Runs, Commit(c)
    PROVE  Safe'
<1> DEFINE at == runs[c].at
<1>1. /\ LockOK'
      /\ \A d \in Runs : d # c => runs'[d] = runs[d]
      /\ \A k : ~Holds(c, k)'
      /\ \A d \in Runs : \A k : d # c => (Holds(d, k)' <=> Holds(d, k))
  BY CommitLock DEF Safe
<1>2. /\ Held(c) /\ intents' = intents
      /\ pays' = IF at.pay = NoPayment THEN pays
                 ELSE WithPayment(Key(at.sub), at.pay)
  BY DEF Commit, Held
<1>3. LiveIsKnown'
  <2> SUFFICES ASSUME NEW i \in IntentIds, Live(i)
               PROVE  \/ Payment(intents[i].key)'.intent = i
                      \/ \E d \in Runs : Holds(d, intents[i].key)'
    BY <1>2 DEF LiveIsKnown, Live, Exists, Payment
  <2>1. CASE intents[i].key = Key(at.sub)
    <3>1. at.pay.intent = i
      BY <1>2, <2>1 DEF Safe, HoldersKnow, Holds
    <3>2. at.pay # NoPayment
      BY <3>1 DEF NoPayment, NoIntent, IntentIds
    <3> QED
      BY <1>2, <2>1, <3>1, <3>2 DEF Payment, WithPayment
  <2>2. CASE intents[i].key # Key(at.sub)
    <3>1. Payment(intents[i].key)' = Payment(intents[i].key)
      BY <1>2, <2>2 DEF Payment, WithPayment
    <3>2. CASE Payment(intents[i].key).intent = i
      BY <3>1, <3>2
    <3>3. ASSUME NEW d \in Runs, Holds(d, intents[i].key)
          PROVE  Holds(d, intents[i].key)'
      <4>1. d # c
        BY <2>2, <3>3 DEF Holds
      <4>2. \A k : Holds(d, k)' <=> Holds(d, k)
        BY <1>1, <4>1
      <4> QED
        BY <1>2, <3>3, <4>2 DEF Holds, Key
    <3> QED
      BY <3>2, <3>3 DEF Safe, LiveIsKnown
  <2> QED
    BY <2>1, <2>2
<1>4. HoldersKnow'
  BY <1>1, <1>2 DEF Safe, HoldersKnow, Live, Exists
<1> QED
  BY <1>1, <1>3, <1>4 DEF Safe

\* Webhooks, other payments and the customer.
LEMMA OutsideStep ==
    ASSUME TypeOK, Safe, Outside
    PROVE  Safe'
<1>1. /\ LockOK' /\ runs' = runs
      /\ \A c \in Runs : Held(c) =>
           subs'[runs[c].at.sub] = subs[runs[c].at.sub]
  BY OutsideLock DEF Safe
<1>2. ASSUME NEW i \in IntentIds, NEW status \in {"succeeded", "failed"},
             Settle(i, status)
      PROVE  Safe'
  <2>1. \A j \in IntentIds :
          Live(j)' => Live(j) /\ intents'[j].key = intents[j].key
    BY <1>2 DEF Settle, TypeOK, IntentRecords, Live, Exists
  <2> QED
    BY <1>1, <1>2, <2>1, QuietStep DEF Settle, Payment
<1>3. ASSUME NEW i \in IntentIds, WebhookSucceeded(i) \/ WebhookFailed(i)
      PROVE  Safe'
  <2>1. intents[i].key \in DOMAIN pays
    BY <1>3 DEF WebhookSucceeded, WebhookFailed, IsLocal, Payment, NoPayment,
                NoIntent, IntentIds
  <2>2. \A x \in Keys : Payment(x)'.intent = Payment(x).intent
    BY <1>3, <2>1 DEF WebhookSucceeded, WebhookFailed, WithPayment, Payment,
                      TypeOK, PaymentRecords
  <2>3. intents' = intents
    BY <1>3 DEF WebhookSucceeded, WebhookFailed
  <2> QED
    BY <1>1, <2>2, <2>3, QuietStep DEF Live, Exists
<1>4. CASE UNCHANGED <<pays, intents>>
  BY <1>1, <1>4, QuietStep DEF Live, Exists, Payment
<1> QED
  BY <1>2, <1>3, <1>4
     DEF Outside, WebhookUnknown, OtherReads, OtherWrites, OtherOpens,
         SetAutoRenew, ToggleAutoRenew, ChangeCard

\* At first there is no charge and no run holds a row.
LEMMA SafeInit == Init => Safe
<1> SUFFICES ASSUME Init PROVE Safe
  OBVIOUS
<1>1. \A c \in Runs : ~Held(c) /\ runs[c].pending = {}
  BY DEF Init, Held
<1>2. \A i \in IntentIds : ~Live(i)
  BY DEF Init, Live, Exists
<1> QED
  BY <1>1, <1>2 DEF Safe, LockOK, LiveIsKnown, HoldersKnow

(* Without lost answers and lost transactions every step keeps the live    *)
(* charges known.                                                          *)
LEMMA SafeStep ==
    ASSUME MaxRollbacks = 0, "lost" \notin Replies,
           TypeOK, Safe, [Next]_vars
    PROVE  Safe'
<1>1. CASE Outside
  BY <1>1, OutsideStep
<1>2. ASSUME NEW c \in Runs,
             SelectDue(c) \/ (\E s \in SubIds : TurnAway(c, s)) \/ Tick
      PROVE  Safe'
  <2>1. LockOK' /\ \A d \in Runs : runs'[d].at = runs[d].at
    BY <1>2, IdleLock DEF Safe
  <2>2. UNCHANGED <<subs, pays, intents>>
    BY <1>2 DEF SelectDue, TurnAway, Tick
  <2> QED
    BY <2>1, <2>2, QuietStep DEF Live, Exists, Payment
<1>3. CASE Tick /\ Runs = {}
  BY <1>3 DEF Tick, Safe, LockOK, LiveIsKnown, HoldersKnow, Live, Exists,
              Payment
<1>4. ASSUME NEW c \in Runs, Commit(c) PROVE Safe'
  BY <1>4, CommitStep
<1>5. ASSUME NEW c \in Runs, Rollback(c) PROVE Safe'
  BY <1>5 DEF Rollback, TypeOK
<1>6. ASSUME NEW c \in Runs, NEW s \in SubIds, CheckPrior(c, s) PROVE Safe'
  <2>1. PICK verdict \in Verdicts,
             status \in {"none", "PENDING", "PROCESSING", "REQUIRES_ACTION",
                         "FAILED", "SUCCESS"} :
          Hold(c, s, [verdict |-> verdict,
                      pay |-> [Payment(Key(s)) EXCEPT !.status = status]])
    BY <1>6, CheckPriorHolds
  <2> DEFINE v == [verdict |-> verdict,
                   pay |-> [Payment(Key(s)) EXCEPT !.status = status]]
  <2>2. /\ v.verdict \in Verdicts /\ v.pay \in PaymentRecords
        /\ v.pay.intent = Payment(Key(s)).intent
        /\ Hold(c, s, v)
    BY <2>1, PaymentType DEF PaymentRecords
  <2>3. UNCHANGED <<subs, pays, intents>> /\ CanTake(c, s) /\ Due(s)
    BY <1>6 DEF CheckPrior
  <2>4. \A i \in IntentIds :
          Live(i) /\ intents[i].key = Key(s) => v.pay.intent = i
    BY <2>2, <2>3, LiveIsNamed DEF CanTake
  <2> HIDE DEF v
  <2> QED
    BY <2>2, <2>3, <2>4, HoldStep
<1>7. ASSUME NEW c \in Runs, NEW s \in SubIds,
             ChargeReplayed(c, s) \/ ChargeUnreachable(c, s)
      PROVE  Safe'
  <2>1. PICK i, reply :
          i \in IntentIds \cup {NoIntent} /\ Hold(c, s, Verdict(reply, i))
    BY <1>7 DEF ChargeReplayed, ChargeUnreachable, Remembered
  <2>2. /\ UNCHANGED <<subs, pays, intents>>
        /\ MayCharge(c, s) /\ CanTake(c, s) /\ Due(s)
    BY <1>7 DEF ChargeReplayed, ChargeUnreachable, MayCharge
  <2> QED
    BY <2>1, <2>2, VerdictType, NothingLive, HoldStep
<1>8. ASSUME NEW c \in Runs, NEW s \in SubIds, NEW reply \in Replies,
             Charge(c, s, reply)
      PROVE  Safe'
  BY <1>8, ChargeStep
<1>9. CASE UNCHANGED vars
  BY <1>9 DEF vars, Safe, LockOK, LiveIsKnown, HoldersKnow, Live, Exists,
              Payment, Holds, Held, Key
<1> QED
  BY <1>1, <1>2, <1>3, <1>4, <1>5, <1>6, <1>7, <1>8, <1>9, NextIs

-----------------------------------------------------------------------------
(* Time and money                                                          *)

(* What a transaction believes of the payment it holds is what the table   *)
(* says, and what a checkout has read of its subscription still stands.    *)
RowsAgree == \A s \in SubIds : subs[s].status = "none" => subs[s].expires = 0
OtherAgrees ==
    /\ other # Nobody => other.kind \in {"checkout", "cash"}
    /\ other.sub # 0 => subs[other.sub].status # "none"
    /\ other.sub # 0 /\ other.kind = "checkout"
         => subs[other.sub].expires = other.expires
Believes(at) ==
    at.pay.status = "SUCCESS"
        <=> at.verdict = "paid" \/ Payment(Key(at.sub)).status = "SUCCESS"
HeldAgree == \A c \in Runs : Held(c) => Believes(runs[c].at)
BooksAgree == RowsAgree /\ OtherAgrees /\ HeldAgree

\* Neither time nor money.
LEMMA NothingMoves ==
    ASSUME \A s \in SubIds : subs'[s].expires = subs[s].expires,
           Paid' = Paid, ~OtherPaid
    PROVE  MovesWithMoney
<1>1. Moved = {} /\ Paid' \ Paid = {}
  BY DEF Moved
<1>2. Cardinality(Moved) = 0 /\ Cardinality(Paid' \ Paid) = 0
  BY <1>1, FS_EmptySet
<1> QED
  BY <1>1, <1>2 DEF MovesWithMoney

\* One period moves a cycle, for one payment.
LEMMA OneMoves ==
    ASSUME NEW x \in SubIds, subs[x].expires \in Nat, subs'[x].expires \in Int,
           subs'[x].expires >= today + Cycle,
           subs'[x].expires >= subs[x].expires + Cycle,
           \A s \in SubIds : s # x => subs'[s].expires = subs[s].expires,
           \/ Paid' = Paid /\ OtherPaid
           \/ ~OtherPaid /\ Paid \subseteq Paid' /\ \E k : Paid' \ Paid = {k}
    PROVE  MovesWithMoney
<1>1. Cycle \in Nat \ {0}
  BY RenewalAssumption DEF RenewalAssumption
<1>2. subs'[x].expires # subs[x].expires
  BY <1>1
<1>3. Moved = {x}
  BY <1>2 DEF Moved
<1>4. Cardinality(Moved) = 1
  BY <1>3, FS_Singleton
<1>5. CASE Paid' = Paid /\ OtherPaid
  <2>1. Cardinality(Paid' \ Paid) = 0
    BY <1>5, FS_EmptySet
  <2> QED
    BY <1>3, <1>4, <1>5, <2>1 DEF MovesWithMoney
<1>6. CASE ~OtherPaid /\ Paid \subseteq Paid' /\ \E k : Paid' \ Paid = {k}
  <2>1. Cardinality(Paid' \ Paid) = 1
    BY <1>6, FS_Singleton
  <2> QED
    BY <1>3, <1>4, <1>6, <2>1 DEF MovesWithMoney
<1> QED
  BY <1>5, <1>6

\* _activate_subscription moves the end of one subscription by a cycle.
LEMMA ActivatedMoves ==
    ASSUME TypeOK, RowsAgree, CanActivate
    PROVE  \E x \in SubIds :
             /\ Activated[x].expires >= today + Cycle
             /\ Activated[x].expires >= subs[x].expires + Cycle
             /\ Activated[x].status = "ACTIVE"
             /\ \A h \in SubIds : h # x => Activated[h] = subs[h]
<1>1. today \in Nat /\ Cycle \in Nat
  BY RenewalAssumption DEF TypeOK, RenewalAssumption
<1>2. CASE Primary # 0
  <2>1. PICK p \in SubIds : p = Primary
    BY <1>2, PrimaryIsActive
  <2>2. Activated = [subs EXCEPT ![p] = Extended(@)]
    BY <1>2, <2>1 DEF Activated
  <2>3. subs[p] \in SubRecords /\ subs[p].expires \in Nat
    BY DEF TypeOK, SubRecords
  <2>4. /\ Activated[p] = Extended(subs[p])
        /\ \A h \in SubIds : h # p => Activated[h] = subs[h]
    BY <2>2 DEF TypeOK
  <2>5. /\ Extended(subs[p]).expires = NextPeriodEnd(subs[p].expires)
        /\ Extended(subs[p]).status = "ACTIVE"
    BY <2>3 DEF Extended, SubRecords
  <2>6. /\ NextPeriodEnd(subs[p].expires) >= today + Cycle
        /\ NextPeriodEnd(subs[p].expires) >= subs[p].expires + Cycle
    BY <1>1, <2>3 DEF NextPeriodEnd
  <2> QED
    BY <2>4, <2>5, <2>6
<1>3. CASE Primary = 0
  <2>1. PICK f \in SubIds : f = FreeSub /\ subs[f].status = "none"
    BY <1>3, FreeSubIsFree DEF CanActivate
  <2>2. Activated = [subs EXCEPT ![f] = NewSub(today + Cycle)]
    BY <1>3, <2>1 DEF Activated
  <2>3. /\ Activated[f] = NewSub(today + Cycle)
        /\ \A h \in SubIds : h # f => Activated[h] = subs[h]
    BY <2>2 DEF TypeOK
  <2>4. NewSub(today + Cycle).expires = today + Cycle
        /\ NewSub(today + Cycle).status = "ACTIVE"
    BY DEF NewSub, NoSub
  <2>5. subs[f].expires = 0
    BY <2>1 DEF RowsAgree
  <2> QED
    BY <1>1, <2>3, <2>4, <2>5
<1> QED
  BY <1>2, <1>3

\* A transaction believes what it did while its row and payment stay.
LEMMA HeldStay ==
    ASSUME HeldAgree,
           \A c \in Runs : Held(c)' =>
              /\ Held(c) /\ runs'[c].at = runs[c].at
              /\ subs'[runs[c].at.sub].expires = subs[runs[c].at.sub].expires
              /\ \A k : k[1] = runs[c].at.sub => Payment(k)' = Payment(k)
    PROVE  HeldAgree'
<1> SUFFICES ASSUME NEW c \in Runs, Held(c)'
             PROVE  Believes(runs[c].at)'
  BY DEF HeldAgree
<1>1. PICK at : at = runs[c].at
  OBVIOUS
<1>2. Held(c) /\ runs'[c].at = at /\ Key(at.sub)' = Key(at.sub) /\ Key(at.sub)[1] = at.sub
  BY <1>1 DEF Key
<1>3. Payment(Key(at.sub))' = Payment(Key(at.sub))
  BY <1>1, <1>2
<1>4. Believes(at)
  BY <1>1, <1>2 DEF HeldAgree
<1> QED
  BY <1>2, <1>3, <1>4 DEF Believes

\* A transaction that takes row s.
LEMMA HoldAgrees ==
    ASSUME TypeOK, HeldAgree, NEW c \in Runs, NEW s \in SubIds, NEW v,
           v.verdict \in Verdicts, v.pay \in PaymentRecords, Hold(c, s, v),
           UNCHANGED <<subs, pays>>,
           v.pay.status = "SUCCESS"
              <=> v.verdict = "paid" \/ Payment(Key(s)).status = "SUCCESS"
    PROVE  HeldAgree'
<1>1. /\ runs'[c].at = [sub |-> s, verdict |-> v.verdict, pay |-> v.pay]
      /\ \A d \in Runs : d # c => runs'[d].at = runs[d].at
  BY HoldType
<1>2. \A k : Payment(k)' = Payment(k)
  BY DEF Payment
<1>3. \A x : Key(x)' = Key(x)
  BY DEF Key
<1> SUFFICES ASSUME NEW d \in Runs, Held(d)'
             PROVE  Believes(runs[d].at)'
  BY DEF HeldAgree
<1>4. CASE d = c
  BY <1>1, <1>2, <1>3, <1>4 DEF Believes
<1>5. CASE d # c
  <2>1. PICK at : at = runs[d].at
    OBVIOUS
  <2>2. Believes(at) /\ runs'[d].at = at
    BY <1>1, <1>5, <2>1 DEF Held, HeldAgree
  <2> QED
    BY <1>2, <1>3, <2>2 DEF Believes
<1> QED
  BY <1>4, <1>5

\* The cron commits: the payment row, and the period if it is newly paid.
LEMMA CommitMoves ==
    ASSUME TypeOK, LockOK, BooksAgree, NEW c \in Runs, Commit(c)
    PROVE  MovesWithMoney /\ RowsAgree' /\ OtherAgrees'
<1>1. PICK s \in SubIds : s = runs[c].at.sub
  BY HeldIsSub DEF Commit, Held
<1>2. PICK k \in Keys : k = Key(s)
  BY KeyType
<1>3. PICK at : at = runs[c].at
  OBVIOUS
<1> DEFINE fulfils == at.verdict = "paid" /\ Payment(k).status # "SUCCESS"
           extended == IF fulfils THEN Activated ELSE subs
<1>4. /\ fulfils => CanActivate /\ other.kind # "checkout"
      /\ pays' = IF at.pay = NoPayment THEN pays ELSE WithPayment(k, at.pay)
      /\ subs' = [extended EXCEPT ![s] = Marked(@, at.verdict)]
      /\ UNCHANGED <<today, other, used>>
  BY <1>1, <1>2, <1>3 DEF Commit, LockFree
<1>5. at.pay.status = "SUCCESS" <=> at.verdict = "paid" \/ Payment(k).status = "SUCCESS"
  BY <1>1, <1>2, <1>3 DEF Commit, Held, BooksAgree, HeldAgree, Believes
<1>6. ~OtherPaid
  BY <1>4 DEF OtherPaid
<1>7. /\ Paid \subseteq Paid'
      /\ fulfils => Paid' \ Paid = {k}
      /\ ~fulfils => Paid' = Paid
  <2>1. CASE at.pay = NoPayment
    <3>1. pays' = pays /\ ~fulfils
      BY <1>4, <1>5, <2>1 DEF NoPayment
    <3> QED
      BY <3>1 DEF Paid
  <2>2. CASE at.pay # NoPayment
    <3>1. pays' = WithPayment(k, at.pay)
      BY <1>4, <2>2
    <3>2. /\ DOMAIN pays' = DOMAIN pays \cup {k}
          /\ pays'[k] = at.pay
          /\ \A x \in DOMAIN pays : x # k => pays'[x] = pays[x]
      BY <3>1 DEF WithPayment
    <3>3. k \in Paid <=> Payment(k).status = "SUCCESS"
      BY DEF Paid, Payment, NoPayment
    <3>4. Paid' = (Paid \ {k}) \cup (IF at.pay.status = "SUCCESS" THEN {k} ELSE {})
      BY <3>2 DEF Paid
    <3> QED
      BY <1>5, <3>3, <3>4
  <2> QED
    BY <2>1, <2>2
<1>8. extended \in [SubIds -> SubRecords]
  BY ActivatedType DEF TypeOK
<1>9. /\ \A h \in SubIds : h # s => subs'[h] = extended[h]
      /\ subs'[s].expires = extended[s].expires
      /\ subs'[s].status # "none"
  <2> HIDE DEF extended
  <2>1. extended[s] \in SubRecords
    BY <1>8
  <2>2. Marked(extended[s], at.verdict).expires = extended[s].expires
        /\ Marked(extended[s], at.verdict).status # "none"
    BY <2>1, MarkedType
  <2> QED
    BY <1>4, <1>8, <2>2
<1>10. \A h \in SubIds : subs[h].expires \in Nat /\ extended[h].expires \in Nat
  <2> HIDE DEF extended
  <2> QED
    BY <1>8 DEF TypeOK, SubRecords
<1>11. CASE fulfils
  <2>1. extended = Activated
    BY <1>11
  <2>2. PICK x \in SubIds :
          /\ Activated[x].expires >= today + Cycle
          /\ Activated[x].expires >= subs[x].expires + Cycle
          /\ Activated[x].status = "ACTIVE"
          /\ \A h \in SubIds : h # x => Activated[h] = subs[h]
    BY <1>4, <1>11, ActivatedMoves DEF BooksAgree
  <2> HIDE DEF fulfils, extended
  <2>3. /\ subs'[x].expires = Activated[x].expires
        /\ \A h \in SubIds : h # x => subs'[h].expires = subs[h].expires
    BY <1>9, <2>1, <2>2
  <2>4. MovesWithMoney
    BY <1>6, <1>7, <1>10, <1>11, <2>1, <2>2, <2>3, OneMoves DEF fulfils
  <2>5. RowsAgree'
    BY <1>9, <2>1, <2>2 DEF BooksAgree, RowsAgree
  <2>6. OtherAgrees'
    <3>1. \A h \in SubIds : subs[h].status # "none" => subs'[h].status # "none"
      BY <1>9, <2>1, <2>2
    <3> QED
      BY <1>4, <1>11, <3>1 DEF fulfils, BooksAgree, OtherAgrees, TypeOK
  <2> QED
    BY <2>4, <2>5, <2>6
<1>12. CASE ~fulfils
  <2>1. extended = subs
    BY <1>12
  <2> HIDE DEF fulfils, extended
  <2>2. \A h \in SubIds : subs'[h].expires = subs[h].expires
    BY <1>9, <2>1
  <2>3. MovesWithMoney
    BY <1>6, <1>7, <1>12, <2>2, NothingMoves
  <2>4. RowsAgree'
    BY <1>9, <2>1 DEF BooksAgree, RowsAgree
  <2>5. OtherAgrees'
    BY <1>4, <1>9, <2>1 DEF BooksAgree, OtherAgrees, TypeOK
  <2> QED
    BY <2>3, <2>4, <2>5
<1> QED
  BY <1>11, <1>12

\* The other transactions believe what they did.
LEMMA CommitHeld ==
    ASSUME TypeOK, LockOK, HeldAgree, NEW c \in Runs, Commit(c)
    PROVE  HeldAgree'
<1>1. PICK s \in SubIds : s = runs[c].at.sub
  BY HeldIsSub DEF Commit, Held
<1>2. /\ LockOK'
      /\ \A d \in Runs : d # c => runs'[d] = runs[d]
      /\ runs'[c].at = Idle
  BY CommitLock, ReleaseType DEF Commit
<1>3. \A d \in Runs : d # c /\ Held(d) =>
        /\ runs[d].at.sub # s
        /\ subs'[runs[d].at.sub].expires = subs[runs[d].at.sub].expires
  <2> SUFFICES ASSUME NEW d \in Runs, d # c, Held(d)
               PROVE  /\ runs[d].at.sub # s
                      /\ subs'[runs[d].at.sub].expires = subs[runs[d].at.sub].expires
    OBVIOUS
  <2>1. Holds(d, Key(runs[d].at.sub))
    BY DEF Holds
  <2>2. PICK k : k = Key(runs[d].at.sub)
    OBVIOUS
  <2>3. Holds(d, k)'
    BY <2>1, <2>2, CommitLock
  <2>4. Key(runs[d].at.sub)' = Key(runs[d].at.sub)
    BY <1>2, <2>2, <2>3 DEF Holds
  <2> QED
    BY <1>1, <1>2, <2>4 DEF Key, LockOK, Commit, Held
<1>4. \A k : k[1] # s => Payment(k)' = Payment(k)
  <2>1. Key(s)[1] = s
    BY DEF Key
  <2>2. pays' = pays \/ \E pay : pays' = WithPayment(Key(s), pay)
    BY <1>1 DEF Commit
  <2> QED
    BY <2>1, <2>2 DEF Payment, WithPayment
<1> QED
  BY <1>2, <1>3, <1>4, HeldStay DEF Held

\* Webhooks, other payments and the customer.
LEMMA OutsideMoves ==
    ASSUME TypeOK, LockOK, BooksAgree, Outside
    PROVE  (MovesWithMoney \/ CashOverwrites) /\ RowsAgree' /\ OtherAgrees'
<1> DEFINE Goal == (MovesWithMoney \/ CashOverwrites) /\ RowsAgree' /\ OtherAgrees'
<1>0. \A h \in SubIds : subs[h] \in SubRecords /\ subs[h].expires \in Nat
  BY DEF TypeOK, SubRecords
<1>1. ASSUME pays' = pays, other' = other, used' = used,
             \A h \in SubIds : /\ subs'[h].expires = subs[h].expires
                               /\ subs'[h].status = subs[h].status
      PROVE  Goal
  <2>1. Paid' = Paid /\ ~OtherPaid
    BY <1>1 DEF Paid, OtherPaid
  <2> QED
    BY <1>1, <2>1, NothingMoves DEF BooksAgree, RowsAgree, OtherAgrees, TypeOK
<1>2. ASSUME NEW i \in IntentIds, WebhookSucceeded(i) PROVE Goal
  <2>1. PICK k : k = intents[i].key
    OBVIOUS
  <2> DEFINE fulfils == pays[k].status # "SUCCESS"
  <2>2. k \in DOMAIN pays
    BY <1>2, <2>1 DEF WebhookSucceeded, IsLocal, Payment, NoPayment, NoIntent, IntentIds
  <2>3. /\ pays' = WithPayment(k, [pays[k] EXCEPT !.status = "SUCCESS"])
        /\ subs' = IF fulfils THEN Activated ELSE subs
        /\ fulfils => CanActivate /\ other.kind # "checkout"
        /\ UNCHANGED <<today, other, used>>
    BY <1>2, <2>1 DEF WebhookSucceeded, LockFree
  <2>4. ~OtherPaid
    BY <2>3 DEF OtherPaid
  <2>5. [pays[k] EXCEPT !.status = "SUCCESS"].status = "SUCCESS"
    BY <2>2 DEF TypeOK, PaymentRecords
  <2>6. Paid' = Paid \cup {k}
    BY <2>2, <2>3, <2>5 DEF Paid, WithPayment
  <2>7. k \in Paid <=> ~fulfils
    BY <2>2 DEF Paid
  <2>8. CASE fulfils
    <3>1. PICK x \in SubIds :
            /\ Activated[x].expires >= today + Cycle
            /\ Activated[x].expires >= subs[x].expires + Cycle
            /\ Activated[x].status = "ACTIVE"
            /\ \A h \in SubIds : h # x => Activated[h] = subs[h]
      BY <2>3, <2>8, ActivatedMoves DEF BooksAgree
    <3>2. subs' = Activated /\ other.kind # "checkout"
      BY <2>3, <2>8
    <3>3. Activated[x].expires \in Nat
      BY ActivatedType DEF SubRecords
    <3> HIDE DEF fulfils
    <3>4. MovesWithMoney
      BY <1>0, <2>4, <2>6, <2>7, <2>8, <3>1, <3>2, <3>3, OneMoves
    <3>5. RowsAgree' /\ OtherAgrees'
      BY <2>3, <3>1, <3>2 DEF BooksAgree, RowsAgree, OtherAgrees, TypeOK
    <3> QED
      BY <3>4, <3>5
  <2>9. CASE ~fulfils
    <3>1. subs' = subs /\ Paid' = Paid
      BY <2>3, <2>6, <2>7, <2>9
    <3> QED
      BY <2>3, <2>4, <3>1, NothingMoves DEF BooksAgree, RowsAgree, OtherAgrees
  <2> QED
    BY <2>8, <2>9
<1>3. ASSUME NEW i \in IntentIds, WebhookFailed(i) PROVE Goal
  <2>1. PICK k : k = intents[i].key
    OBVIOUS
  <2>2. k \in DOMAIN pays
    BY <1>3, <2>1 DEF WebhookFailed, IsLocal, Payment, NoPayment, NoIntent, IntentIds
  <2>3. Paid' = Paid
    <3>1. CASE pays[k].status = "PENDING"
      <4>1. pays' = WithPayment(k, [pays[k] EXCEPT !.status = "FAILED"])
        BY <1>3, <2>1, <3>1 DEF WebhookFailed
      <4>2. [pays[k] EXCEPT !.status = "FAILED"].status = "FAILED"
        BY <2>2 DEF TypeOK, PaymentRecords
      <4> QED
        BY <2>2, <3>1, <4>1, <4>2 DEF Paid, WithPayment
    <3>2. CASE pays[k].status # "PENDING"
      BY <1>3, <2>1, <3>2 DEF WebhookFailed, Paid
    <3> QED
      BY <3>1, <3>2
  <2>4. UNCHANGED <<subs, other, used>>
    BY <1>3 DEF WebhookFailed
  <2>5. ~OtherPaid
    BY <2>4 DEF OtherPaid
  <2> QED
    BY <2>3, <2>4, <2>5, NothingMoves DEF BooksAgree, RowsAgree, OtherAgrees
<1>4. ASSUME NEW kind \in {"checkout", "cash"}, OtherReads(kind) PROVE Goal
  <2>1. /\ other = Nobody
        /\ other' = [kind |-> kind, sub |-> Primary,
                     status |-> IF Primary = 0 THEN NoSub.status ELSE subs[Primary].status,
                     expires |-> IF Primary = 0 THEN NoSub.expires ELSE subs[Primary].expires]
        /\ UNCHANGED <<subs, pays>>
    BY <1>4 DEF OtherReads
  <2>2. other' # Nobody
    BY <2>1 DEF Nobody
  <2>3. ~OtherPaid /\ Paid' = Paid
    BY <2>1, <2>2 DEF OtherPaid, Paid
  <2>4. OtherAgrees'
    BY <2>1, PrimaryIsActive DEF OtherAgrees, IsActive
  <2> QED
    BY <2>1, <2>3, <2>4, NothingMoves DEF BooksAgree, RowsAgree
(* The UPDATE of a checkout: the end it read is the end there is.  That of  *)
(* cash may have read another.                                              *)
<1>5. CASE OtherWrites
  <2>1. PICK x \in SubIds : x = other.sub /\ subs[x].status # "none" /\ x # 0
    BY <1>5 DEF OtherWrites, BooksAgree, OtherAgrees, TypeOK
  <2>2. /\ other' = Nobody /\ other # Nobody /\ pays' = pays
        /\ \A h \in SubIds : h # x => subs'[h] = subs[h]
        /\ subs'[x].expires = NextPeriodEnd(other.expires)
        /\ subs'[x].status = (IF other.status = "ACTIVE" THEN subs[x].status ELSE "ACTIVE")
        /\ subs' = [subs EXCEPT ![other.sub] = subs'[other.sub]]
    <3> DEFINE row == [subs[x] EXCEPT !.expires = NextPeriodEnd(other.expires),
                                      !.status = IF other.status = "ACTIVE"
                                                 THEN @ ELSE "ACTIVE"]
    <3>1. subs' = [subs EXCEPT ![x] = row] /\ other' = Nobody /\ pays' = pays
      BY <1>5, <2>1 DEF OtherWrites, TypeOK
    <3>2. /\ row.expires = NextPeriodEnd(other.expires)
          /\ row.status = (IF other.status = "ACTIVE" THEN subs[x].status ELSE "ACTIVE")
      BY <1>0 DEF SubRecords
    <3> HIDE DEF row
    <3>3. subs'[x] = row /\ \A h \in SubIds : h # x => subs'[h] = subs[h]
      BY <3>1 DEF TypeOK
    <3>4. other # Nobody
      BY <2>1 DEF Nobody
    <3> QED
      BY <2>1, <3>1, <3>2, <3>3, <3>4
  <2>3. OtherPaid /\ Paid' = Paid
    BY <2>2 DEF OtherPaid, Paid
  <2>4. today \in Nat /\ Cycle \in Nat
    BY RenewalAssumption DEF TypeOK, RenewalAssumption
  <2>5. /\ NextPeriodEnd(subs[x].expires) >= today + Cycle
        /\ NextPeriodEnd(subs[x].expires) >= subs[x].expires + Cycle
        /\ NextPeriodEnd(subs[x].expires) \in Int
    BY <1>0, <2>4 DEF NextPeriodEnd
  <2>6. ASSUME subs[x].expires = other.expires PROVE MovesWithMoney
    <3>1. subs'[x].expires = NextPeriodEnd(subs[x].expires)
      BY <2>2, <2>6
    <3> QED
      BY <1>0, <2>2, <2>3, <2>5, <3>1, OneMoves
  <2>7. ASSUME subs[x].expires # other.expires PROVE CashOverwrites
    <3>1. other.kind = "cash"
      BY <2>1, <2>2, <2>7 DEF BooksAgree, OtherAgrees
    <3>2. /\ other.sub # 0 /\ subs[other.sub].expires # other.expires
          /\ subs'[other.sub].expires = NextPeriodEnd(other.expires)
      BY <2>1, <2>2, <2>7
    <3> QED
      BY <2>2, <2>3, <3>1, <3>2 DEF CashOverwrites
  <2>8. RowsAgree'
    BY <2>1, <2>2 DEF BooksAgree, RowsAgree
  <2>9. MovesWithMoney \/ CashOverwrites
    BY <2>6, <2>7
  <2> QED
    BY <2>2, <2>8, <2>9 DEF OtherAgrees, Nobody
<1>6. CASE OtherOpens
  <2>1. PICK x \in SubIds : x = FreeSub /\ subs[x].status = "none"
    BY <1>6, FreeSubIsFree DEF OtherOpens
  <2>2. /\ subs' = [subs EXCEPT ![x] = NewSub(today + Cycle)]
        /\ other # Nobody /\ other' = Nobody /\ pays' = pays
    BY <1>6, <2>1 DEF OtherOpens
  <2>3. OtherPaid /\ Paid' = Paid
    BY <2>2 DEF OtherPaid, Paid
  <2>4. today \in Nat /\ Cycle \in Nat /\ subs[x].expires = 0
    BY <2>1, RenewalAssumption DEF TypeOK, RenewalAssumption, BooksAgree, RowsAgree
  <2>5. /\ subs'[x].expires = today + Cycle /\ subs'[x].status = "ACTIVE"
        /\ \A h \in SubIds : h # x => subs'[h] = subs[h]
    BY <2>2 DEF TypeOK, NewSub, NoSub
  <2>6. MovesWithMoney
    BY <2>3, <2>4, <2>5, OneMoves
  <2> QED
    BY <2>2, <2>5, <2>6 DEF BooksAgree, RowsAgree, OtherAgrees, Nobody
<1>7. ASSUME NEW on \in BOOLEAN, SetAutoRenew(on) PROVE Goal
  <2>1. Primary \in SubIds
    BY <1>7, PrimaryIsActive DEF SetAutoRenew
  <2>2. \A h \in SubIds : subs'[h].expires = subs[h].expires
                          /\ subs'[h].status = subs[h].status
    BY <1>0, <1>7, <2>1 DEF SetAutoRenew, TypeOK, SubRecords
  <2>3. pays' = pays /\ other' = other /\ used' = used
    BY <1>7 DEF SetAutoRenew
  <2> QED
    BY <1>1, <2>2, <2>3
<1>8. ASSUME NEW on \in BOOLEAN, NEW s \in SubIds, ToggleAutoRenew(s, on) PROVE Goal
  <2>1. \A h \in SubIds : subs'[h].expires = subs[h].expires
                          /\ subs'[h].status = subs[h].status
    BY <1>0, <1>8 DEF ToggleAutoRenew, TypeOK, SubRecords
  <2> QED
    BY <1>1, <1>8, <2>1 DEF ToggleAutoRenew
<1>9. CASE UNCHANGED <<subs, pays, other, used>>
  BY <1>1, <1>9
<1>10. ASSUME NEW i \in IntentIds,
              \/ \E status \in {"succeeded", "failed"} : Settle(i, status)
              \/ \E kind \in {"succeeded", "failed"} : WebhookUnknown(kind, i)
       PROVE  Goal
  <2>1. UNCHANGED <<subs, pays, other, used>>
    BY <1>10 DEF Settle, WebhookUnknown
  <2> QED
    BY <1>9, <2>1
<1>11. ASSUME NEW new \in Cards, ChangeCard(new) PROVE Goal
  BY <1>9, <1>11 DEF ChangeCard
<1> QED
  BY <1>2, <1>3, <1>4, <1>5, <1>6, <1>7, <1>8, <1>10, <1>11 DEF Outside

\* They leave alone the rows and the payments that a transaction holds.
LEMMA OutsideHeld ==
    ASSUME TypeOK, LockOK, HeldAgree, Outside
    PROVE  HeldAgree'
<1>1. /\ runs' = runs
      /\ \A c \in Runs : Held(c) =>
           subs'[runs[c].at.sub] = subs[runs[c].at.sub]
  BY OutsideLock
<1>2. \A k : Locked(k[1]) => Payment(k)' = Payment(k)
  <2>1. ASSUME NEW i \in IntentIds, WebhookSucceeded(i) \/ WebhookFailed(i)
        PROVE  \A k : Locked(k[1]) => Payment(k)' = Payment(k)
    <3>1. ~Locked(intents[i].key[1])
      BY <2>1 DEF WebhookSucceeded, WebhookFailed
    <3>2. pays' = pays \/ \E pay : pays' = WithPayment(intents[i].key, pay)
      BY <2>1 DEF WebhookSucceeded, WebhookFailed
    <3> QED
      BY <3>1, <3>2 DEF Payment, WithPayment
  <2>2. CASE pays' = pays
    BY <2>2 DEF Payment
  <2> QED
    BY <2>1, <2>2 DEF Outside, Settle, WebhookUnknown, OtherReads, OtherWrites,
       OtherOpens, SetAutoRenew, ToggleAutoRenew, ChangeCard
<1>3. \A c \in Runs : \A k : k[1] = runs[c].at.sub => Locked(k[1])
  BY DEF Locked
<1> QED
  BY <1>1, <1>2, <1>3, HeldStay DEF Held

LEMMA BooksInit == Init => BooksAgree
<1> SUFFICES ASSUME Init PROVE BooksAgree
  OBVIOUS
<1>1. RowsAgree
  BY DEF Init, RowsAgree, NewSub, NoSub
<1>2. OtherAgrees
  BY DEF Init, OtherAgrees, Nobody
<1>3. HeldAgree
  BY DEF Init, HeldAgree, Held
<1> QED
  BY <1>1, <1>2, <1>3 DEF BooksAgree

\* Every step moves time with money, and leaves the books in agreement.
LEMMA BooksStep ==
    ASSUME TypeOK, LockOK, BooksAgree, [Next]_vars
    PROVE  (MovesWithMoney \/ CashOverwrites) /\ BooksAgree'
<1> DEFINE Goal == (MovesWithMoney \/ CashOverwrites) /\ BooksAgree'
<1>1. ASSUME UNCHANGED <<subs, pays, other>>, HeldAgree', used'.others = used.others
      PROVE  Goal
  <2>1. Paid' = Paid /\ ~OtherPaid
    BY <1>1 DEF Paid, OtherPaid
  <2>2. RowsAgree' /\ OtherAgrees'
    BY <1>1 DEF BooksAgree, RowsAgree, OtherAgrees
  <2> QED
    BY <1>1, <2>1, <2>2, NothingMoves DEF BooksAgree
<1>2. CASE Outside
  BY <1>2, OutsideMoves, OutsideHeld DEF BooksAgree
<1>3. ASSUME NEW c \in Runs, Commit(c) PROVE Goal
  BY <1>3, CommitMoves, CommitHeld DEF BooksAgree
<1>4. ASSUME NEW c \in Runs,
             SelectDue(c) \/ (\E s \in SubIds : TurnAway(c, s)) \/ Tick
      PROVE  Goal
  <2>1. \A d \in Runs : runs'[d].at = runs[d].at
    BY <1>4, IdleLock
  <2>2. UNCHANGED <<subs, pays, other, used>>
    BY <1>4 DEF SelectDue, TurnAway, Tick
  <2>3. HeldAgree'
    BY <2>1, <2>2, HeldStay DEF BooksAgree, Held, Payment
  <2> QED
    BY <1>1, <2>2, <2>3
<1>5. CASE Tick /\ Runs = {}
  <2>1. HeldAgree'
    BY <1>5 DEF HeldAgree
  <2>2. UNCHANGED <<subs, pays, other, used>>
    BY <1>5 DEF Tick
  <2> QED
    BY <1>1, <2>1, <2>2
<1>6. ASSUME NEW c \in Runs, Rollback(c) PROVE Goal
  <2>1. \A d \in Runs : Held(d)' => runs'[d].at = runs[d].at
    BY <1>6, ReleaseType DEF Rollback, Held
  <2>2. UNCHANGED <<subs, pays, other>> /\ used'.others = used.others
    BY <1>6 DEF Rollback, TypeOK
  <2>3. HeldAgree'
    BY <2>1, <2>2, HeldStay DEF BooksAgree, Held, Payment
  <2> QED
    BY <1>1, <2>2, <2>3
<1>7. ASSUME NEW c \in Runs, NEW s \in SubIds, CheckPrior(c, s) PROVE Goal
  <2>1. PICK verdict \in Verdicts,
             status \in {"none", "PENDING", "PROCESSING", "REQUIRES_ACTION",
                         "FAILED", "SUCCESS"} :
          /\ Hold(c, s, [verdict |-> verdict,
                         pay |-> [Payment(Key(s)) EXCEPT !.status = status]])
          /\ status = "SUCCESS"
               <=> verdict = "paid" \/ Payment(Key(s)).status = "SUCCESS"
    BY <1>7, CheckPriorHolds
  <2> DEFINE v == [verdict |-> verdict,
                   pay |-> [Payment(Key(s)) EXCEPT !.status = status]]
  <2>2. /\ v.verdict \in Verdicts /\ v.pay \in PaymentRecords /\ Hold(c, s, v)
        /\ v.pay.status = "SUCCESS"
             <=> v.verdict = "paid" \/ Payment(Key(s)).status = "SUCCESS"
    BY <2>1, PaymentType DEF PaymentRecords
  <2>3. UNCHANGED <<subs, pays, other, used>>
    BY <1>7 DEF CheckPrior
  <2> HIDE DEF v
  <2>4. HeldAgree'
    BY <2>2, <2>3, HoldAgrees DEF BooksAgree
  <2> QED
    BY <1>1, <2>3, <2>4
<1>8. ASSUME NEW c \in Runs, NEW s \in SubIds,
             \/ ChargeReplayed(c, s) \/ ChargeUnreachable(c, s)
             \/ \E reply \in Replies : Charge(c, s, reply)
      PROVE  Goal
  <2>1. PICK i, reply :
          i \in IntentIds \cup {NoIntent} /\ Hold(c, s, Verdict(reply, i))
    <3>1. CASE \E reply \in Replies : Charge(c, s, reply)
      BY <3>1, ChargeType
    <3>2. CASE ChargeReplayed(c, s) \/ ChargeUnreachable(c, s)
      BY <3>2 DEF ChargeReplayed, ChargeUnreachable, Remembered
    <3> QED
      BY <1>8, <3>1, <3>2
  <2>2. UNCHANGED <<subs, pays, other, used>> /\ Payment(Key(s)).status # "SUCCESS"
    BY <1>8 DEF ChargeReplayed, ChargeUnreachable, Charge, MayCharge
  <2>3. Verdict(reply, i).pay.status = "SUCCESS" <=> Verdict(reply, i).verdict = "paid"
    BY DEF Verdict
  <2>4. HeldAgree'
    BY <2>1, <2>2, <2>3, VerdictType, HoldAgrees DEF BooksAgree
  <2> QED
    BY <1>1, <2>2, <2>4
<1>9. CASE UNCHANGED vars
  <2>1. HeldAgree'
    BY <1>9, HeldStay DEF vars, BooksAgree, Held, Payment
  <2> QED
    BY <1>1, <1>9, <2>1 DEF vars
<1>10. ASSUME NEW c \in Runs,
              \/ SelectDue(c) \/ Commit(c) \/ Rollback(c)
              \/ \E s \in SubIds :
                  \/ TurnAway(c, s) \/ CheckPrior(c, s)
                  \/ ChargeReplayed(c, s) \/ ChargeUnreachable(c, s)
                  \/ \E reply \in Replies : Charge(c, s, reply)
       PROVE  Goal
  BY <1>3, <1>4, <1>6, <1>7, <1>8, <1>10
<1>11. CASE Tick
  BY <1>4, <1>5, <1>11
<1> QED
  BY <1>2, <1>9, <1>10, <1>11, NextIs

-----------------------------------------------------------------------------
(* The dunning state                                                       *)

\* No checkout or cash payment is made, or has been.
NoOthers == other = Nobody /\ used.others = 0

\* What the customer's switches leave of a row.
SamePeriod(new, old) ==
    /\ new.status = old.status /\ new.expires = old.expires
    /\ new.grace = old.grace

Anchored(sub) ==
    sub.status = "PAST_DUE" => sub.grace = sub.expires + Grace

\* A commit activates what it fulfils, then marks the row it holds.
LEMMA CommitRows ==
    ASSUME TypeOK, LockOK, NEW c \in Runs, Commit(c)
    PROVE  \E s \in SubIds, rows \in [SubIds -> SubRecords] :
             /\ s = runs[c].at.sub /\ subs[s].status # "none"
             /\ \/ /\ runs[c].at.verdict = "paid"
                   /\ Payment(Key(s)).status # "SUCCESS"
                   /\ CanActivate /\ rows = Activated
                \/ /\ runs[c].at.verdict = "paid" => Payment(Key(s)).status = "SUCCESS"
                   /\ rows = subs
             /\ subs'[s] = Marked(rows[s], runs[c].at.verdict)
             /\ \A h \in SubIds : h # s => subs'[h] = rows[h]
<1>1. PICK s \in SubIds : s = runs[c].at.sub /\ subs[s].status # "none"
  BY HeldIsSub DEF Commit, Held, LockOK
<1>2. CASE runs[c].at.verdict = "paid" /\ Payment(Key(s)).status # "SUCCESS"
  <2>1. CanActivate /\ subs' = [Activated EXCEPT ![s] = Marked(@, runs[c].at.verdict)]
    BY <1>1, <1>2 DEF Commit
  <2>2. PICK rows \in [SubIds -> SubRecords] : rows = Activated
    BY ActivatedType
  <2> QED
    BY <1>1, <1>2, <2>1, <2>2
<1>3. CASE ~(runs[c].at.verdict = "paid" /\ Payment(Key(s)).status # "SUCCESS")
  <2>1. subs' = [subs EXCEPT ![s] = Marked(@, runs[c].at.verdict)]
    BY <1>1, <1>3 DEF Commit
  <2>2. PICK rows \in [SubIds -> SubRecords] : rows = subs
    BY DEF TypeOK
  <2> QED
    BY <1>1, <1>3, <2>1, <2>2
<1> QED
  BY <1>2, <1>3

\* Without other payments the rows move in four ways.
LEMMA RowsMove ==
    ASSUME TypeOK, LockOK, MaxOthers = 0, NoOthers, [Next]_vars
    PROVE  /\ NoOthers'
           /\ \/ subs' = subs
              \/ PanelCalls /\ \A h \in SubIds : SamePeriod(subs'[h], subs[h])
              \/ /\ CanActivate /\ subs' = Activated
                 /\ \E i \in IntentIds :
                      WebhookSucceeded(i) /\ pays[intents[i].key].status # "SUCCESS"
              \/ \E c \in Runs : Commit(c)
<1> DEFINE Goal ==
      \/ subs' = subs
      \/ PanelCalls /\ \A h \in SubIds : SamePeriod(subs'[h], subs[h])
      \/ /\ CanActivate /\ subs' = Activated
         /\ \E i \in IntentIds :
              WebhookSucceeded(i) /\ pays[intents[i].key].status # "SUCCESS"
      \/ \E c \in Runs : Commit(c)
<1>0. (\A kind : ~OtherReads(kind)) /\ ~OtherWrites /\ ~OtherOpens
  BY DEF NoOthers, OtherReads, OtherWrites, OtherOpens, Nobody
<1>1. ASSUME NEW i \in IntentIds, WebhookSucceeded(i) PROVE Goal
  BY <1>1 DEF WebhookSucceeded
<1>2. ASSUME NEW on \in BOOLEAN, SetAutoRenew(on) PROVE Goal
  <2>1. Primary \in SubIds /\ PanelCalls
    BY <1>2, PrimaryIsActive DEF SetAutoRenew
  <2>2. \A h \in SubIds : SamePeriod(subs'[h], subs[h])
    BY <1>2, <2>1 DEF SetAutoRenew, TypeOK, SubRecords, SamePeriod
  <2> QED
    BY <2>1, <2>2
<1>3. ASSUME NEW on \in BOOLEAN, NEW s \in SubIds, ToggleAutoRenew(s, on) PROVE Goal
  <2>1. \A h \in SubIds : SamePeriod(subs'[h], subs[h])
    BY <1>3 DEF ToggleAutoRenew, TypeOK, SubRecords, SamePeriod
  <2> QED
    BY <1>3, <2>1 DEF ToggleAutoRenew
<1>4. Goal
  <2> HIDE DEF Goal
  <2>1. subs' = subs => Goal
    BY DEF Goal
  <2>2. \A c \in Runs : Commit(c) => Goal
    BY DEF Goal
  <2>3. Outside => Goal
    BY <1>0, <1>1, <1>2, <1>3, <2>1
       DEF Outside, Settle, WebhookFailed, WebhookUnknown, ChangeCard
  <2> QED
    BY <2>1, <2>2, <2>3, NextIs
       DEF vars, SelectDue, Rollback, TurnAway, CheckPrior, ChargeReplayed,
           ChargeUnreachable, Charge, Tick
<1>5. NoOthers'
  <2>1. CASE UNCHANGED <<other, used>>
    BY <2>1 DEF NoOthers
  <2>2. ASSUME NEW c \in Runs, Rollback(c) PROVE NoOthers'
    BY <2>2 DEF NoOthers, Rollback, TypeOK
  <2>3. Outside => NoOthers'
    BY <1>0, <2>1
       DEF Outside, Settle, WebhookSucceeded, WebhookFailed, WebhookUnknown,
           SetAutoRenew, ToggleAutoRenew, ChangeCard
  <2> QED
    BY <2>1, <2>2, <2>3, NextIs
       DEF vars, SelectDue, Commit, TurnAway, CheckPrior, ChargeReplayed,
           ChargeUnreachable, Charge, Tick
<1> QED
  BY <1>4, <1>5

\* The dunning marks count the grace from the end of the period.
LEMMA MarkedAnchored ==
    ASSUME NEW sub \in SubRecords, NEW verdict
    PROVE  Anchored(Marked(sub, verdict))
<1>1. Anchored(MarkRenewed(sub))
  BY DEF MarkRenewed, SubRecords, Anchored
<1>2. Anchored(MarkActionRequired(sub))
  BY DEF MarkActionRequired, SubRecords, Anchored
<1>3. Anchored(MarkFailed(sub))
  BY DEF MarkFailed, SubRecords, Anchored
<1> QED
  BY <1>1, <1>2, <1>3 DEF Marked

\* The row that is activated owes nothing; the others are as they were.
LEMMA ActivatedAnchored ==
    ASSUME TypeOK, RowsAgree, CanActivate, GraceAnchored
    PROVE  \A h \in SubIds : Anchored(Activated[h])
  BY ActivatedMoves DEF GraceAnchored, Anchored

LEMMA GraceStep ==
    ASSUME TypeOK, LockOK, BooksAgree, MaxOthers = 0, NoOthers, GraceAnchored,
           [Next]_vars
    PROVE  NoOthers' /\ GraceAnchored'
<1>1. ASSUME NEW c \in Runs, Commit(c) PROVE GraceAnchored'
  <2>1. PICK s \in SubIds, rows \in [SubIds -> SubRecords] :
          /\ rows = subs \/ (CanActivate /\ rows = Activated)
          /\ subs'[s] = Marked(rows[s], runs[c].at.verdict)
          /\ \A h \in SubIds : h # s => subs'[h] = rows[h]
    BY <1>1, CommitRows
  <2>2. \A h \in SubIds : Anchored(subs[h])
    BY DEF GraceAnchored, Anchored
  <2>3. CanActivate => \A h \in SubIds : Anchored(Activated[h])
    BY ActivatedAnchored DEF BooksAgree
  <2>4. \A h \in SubIds : Anchored(rows[h])
    BY <2>1, <2>2, <2>3
  <2>5. \A h \in SubIds : Anchored(subs'[h])
    BY <2>1, <2>4, MarkedAnchored
  <2> QED
    BY <2>5 DEF GraceAnchored, Anchored
<1>2. ASSUME \A h \in SubIds : SamePeriod(subs'[h], subs[h]) PROVE GraceAnchored'
  BY <1>2 DEF GraceAnchored, SamePeriod
<1>3. ASSUME subs' = subs PROVE GraceAnchored'
  BY <1>3 DEF GraceAnchored
<1>4. ASSUME CanActivate /\ subs' = Activated PROVE GraceAnchored'
  <2>1. \A h \in SubIds : Anchored(subs'[h])
    BY <1>4, ActivatedAnchored DEF BooksAgree
  <2> QED
    BY <2>1 DEF GraceAnchored, Anchored
<1> QED
  BY <1>1, <1>2, <1>3, <1>4, RowsMove

-----------------------------------------------------------------------------
(* Periods one after another                                               *)

\* Every row renews, and its grace does not reach past its own period's.
Renews(sub) ==
    sub.status # "none" =>
        /\ sub.status \in {"ACTIVE", "PAST_DUE"} /\ sub.auto
        /\ sub.grace <= sub.expires + Grace
Renewing == \A s \in SubIds : Renews(subs[s])

\* A row is opened a cycle after the one before it, which is paid.
OneAfterAnother ==
    \A s, t \in SubIds :
        s < t /\ subs[t].status # "none" =>
            /\ subs[s].status # "none"
            /\ subs[s].expires + Cycle <= subs[t].expires
            /\ Key(s) \in Paid

\* A charge is for a period that is paid, or still in force.
KeptUntilPaid ==
    \A i \in IntentIds :
        Live(i) => LET k == intents[i].key IN
                   /\ subs[k[1]].status # "none"
                   /\ k \in Paid \/ k = Key(k[1])

EventsTrue ==
    \A i \in IntentIds :
        <<"succeeded", i>> \in events => intents[i].status = "succeeded"

Chained == Renewing /\ OneAfterAnother /\ KeptUntilPaid /\ EventsTrue

\* Only the newest row can have an unpaid period, and only it can be active.
LEMMA NewestIsActivated ==
    ASSUME TypeOK, RowsAgree, Renewing, OneAfterAnother, CanActivate,
           Grace <= Cycle,
           NEW x \in SubIds, subs[x].status # "none", Key(x) \notin Paid
    PROVE  /\ \A t \in SubIds : t > x => subs[t].status = "none"
           /\ \/ Activated = [subs EXCEPT ![x] = Extended(@)]
              \/ /\ subs[x].expires <= today
                 /\ \E f \in SubIds :
                      /\ f > x /\ subs[f].status = "none"
                      /\ \A t \in SubIds : t < f => t <= x
                      /\ Activated = [subs EXCEPT ![f] = NewSub(today + Cycle)]
<1>0. /\ today \in Nat /\ Cycle \in Nat /\ Grace \in Nat
      /\ \A s \in SubIds : s \in Nat /\ s # 0 /\ subs[s].expires \in Nat
                           /\ subs[s].grace \in Int
  BY RenewalAssumption
     DEF TypeOK, RenewalAssumption, SubIds, SubRecords, NoDay
<1>1. \A t \in SubIds : t > x => subs[t].status = "none"
  BY <1>0 DEF OneAfterAnother
<1>2. CASE Primary # 0
  <2>1. PICK p \in SubIds : p = Primary /\ IsActive(p)
    BY <1>2, PrimaryIsActive
  <2>2. p <= x
    BY <1>0, <1>1, <2>1 DEF IsActive
  <2>3. p < x => IsActive(x)
    <3> SUFFICES ASSUME p < x PROVE IsActive(x)
      OBVIOUS
    <3>1. subs[p].expires + Cycle <= subs[x].expires
      BY DEF OneAfterAnother
    <3>2. subs[p].grace <= subs[p].expires + Grace
      BY <2>1 DEF Renewing, Renews, IsActive
    <3>3. subs[x].expires > today
      BY <1>0, <2>1, <3>1, <3>2 DEF IsActive
    <3> QED
      BY <3>3 DEF Renewing, Renews, IsActive
  <2>4. IsActive(x) => x <= p
    BY <1>2, <2>1, PrimaryIsActive
  <2>5. p = x
    BY <1>0, <2>2, <2>3, <2>4
  <2> QED
    BY <1>1, <1>2, <2>1, <2>5 DEF Activated
<1>3. CASE Primary = 0
  <2>1. PICK f \in SubIds : f = FreeSub /\ subs[f].status = "none"
    BY <1>3, FreeSubIsFree DEF CanActivate
  <2>2. f > x
    BY <1>0, <2>1 DEF OneAfterAnother
  <2>3. ~IsActive(x)
    BY <1>3, PrimaryIsActive
  <2>4. subs[x].expires <= today
    BY <1>0, <2>3 DEF IsActive, Renewing, Renews
  <2>5. \A t \in SubIds : t < f => t <= x
    BY <1>0, <1>1, <2>1, FreeSubIsFree
  <2> QED
    BY <1>1, <1>3, <2>1, <2>2, <2>4, <2>5 DEF Activated
<1> QED
  BY <1>1, <1>2, <1>3

\* A payment for the newest row moves its end, or opens the row after it.
LEMMA ChainMoves ==
    ASSUME TypeOK, RowsAgree, Renewing, OneAfterAnother, CanActivate,
           Grace <= Cycle,
           NEW x \in SubIds, subs[x].status # "none",
           Key(x) \notin Paid, Key(x) \in Paid', Paid \subseteq Paid',
           \A h \in SubIds :
              /\ subs'[h].expires = Activated[h].expires
              /\ subs'[h].status = "none" <=> Activated[h].status = "none"
    PROVE  /\ OneAfterAnother'
           /\ \A h \in SubIds : subs[h].status # "none" =>
                 subs'[h].status # "none" /\ (h # x => Key(h)' = Key(h))
<1>0. /\ today \in Nat /\ Cycle \in Nat
      /\ \A s \in SubIds : s \in Nat /\ subs[s].expires \in Nat
                           /\ subs[s] \in SubRecords
  BY RenewalAssumption DEF TypeOK, RenewalAssumption, SubIds, SubRecords
<1>1. \A t \in SubIds : t > x => subs[t].status = "none"
  BY NewestIsActivated
<1>2. CASE Activated = [subs EXCEPT ![x] = Extended(@)]
  <2>1. /\ Extended(subs[x]).status = "ACTIVE"
        /\ Extended(subs[x]).expires = NextPeriodEnd(subs[x].expires)
    BY <1>0 DEF Extended, SubRecords
  <2>2. NextPeriodEnd(subs[x].expires) >= subs[x].expires + Cycle
        /\ NextPeriodEnd(subs[x].expires) \in Nat
    BY <1>0 DEF NextPeriodEnd
  <2>3. /\ subs'[x].expires >= subs[x].expires + Cycle
        /\ subs'[x].expires \in Nat /\ subs'[x].status # "none"
    BY <1>2, <2>1, <2>2 DEF TypeOK
  <2>4. \A h \in SubIds : h # x =>
           /\ subs'[h].expires = subs[h].expires
           /\ subs'[h].status = "none" <=> subs[h].status = "none"
    BY <1>2 DEF TypeOK
  <2>5. \A h \in SubIds : h # x => Key(h)' = Key(h)
    BY <2>4 DEF Key
  <2>6. ASSUME NEW s \in SubIds, NEW t \in SubIds, s < t,
               subs'[t].status # "none"
        PROVE  /\ subs'[s].status # "none"
               /\ subs'[s].expires + Cycle <= subs'[t].expires
               /\ Key(s)' \in Paid'
    <3>1. subs[t].status # "none"
      BY <2>4, <2>6
    <3>2. t <= x /\ s # x
      BY <1>0, <1>1, <2>6, <3>1
    <3>3. /\ subs[s].status # "none" /\ Key(s) \in Paid
          /\ subs[s].expires + Cycle <= subs[t].expires
      BY <2>6, <3>1 DEF OneAfterAnother
    <3> QED
      BY <1>0, <2>3, <2>4, <2>5, <3>2, <3>3
  <2> QED
    BY <2>3, <2>4, <2>5, <2>6 DEF OneAfterAnother
<1>3. CASE /\ subs[x].expires <= today
           /\ \E f \in SubIds :
                /\ f > x /\ subs[f].status = "none"
                /\ \A t \in SubIds : t < f => t <= x
                /\ Activated = [subs EXCEPT ![f] = NewSub(today + Cycle)]
  <2>1. PICK f \in SubIds :
          /\ f > x /\ subs[f].status = "none"
          /\ \A t \in SubIds : t < f => t <= x
          /\ Activated = [subs EXCEPT ![f] = NewSub(today + Cycle)]
    BY <1>3
  <2>2. /\ NewSub(today + Cycle).status = "ACTIVE"
        /\ NewSub(today + Cycle).expires = today + Cycle
    BY DEF NewSub, NoSub
  <2>3. subs'[f].expires = today + Cycle /\ subs'[f].status # "none"
    BY <2>1, <2>2 DEF TypeOK
  <2>4. \A h \in SubIds : h # f =>
           /\ subs'[h].expires = subs[h].expires
           /\ subs'[h].status = "none" <=> subs[h].status = "none"
    BY <2>1 DEF TypeOK
  <2>5. \A h \in SubIds : h # f => Key(h)' = Key(h)
    BY <2>4 DEF Key
  <2>6. ASSUME NEW s \in SubIds, NEW t \in SubIds, s < t,
               subs'[t].status # "none"
        PROVE  /\ subs'[s].status # "none"
               /\ subs'[s].expires + Cycle <= subs'[t].expires
               /\ Key(s)' \in Paid'
    <3>1. CASE t = f /\ s = x
      BY <1>0, <1>3, <2>1, <2>3, <2>4, <2>5, <3>1
    <3>2. CASE t = f /\ s # x
      <4>1. s < x /\ s # f
        BY <1>0, <2>1, <2>6, <3>2
      <4>2. /\ subs[s].status # "none" /\ Key(s) \in Paid
            /\ subs[s].expires + Cycle <= subs[x].expires
        BY <4>1 DEF OneAfterAnother
      <4> QED
        BY <1>0, <1>3, <2>3, <2>4, <2>5, <3>2, <4>1, <4>2
    <3>3. CASE t # f
      <4>1. subs[t].status # "none"
        BY <2>4, <2>6, <3>3
      <4>2. t <= x /\ s # f
        BY <1>0, <1>1, <2>1, <2>6, <4>1
      <4>3. /\ subs[s].status # "none" /\ Key(s) \in Paid
            /\ subs[s].expires + Cycle <= subs[t].expires
        BY <2>6, <4>1 DEF OneAfterAnother
      <4> QED
        BY <2>4, <2>5, <3>3, <4>2, <4>3
    <3> QED
      BY <3>1, <3>2, <3>3
  <2> QED
    BY <2>1, <2>3, <2>4, <2>5, <2>6 DEF OneAfterAnother
<1> QED
  BY <1>2, <1>3, NewestIsActivated

\* Neither an activation nor a mark stops a row from renewing.
LEMMA ActivatedRenews ==
    ASSUME TypeOK, Renewing, CanActivate
    PROVE  \A h \in SubIds : Renews(Activated[h])
<1>0. /\ today \in Nat /\ Cycle \in Nat /\ Grace \in Nat
      /\ \A s \in SubIds : subs[s] \in SubRecords
  BY RenewalAssumption DEF TypeOK, RenewalAssumption
<1>1. \A e \in Nat : NextPeriodEnd(e) \in Nat /\ NextPeriodEnd(e) >= e
  BY <1>0 DEF NextPeriodEnd
<1>2. \A x \in SubRecords :
        x.status # "none" /\ Renews(x) => Renews(Extended(x))
  <2> SUFFICES ASSUME NEW x \in SubRecords, x.status # "none", Renews(x)
               PROVE  Renews(Extended(x))
    OBVIOUS
  <2>1. x.expires \in Nat /\ x.grace \in Int
    BY DEF SubRecords, NoDay
  <2>2. /\ Extended(x).status = "ACTIVE" /\ Extended(x).auto = x.auto
        /\ Extended(x).grace = x.grace
        /\ Extended(x).expires = NextPeriodEnd(x.expires)
    BY DEF Extended, SubRecords
  <2> QED
    BY <1>0, <1>1, <2>1, <2>2 DEF Renews
<1>3. Renews(NewSub(today + Cycle))
  <2>1. /\ NewSub(today + Cycle).status = "ACTIVE"
        /\ NewSub(today + Cycle).auto = TRUE
        /\ NewSub(today + Cycle).grace = NoDay
        /\ NewSub(today + Cycle).expires = today + Cycle
    BY DEF NewSub, NoSub
  <2> QED
    BY <1>0, <2>1 DEF Renews, NoDay
<1>4. CASE Primary # 0
  <2>1. PICK p \in SubIds : p = Primary /\ IsActive(p)
    BY <1>4, PrimaryIsActive
  <2>2. Activated = [subs EXCEPT ![p] = Extended(@)]
    BY <1>4, <2>1 DEF Activated
  <2>3. subs[p].status # "none"
    BY <2>1 DEF IsActive
  <2> QED
    BY <1>0, <1>2, <2>2, <2>3 DEF TypeOK, Renewing
<1>5. CASE Primary = 0
  <2>1. PICK f \in SubIds : f = FreeSub
    BY <1>5, FreeSubIsFree DEF CanActivate
  <2>2. Activated = [subs EXCEPT ![f] = NewSub(today + Cycle)]
    BY <1>5, <2>1 DEF Activated
  <2> QED
    BY <1>3, <2>2 DEF TypeOK, Renewing
<1> QED
  BY <1>4, <1>5

LEMMA MarkedRenews ==
    ASSUME TypeOK, NEW sub \in SubRecords, sub.status # "none", Renews(sub),
           NEW verdict
    PROVE  Renews(Marked(sub, verdict))
<1>0. Grace \in Nat /\ sub.expires \in Nat
  BY RenewalAssumption DEF RenewalAssumption, SubRecords
<1>1. Renews(MarkRenewed(sub))
  <2>1. /\ MarkRenewed(sub).status = "ACTIVE"
        /\ MarkRenewed(sub).auto = sub.auto
        /\ MarkRenewed(sub).grace = NoDay
        /\ MarkRenewed(sub).expires = sub.expires
    BY DEF MarkRenewed, SubRecords
  <2> QED
    BY <1>0, <2>1 DEF Renews, NoDay
<1>2. Renews(MarkActionRequired(sub))
  <2>1. /\ MarkActionRequired(sub).status = "PAST_DUE"
        /\ MarkActionRequired(sub).auto = sub.auto
        /\ MarkActionRequired(sub).grace = sub.expires + Grace
        /\ MarkActionRequired(sub).expires = sub.expires
    BY DEF MarkActionRequired, SubRecords
  <2> QED
    BY <1>0, <2>1 DEF Renews
<1>3. Renews(MarkFailed(sub))
  <2>1. /\ MarkFailed(sub).status = "PAST_DUE"
        /\ MarkFailed(sub).auto = sub.auto
        /\ MarkFailed(sub).grace = sub.expires + Grace
        /\ MarkFailed(sub).expires = sub.expires
    BY DEF MarkFailed, SubRecords
  <2> QED
    BY <1>0, <2>1 DEF Renews
<1> QED
  BY <1>1, <1>2, <1>3 DEF Marked

\* A commit that fulfils its payment stores it as paid.
LEMMA CommitPays ==
    ASSUME TypeOK, LockOK, HeldAgree, NEW c \in Runs, Commit(c),
           NEW k, k = Key(runs[c].at.sub), runs[c].at.verdict = "paid"
    PROVE  k \in Paid'
<1>1. PICK at : at = runs[c].at
  OBVIOUS
<1>2. at.pay.status = "SUCCESS"
  BY <1>1 DEF HeldAgree, Believes, Commit, Held
<1>3. pays' = WithPayment(k, at.pay)
  BY <1>1, <1>2 DEF Commit, NoPayment
<1> QED
  BY <1>2, <1>3 DEF Paid, WithPayment

\* What a new charge stores at Stripe and announces.
LEMMA ChargeAnnounces ==
    ASSUME TypeOK, NEW c \in Runs, NEW s \in SubIds, NEW reply \in Replies,
           Charge(c, s, reply)
    PROVE  \E j \in IntentIds :
             /\ intents[j].status = "none"
             /\ intents'[j].status = StatusOf(reply)
             /\ intents'[j].key = Key(s)
             /\ intents'[j].reply = (IF reply = "lost" THEN "succeeded" ELSE reply)
             /\ \A h \in IntentIds \ {j} : intents'[h] = intents[h]
             /\ Hold(c, s, Verdict(reply, j))
             /\ events' = events \cup Announced(StatusOf(reply), j)
<1>1. PICK j : j = CHOOSE x \in FreeIntents : TRUE
  OBVIOUS
<1>2. j \in IntentIds /\ intents[j].status = "none"
  BY <1>1 DEF Charge, FreeIntents
<1>3. /\ events' = events \cup Announced(StatusOf(reply), j)
      /\ Hold(c, s, Verdict(reply, j))
  BY <1>1 DEF Charge
<1> DEFINE new == [status |-> StatusOf(reply), key |-> Key(s),
                   attempt |-> subs[s].attempts + 1, card |-> card,
                   day |-> today,
                   reply |-> IF reply = "lost" THEN "succeeded" ELSE reply]
<1>4. /\ new.status = StatusOf(reply) /\ new.key = Key(s)
      /\ new.reply = (IF reply = "lost" THEN "succeeded" ELSE reply)
      /\ intents' = [intents EXCEPT ![j] = new]
  BY <1>1 DEF Charge
<1> HIDE DEF new
<1> QED
  BY <1>2, <1>3, <1>4 DEF TypeOK

\* The periods that were in force are paid, or in force still.
Forwards ==
    \A h \in SubIds : subs[h].status # "none" =>
        subs'[h].status # "none" /\ (Key(h)' = Key(h) \/ Key(h) \in Paid')

\* Rows whose period is left alone.
LEMMA ChainStays ==
    ASSUME OneAfterAnother, Paid \subseteq Paid',
           \A h \in SubIds :
              /\ subs'[h].expires = subs[h].expires
              /\ subs'[h].status = "none" <=> subs[h].status = "none"
    PROVE  OneAfterAnother' /\ Forwards
<1>1. \A h \in SubIds : Key(h)' = Key(h)
  BY DEF Key
<1> QED
  BY <1>1 DEF OneAfterAnother, Forwards

\* Money that a transaction or a webhook reports is for the newest row.
LEMMA RowsChain ==
    ASSUME TypeOK, LockOK, BooksAgree, MaxOthers = 0, NoOthers,
           ~PanelCalls, Grace <= Cycle, Chained, [Next]_vars
    PROVE  Renewing' /\ OneAfterAnother' /\ Forwards
<1> DEFINE Goal == Renewing' /\ OneAfterAnother' /\ Forwards
<1>0. Paid \subseteq Paid'
  BY BooksStep DEF MovesWithMoney, CashOverwrites
<1>1. ASSUME subs' = subs PROVE Goal
  <2>1. OneAfterAnother' /\ Forwards
    BY <1>0, <1>1, ChainStays DEF Chained
  <2> QED
    BY <1>1, <2>1 DEF Chained, Renewing
<1>2. ASSUME CanActivate, subs' = Activated,
             NEW i \in IntentIds, WebhookSucceeded(i),
             pays[intents[i].key].status # "SUCCESS"
      PROVE  Goal
  <2>1. PICK k \in Keys : k = intents[i].key
    BY DEF TypeOK, IntentRecords
  <2>2. k \in DOMAIN pays /\ k \notin Paid
    BY <1>2, <2>1
       DEF WebhookSucceeded, IsLocal, Payment, NoPayment, NoIntent, IntentIds, Paid
  <2>3. k \in Paid'
    <3>1. pays' = WithPayment(k, [pays[k] EXCEPT !.status = "SUCCESS"])
      BY <1>2, <2>1 DEF WebhookSucceeded
    <3>2. [pays[k] EXCEPT !.status = "SUCCESS"].status = "SUCCESS"
      BY <2>2 DEF TypeOK, PaymentRecords
    <3> QED
      BY <3>1, <3>2 DEF Paid, WithPayment
  <2>4. intents[i].status = "succeeded"
    BY <1>2 DEF Chained, EventsTrue, WebhookSucceeded
  <2>5. subs[k[1]].status # "none" /\ k = Key(k[1])
    BY <2>1, <2>2, <2>4 DEF Chained, KeptUntilPaid, Live, Exists
  <2>6. PICK x \in SubIds : x = k[1]
    BY DEF Keys
  <2>7. /\ subs[x].status # "none" /\ Key(x) \notin Paid /\ Key(x) \in Paid'
        /\ TypeOK /\ RowsAgree /\ Renewing /\ OneAfterAnother
    BY <2>2, <2>3, <2>5, <2>6 DEF Chained, BooksAgree
  <2>8. /\ OneAfterAnother'
        /\ \A h \in SubIds : subs[h].status # "none" =>
              subs'[h].status # "none" /\ (h # x => Key(h)' = Key(h))
    BY <1>0, <1>2, <2>7, ChainMoves
  <2>9. Renewing'
    BY <1>2, <2>7, ActivatedRenews DEF Renewing
  <2> QED
    BY <2>7, <2>8, <2>9 DEF Forwards
<1>3. ASSUME NEW c \in Runs, Commit(c) PROVE Goal
  <2>1. PICK s \in SubIds, rows \in [SubIds -> SubRecords] :
          /\ s = runs[c].at.sub /\ subs[s].status # "none"
          /\ \/ /\ runs[c].at.verdict = "paid"
                /\ Payment(Key(s)).status # "SUCCESS"
                /\ CanActivate /\ rows = Activated
             \/ /\ runs[c].at.verdict = "paid" => Payment(Key(s)).status = "SUCCESS"
                /\ rows = subs
          /\ subs'[s] = Marked(rows[s], runs[c].at.verdict)
          /\ \A h \in SubIds : h # s => subs'[h] = rows[h]
    BY <1>3, CommitRows
  <2>2. \A h \in SubIds : Renews(rows[h])
    BY <2>1, ActivatedRenews DEF Chained, Renewing
  <2>3. rows[s].status # "none"
    BY <2>1, ActivatedElsewhere
  <2>4. Renewing'
    BY <2>1, <2>2, <2>3, MarkedRenews DEF Renewing
  <2>5. \A h \in SubIds :
           /\ subs'[h].expires = rows[h].expires
           /\ subs'[h].status = "none" <=> rows[h].status = "none"
    BY <2>1, <2>3, MarkedType
  <2>6. CASE rows = subs
    BY <1>0, <2>4, <2>5, <2>6, ChainStays DEF Chained
  <2>7. CASE /\ runs[c].at.verdict = "paid" /\ Payment(Key(s)).status # "SUCCESS"
             /\ CanActivate /\ rows = Activated
    <3>1. PICK k \in Keys : k = Key(s)
      BY KeyType
    <3>2. k \notin Paid
      BY <2>7, <3>1 DEF Paid, Payment
    <3>3. k \in Paid'
      BY <1>3, <2>1, <2>7, <3>1, CommitPays DEF BooksAgree
    <3>4. /\ Key(s) \notin Paid /\ Key(s) \in Paid'
          /\ RowsAgree /\ Renewing /\ OneAfterAnother
      BY <3>1, <3>2, <3>3 DEF Chained, BooksAgree
    <3>5. /\ OneAfterAnother'
          /\ \A h \in SubIds : subs[h].status # "none" =>
                subs'[h].status # "none" /\ (h # s => Key(h)' = Key(h))
      BY <1>0, <2>1, <2>5, <2>7, <3>4, ChainMoves
    <3> QED
      BY <2>4, <3>4, <3>5 DEF Forwards
  <2> QED
    BY <2>1, <2>6, <2>7
<1> QED
  BY <1>1, <1>2, <1>3, RowsMove

\* No step revives a charge; a new one is for a period in force.
LEMMA ChargesMove ==
    ASSUME TypeOK, [Next]_vars
    PROVE  \A i \in IntentIds :
             /\ Live(i)' => \/ Live(i) /\ intents'[i].key = intents[i].key
                            \/ \E s \in SubIds :
                                 /\ subs[s].status # "none" /\ subs' = subs
                                 /\ intents'[i].key = Key(s)
             /\ <<"succeeded", i>> \in events' =>
                  \/ intents'[i].status = "succeeded"
                  \/ <<"succeeded", i>> \in events /\ intents'[i] = intents[i]
                  \/ <<"succeeded", i>> \in events /\ intents[i].status # "succeeded"
<1> DEFINE Goal(i) ==
      /\ Live(i)' => \/ Live(i) /\ intents'[i].key = intents[i].key
                     \/ \E s \in SubIds :
                          /\ subs[s].status # "none" /\ subs' = subs
                          /\ intents'[i].key = Key(s)
      /\ <<"succeeded", i>> \in events' =>
           \/ intents'[i].status = "succeeded"
           \/ <<"succeeded", i>> \in events /\ intents'[i] = intents[i]
           \/ <<"succeeded", i>> \in events /\ intents[i].status # "succeeded"
<1> SUFFICES ASSUME NEW i \in IntentIds PROVE Goal(i)
  OBVIOUS
<1>1. ASSUME intents' = intents, events' \subseteq events PROVE Goal(i)
  BY <1>1 DEF Live, Exists
<1>2. ASSUME NEW j \in IntentIds, NEW status \in {"succeeded", "failed"},
             Settle(j, status)
      PROVE  Goal(i)
  <2>1. /\ intents[j].status \in {"processing", "requires_action"}
        /\ intents'[j].status = status /\ intents'[j].key = intents[j].key
        /\ j # i => intents'[i] = intents[i]
        /\ events' = events \cup Announced(status, j)
    BY <1>2 DEF Settle, TypeOK, IntentRecords
  <2>2. Announced(status, j) = {<<status, j>>}
    BY DEF Announced
  <2> QED
    BY <2>1, <2>2 DEF Live, Exists
<1>3. ASSUME NEW c \in Runs, NEW s \in SubIds, NEW reply \in Replies,
             Charge(c, s, reply)
      PROVE  Goal(i)
  <2>1. PICK j \in IntentIds :
          /\ intents[j].status = "none"
          /\ intents'[j].status = StatusOf(reply)
          /\ intents'[j].key = Key(s)
          /\ \A h \in IntentIds \ {j} : intents'[h] = intents[h]
          /\ events' = events \cup Announced(StatusOf(reply), j)
    BY <1>3, ChargeAnnounces
  <2>2. subs[s].status # "none" /\ subs' = subs
    BY <1>3 DEF Charge, MayCharge, Due
  <2>3. \A h, st : <<"succeeded", h>> \in Announced(st, j) =>
            h = j /\ st = "succeeded"
    BY DEF Announced
  <2>4. CASE i = j
    BY <2>1, <2>2, <2>3, <2>4
  <2>5. CASE i # j
    BY <2>1, <2>3, <2>5 DEF Live, Exists
  <2> QED
    BY <2>4, <2>5
<1>4. Outside => Goal(i)
  <2> HIDE DEF Goal
  <2> QED
    BY <1>1, <1>2
       DEF Outside, WebhookSucceeded, WebhookFailed, WebhookUnknown,
           OtherReads, OtherWrites, OtherOpens, SetAutoRenew, ToggleAutoRenew,
           ChangeCard
<1> HIDE DEF Goal
<1> QED
  BY <1>1, <1>3, <1>4, NextIs
     DEF vars, SelectDue, Commit, Rollback, TurnAway, CheckPrior,
         ChargeReplayed, ChargeUnreachable, Tick

LEMMA ChainedInit == Init => Chained
<1> SUFFICES ASSUME Init PROVE Chained
  OBVIOUS
<1>1. Renewing
  <2>1. /\ NewSub(FirstExpiry).status = "ACTIVE" /\ NewSub(FirstExpiry).auto = TRUE
        /\ NewSub(FirstExpiry).grace = NoDay
        /\ NewSub(FirstExpiry).expires = FirstExpiry
        /\ NoSub.status = "none"
    BY DEF NewSub, NoSub
  <2>2. FirstExpiry \in Nat /\ Grace \in Nat
    BY RenewalAssumption DEF RenewalAssumption
  <2> QED
    BY <2>1, <2>2 DEF Init, Renewing, Renews, NoDay
<1>2. OneAfterAnother
  <2>1. \A t \in SubIds : subs[t].status # "none" => t = 1
    BY DEF Init, NoSub
  <2> QED
    BY <2>1, RenewalAssumption DEF OneAfterAnother, SubIds, RenewalAssumption
<1>3. KeptUntilPaid /\ EventsTrue
  BY DEF Init, KeptUntilPaid, EventsTrue, Live, Exists
<1> QED
  BY <1>1, <1>2, <1>3 DEF Chained

LEMMA ChainedStep ==
    ASSUME TypeOK, LockOK, BooksAgree, MaxOthers = 0, NoOthers,
           ~PanelCalls, Grace <= Cycle, Chained, [Next]_vars
    PROVE  NoOthers' /\ Chained'
<1>1. Renewing' /\ OneAfterAnother' /\ Forwards /\ NoOthers'
  BY RowsChain, RowsMove
<1>2. Paid \subseteq Paid'
  BY BooksStep DEF MovesWithMoney, CashOverwrites
<1>3. KeptUntilPaid'
  <2> SUFFICES ASSUME NEW i \in IntentIds, NEW k, k = intents'[i].key, Live(i)'
               PROVE  /\ subs'[k[1]].status # "none"
                      /\ k \in Paid' \/ k = Key(k[1])'
    BY DEF KeptUntilPaid
  <2>1. CASE Live(i) /\ k = intents[i].key
    <3>1. /\ subs[k[1]].status # "none" /\ k[1] \in SubIds
          /\ k \in Paid \/ k = Key(k[1])
      BY <2>1 DEF Chained, KeptUntilPaid, TypeOK, IntentRecords, Keys
    <3> QED
      BY <1>1, <1>2, <3>1 DEF Forwards
  <2>2. ASSUME NEW s \in SubIds, subs[s].status # "none", subs' = subs, k = Key(s)
        PROVE  /\ subs'[k[1]].status # "none"
               /\ k \in Paid' \/ k = Key(k[1])'
    BY <2>2 DEF Key
  <2> QED
    BY <2>1, <2>2, ChargesMove
<1>4. EventsTrue'
  BY ChargesMove DEF Chained, EventsTrue
<1> QED
  BY <1>1, <1>3, <1>4 DEF Chained

-----------------------------------------------------------------------------
(* Every period in order is tried                                          *)

\* The next look goes with the grace: without one there is no other.
GraceGoesWithNext ==
    \A s \in SubIds : subs[s].grace = NoDay => subs[s].next = NoDay

\* A charge that is processing leaves a payment.
PendingIsRecorded ==
    \A c \in Runs :
        Held(c) /\ runs[c].at.verdict = "pending" => runs[c].at.pay # NoPayment

Untried(s) ==
    /\ subs[s].status = "ACTIVE" /\ subs[s].auto /\ subs[s].grace = NoDay
    /\ subs[s].expires <= today + Lead
    /\ Key(s) \notin DOMAIN pays

\* A run of today is done with s.
Passed(s) == \E c \in Runs : runs[c].began /\ s \notin runs[c].pending

\* Each day that s is due and not tried cost a transaction.
DaysCost ==
    \A s \in SubIds :
        Untried(s) => used.rollbacks >= today + Lead - subs[s].expires
                                        + IF Passed(s) THEN 1 ELSE 0

Tried ==
    /\ GraceGoesWithNext /\ PendingIsRecorded /\ DaysCost
    /\ used.rollbacks <= MaxRollbacks

\* The marks of the cron keep the next look with the grace.
LEMMA MarkedGraceGoes ==
    ASSUME TypeOK, NEW sub \in SubRecords, NEW verdict
    PROVE  /\ Marked(sub, verdict).grace = NoDay => Marked(sub, verdict).next = NoDay
           /\ Marked(sub, verdict).grace = NoDay => verdict \in {"paid", "pending"}
<1>1. sub.expires + Grace \in Nat
  BY RenewalAssumption DEF SubRecords, RenewalAssumption
<1>2. sub.expires + Grace # NoDay
  BY <1>1 DEF NoDay
<1>3. MarkRenewed(sub).next = NoDay
  BY DEF MarkRenewed, SubRecords
<1>4. MarkActionRequired(sub).grace = sub.expires + Grace
  BY DEF MarkActionRequired, SubRecords
<1>5. MarkFailed(sub).grace = sub.expires + Grace
  BY DEF MarkFailed, SubRecords
<1> QED
  BY <1>2, <1>3, <1>4, <1>5 DEF Marked

\* An extension leaves the dunning columns alone, a new row has none.
LEMMA ActivatedGraceGoes ==
    ASSUME TypeOK, GraceGoesWithNext, NEW h \in SubIds, CanActivate
    PROVE  Activated[h].grace = NoDay => Activated[h].next = NoDay
<1>1. CASE Primary # 0
  BY <1>1 DEF Activated, Extended, GraceGoesWithNext, TypeOK, SubRecords
<1>2. CASE Primary = 0
  BY <1>2 DEF Activated, NewSub, NoSub, GraceGoesWithNext, TypeOK
<1> QED
  BY <1>1, <1>2

\* Whoever writes a row keeps its next look with its grace.
LEMMA GraceGoesStep ==
    ASSUME TypeOK, LockOK, GraceGoesWithNext, [Next]_vars
    PROVE  GraceGoesWithNext'
<1> DEFINE Goal == GraceGoesWithNext'
<1>0. \A h \in SubIds : subs[h] \in SubRecords
  BY DEF TypeOK
<1>1. CASE subs' = subs
  BY <1>1 DEF GraceGoesWithNext
<1>2. ASSUME NEW c \in Runs, Commit(c) PROVE Goal
  <2>1. PICK s \in SubIds, rows \in [SubIds -> SubRecords] :
          /\ \/ CanActivate /\ rows = Activated
             \/ rows = subs
          /\ subs'[s] = Marked(rows[s], runs[c].at.verdict)
          /\ \A h \in SubIds : h # s => subs'[h] = rows[h]
    BY <1>2, CommitRows
  <2>2. \A h \in SubIds : rows[h].grace = NoDay => rows[h].next = NoDay
    BY <2>1, ActivatedGraceGoes DEF GraceGoesWithNext
  <2> QED
    BY <2>1, <2>2, MarkedGraceGoes DEF GraceGoesWithNext
<1>3. ASSUME NEW i \in IntentIds, WebhookSucceeded(i) PROVE Goal
  <2>1. subs' = subs \/ (CanActivate /\ subs' = Activated)
    BY <1>3 DEF WebhookSucceeded
  <2> QED
    BY <1>1, <2>1, ActivatedGraceGoes DEF GraceGoesWithNext
<1>4. ASSUME OtherWrites PROVE Goal
  <2>1. \A h \in SubIds : subs'[h].grace = subs[h].grace /\ subs'[h].next = subs[h].next
    BY <1>0, <1>4 DEF OtherWrites, TypeOK, SubRecords
  <2> QED
    BY <2>1 DEF GraceGoesWithNext
<1>5. ASSUME OtherOpens PROVE Goal
  BY <1>5 DEF OtherOpens, GraceGoesWithNext, TypeOK, NewSub, NoSub
<1>6. ASSUME NEW on \in BOOLEAN, SetAutoRenew(on) PROVE Goal
  <2>1. \A h \in SubIds : \/ subs'[h] = subs[h]
                          \/ /\ subs'[h].grace = subs[h].grace
                             /\ subs'[h].next \in {NoDay, subs[h].next}
    BY <1>0, <1>6 DEF SetAutoRenew, TypeOK, SubRecords
  <2> QED
    BY <2>1 DEF GraceGoesWithNext
<1>7. ASSUME NEW on \in BOOLEAN, NEW s \in SubIds, ToggleAutoRenew(s, on) PROVE Goal
  <2>1. \A h \in SubIds : subs'[h].grace = subs[h].grace /\ subs'[h].next = subs[h].next
    BY <1>0, <1>7 DEF ToggleAutoRenew, TypeOK, SubRecords
  <2> QED
    BY <2>1 DEF GraceGoesWithNext
<1>8. Outside => Goal
  BY <1>1, <1>3, <1>4, <1>5, <1>6, <1>7
     DEF Outside, Settle, WebhookFailed, WebhookUnknown, OtherReads, ChangeCard
<1> QED
  BY <1>1, <1>2, <1>8, NextIs
     DEF vars, SelectDue, Rollback, TurnAway, CheckPrior, ChargeReplayed,
         ChargeUnreachable, Charge, Tick

\* Only Stripe's "processing" makes a verdict "pending", and it names the charge.
LEMMA PendingStep ==
    ASSUME TypeOK, LockOK, PendingIsRecorded, [Next]_vars
    PROVE  PendingIsRecorded'
<1> DEFINE Goal == PendingIsRecorded'
<1>1. ASSUME \A d \in Runs : runs'[d].at \in {runs[d].at, Idle} PROVE Goal
  BY <1>1 DEF PendingIsRecorded, Held
<1>2. ASSUME NEW c \in Runs, NEW s \in SubIds, NEW v, v.verdict \in Verdicts,
             v.pay \in PaymentRecords, Hold(c, s, v),
             v.verdict = "pending" => v.pay # NoPayment
      PROVE  Goal
  <2>1. /\ runs'[c].at = [sub |-> s, verdict |-> v.verdict, pay |-> v.pay]
        /\ \A d \in Runs : d # c => runs'[d].at = runs[d].at
    BY <1>2, HoldType
  <2> QED
    BY <1>2, <2>1 DEF PendingIsRecorded, Held
<1>3. ASSUME NEW c \in Runs, NEW s \in SubIds, CheckPrior(c, s) PROVE Goal
  <2>1. PICK v : /\ Hold(c, s, v) /\ v.verdict \in Verdicts \ {"pending"}
                 /\ v.pay \in PaymentRecords
    <3>1. Payment(Key(s)) \in PaymentRecords
      BY PaymentType
    <3>2. \A status \in {"none", "PENDING", "PROCESSING", "REQUIRES_ACTION",
                         "FAILED", "SUCCESS"} :
            [Payment(Key(s)) EXCEPT !.status = status] \in PaymentRecords
      BY <3>1 DEF PaymentRecords
    <3>3. Payment(Key(s)).status \in {"none", "PENDING", "PROCESSING",
                                      "REQUIRES_ACTION", "FAILED", "SUCCESS"}
      BY <3>1 DEF PaymentRecords
    <3>4. \E verdict \in Verdicts \ {"pending"} :
          \E status \in {"none", "PENDING", "PROCESSING", "REQUIRES_ACTION",
                         "FAILED", "SUCCESS"} :
             Hold(c, s, [verdict |-> verdict,
                         pay |-> [Payment(Key(s)) EXCEPT !.status = status]])
      BY <1>3, <3>3 DEF CheckPrior, Verdicts
    <3> QED
      BY <3>2, <3>4
  <2> QED
    BY <1>2, <2>1
<1>4. ASSUME NEW c \in Runs, NEW s \in SubIds,
             \/ ChargeReplayed(c, s) \/ ChargeUnreachable(c, s)
             \/ \E reply \in Replies : Charge(c, s, reply)
      PROVE  Goal
  <2>1. PICK i, reply :
          i \in IntentIds \cup {NoIntent} /\ Hold(c, s, Verdict(reply, i))
    <3>1. CASE \E reply \in Replies : Charge(c, s, reply)
      BY <3>1, ChargeType
    <3>2. CASE ChargeReplayed(c, s) \/ ChargeUnreachable(c, s)
      BY <3>2 DEF ChargeReplayed, ChargeUnreachable, Remembered
    <3> QED
      BY <1>4, <3>1, <3>2
  <2>2. Verdict(reply, i).verdict = "pending" => Verdict(reply, i).pay # NoPayment
    BY DEF Verdict, NoPayment
  <2> QED
    BY <1>2, <2>1, <2>2, VerdictType
<1>5. ASSUME NEW c \in Runs, Commit(c) \/ Rollback(c) PROVE Goal
  <2>1. \A d \in Runs : runs'[d].at \in {runs[d].at, Idle}
    BY <1>5, ReleaseType DEF Commit, Rollback
  <2> QED
    BY <1>1, <2>1
<1>6. ASSUME NEW c \in Runs,
             SelectDue(c) \/ (\E s \in SubIds : TurnAway(c, s)) \/ Tick
      PROVE  Goal
  BY <1>1, <1>6, IdleLock
<1>7. CASE Runs = {}
  BY <1>7 DEF PendingIsRecorded
<1>8. Outside \/ UNCHANGED vars => Goal
  <2>1. Outside \/ UNCHANGED vars => runs' = runs
    BY OutsideLock DEF vars
  <2> QED
    BY <1>1, <2>1
<1> QED
  BY <1>3, <1>4, <1>5, <1>6, <1>7, <1>8, NextIs

\* What is untried after a step of the day was untried before it.
LEMMA UntriedBefore ==
    ASSUME TypeOK, LockOK, BooksAgree, PendingIsRecorded, Lead < Cycle,
           ~PanelCalls, [Next]_vars, today' = today,
           NEW h \in SubIds, Untried(h)'
    PROVE  /\ Untried(h) /\ subs'[h].expires = subs[h].expires
           /\ \A c \in Runs : Commit(c) => h # runs[c].at.sub
<1> DEFINE Goal == /\ Untried(h) /\ subs'[h].expires = subs[h].expires
                   /\ \A c \in Runs : Commit(c) => h # runs[c].at.sub
<1>0. /\ today \in Nat /\ Cycle \in Nat /\ Lead \in Nat
      /\ \A s \in SubIds : subs[s] \in SubRecords /\ subs[s].expires \in Nat
  BY RenewalAssumption DEF TypeOK, RenewalAssumption, SubRecords
<1>1. /\ subs'[h].status = "ACTIVE" /\ subs'[h].auto /\ subs'[h].grace = NoDay
      /\ subs'[h].expires <= today + Lead
      /\ <<h, subs'[h].expires>> \notin DOMAIN pays'
  BY DEF Untried, Key
<1>2. ~(subs'[h].expires \in Nat /\ subs'[h].expires >= today + Cycle)
  BY <1>0, <1>1
<1>3. DOMAIN pays \subseteq DOMAIN pays'
  <2>1. CASE Outside
    <3>1. ASSUME NEW i \in IntentIds, WebhookSucceeded(i) \/ WebhookFailed(i)
          PROVE  DOMAIN pays \subseteq DOMAIN pays'
      BY <3>1 DEF WebhookSucceeded, WebhookFailed, WithPayment
    <3> QED
      BY <2>1, <3>1
         DEF Outside, Settle, WebhookUnknown, OtherReads, OtherWrites,
             OtherOpens, SetAutoRenew, ToggleAutoRenew, ChangeCard
  <2>2. ASSUME NEW c \in Runs, Commit(c) PROVE DOMAIN pays \subseteq DOMAIN pays'
    BY <2>2 DEF Commit, WithPayment
  <2> QED
    BY <2>1, <2>2, NextIs
       DEF vars, SelectDue, Rollback, TurnAway, CheckPrior, Charge,
           ChargeReplayed, ChargeUnreachable, Tick
<1>4. subs'[h] = subs[h] => Untried(h)
  BY <1>1, <1>3 DEF Untried, Key
<1>5. ASSUME CanActivate PROVE \/ Activated[h] = subs[h]
                               \/ /\ Activated[h].expires \in Nat
                                  /\ Activated[h].expires >= today + Cycle
  <2>1. Activated[h].expires \in Nat
    BY ActivatedType DEF SubRecords
  <2> QED
    BY <1>5, <2>1, ActivatedMoves DEF BooksAgree
<1>6. ASSUME NEW c \in Runs, Commit(c) PROVE h # runs[c].at.sub /\ subs'[h] = subs[h]
  <2>1. PICK s \in SubIds, rows \in [SubIds -> SubRecords] :
          /\ s = runs[c].at.sub
          /\ \/ CanActivate /\ rows = Activated
             \/ rows = subs
          /\ subs'[s] = Marked(rows[s], runs[c].at.verdict)
          /\ \A x \in SubIds : x # s => subs'[x] = rows[x]
    BY <1>6, CommitRows
  <2>2. \/ rows[h] = subs[h]
        \/ rows[h].expires \in Nat /\ rows[h].expires >= today + Cycle
    BY <1>5, <2>1
  <2>3. ASSUME h = s PROVE FALSE
    <3>1. runs[c].at.verdict \in {"paid", "pending"}
      BY <1>1, <2>1, <2>3, MarkedGraceGoes
    <3>2. subs'[h].expires = rows[h].expires
      BY <2>1, <2>3, MarkedType
    <3>3. rows[h] = subs[h]
      BY <1>2, <2>2, <3>2
    <3>4. Held(c)
      BY <1>6 DEF Commit, Held
    <3>5. \/ runs[c].at.pay # NoPayment
          \/ Payment(Key(s)).status = "SUCCESS"
      BY <2>1, <3>1, <3>4
         DEF PendingIsRecorded, BooksAgree, HeldAgree, Believes, NoPayment
    <3>6. Key(s) \in DOMAIN pays'
      <4>1. CASE runs[c].at.pay # NoPayment
        BY <1>6, <2>1, <4>1 DEF Commit, WithPayment
      <4>2. CASE Payment(Key(s)).status = "SUCCESS"
        BY <1>3, <4>2 DEF Payment, NoPayment
      <4> QED
        BY <3>5, <4>1, <4>2
    <3> QED
      BY <1>1, <2>3, <3>2, <3>3, <3>6 DEF Key
  <2> QED
    BY <1>2, <2>1, <2>2, <2>3
<1>7. ASSUME NEW i \in IntentIds, WebhookSucceeded(i) PROVE subs'[h] = subs[h]
  <2>1. subs' = subs \/ (CanActivate /\ subs' = Activated)
    BY <1>7 DEF WebhookSucceeded
  <2> QED
    BY <1>2, <1>5, <2>1
<1>8. ASSUME OtherWrites PROVE subs'[h] = subs[h]
  <2>1. /\ other.sub \in SubIds /\ other.expires \in Nat
        /\ h # other.sub => subs'[h] = subs[h]
        /\ h = other.sub => subs'[h].expires = NextPeriodEnd(other.expires)
    BY <1>0, <1>8 DEF OtherWrites, TypeOK, SubRecords
  <2>2. NextPeriodEnd(other.expires) >= today + Cycle
        /\ NextPeriodEnd(other.expires) \in Nat
    BY <1>0, <2>1 DEF NextPeriodEnd
  <2> QED
    BY <1>2, <2>1, <2>2
<1>9. ASSUME OtherOpens PROVE subs'[h] = subs[h]
  <2>1. /\ h # FreeSub => subs'[h] = subs[h]
        /\ h = FreeSub => subs'[h].expires = today + Cycle
    BY <1>9 DEF OtherOpens, TypeOK, NewSub, NoSub
  <2> QED
    BY <1>0, <1>2, <2>1
<1>10. Outside => subs'[h] = subs[h]
  BY <1>7, <1>8, <1>9
     DEF Outside, Settle, WebhookFailed, WebhookUnknown, OtherReads,
         SetAutoRenew, ToggleAutoRenew, ChangeCard
<1>11. subs'[h] = subs[h]
  BY <1>6, <1>10, NextIs
     DEF vars, SelectDue, Rollback, TurnAway, CheckPrior, ChargeReplayed,
         ChargeUnreachable, Charge, Tick
<1> QED
  BY <1>4, <1>6, <1>11

\* A run that is done with what it should have tried lost a transaction.
LEMMA PassedBefore ==
    ASSUME TypeOK, LockOK, GraceGoesWithNext, [Next]_vars, ~Tick,
           NEW h \in SubIds, Untried(h), Passed(h)',
           \A c \in Runs : Commit(c) => h # runs[c].at.sub
    PROVE  Passed(h) \/ \E c \in Runs : Rollback(c)
<1>1. Due(h)
  BY DEF Untried, Due, GraceGoesWithNext
<1>2. PICK c \in Runs : runs'[c].began /\ h \notin runs'[c].pending
  BY DEF Passed
<1> DEFINE Goal == Passed(h) \/ \E d \in Runs : Rollback(d)
<1>3. ASSUME runs'[c].began = runs[c].began, runs'[c].pending = runs[c].pending
      PROVE  Goal
  BY <1>2, <1>3 DEF Passed
<1>4. ASSUME NEW d \in Runs, SelectDue(d) PROVE Goal
  <2>1. CASE d = c
    BY <1>1, <1>2, <1>4, <2>1 DEF SelectDue, TypeOK
  <2>2. CASE d # c
    BY <1>3, <1>4, <2>2 DEF SelectDue, TypeOK
  <2> QED
    BY <2>1, <2>2
<1>5. ASSUME NEW d \in Runs, NEW s \in SubIds, TurnAway(d, s) PROVE Goal
  <2>1. s # h
    BY <1>1, <1>5 DEF TurnAway
  <2>2. /\ runs'[c].began = runs[c].began
        /\ h \in runs[c].pending => h \in runs'[c].pending
    BY <1>5, <2>1 DEF TurnAway, TypeOK, RunRecords
  <2> QED
    BY <1>2, <2>2 DEF Passed
<1>6. ASSUME NEW d \in Runs, Commit(d) PROVE Goal
  <2>1. /\ runs'[c].began = runs[c].began
        /\ h \in runs[c].pending => h \in runs'[c].pending
    BY <1>6 DEF Commit, Release, TypeOK, RunRecords
  <2> QED
    BY <1>2, <2>1 DEF Passed
<1>7. ASSUME NEW d \in Runs, NEW s \in SubIds, NEW v, Hold(d, s, v) PROVE Goal
  BY <1>3, <1>7 DEF Hold, TypeOK, RunRecords
<1>8. ASSUME NEW d \in Runs, NEW s \in SubIds,
             \/ CheckPrior(d, s) \/ ChargeReplayed(d, s) \/ ChargeUnreachable(d, s)
             \/ \E reply \in Replies : Charge(d, s, reply)
      PROVE  Goal
  <2>1. \E v : Hold(d, s, v)
    BY <1>8 DEF CheckPrior, ChargeReplayed, ChargeUnreachable, Charge
  <2> QED
    BY <1>7, <2>1
<1>9. ASSUME Outside PROVE Goal
  <2>1. runs' = runs
    BY <1>9, OutsideLock
  <2> QED
    BY <1>3, <2>1
<1>10. \A d \in Runs : Rollback(d) => Goal
  OBVIOUS
<1> HIDE DEF Goal
<1>11. Goal
  BY <1>3, <1>4, <1>5, <1>6, <1>8, <1>9, <1>10, NextIs DEF vars
<1> QED
  BY <1>11 DEF Goal

\* A day that leaves a period untried has cost a transaction.
LEMMA TriedStep ==
    ASSUME TypeOK, LockOK, BooksAgree, Lead < Cycle, ~PanelCalls, DailyCron,
           Runs # {}, Tried, [Next]_vars
    PROVE  Tried'
<1>0. /\ today \in Nat /\ Lead \in Nat /\ MaxRollbacks \in Nat
      /\ used.rollbacks \in Nat
      /\ \A s \in SubIds : subs[s].expires \in Nat
  BY RenewalAssumption DEF TypeOK, RenewalAssumption, SubRecords
<1>1. GraceGoesWithNext' /\ PendingIsRecorded'
  BY GraceGoesStep, PendingStep DEF Tried
<1>2. /\ used'.rollbacks <= MaxRollbacks
      /\ used'.rollbacks >= used.rollbacks
      /\ (\E c \in Runs : Rollback(c)) => used'.rollbacks = used.rollbacks + 1
  <2>1. ASSUME NEW c \in Runs, Rollback(c)
        PROVE  used'.rollbacks = used.rollbacks + 1 /\ used.rollbacks < MaxRollbacks
    BY <2>1 DEF Rollback, TypeOK
  <2>2. Outside => used'.rollbacks = used.rollbacks
    BY DEF Outside, Settle, WebhookSucceeded, WebhookFailed, WebhookUnknown,
           OtherReads, OtherWrites, OtherOpens, SetAutoRenew, ToggleAutoRenew,
           ChangeCard, TypeOK
  <2>3. \/ used'.rollbacks = used.rollbacks
        \/ \E c \in Runs : Rollback(c)
    BY <2>2, NextIs
       DEF vars, SelectDue, Commit, TurnAway, CheckPrior, Charge,
           ChargeReplayed, ChargeUnreachable, Tick
  <2>4. used'.rollbacks = used.rollbacks => used'.rollbacks <= MaxRollbacks
    BY DEF Tried
  <2> QED
    BY <1>0, <2>1, <2>3, <2>4
<1>3. CASE Tick
  <2>1. /\ subs' = subs /\ pays' = pays /\ today' = today + 1 /\ used' = used
        /\ \A c \in Runs : runs[c].began /\ runs[c].pending = {}
        /\ \A c \in Runs : ~runs'[c].began
    BY <1>3 DEF Tick
  <2>2. ASSUME NEW s \in SubIds, Untried(s)'
        PROVE  used.rollbacks >= today + 1 + Lead - subs[s].expires
    <3>1. CASE subs[s].expires <= today + Lead
      <4>1. Untried(s) /\ Passed(s)
        BY <2>1, <2>2, <3>1 DEF Untried, Key, Passed
      <4> QED
        BY <1>0, <4>1 DEF Tried, DaysCost
    <3>2. CASE ~(subs[s].expires <= today + Lead)
      <4>1. subs[s].expires \in Nat
        BY <1>0
      <4> QED
        BY <1>0, <3>2, <4>1
    <3> QED
      BY <3>1, <3>2
  <2>3. \A s \in SubIds : ~Passed(s)'
    BY <2>1 DEF Passed
  <2>4. DaysCost'
    <3> SUFFICES ASSUME NEW s \in SubIds, Untried(s)'
                 PROVE  used'.rollbacks >= today' + Lead - subs'[s].expires
                                           + IF Passed(s)' THEN 1 ELSE 0
      BY DEF DaysCost
    <3>1. subs[s].expires \in Nat
      BY <1>0
    <3> QED
      BY <1>0, <2>1, <2>2, <2>3, <3>1
  <2> QED
    BY <1>1, <1>2, <2>4 DEF Tried
<1>4. CASE ~Tick
  <2>1. today' = today
    <3>1. Outside => today' = today
      BY DEF Outside, Settle, WebhookSucceeded, WebhookFailed, WebhookUnknown,
             OtherReads, OtherWrites, OtherOpens, SetAutoRenew,
             ToggleAutoRenew, ChangeCard
    <3> QED
      BY <1>4, <3>1, NextIs
         DEF vars, SelectDue, Commit, Rollback, TurnAway, CheckPrior, Charge,
             ChargeReplayed, ChargeUnreachable
  <2>2. DaysCost'
    <3> SUFFICES ASSUME NEW s \in SubIds, Untried(s)'
                 PROVE  used'.rollbacks >= today' + Lead - subs'[s].expires
                                           + IF Passed(s)' THEN 1 ELSE 0
      BY DEF DaysCost
    <3>1. /\ Untried(s) /\ subs'[s].expires = subs[s].expires
          /\ \A c \in Runs : Commit(c) => s # runs[c].at.sub
      BY <2>1, UntriedBefore DEF Tried
    <3>2. Passed(s)' => Passed(s) \/ used'.rollbacks = used.rollbacks + 1
      BY <1>2, <1>4, <3>1, PassedBefore DEF Tried
    <3>3. used.rollbacks >= today + Lead - subs[s].expires
                            + IF Passed(s) THEN 1 ELSE 0
      BY <3>1 DEF Tried, DaysCost
    <3>4. used'.rollbacks \in Nat
      BY TypeStep DEF TypeOK
    <3>5. subs[s].expires \in Nat
      BY <1>0
    <3> QED
      BY <1>0, <1>2, <2>1, <3>1, <3>2, <3>3, <3>4, <3>5
  <2> QED
    BY <1>1, <1>2, <2>2 DEF Tried
<1> QED
  BY <1>3, <1>4

-----------------------------------------------------------------------------
(* Theorems                                                                *)

\* The types, and the row locks of the cron, whatever Stripe answers.
THEOREM RenewalsTypeOK == Spec => [](TypeOK /\ LockOK)
<1>1. Init => TypeOK /\ LockOK
  BY TypeInit, SafeInit DEF Safe
<1>2. TypeOK /\ LockOK /\ [Next]_vars => (TypeOK /\ LockOK)'
  BY TypeStep, LockStep
<1> QED
  BY <1>1, <1>2, PTL DEF Spec

(* The cron charges only the period in force of a subscription that is     *)
(* due when it is charged, for any number of concurrent runs, however old  *)
(* the list of run_renewals is.                                            *)
THEOREM ChargeOnlyWhenDueAlways == Spec => ChargeOnlyWhenDue
<1> DEFINE WhenDue ==
        \A i \in IntentIds :
            ~Exists(i) /\ Exists(i)' =>
                LET s == intents'[i].key[1] IN
                /\ subs[s].auto /\ intents'[i].key[2] = subs[s].expires
                /\ today + Lead >= subs[s].expires
                /\ subs[s].grace = NoDay \/ today < subs[s].grace
<1>1. TypeOK /\ LockOK /\ [Next]_vars => [WhenDue]_vars
  <2> SUFFICES ASSUME TypeOK, LockOK, [Next]_vars PROVE WhenDue
    OBVIOUS
  <2>1. ASSUME NEW c \in Runs, NEW s \in SubIds, NEW reply \in Replies,
               Charge(c, s, reply)
        PROVE  WhenDue
    <3>1. PICK i \in IntentIds :
            /\ intents'[i].key = Key(s)
            /\ \A j \in IntentIds \ {i} : intents'[j] = intents[j]
      BY <2>1, ChargeType
    <3>2. Due(s)
      BY <2>1 DEF Charge, MayCharge
    <3>3. /\ subs[s].auto /\ today + Lead >= subs[s].expires
          /\ subs[s].grace = NoDay \/ today < subs[s].grace
      <4>1. /\ today \in Int /\ Lead \in Int /\ subs[s].expires \in Int
            /\ subs[s].grace \in Int
        BY RenewalAssumption
           DEF RenewalAssumption, TypeOK, SubRecords, NoDay
      <4> QED
        BY <3>2, <4>1 DEF Due
    <3> QED
      BY <3>1, <3>3 DEF Key, Exists
  <2>2. ASSUME NEW i \in IntentIds, NEW status \in {"succeeded", "failed"},
               Settle(i, status)
        PROVE  WhenDue
    BY <2>2 DEF Settle, TypeOK, IntentRecords, Exists
  <2>3. CASE intents' = intents
    BY <2>3 DEF Exists
  <2> QED
    BY <2>1, <2>2, <2>3
       DEF Next, vars, SelectDue, Commit, Rollback, TurnAway, CheckPrior,
           ChargeReplayed, ChargeUnreachable, WebhookSucceeded, WebhookFailed,
           WebhookUnknown, OtherReads, OtherWrites, OtherOpens, SetAutoRenew,
           ToggleAutoRenew, ChangeCard, Tick
<1> QED
  BY <1>1, RenewalsTypeOK, PTL DEF Spec, ChargeOnlyWhenDue

(* A period is charged once, for any number of runs, days, subscriptions,  *)
(* other payments and late webhooks, when Stripe's answers arrive and the  *)
(* transactions of the cron commit.  (A lost answer, or a transaction lost  *)
(* when Stripe no longer remembers its key, may charge a period twice; the *)
(* run renewals_daily shows that a daily cron repairs a lost transaction.) *)
THEOREM ChargedOnceWithoutLoss ==
    ASSUME MaxRollbacks = 0, "lost" \notin Replies
    PROVE  Spec => []ChargedOncePerPeriod
<1>1. Init => TypeOK /\ Safe
  BY TypeInit, SafeInit
<1>2. TypeOK /\ Safe /\ [Next]_vars => (TypeOK /\ Safe)'
  BY TypeStep, SafeStep DEF Safe
<1>3. TypeOK /\ Safe => ChargedOncePerPeriod
  <2> SUFFICES ASSUME TypeOK, Safe,
                      NEW i \in IntentIds, NEW j \in IntentIds, i # j,
                      Live(i), Live(j), intents[i].key = intents[j].key
               PROVE  FALSE
    BY DEF ChargedOncePerPeriod, Live
  <2>1. CASE \E c \in Runs : Holds(c, intents[i].key)
    BY <2>1 DEF Safe, HoldersKnow
  <2>2. CASE ~\E c \in Runs : Holds(c, intents[i].key)
    BY <2>2 DEF Safe, LiveIsKnown
  <2> QED
    BY <2>1, <2>2
<1> QED
  BY <1>1, <1>2, <1>3, PTL DEF Spec

(* Time and money agree, for any number of runs, webhooks, subscriptions   *)
(* and other payments that follow one another, whatever Stripe answers and *)
(* whatever is rolled back: the end of a period moves only with one        *)
(* payment, and by a whole cycle, unless cash is written over a payment    *)
(* applied since it read.                                                  *)
THEOREM EveryPaymentExtendsOnceAlways == Spec => EveryPaymentExtendsOnce
<1>1. TypeOK /\ LockOK /\ BooksAgree /\ [Next]_vars => BooksAgree'
  BY BooksStep
<1>2. TypeOK /\ LockOK /\ BooksAgree /\ [Next]_vars
        => MovesWithMoney \/ CashOverwrites
  BY BooksStep
<1> QED
  BY <1>1, <1>2, BooksInit, RenewalsTypeOK, PTL DEF Spec, EveryPaymentExtendsOnce

(* The grace of a subscription that owes is counted from its expiry, for    *)
(* any number of runs, retries, webhooks and panel calls, where no checkout *)
(* or cash payment writes the end it read over a row that owes by then.     *)
THEOREM GraceAnchoredAlways ==
    ASSUME MaxOthers = 0
    PROVE  Spec => []GraceAnchored
<1>1. Init => NoOthers /\ GraceAnchored
  BY DEF Init, NoOthers, GraceAnchored, NewSub, NoSub
<1>2. TypeOK /\ LockOK /\ BooksAgree /\ [Next]_vars => BooksAgree'
  BY BooksStep
<1>3. TypeOK /\ LockOK /\ BooksAgree /\ NoOthers /\ GraceAnchored /\ [Next]_vars
        => NoOthers' /\ GraceAnchored'
  BY GraceStep
<1> QED
  BY <1>1, <1>2, <1>3, BooksInit, RenewalsTypeOK, PTL DEF Spec

(* A charge that took the money is never orphaned, for any number of runs  *)
(* and subscriptions, whatever Stripe answers, however late its webhooks   *)
(* are and however many transactions are rolled back.  (A checkout moves   *)
(* the end of the period under the charge, and the switch of the panel     *)
(* stops the cron from looking.)                                           *)
THEOREM PaidChargeStaysReachable ==
    ASSUME MaxOthers = 0, ~PanelCalls, Grace <= Cycle
    PROVE  Spec => []PaidChargeIsReachable
<1>1. Init => NoOthers /\ Chained /\ BooksAgree
  BY BooksInit, ChainedInit DEF Init, NoOthers
<1>2. TypeOK /\ LockOK /\ BooksAgree /\ NoOthers /\ Chained /\ [Next]_vars
        => (BooksAgree /\ NoOthers /\ Chained)'
  BY BooksStep, ChainedStep
<1>3. TypeOK /\ Chained => PaidChargeIsReachable
  <2> SUFFICES ASSUME TypeOK, Chained, NEW i \in IntentIds,
                      intents[i].status = "succeeded",
                      NEW k, k = intents[i].key
               PROVE  \/ Payment(k).status = "SUCCESS"
                      \/ k = Key(k[1]) /\ subs[k[1]].auto
    BY DEF PaidChargeIsReachable
  <2>1. /\ subs[k[1]].status # "none" /\ k[1] \in SubIds
        /\ k \in Paid \/ k = Key(k[1])
    BY DEF Chained, KeptUntilPaid, TypeOK, IntentRecords, Keys, Live, Exists
  <2> QED
    BY <2>1 DEF Chained, Renewing, Renews, Paid, Payment
<1> QED
  BY <1>1, <1>2, <1>3, RenewalsTypeOK, PTL DEF Spec

(* What renewals_daily checks of the charges: none is lost, and where the  *)
(* answers arrive and the transactions commit, none is repeated.           *)
THEOREM ChargesAreKeptWithoutLoss ==
    ASSUME MaxOthers = 0, ~PanelCalls, Grace <= Cycle,
           MaxRollbacks = 0, "lost" \notin Replies
    PROVE  Spec => []ChargesAreKept
<1>1. PaidChargeIsReachable /\ ChargedOncePerPeriod => ChargesAreKept
  BY DEF ChargesAreKept
<1> QED
  BY <1>1, PaidChargeStaysReachable, ChargedOnceWithoutLoss, PTL

(* A period in order that ends unpaid has been tried, for any number of     *)
(* runs and subscriptions, whatever Stripe answers and whoever else pays,   *)
(* when the cron runs daily, fewer transactions are lost than the window    *)
(* has days, and the customer leaves the switches alone.                    *)
THEOREM PeriodsInOrderAreTriedDaily ==
    ASSUME Runs # {}, DailyCron, ~PanelCalls, Lead < Cycle,
           Lead <= FirstExpiry, MaxRollbacks <= Lead
    PROVE  Spec => []PeriodsInOrderAreTried
<1>1. Init => Tried
  <2> SUFFICES ASSUME Init PROVE Tried
    OBVIOUS
  <2>1. GraceGoesWithNext /\ PendingIsRecorded
    BY DEF Init, GraceGoesWithNext, PendingIsRecorded, Held, NewSub, NoSub
  <2>2. ASSUME NEW s \in SubIds, Untried(s)
        PROVE  used.rollbacks >= today + Lead - subs[s].expires
                                 + IF Passed(s) THEN 1 ELSE 0
    <3>1. subs[s].expires = FirstExpiry /\ today = 0 /\ used.rollbacks = 0
      BY <2>2 DEF Init, Untried, NewSub, NoSub
    <3>2. ~Passed(s)
      BY DEF Init, Passed
    <3>3. Lead \in Nat /\ FirstExpiry \in Nat
      BY RenewalAssumption DEF RenewalAssumption
    <3> QED
      BY <3>1, <3>2, <3>3
  <2>3. used.rollbacks <= MaxRollbacks
    BY RenewalAssumption DEF Init, RenewalAssumption
  <2> QED
    BY <2>1, <2>2, <2>3 DEF Tried, DaysCost
<1>2. TypeOK /\ LockOK /\ BooksAgree /\ Tried /\ [Next]_vars => (BooksAgree /\ Tried)'
  BY BooksStep, TriedStep
<1>3. TypeOK /\ Tried => PeriodsInOrderAreTried
  <2> SUFFICES ASSUME TypeOK, Tried, NEW s \in SubIds,
                      subs[s].status = "ACTIVE", subs[s].auto,
                      subs[s].expires < today, subs[s].grace = NoDay,
                      Key(s) \notin DOMAIN pays
               PROVE  FALSE
    BY DEF PeriodsInOrderAreTried
  <2>1. /\ today \in Nat /\ Lead \in Nat /\ subs[s].expires \in Nat
        /\ used.rollbacks \in Nat /\ MaxRollbacks \in Nat
    BY RenewalAssumption DEF TypeOK, SubRecords, RenewalAssumption
  <2>2. Untried(s)
    BY <2>1 DEF Untried
  <2>3. used.rollbacks >= today + Lead - subs[s].expires + IF Passed(s) THEN 1 ELSE 0
    BY <2>2 DEF Tried, DaysCost
  <2>4. used.rollbacks <= MaxRollbacks
    BY DEF Tried
  <2> QED
    BY <2>1, <2>3, <2>4
<1> QED
  BY <1>1, <1>2, <1>3, BooksInit, RenewalsTypeOK, PTL DEF Spec

=============================================================================
