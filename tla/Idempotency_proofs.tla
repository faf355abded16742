------------------------- MODULE Idempotency_proofs -------------------------
(***************************************************************************)
(* Theorems about Idempotency, for every set of requests and every timing. *)
(*                                                                         *)
(* Two results hold of every behaviour: the types, and that no 5xx is      *)
(* stored.  Three need the server to be prompt (PromptServer): requests    *)
(* end within StaleAfter, none crashes, and the key is not used past its   *)
(* TTL.  Without it Idempotency is not exclusive (see the README).        *)
(***************************************************************************)
EXTENDS Idempotency, FiniteSetTheorems, TLAPS

(* What is known of a stored row: its columns, and that it is not NoRow.   *)
LEMMA RowTypes ==
    ASSUME NEW x \in RowRecords
    PROVE  /\ x # NoRow
           /\ x.id \in Requests
           /\ x.hash \in Payloads
           /\ x.status \in {"in_progress", "completed"}
           /\ x.body \in Requests \cup {Nobody}
           /\ x.created \in Nat
           /\ x.expires \in Nat
BY NobodyAssumption DEF RowRecords, NoRow

(* The absent row carries no id.                                           *)
LEMMA NoRowId == NoRow.id = Nobody
BY DEF NoRow

(* The initial rows and sessions have their types.                         *)
LEMMA TypeInit == Init => TypeOK
BY DEF Init, TypeOK, RequestRecords, Steps, Outcomes, Answers, NoRow
(* Every step keeps the types, one case per transaction.                   *)
LEMMA TypeStep == TypeOK /\ [Next]_vars => TypeOK'
<1> SUFFICES ASSUME TypeOK, [Next]_vars PROVE TypeOK'
  OBVIOUS
<1> USE DEF TypeOK, RequestRecords, Steps, Outcomes, Answers, Answer
<1>1. CASE UNCHANGED vars
  BY <1>1 DEF vars
<1>2. CASE Tick
  BY <1>2 DEF Tick
<1>3. ASSUME NEW r \in Requests, Arrive(r) PROVE TypeOK'
  BY <1>3 DEF Arrive
<1>4. ASSUME NEW r \in Requests, InsertReservation(r) PROVE TypeOK'
  <2>1. row' \in RowRecords
    BY <1>4, TimeAssumption DEF InsertReservation, RowRecords
  <2>2. QED
    BY <1>4, <2>1 DEF InsertReservation
<1>5. ASSUME NEW r \in Requests, InsertConflict(r) PROVE TypeOK'
  BY <1>5 DEF InsertConflict
<1>6. ASSUME NEW r \in Requests, ReadVanished(r) PROVE TypeOK'
  BY <1>6 DEF ReadVanished
<1>7. ASSUME NEW r \in Requests, ReadCompleted(r) PROVE TypeOK'
  BY <1>7, RowTypes DEF ReadCompleted
<1>8. ASSUME NEW r \in Requests, ReadMismatch(r) PROVE TypeOK'
  BY <1>8 DEF ReadMismatch
<1>9. ASSUME NEW r \in Requests, ReadBusy(r) PROVE TypeOK'
  BY <1>9 DEF ReadBusy
<1>10. ASSUME NEW r \in Requests, ReadStale(r) PROVE TypeOK'
  BY <1>10 DEF ReadStale
<1>11. ASSUME NEW r \in Requests, TakeOver(r) PROVE TypeOK'
  <2>1. row \in RowRecords
    BY <1>11 DEF TakeOver
  <2>2. row' \in RowRecords
    <3> DEFINE h == Written(row.hash, req[r].seen.hash, req[r].payload)
               s == Written(row.status, req[r].seen.status, "in_progress")
               b == Written(row.body, req[r].seen.body, Nobody)
    <3>1. /\ h \in Payloads
          /\ s \in {"in_progress", "completed"}
          /\ b \in Requests \cup {Nobody}
      BY <2>1, RowTypes DEF Written
    <3>2. req[r].now \in Nat /\ req[r].now + TTL \in Nat
      BY TimeAssumption
    <3>3. row' = [row EXCEPT !.hash = h, !.status = s, !.body = b,
                             !.created = req[r].now,
                             !.expires = req[r].now + TTL]
      BY <1>11 DEF TakeOver
    <3> HIDE DEF h, s, b
    <3>4. QED
      BY <2>1, <3>1, <3>2, <3>3 DEF RowRecords
  <2>3. req[r].seen.id \in Requests
    BY <1>11, <2>1, RowTypes DEF TakeOver
  <2>4. QED
    BY <1>11, <2>2, <2>3 DEF TakeOver
<1>12. ASSUME NEW r \in Requests, TakeOverVanished(r) PROVE TypeOK'
  BY <1>12 DEF TakeOverVanished
<1>13. ASSUME NEW r \in Requests, NEW o \in {"created", "rejected", "failed"},
              Execute(r, o)
       PROVE  TypeOK'
  BY <1>13 DEF Execute
<1>14. ASSUME NEW r \in Requests, Complete(r) PROVE TypeOK'
  <2>1. CASE row # NoRow /\ row.id = req[r].rid
    <3>1. row' \in RowRecords
      BY <1>14, <2>1 DEF Complete, RowRecords
    <3>2. QED
      BY <1>14, <3>1 DEF Complete
  <2>2. CASE ~(row # NoRow /\ row.id = req[r].rid)
    BY <1>14, <2>2 DEF Complete
  <2>3. QED
    BY <2>1, <2>2
<1>15. ASSUME NEW r \in Requests, Abandon(r) PROVE TypeOK'
  BY <1>15 DEF Abandon
<1>16. ASSUME NEW r \in Requests, Crash(r) PROVE TypeOK'
  BY <1>16 DEF Crash
<1>17. QED
  BY <1>1, <1>2, <1>3, <1>4, <1>5, <1>6, <1>7, <1>8, <1>9, <1>10, <1>11,
     <1>12, <1>13, <1>14, <1>15, <1>16 DEF Next

(* Type correctness: a row is always a whole row, also under the           *)
(* column-wise UPDATE of a takeover, and every session record stays in     *)
(* its type.                                                               *)
THEOREM TypeCorrect == Spec => []TypeOK
BY TypeInit, TypeStep, PTL DEF Spec

-----------------------------------------------------------------------------

(* A row has a response exactly when it is not in progress, in the table   *)
(* and in the copy that a takeover loaded: the columns that _take_over     *)
(* resets therefore change together or not at all.                         *)
Coherent(record) ==
    record # NoRow => (record.status = "in_progress" <=> record.body = Nobody)

(* The row says "completed" only with the body of a request that is over   *)
(* and had a definite outcome.  "Over" is what makes it inductive: no      *)
(* later step can change that request's outcome.                           *)
StoredIsFinal ==
    row # NoRow /\ row.status = "completed" =>
        /\ row.body # Nobody
        /\ req[row.body].pc = "answered"
        /\ req[row.body].outcome \in {"created", "rejected"}

StoreInv ==
    /\ StoredIsFinal
    /\ Coherent(row)
    /\ \A r \in Requests : Coherent(req[r].seen)

(* A transaction of r that leaves the row alone keeps StoreInv when r had  *)
(* not answered before and loads nothing but the row.                      *)
LEMMA StoreKept ==
    ASSUME TypeOK, StoreInv, NEW r \in Requests, row' = row,
           req[r].pc # "answered",
           req'[r].seen \in {req[r].seen, row},
           \A q \in Requests \ {r} : req'[q] = req[q]
    PROVE  StoreInv'
<1>1. StoredIsFinal'
  BY RowTypes DEF TypeOK, StoreInv, StoredIsFinal
<1>2. Coherent(row)'
  BY DEF StoreInv, Coherent
<1>3. \A q \in Requests : Coherent(req[q].seen)'
  BY DEF StoreInv, Coherent
<1>4. QED
  BY <1>1, <1>2, <1>3 DEF StoreInv

(* Each transaction keeps StoreInv: complete_idempotency writes its own    *)
(* definite outcome, a takeover either resets status and body or leaves    *)
(* both to the request that completed the row meanwhile.                   *)
LEMMA StoreStep == TypeOK /\ StoreInv /\ [Next]_vars => StoreInv'
<1> SUFFICES ASSUME TypeOK, StoreInv, [Next]_vars PROVE StoreInv'
  OBVIOUS
<1>0. \A r \in Requests : req[r] \in RequestRecords
  BY DEF TypeOK
<1>1. CASE UNCHANGED vars
  BY <1>1 DEF vars, StoreInv, StoredIsFinal, Coherent
<1>2. CASE Tick
  BY <1>2 DEF Tick, StoreInv, StoredIsFinal, Coherent
<1>3. ASSUME NEW r \in Requests, Arrive(r) PROVE StoreInv'
  <2>1. req'[r].seen = req[r].seen
    BY <1>0, <1>3 DEF Arrive, RequestRecords, TypeOK
  <2>2. QED
    BY <1>3, <2>1, StoreKept DEF Arrive, TypeOK
<1>4. ASSUME NEW r \in Requests, NEW o \in {"created", "rejected", "failed"},
             Execute(r, o)
      PROVE  StoreInv'
  <2>1. req'[r].seen = req[r].seen
    BY <1>0, <1>4 DEF Execute, RequestRecords, TypeOK
  <2>2. QED
    BY <1>4, <2>1, StoreKept DEF Execute, TypeOK
<1>5. ASSUME NEW r \in Requests, ReadStale(r) PROVE StoreInv'
  <2>1. req'[r].seen = row
    BY <1>0, <1>5 DEF ReadStale, RequestRecords, TypeOK
  <2>2. QED
    BY <1>5, <2>1, StoreKept DEF ReadStale, TypeOK
<1>6. ASSUME NEW r \in Requests,
             \/ ReadVanished(r) \/ ReadCompleted(r) \/ ReadMismatch(r)
             \/ ReadBusy(r) \/ TakeOverVanished(r)
      PROVE  StoreInv'
  <2>1. req'[r].seen = req[r].seen
    BY <1>0, <1>6 DEF ReadVanished, ReadCompleted, ReadMismatch, ReadBusy,
       TakeOverVanished, Answer, RequestRecords, TypeOK
  <2>2. QED
    BY <1>6, <2>1, StoreKept DEF ReadVanished, ReadCompleted, ReadMismatch,
       ReadBusy, TakeOverVanished, TypeOK
<1>7. ASSUME NEW r \in Requests, InsertConflict(r) \/ Crash(r) PROVE StoreInv'
  <2>1. req'[r].seen = req[r].seen
    BY <1>0, <1>7 DEF InsertConflict, Crash, RequestRecords, TypeOK
  <2>2. QED
    BY <1>7, <2>1, StoreKept DEF InsertConflict, Crash, Live, TypeOK
<1>8. ASSUME NEW r \in Requests, InsertReservation(r) PROVE StoreInv'
  <2>1. row'.status = "in_progress" /\ row'.body = Nobody
    BY <1>8 DEF InsertReservation
  <2>2. \A q \in Requests : req'[q].seen = req[q].seen
    BY <1>0, <1>8 DEF InsertReservation, RequestRecords, TypeOK
  <2>3. QED
    BY <2>1, <2>2 DEF StoreInv, StoredIsFinal, Coherent
<1>9. ASSUME NEW r \in Requests, TakeOver(r) PROVE StoreInv'
  <2>1. row \in RowRecords
    BY <1>9 DEF TakeOver, TypeOK
  <2>2. /\ row'.status = Written(row.status, req[r].seen.status, "in_progress")
        /\ row'.body = Written(row.body, req[r].seen.body, Nobody)
    BY <1>9, <2>1 DEF TakeOver, RowRecords
  <2>3. req[r].seen # NoRow
    BY <1>9, <2>1, RowTypes, NoRowId, NobodyAssumption DEF TakeOver
  <2>4. \A q \in Requests : req'[q].seen = req[q].seen
    BY <1>0, <1>9 DEF TakeOver, RequestRecords, TypeOK
  <2>5. CASE req[r].seen.status = "in_progress"
    <3>1. row'.status = row.status /\ row'.body = row.body
      BY <2>2, <2>3, <2>5 DEF Written, StoreInv, Coherent
    <3>2. row.status = "completed" => row.body \in Requests \ {r}
      BY <1>9, <2>1, RowTypes DEF StoreInv, StoredIsFinal, TakeOver
    <3>3. \A q \in Requests \ {r} : req'[q] = req[q]
      BY <1>9 DEF TakeOver, TypeOK
    <3>4. StoredIsFinal' /\ Coherent(row)'
      BY <1>9, <3>1, <3>2, <3>3
      DEF StoreInv, StoredIsFinal, Coherent, TakeOver
    <3>5. QED
      BY <3>4, <2>4 DEF StoreInv, Coherent
  <2>6. CASE req[r].seen.status # "in_progress"
    <3>1. row'.status = "in_progress" /\ row'.body = Nobody
      BY <2>2, <2>6, <2>1, <2>3, <1>0, RowTypes
      DEF Written, StoreInv, Coherent, RequestRecords
    <3>2. QED
      BY <3>1, <2>4 DEF StoreInv, StoredIsFinal, Coherent
  <2>7. QED
    BY <2>5, <2>6
<1>10. ASSUME NEW r \in Requests, Complete(r) PROVE StoreInv'
  <2>1. /\ req'[r].pc = "answered"
        /\ req'[r].outcome = req[r].outcome
        /\ req'[r].seen = req[r].seen
    BY <1>0, <1>10 DEF Complete, Answer, RequestRecords, TypeOK
  <2>2. CASE row # NoRow /\ row.id = req[r].rid
    <3>1. row'.status = "completed" /\ row'.body = r
      BY <1>10, <2>2 DEF Complete, TypeOK, RowRecords
    <3>2. r # Nobody
      BY NobodyAssumption
    <3>3. QED
      BY <1>10, <2>1, <3>1, <3>2
      DEF Complete, StoreInv, StoredIsFinal, Coherent, TypeOK
  <2>3. CASE ~(row # NoRow /\ row.id = req[r].rid)
    BY <1>10, <2>1, <2>3, StoreKept DEF Complete, TypeOK
  <2>4. QED
    BY <2>2, <2>3
<1>11. ASSUME NEW r \in Requests, Abandon(r) PROVE StoreInv'
  <2>1. req'[r].seen = req[r].seen
    BY <1>0, <1>11 DEF Abandon, Answer, RequestRecords, TypeOK
  <2>2. CASE row # NoRow /\ row.id = req[r].rid
    BY <1>11, <2>1, <2>2
    DEF Abandon, StoreInv, StoredIsFinal, Coherent, TypeOK
  <2>3. CASE ~(row # NoRow /\ row.id = req[r].rid)
    BY <1>11, <2>1, <2>3, StoreKept DEF Abandon, TypeOK
  <2>4. QED
    BY <2>2, <2>3
<1>12. QED
  BY <1>1, <1>2, <1>3, <1>4, <1>5, <1>6, <1>7, <1>8, <1>9, <1>10, <1>11 DEF Next

(* Whatever the timing, the crashes and the takeovers, a completed row     *)
(* stores the response of a request that reached a definite outcome: a     *)
(* 5xx is never replayed to a retry.                                       *)
THEOREM FailuresNeverCachedAlways == Spec => []FailuresNeverCached
<1>1. Init => StoreInv
  BY DEF Init, StoreInv, StoredIsFinal, Coherent
<1>2. StoreInv => FailuresNeverCached
  BY DEF StoreInv, StoredIsFinal, FailuresNeverCached
<1>3. QED
  BY <1>1, <1>2, TypeInit, TypeStep, StoreStep, PTL DEF Spec

-----------------------------------------------------------------------------

(* The server is prompt: every request ends within StaleAfter of its       *)
(* arrival, no process dies, and no clock reading reaches the TTL.         *)
PromptServer == Prompt /\ MaxCrashes = 0 /\ MaxClock < TTL

(* A request between begin_ and complete_idempotency owns the one row, and *)
(* a row in progress is owned by such a request: a staleness test can only *)
(* succeed after the owner is done.                                        *)
Owner(r) ==
    /\ row # NoRow
    /\ row.id = r
    /\ row.status = "in_progress"
    /\ row.created = req[r].now
    /\ req[r].rid = r

ExclusiveInv ==
    /\ clock <= MaxClock
    /\ \A r \in Requests :
        /\ req[r].now <= clock
        /\ req[r].pc \notin {"taking", "dead"}
        /\ Live(r) => clock < req[r].now + StaleAfter
        /\ Holding(r) => Owner(r)
    /\ row # NoRow =>
        /\ row.expires = row.created + TTL
        /\ row.status = "in_progress" => Holding(row.id)
        /\ row.status = "completed" =>
            row.body # Nobody /\ req[row.body].payload = row.hash
    /\ \A r \in Requests : Holding(r) => row.hash = req[r].payload

(* In a prompt server no SELECT finds a row that may be taken over: it is  *)
(* too young to have expired, and a live owner is younger than StaleAfter. *)
LEMMA NothingStale ==
    ASSUME PromptServer, TypeOK, ExclusiveInv, NEW r \in Requests, row # NoRow
    PROVE  ~MayTakeOver(row, req[r].now)
<1>1. row \in RowRecords /\ req[r] \in RequestRecords
  BY DEF TypeOK
<1>2. /\ row.created \in Nat /\ row.expires \in Nat /\ row.id \in Requests
      /\ req[r].now \in Nat /\ clock \in Nat
  BY <1>1, RowTypes DEF RequestRecords, TypeOK
<1>3. ~IsExpired(row, req[r].now)
  BY <1>2, TimeAssumption DEF ExclusiveInv, IsExpired, PromptServer
<1>4. ASSUME row.status = "in_progress"
      PROVE  ~IsStaleInProgress(row, req[r].now)
  <2>1. Holding(row.id) /\ req[row.id].now = row.created
    BY <1>2, <1>4 DEF ExclusiveInv, Owner
  <2>2. clock < row.created + StaleAfter /\ req[r].now <= clock
    BY <1>2, <2>1 DEF ExclusiveInv, Holding, Live
  <2>3. QED
    BY <1>2, <2>2, TimeAssumption DEF IsStaleInProgress
<1>5. QED
  BY <1>3, <1>4 DEF MayTakeOver

(* No process dies when none may.                                          *)
LEMMA NoCrash ==
    ASSUME PromptServer, NEW r \in Requests
    PROVE  ~Crash(r)
<1>1. Cardinality({q \in Requests : req[q].pc = "dead"}) \in Nat
  BY RequestsAssumption, FS_Subset, FS_CardinalityType
<1>2. QED
  BY <1>1 DEF Crash, PromptServer

(* A request that ends without touching the row keeps ExclusiveInv.        *)
LEMMA ExclusiveKept ==
    ASSUME TypeOK, ExclusiveInv, NEW r \in Requests, UNCHANGED <<clock, row>>,
           ~Holding(r), req'[r].now = req[r].now,
           req'[r].payload = req[r].payload,
           req'[r].pc \in {"answered", "conflict"},
           req'[r].pc = "conflict" => Live(r),
           \A q \in Requests \ {r} : req'[q] = req[q]
    PROVE  ExclusiveInv'
<1>1. \A q \in Requests : /\ Holding(q)' <=> Holding(q)
                          /\ Live(q)' => Live(q)
                          /\ Holding(q) => q # r
  BY DEF Holding, Live
<1>2. \A q \in Requests : req'[q].payload = req[q].payload
  OBVIOUS
<1>3. \A q \in Requests : Owner(q) /\ q # r => Owner(q)'
  BY DEF Owner
<1>4. row # NoRow => row.id \in Requests /\ row.body \in Requests \cup {Nobody}
  BY RowTypes DEF TypeOK
<1>5. QED
  BY <1>1, <1>2, <1>3, <1>4 DEF ExclusiveInv

(* Every step of a prompt server keeps ExclusiveInv.                       *)
LEMMA ExclusiveStep ==
    PromptServer /\ TypeOK /\ ExclusiveInv /\ [Next]_vars => ExclusiveInv'
<1> SUFFICES ASSUME PromptServer, TypeOK, ExclusiveInv, [Next]_vars
             PROVE  ExclusiveInv'
  OBVIOUS
<1>0. /\ \A r \in Requests : req[r] \in RequestRecords /\ req[r].now \in Nat
      /\ clock \in Nat
      /\ row # NoRow => /\ row \in RowRecords
                        /\ row.id \in Requests
                        /\ row.body \in Requests \cup {Nobody}
  BY RowTypes DEF TypeOK, RequestRecords
<1>1. CASE UNCHANGED vars
  BY <1>1 DEF vars, ExclusiveInv, Holding, Live, Owner
<1>2. CASE Tick
  <2>1. clock' = clock + 1 /\ clock' <= MaxClock /\ UNCHANGED <<row, req>>
    BY <1>0, <1>2, TimeAssumption DEF Tick
  <2>2. \A r \in Requests :
          req'[r].now <= clock' /\ (Live(r)' => clock' < req'[r].now + StaleAfter)
    BY <1>0, <1>2, <2>1 DEF Tick, PromptServer, ExclusiveInv, Live
  <2>3. QED
    BY <2>1, <2>2 DEF ExclusiveInv, Holding, Owner
<1>3. ASSUME NEW r \in Requests, Arrive(r) PROVE ExclusiveInv'
  <2>1. /\ req'[r].pc = "inserting" /\ req'[r].now = clock
        /\ req'[r].payload = req[r].payload
        /\ \A q \in Requests \ {r} : req'[q] = req[q]
    BY <1>0, <1>3 DEF Arrive, RequestRecords, TypeOK
  <2>2. clock < clock + StaleAfter
    BY <1>0, TimeAssumption
  <2>3. /\ ~Holding(r) /\ UNCHANGED <<clock, row>>
        /\ \A q \in Requests : Holding(q)' <=> Holding(q)
    BY <1>3, <2>1 DEF Arrive, Holding
  <2>4. \A q \in Requests : Holding(q) => Owner(q)'
    BY <2>1, <2>3 DEF ExclusiveInv, Owner
  <2>5. \A q \in Requests :
          req'[q].now <= clock' /\ (Live(q)' => clock' < req'[q].now + StaleAfter)
    BY <1>0, <2>1, <2>2, <2>3 DEF ExclusiveInv, Live
  <2>6. QED
    BY <1>0, <2>1, <2>3, <2>4, <2>5 DEF ExclusiveInv
<1>4. ASSUME NEW r \in Requests, InsertReservation(r) PROVE ExclusiveInv'
  <2>1. /\ req'[r].pc = "executing" /\ req'[r].now = req[r].now
        /\ req'[r].payload = req[r].payload /\ req'[r].rid = r
        /\ \A q \in Requests \ {r} : req'[q] = req[q]
        /\ Live(r) /\ clock' = clock
    BY <1>0, <1>4 DEF InsertReservation, RequestRecords, TypeOK, Live
  <2>2. \A q \in Requests : ~Holding(q)
    BY <1>4 DEF InsertReservation, ExclusiveInv, Owner
  <2>3. /\ row'.id = r /\ row'.hash = req[r].payload
        /\ row'.status = "in_progress" /\ row'.created = req[r].now
        /\ row'.expires = row'.created + TTL
    BY <1>4 DEF InsertReservation
  <2>4. row' # NoRow
    BY <2>3, NoRowId, NobodyAssumption
  <2>5. Owner(r)' /\ Holding(r)' /\ \A q \in Requests : Holding(q)' => q = r
    BY <2>1, <2>2, <2>3, <2>4 DEF Owner, Holding
  <2>6. \A q \in Requests : /\ req'[q].now <= clock'
                            /\ req'[q].pc \notin {"taking", "dead"}
                            /\ Live(q)' => clock' < req'[q].now + StaleAfter
    BY <2>1 DEF ExclusiveInv, Live
  <2>7. QED
    BY <2>1, <2>3, <2>5, <2>6 DEF ExclusiveInv
<1>5. ASSUME NEW r \in Requests, InsertConflict(r) PROVE ExclusiveInv'
  <2>1. /\ req'[r].pc = "conflict" /\ req'[r].now = req[r].now
        /\ req'[r].payload = req[r].payload
        /\ \A q \in Requests \ {r} : req'[q] = req[q]
    BY <1>0, <1>5 DEF InsertConflict, RequestRecords, TypeOK
  <2>2. ~Holding(r) /\ Live(r) /\ UNCHANGED <<clock, row>>
    BY <1>5 DEF InsertConflict, Holding, Live
  <2>3. QED
    BY <2>1, <2>2, ExclusiveKept
<1>6. ASSUME NEW r \in Requests,
             ReadVanished(r) \/ ReadCompleted(r) \/ ReadMismatch(r) \/ ReadBusy(r)
      PROVE  ExclusiveInv'
  <2>1. /\ req'[r].pc = "answered" /\ req'[r].now = req[r].now
        /\ req'[r].payload = req[r].payload
        /\ \A q \in Requests \ {r} : req'[q] = req[q]
    <3>1. CASE ReadCompleted(r)
      BY <1>0, <3>1 DEF ReadCompleted, Answer, RequestRecords, TypeOK
    <3>2. CASE ~ReadCompleted(r)
      <4>1. PICK k \in Answers : req' = [req EXCEPT ![r] = Answer(r, k)]
        BY <1>6, <3>2 DEF ReadVanished, ReadMismatch, ReadBusy, Answers
      <4>2. QED
        BY <1>0, <4>1 DEF Answer, RequestRecords, TypeOK
    <3>3. QED
      BY <3>1, <3>2
  <2>2. ~Holding(r) /\ UNCHANGED <<clock, row>>
    BY <1>6 DEF ReadVanished, ReadCompleted, ReadMismatch, ReadBusy, Holding
  <2>3. QED
    BY <2>1, <2>2, ExclusiveKept
<1>7. ASSUME NEW r \in Requests,
             ReadStale(r) \/ TakeOver(r) \/ TakeOverVanished(r) \/ Crash(r)
      PROVE  ExclusiveInv'
  BY <1>7, NothingStale, NoCrash
  DEF ReadStale, TakeOver, TakeOverVanished, ExclusiveInv
<1>8. ASSUME NEW r \in Requests, NEW o \in {"created", "rejected", "failed"},
             Execute(r, o)
      PROVE  ExclusiveInv'
  <2>1. /\ req'[r].pc = "executed" /\ req'[r].now = req[r].now
        /\ req'[r].payload = req[r].payload /\ req'[r].rid = req[r].rid
        /\ \A q \in Requests \ {r} : req'[q] = req[q]
    BY <1>0, <1>8 DEF Execute, RequestRecords, TypeOK
  <2>2. req[r].pc = "executing" /\ UNCHANGED <<clock, row>>
    BY <1>8 DEF Execute
  <2>3. ASSUME NEW q \in Requests
        PROVE  /\ Holding(q)' <=> Holding(q)
               /\ Live(q)' <=> Live(q)
               /\ Owner(q)' <=> Owner(q)
               /\ req'[q].now = req[q].now
               /\ req'[q].payload = req[q].payload
               /\ req'[q].pc \in {req[q].pc, "executed"}
    <3>1. CASE q = r
      BY <2>1, <2>2, <3>1 DEF Holding, Live, Owner
    <3>2. CASE q # r
      BY <2>1, <2>2, <3>2 DEF Holding, Live, Owner
    <3>3. QED
      BY <3>1, <3>2
  <2>4. QED
    BY <1>0, <2>2, <2>3 DEF ExclusiveInv
<1>9. ASSUME NEW r \in Requests, Complete(r) \/ Abandon(r) PROVE ExclusiveInv'
  <2>1. /\ req'[r].pc = "answered" /\ req'[r].now = req[r].now
        /\ req'[r].payload = req[r].payload
        /\ \A q \in Requests \ {r} : req'[q] = req[q]
        /\ clock' = clock
    BY <1>0, <1>9 DEF Complete, Abandon, Answer, RequestRecords, TypeOK
  <2>2. Holding(r) /\ Owner(r) /\ row.hash = req[r].payload
    BY <1>9 DEF Complete, Abandon, Holding, ExclusiveInv
  <2>3. \A q \in Requests : ~Holding(q)'
    BY <2>1, <2>2 DEF Holding, ExclusiveInv, Owner
  <2>4. \A q \in Requests : /\ req'[q].now <= clock'
                            /\ req'[q].pc \notin {"taking", "dead"}
                            /\ Live(q)' => clock' < req'[q].now + StaleAfter
    BY <2>1 DEF ExclusiveInv, Live
  <2>5. CASE Complete(r)
    <3>1. /\ row'.id = row.id /\ row'.hash = row.hash /\ row'.body = r
          /\ row'.status = "completed" /\ row'.expires = row'.created + TTL
      BY <1>0, <2>2, <2>5 DEF Complete, Owner, RowRecords, ExclusiveInv
    <3>2. QED
      BY <2>1, <2>2, <2>3, <2>4, <3>1, NobodyAssumption DEF ExclusiveInv
  <2>6. CASE Abandon(r)
    <3>1. row' = NoRow
      BY <2>2, <2>6 DEF Abandon, Owner
    <3>2. QED
      BY <2>1, <2>3, <2>4, <3>1 DEF ExclusiveInv
  <2>7. QED
    BY <1>9, <2>5, <2>6
<1>10. QED
  BY <1>1, <1>2, <1>3, <1>4, <1>5, <1>6, <1>7, <1>8, <1>9 DEF Next

(* It holds before the first request.                                      *)
LEMMA ExclusiveInit == PromptServer /\ Init => ExclusiveInv
BY TimeAssumption DEF Init, ExclusiveInv, Live, Holding, RequestRecords

(* In a prompt server two requests with one Idempotency-Key are never both *)
(* charging.                                                               *)
THEOREM MutualExclusionWhenPrompt ==
    ASSUME PromptServer
    PROVE  Spec => []MutualExclusion
<1>1. ExclusiveInv => MutualExclusion
  BY DEF ExclusiveInv, MutualExclusion, Owner
<1>2. Init => ExclusiveInv
  BY ExclusiveInit
<1>3. TypeOK /\ ExclusiveInv /\ [Next]_vars => ExclusiveInv'
  BY ExclusiveStep
<1>4. QED
  BY <1>1, <1>2, <1>3, TypeInit, TypeStep, PTL DEF Spec

(* In a prompt server a stored response is final: nothing rewrites or      *)
(* deletes a completed row, since the requests that still execute own a    *)
(* row in progress, and there is one row.                                  *)
THEOREM CompletedIsStableWhenPrompt ==
    ASSUME PromptServer
    PROVE  Spec => CompletedIsStable
<1>1. ASSUME TypeOK, ExclusiveInv, [Next]_vars, row # NoRow,
             row.status = "completed"
      PROVE  row' = row
  <2>1. CASE UNCHANGED vars
    BY <2>1 DEF vars
  <2>2. CASE Tick
    BY <2>2 DEF Tick
  <2>3. ASSUME NEW r \in Requests, TakeOver(r) PROVE FALSE
    BY <1>1, <2>3 DEF TakeOver, ExclusiveInv
  <2>4. ASSUME NEW r \in Requests, Complete(r) \/ Abandon(r) PROVE FALSE
    BY <1>1, <2>4 DEF Complete, Abandon, Holding, ExclusiveInv, Owner
  <2>5. ASSUME NEW r \in Requests, InsertReservation(r) PROVE FALSE
    BY <1>1, <2>5 DEF InsertReservation
  <2>6. ASSUME NEW r \in Requests,
               \/ Arrive(r) \/ InsertConflict(r) \/ ReadVanished(r)
               \/ ReadCompleted(r) \/ ReadMismatch(r) \/ ReadBusy(r)
               \/ ReadStale(r) \/ TakeOverVanished(r) \/ Crash(r)
               \/ \E o \in {"created", "rejected", "failed"} : Execute(r, o)
        PROVE  row' = row
    BY <2>6 DEF Arrive, InsertConflict, ReadVanished, ReadCompleted,
       ReadMismatch, ReadBusy, ReadStale, TakeOverVanished, Crash, Execute
  <2>7. QED
    BY <1>1, <2>1, <2>2, <2>3, <2>4, <2>5, <2>6 DEF Next
<1>2. Init => ExclusiveInv
  BY ExclusiveInit
<1>3. TypeOK /\ ExclusiveInv /\ [Next]_vars => ExclusiveInv'
  BY ExclusiveStep
<1>4. TypeOK /\ ExclusiveInv /\ [Next]_vars
        => [row # NoRow /\ row.status = "completed" => row' = row]_vars
  BY <1>1
<1>5. QED
  BY <1>2, <1>3, <1>4, TypeInit, TypeStep, PTL DEF Spec, CompletedIsStable

-----------------------------------------------------------------------------

(* The mapping to OneExecution, by name.                                   *)
Bodies == [r \in Requests |-> req[r].payload]
Running == {r \in Requests : Holding(r)}
Stored == IF row # NoRow /\ row.status = "completed" THEN {row.body} ELSE {}
Told == [r \in Requests |-> req[r].answer]

(* A request has no answer until it ends, and a row that a request lost a  *)
(* race against is only missing after a failure was answered.              *)
AnswerInv ==
    /\ \A r \in Requests : req[r].answer = "none" <=> req[r].pc # "answered"
    /\ (\E r \in Requests : req[r].pc = "conflict") /\ row = NoRow
          => \E q \in Requests : req[q].answer = "failed"

(* What a transaction of r writes in its session, in a prompt server.      *)
LEMMA SessionOf ==
    ASSUME PromptServer, TypeOK, ExclusiveInv, NEW r \in Requests,
           NEW pc, NEW answer,
           req' \in [Requests -> RequestRecords],
           req'[r].pc = pc, req'[r].answer = answer,
           req'[r].payload = req[r].payload,
           \A q \in Requests \ {r} : req'[q] = req[q]
    PROVE  /\ Bodies' = Bodies
           /\ Told' = [Told EXCEPT ![r] = answer]
           /\ Running' = (Running \ {r})
                 \cup (IF pc \in {"executing", "executed"} THEN {r} ELSE {})
BY DEF Bodies, Told, Running, Holding

(* AnswerInv holds initially and is kept.                                  *)
LEMMA AnswerInit == Init => AnswerInv
BY DEF Init, AnswerInv

LEMMA AnswerStep ==
    PromptServer /\ TypeOK /\ ExclusiveInv /\ AnswerInv /\ [Next]_vars => AnswerInv'
<1> SUFFICES ASSUME PromptServer, TypeOK, ExclusiveInv, AnswerInv, [Next]_vars
             PROVE  AnswerInv'
  OBVIOUS
<1>0. \A r \in Requests : req[r] \in RequestRecords
  BY DEF TypeOK
<1>1. CASE UNCHANGED vars
  BY <1>1 DEF vars, AnswerInv
<1>2. CASE Tick
  BY <1>2 DEF Tick, AnswerInv
<1>3. ASSUME NEW r \in Requests, Arrive(r) \/ InsertReservation(r) \/ InsertConflict(r)
             \/ \E o \in {"created", "rejected", "failed"} : Execute(r, o)
      PROVE  AnswerInv'
  <2>1. /\ req'[r].pc # "answered" /\ req[r].pc # "answered"
        /\ req'[r].answer = req[r].answer
        /\ \A q \in Requests \ {r} : req'[q] = req[q]
        /\ req'[r].pc = "conflict" => row' # NoRow
        /\ row' = NoRow => row = NoRow
    BY <1>0, <1>3, NobodyAssumption DEF Arrive, InsertReservation, InsertConflict, Execute,
       RequestRecords, TypeOK, NoRow
  <2>2. QED
    BY <2>1 DEF AnswerInv
<1>4. ASSUME NEW r \in Requests,
             \/ ReadVanished(r) \/ ReadCompleted(r) \/ ReadMismatch(r) \/ ReadBusy(r)
             \/ Complete(r) \/ Abandon(r)
      PROVE  AnswerInv'
  <2>1. /\ req'[r].pc = "answered" /\ req'[r].answer # "none"
        /\ \A q \in Requests \ {r} : req'[q] = req[q]
        /\ req[r].pc # "answered"
        /\ row' = NoRow /\ row # NoRow => req'[r].answer = "failed"
    <3>1. CASE ReadVanished(r)
      BY <1>0, <3>1 DEF ReadVanished, Answer, RequestRecords, TypeOK
    <3>2. CASE ReadCompleted(r)
      BY <1>0, <3>2 DEF ReadCompleted, Answer, RequestRecords, TypeOK
    <3>3. CASE ReadMismatch(r) \/ ReadBusy(r)
      BY <1>0, <3>3 DEF ReadMismatch, ReadBusy, Answer, RequestRecords, TypeOK
    <3>4. CASE Complete(r)
      <4>1. row' # NoRow \/ row = NoRow
        BY <3>4, NobodyAssumption DEF Complete, TypeOK, RowRecords, NoRow
      <4>2. QED
        BY <1>0, <3>4, <4>1 DEF Complete, Answer, RequestRecords, TypeOK
    <3>5. CASE Abandon(r)
      BY <1>0, <3>5 DEF Abandon, Answer, RequestRecords, TypeOK
    <3>6. QED
      BY <1>4, <3>1, <3>2, <3>3, <3>4, <3>5
  <2>2. QED
    BY <2>1 DEF AnswerInv
<1>5. ASSUME NEW r \in Requests,
             ReadStale(r) \/ TakeOver(r) \/ TakeOverVanished(r) \/ Crash(r)
      PROVE  AnswerInv'
  BY <1>5, NothingStale, NoCrash
  DEF ReadStale, TakeOver, TakeOverVanished, ExclusiveInv
<1>6. QED
  BY <1>1, <1>2, <1>3, <1>4, <1>5 DEF Next

(* Every step of a prompt server is a step of OneExecution or changes      *)
(* nothing of it.                                                          *)
LEMMA PromiseStep ==
    PromptServer /\ TypeOK /\ TypeOK' /\ ExclusiveInv /\ AnswerInv /\ [Next]_vars
        => [Promise!Next]_(Promise!vars)
<1> SUFFICES ASSUME PromptServer, TypeOK, TypeOK', ExclusiveInv, AnswerInv, [Next]_vars
             PROVE  [Promise!Next]_(Promise!vars)
  OBVIOUS
<1>0. /\ \A r \in Requests : req[r] \in RequestRecords
      /\ row # NoRow => row \in RowRecords
  BY DEF TypeOK
<1>a. (\/ Promise!Next
       \/ Bodies' = Bodies /\ Running' = Running /\ Stored' = Stored /\ Told' = Told)
        => [Promise!Next]_(Promise!vars)
  BY DEF Promise!vars, Bodies, Running, Stored, Told
<1>1. CASE UNCHANGED vars \/ Tick
  BY <1>1, <1>a DEF vars, Tick, Bodies, Running, Stored, Told, Holding
<1>2. ASSUME NEW r \in Requests, Arrive(r) \/ InsertConflict(r)
             \/ \E o \in {"created", "rejected", "failed"} : Execute(r, o)
      PROVE  [Promise!Next]_(Promise!vars)
  <2>1. /\ req'[r].answer = req[r].answer /\ req'[r].payload = req[r].payload
        /\ \A q \in Requests \ {r} : req'[q] = req[q]
        /\ Holding(r)' <=> Holding(r)
        /\ row' = row
    BY <1>0, <1>2 DEF Arrive, InsertConflict, Execute, RequestRecords, TypeOK, Holding
  <2>2. Bodies' = Bodies /\ Running' = Running /\ Stored' = Stored /\ Told' = Told
    BY <2>1 DEF Bodies, Running, Stored, Told, Holding
  <2>3. QED
    BY <2>2, <1>a
<1>3. ASSUME NEW r \in Requests, InsertReservation(r) PROVE Promise!Begin(r)
  <2>1. /\ req'[r].pc = "executing" /\ req'[r].answer = req[r].answer
        /\ req'[r].payload = req[r].payload
        /\ \A q \in Requests \ {r} : req'[q] = req[q]
        /\ req[r].answer = "none"
    BY <1>0, <1>3 DEF InsertReservation, RequestRecords, TypeOK, AnswerInv
  <2>2. Running = {} /\ Stored = {}
    BY <1>3 DEF InsertReservation, Running, Stored, ExclusiveInv, Owner
  <2>3. Stored' = {}
    BY <1>3 DEF InsertReservation, Stored
  <2>4. /\ Bodies' = Bodies /\ Running' = {r}
        /\ Told' = [Told EXCEPT ![r] = req[r].answer]
    BY <2>1, <2>2, SessionOf DEF TypeOK
  <2>5. Told' = Told /\ Told[r] = "none" /\ r \notin Running
    BY <2>1, <2>2, <2>4 DEF Told
  <2>6. QED
    BY <2>2, <2>3, <2>4, <2>5
    DEF Promise!Begin, Promise!Waiting, Bodies, Running, Stored, Told
<1>4. ASSUME NEW r \in Requests, NEW reason \in Answers, req[r].pc = "conflict",
             row' = row, req'[r].pc = "answered", req'[r].answer = reason,
             req'[r].payload = req[r].payload,
             \A q \in Requests \ {r} : req'[q] = req[q]
      PROVE  Promise!Refusal(r, reason)
  <2>1. Running' = Running /\ Stored' = Stored /\ r \notin Running
    BY <1>4 DEF Running, Stored, Holding
  <2>2. Bodies' = Bodies /\ Told' = [Told EXCEPT ![r] = reason]
    BY <1>4, SessionOf DEF TypeOK
  <2>3. Told[r] = "none"
    BY <1>4 DEF Told, AnswerInv
  <2>4. QED
    BY <2>1, <2>2, <2>3
    DEF Promise!Refusal, Promise!Waiting, Bodies, Running, Stored, Told
<1>5. ASSUME NEW r \in Requests, ReadCompleted(r) \/ ReadMismatch(r)
      PROVE  Promise!Replay(r) \/ Promise!Mismatch(r)
  <2>1. /\ Stored = {row.body} /\ row.body \in Requests
        /\ Bodies[row.body] = row.hash
    BY <1>0, <1>5, RowTypes
    DEF ReadCompleted, ReadMismatch, Stored, Bodies, ExclusiveInv
  <2>2. CASE ReadCompleted(r)
    <3>1. /\ req[r].pc = "conflict" /\ row' = row /\ req'[r].pc = "answered"
          /\ req'[r].answer = "cached" /\ req'[r].payload = req[r].payload
          /\ \A q \in Requests \ {r} : req'[q] = req[q]
      BY <1>0, <2>2 DEF ReadCompleted, Answer, RequestRecords, TypeOK
    <3>2. Promise!Refusal(r, "cached")
      BY <3>1, <1>4 DEF Answers
    <3>3. Bodies[row.body] = Bodies[r]
      BY <2>1, <2>2 DEF ReadCompleted, Bodies
    <3>4. QED
      BY <2>1, <3>2, <3>3 DEF Promise!Replay, Stored, Bodies
  <2>3. CASE ReadMismatch(r)
    <3>1. /\ req[r].pc = "conflict" /\ row' = row /\ req'[r].pc = "answered"
          /\ req'[r].answer = "mismatch" /\ req'[r].payload = req[r].payload
          /\ \A q \in Requests \ {r} : req'[q] = req[q]
      BY <1>0, <2>3 DEF ReadMismatch, Answer, RequestRecords, TypeOK
    <3>2. Promise!Refusal(r, "mismatch")
      BY <3>1, <1>4 DEF Answers
    <3>3. Bodies[row.body] # Bodies[r]
      BY <2>1, <2>3 DEF ReadMismatch, Bodies
    <3>4. QED
      BY <2>1, <3>2, <3>3 DEF Promise!Mismatch, Stored, Bodies
  <2>4. QED
    BY <1>5, <2>2, <2>3
<1>6. ASSUME NEW r \in Requests, ReadVanished(r) \/ ReadBusy(r)
      PROVE  Promise!Lost(r) \/ Promise!Busy(r)
  <2>1. CASE ReadVanished(r)
    <3>1. /\ req[r].pc = "conflict" /\ row' = row /\ req'[r].pc = "answered"
          /\ req'[r].answer = "lost" /\ req'[r].payload = req[r].payload
          /\ \A q \in Requests \ {r} : req'[q] = req[q]
      BY <1>0, <2>1 DEF ReadVanished, Answer, RequestRecords, TypeOK
    <3>2. Promise!Refusal(r, "lost")
      BY <3>1, <1>4 DEF Answers
    <3>3. \E q \in Requests : Told[q] = "failed"
      BY <2>1, <3>1 DEF ReadVanished, AnswerInv, Told
    <3>4. QED
      BY <3>2, <3>3 DEF Promise!Lost, Told
  <2>2. CASE ReadBusy(r)
    <3>1. /\ req[r].pc = "conflict" /\ row' = row /\ req'[r].pc = "answered"
          /\ req'[r].answer = "busy" /\ req'[r].payload = req[r].payload
          /\ \A q \in Requests \ {r} : req'[q] = req[q]
      BY <1>0, <2>2 DEF ReadBusy, Answer, RequestRecords, TypeOK
    <3>2. Promise!Refusal(r, "busy")
      BY <3>1, <1>4 DEF Answers
    <3>3. Running # {}
      BY <1>0, <2>2, RowTypes DEF ReadBusy, ExclusiveInv, Running
    <3>4. QED
      BY <3>2, <3>3 DEF Promise!Busy, Running
  <2>3. QED
    BY <1>6, <2>1, <2>2
<1>7. ASSUME NEW r \in Requests, Complete(r) \/ Abandon(r)
      PROVE  Promise!Fail(r) \/ \E o \in {"created", "rejected"} : Promise!Finish(r, o)
  <2>1. /\ req'[r].pc = "answered" /\ req'[r].answer = req[r].outcome
        /\ req'[r].payload = req[r].payload
        /\ \A q \in Requests \ {r} : req'[q] = req[q]
    BY <1>0, <1>7 DEF Complete, Abandon, Answer, RequestRecords, TypeOK
  <2>2. Owner(r) /\ Running = {r}
    BY <1>7 DEF Complete, Abandon, Running, Holding, ExclusiveInv, Owner
  <2>3. /\ Bodies' = Bodies /\ Running' = {}
        /\ Told' = [Told EXCEPT ![r] = req[r].outcome]
    BY <2>1, <2>2, SessionOf DEF TypeOK
  <2>4. Stored = {}
    BY <2>2 DEF Stored, Owner
  <2>5. CASE Complete(r)
    <3>1. row' # NoRow /\ row'.status = "completed" /\ row'.body = r
      BY <1>0, <2>2, <2>5, NobodyAssumption DEF Complete, Owner, RowRecords, NoRow
    <3>2. Stored' = {r} /\ req[r].outcome \in {"created", "rejected"}
      BY <2>5, <3>1 DEF Stored, Complete
    <3>3. ASSUME NEW o \in {"created", "rejected"}, req[r].outcome = o
          PROVE  Promise!Finish(r, o)
      BY <2>2, <2>3, <3>2, <3>3 DEF Promise!Finish, Bodies, Running, Stored, Told
    <3>4. QED
      BY <3>2, <3>3
  <2>6. CASE Abandon(r)
    <3>1. row' = NoRow /\ req[r].outcome = "failed"
      BY <2>2, <2>6 DEF Abandon, Owner
    <3>2. Stored' = {}
      BY <3>1 DEF Stored
    <3>3. QED
      BY <2>2, <2>3, <2>4, <3>1, <3>2
      DEF Promise!Fail, Bodies, Running, Stored, Told
  <2>7. QED
    BY <1>7, <2>5, <2>6
<1>8. ASSUME NEW r \in Requests,
             ReadStale(r) \/ TakeOver(r) \/ TakeOverVanished(r) \/ Crash(r)
      PROVE  FALSE
  BY <1>8, NothingStale, NoCrash
  DEF ReadStale, TakeOver, TakeOverVanished, ExclusiveInv
<1>9. (\E r \in Requests :
         \/ Promise!Begin(r) \/ Promise!Fail(r)
         \/ \E o \in {"created", "rejected"} : Promise!Finish(r, o)
         \/ Promise!Replay(r) \/ Promise!Mismatch(r) \/ Promise!Busy(r) \/ Promise!Lost(r))
       => Promise!Next
  BY DEF Promise!Next
<1>10. QED
  BY <1>a, <1>1, <1>2, <1>3, <1>5, <1>6, <1>7, <1>8, <1>9 DEF Next

(* In a prompt server the requests with one key behave as one execution:   *)
(* the table and the sessions implement OneExecution.                      *)
THEOREM OneExecutionWhenPrompt ==
    ASSUME PromptServer
    PROVE  Spec => OneExecutionPerKey
<1>1. Init => Promise!Init
  BY DEF Init, Promise!Init, Holding
<1>2. Init => ExclusiveInv
  BY ExclusiveInit
<1>3. TypeOK /\ ExclusiveInv /\ [Next]_vars => ExclusiveInv'
  BY ExclusiveStep
<1>4. TypeOK /\ ExclusiveInv /\ AnswerInv /\ [Next]_vars => AnswerInv'
  BY AnswerStep
<1>5. TypeOK /\ TypeOK' /\ ExclusiveInv /\ AnswerInv /\ [Next]_vars
        => [Promise!Next]_(Promise!vars)
  BY PromiseStep
<1>6. QED
  BY <1>1, <1>2, <1>3, <1>4, <1>5, AnswerInit, TypeInit, TypeStep, PTL
  DEF Spec, OneExecutionPerKey, Promise!Spec

-----------------------------------------------------------------------------

(* Every transaction keeps the bodies, and tells a stored response only to *)
(* a request whose body is the one it was stored for.                      *)
LEMMA CachedStep ==
    PromptServer /\ TypeOK /\ ExclusiveInv /\ CachedAnswersMatchPayload /\ [Next]_vars
        => CachedAnswersMatchPayload'
<1> SUFFICES ASSUME PromptServer, TypeOK, ExclusiveInv, CachedAnswersMatchPayload,
                    [Next]_vars
             PROVE  CachedAnswersMatchPayload'
  OBVIOUS
<1>0. \A q \in Requests : req[q] \in RequestRecords
  BY DEF TypeOK
<1>1. ASSUME \A q \in Requests : req'[q].payload = req[q].payload,
             \A q \in Requests : req'[q].answer = "cached" =>
                \/ req[q].answer = "cached" /\ req'[q].from = req[q].from
                \/ /\ req'[q].from \in Requests
                   /\ req[req'[q].from].payload = req[q].payload
      PROVE  CachedAnswersMatchPayload'
  <2> SUFFICES ASSUME NEW q \in Requests, req'[q].answer = "cached"
               PROVE  /\ req'[q].from # Nobody
                      /\ req'[req'[q].from].payload = req'[q].payload
    BY DEF CachedAnswersMatchPayload
  <2>1. req'[q].from \in Requests /\ req[req'[q].from].payload = req[q].payload
    <3>1. CASE req[q].answer = "cached" /\ req'[q].from = req[q].from
      BY <1>0, <3>1 DEF CachedAnswersMatchPayload, RequestRecords
    <3>2. QED
      BY <1>1, <3>1
  <2>2. QED
    BY <1>1, <2>1, NobodyAssumption
<1>2. CASE UNCHANGED req
  BY <1>1, <1>2
<1>3. ASSUME NEW r \in Requests,
             \/ Arrive(r) \/ InsertReservation(r) \/ InsertConflict(r)
             \/ ReadStale(r) \/ TakeOver(r)
             \/ \E o \in {"created", "rejected", "failed"} : Execute(r, o)
      PROVE  CachedAnswersMatchPayload'
  <2>1. /\ req'[r].payload = req[r].payload
        /\ req'[r].answer = req[r].answer /\ req'[r].from = req[r].from
        /\ \A q \in Requests \ {r} : req'[q] = req[q]
    <3>1. CASE Arrive(r) \/ InsertReservation(r) \/ InsertConflict(r)
      BY <1>0, <3>1 DEF Arrive, InsertReservation, InsertConflict, RequestRecords, TypeOK
    <3>2. CASE ReadStale(r)
      BY <1>0, <3>2 DEF ReadStale, RequestRecords, TypeOK
    <3>3. CASE TakeOver(r)
      BY <1>0, <3>3 DEF TakeOver, RequestRecords, TypeOK
    <3>4. CASE \E o \in {"created", "rejected", "failed"} : Execute(r, o)
      BY <1>0, <3>4 DEF Execute, RequestRecords, TypeOK
    <3>5. QED
      BY <1>3, <3>1, <3>2, <3>3, <3>4
  <2>2. QED
    BY <1>1, <2>1
<1>4. ASSUME NEW r \in Requests,
             \/ ReadVanished(r) \/ ReadMismatch(r) \/ ReadBusy(r)
             \/ TakeOverVanished(r) \/ Complete(r) \/ Abandon(r)
      PROVE  CachedAnswersMatchPayload'
  <2>1. \E kind \in (Answers \ {"cached"}) : req' = [req EXCEPT ![r] = Answer(r, kind)]
    BY <1>0, <1>4 DEF ReadVanished, ReadMismatch, ReadBusy, TakeOverVanished, Complete,
       Abandon, Answers, Outcomes, RequestRecords
  <2>2. /\ req'[r].payload = req[r].payload
        /\ req'[r].answer # "cached"
        /\ \A q \in Requests \ {r} : req'[q] = req[q]
    BY <1>0, <2>1 DEF Answer, RequestRecords, TypeOK
  <2>3. QED
    BY <1>1, <2>2
<1>5. ASSUME NEW r \in Requests, ReadCompleted(r) PROVE CachedAnswersMatchPayload'
  <2>1. row.body \in Requests /\ req[row.body].payload = req[r].payload
    BY <1>5, RowTypes DEF ReadCompleted, ExclusiveInv, TypeOK
  <2>2. /\ req'[r].payload = req[r].payload
        /\ req'[r].from = row.body
        /\ \A q \in Requests \ {r} : req'[q] = req[q]
    BY <1>0, <1>5 DEF ReadCompleted, Answer, RequestRecords, TypeOK
  <2>3. QED
    BY <1>1, <2>1, <2>2
<1>6. QED
  BY <1>2, <1>3, <1>4, <1>5, NoCrash DEF Next, Tick, vars

(* In a prompt server whoever is answered from the table sent the body the *)
(* answer was given for.                                                   *)
THEOREM CachedAnswersMatchWhenPrompt ==
    ASSUME PromptServer
    PROVE  Spec => []CachedAnswersMatchPayload
<1>1. Init => ExclusiveInv /\ CachedAnswersMatchPayload
  BY ExclusiveInit DEF Init, CachedAnswersMatchPayload
<1>2. TypeOK /\ ExclusiveInv /\ [Next]_vars => ExclusiveInv'
  BY ExclusiveStep
<1>3. TypeOK /\ ExclusiveInv /\ CachedAnswersMatchPayload /\ [Next]_vars
        => CachedAnswersMatchPayload'
  BY CachedStep
<1>4. QED
  BY <1>1, <1>2, <1>3, TypeInit, TypeStep, PTL DEF Spec

=============================================================================
