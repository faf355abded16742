---------------------------- MODULE Idempotency ----------------------------
(***************************************************************************)
(* The HTTP idempotency reservation of POST /billing/payment-intent        *)
(* (app/services/idempotency_service.py and the endpoint that uses it).    *)
(*                                                                         *)
(* One (idempotency_key, account, endpoint): the table then has at most    *)
(* one row.  Requests that carry the key run in parallel, each in its own  *)
(* database session; an action is one committed transaction, so whatever   *)
(* another request commits between two transactions of a request is seen.  *)
(***************************************************************************)
EXTENDS Naturals, FiniteSets

CONSTANTS
    Requests,    \* the HTTP requests that carry the key
    Payloads,    \* request hashes: plan, cycle and gateway of the body
    StaleAfter,  \* STALE_IN_PROGRESS_SECONDS, in ticks
    TTL,         \* IDEMPOTENCY_TTL, in ticks
    MaxClock,    \* bound on the clock
    MaxCrashes,  \* bound on the requests whose process dies
    Prompt       \* TRUE: every request ends within StaleAfter of its arrival

ASSUME TimeAssumption ==
    /\ StaleAfter \in Nat \ {0}
    /\ TTL \in Nat \ {0}
    /\ MaxClock \in Nat
    /\ MaxCrashes \in Nat
    /\ Prompt \in BOOLEAN

ASSUME RequestsAssumption == IsFiniteSet(Requests)

VARIABLES
    clock,     \* wall clock
    row,       \* the row of api_idempotency_requests, or NoRow
    req        \* what each request holds in its session

vars == <<clock, row, req>>

Nobody == "nobody"
ASSUME NobodyAssumption == Nobody \notin Requests

Outcomes == {"none", "created", "rejected", "failed"}
Steps == {"idle", "inserting", "conflict", "taking", "executing",
          "executed", "answered", "dead"}
Answers == {"none", "created", "rejected", "failed", "cached",
            "busy", "mismatch", "lost"}

(* A row: "id" is the request whose INSERT created it (record.id), "body"  *)
(* the request whose response is stored in status_code / response_body.    *)
RowRecords ==
    [id: Requests, hash: Payloads, status: {"in_progress", "completed"},
     body: Requests \cup {Nobody}, created: Nat, expires: Nat]

NoRow == [id |-> Nobody]

(* A request: "now" is captured once, at the top of begin_idempotency;     *)
(* "rid" is reservation.record_id; "seen" is the row the SELECT loaded;    *)
(* "via" and "from" are history: how it got in, whose body it returned.    *)
RequestRecords ==
    [pc: Steps, now: Nat, payload: Payloads, rid: Requests \cup {Nobody},
     seen: RowRecords \cup {NoRow}, outcome: Outcomes, answer: Answers,
     from: Requests \cup {Nobody}]

TypeOK ==
    /\ clock \in Nat
    /\ row \in RowRecords \cup {NoRow}
    /\ req \in [Requests -> RequestRecords]

Init ==
    /\ clock = 0
    /\ row = NoRow
    /\ req \in [Requests ->
                 {[pc |-> "idle", now |-> 0, payload |-> p, rid |-> Nobody,
                   seen |-> NoRow, outcome |-> "none", answer |-> "none",
                   from |-> Nobody] : p \in Payloads}]

-----------------------------------------------------------------------------

IsExpired(record, now) == record.expires <= now

\* Mutant: an in-progress row is stale whatever its age.
IsStaleAtOnce(record, now) == record.created <= now

\* now - created >= StaleAfter; "now" may be older than the row.
IsStaleInProgress(record, now) == record.created + StaleAfter <= now

\* Mutant: staleness is tested before the status.
MayTakeOverAnyStatus(record, now) ==
    IsExpired(record, now) \/ IsStaleInProgress(record, now)

\* _take_over is called: the row is expired, or in progress and stale.
MayTakeOver(record, now) ==
    \/ IsExpired(record, now)
    \/ record.status = "in_progress" /\ IsStaleInProgress(record, now)

Answer(r, kind) == [req[r] EXCEPT !.pc = "answered", !.answer = kind]

\* The request reaches begin_idempotency and reads the clock.
Arrive(r) ==
    /\ req[r].pc = "idle"
    /\ req' = [req EXCEPT ![r] = [@ EXCEPT !.pc = "inserting", !.now = clock]]
    /\ UNCHANGED <<clock, row>>

\* INSERT ... COMMIT succeeds: no row for the key.
InsertReservation(r) ==
    /\ req[r].pc = "inserting"
    /\ row = NoRow
    /\ row' = [id |-> r, hash |-> req[r].payload, status |-> "in_progress",
               body |-> Nobody, created |-> req[r].now,
               expires |-> req[r].now + TTL]
    /\ req' = [req EXCEPT ![r] = [@ EXCEPT !.pc = "executing", !.rid = r]]
    /\ UNCHANGED clock

\* The unique constraint refuses the INSERT: IntegrityError, rollback.
InsertConflict(r) ==
    /\ req[r].pc = "inserting"
    /\ row # NoRow
    /\ req' = [req EXCEPT ![r] = [@ EXCEPT !.pc = "conflict"]]
    /\ UNCHANGED <<clock, row>>

\* The SELECT that follows finds nothing (the holder abandoned): 500.
ReadVanished(r) ==
    /\ req[r].pc = "conflict"
    /\ row = NoRow
    /\ req' = [req EXCEPT ![r] = Answer(r, "lost")]
    /\ UNCHANGED <<clock, row>>

\* Mutant: a completed row is replayed without comparing request_hash.
ReadCompletedAnyPayload(r) ==
    /\ req[r].pc = "conflict"
    /\ row # NoRow
    /\ ~IsExpired(row, req[r].now)
    /\ row.status = "completed"
    /\ req' = [req EXCEPT ![r] = [Answer(r, "cached") EXCEPT !.from = row.body]]
    /\ UNCHANGED <<clock, row>>

\* The SELECT finds a completed row that has not expired, same body: replay.
ReadCompleted(r) ==
    /\ req[r].pc = "conflict"
    /\ row # NoRow
    /\ ~IsExpired(row, req[r].now)
    /\ row.status = "completed"
    /\ row.hash = req[r].payload
    /\ req' = [req EXCEPT ![r] = [Answer(r, "cached") EXCEPT !.from = row.body]]
    /\ UNCHANGED <<clock, row>>

\* The same with another body: 409.
ReadMismatch(r) ==
    /\ req[r].pc = "conflict"
    /\ row # NoRow
    /\ ~IsExpired(row, req[r].now)
    /\ row.status = "completed"
    /\ row.hash # req[r].payload
    /\ req' = [req EXCEPT ![r] = Answer(r, "mismatch")]
    /\ UNCHANGED <<clock, row>>

\* The SELECT finds a reservation that is neither expired nor stale: 409.
ReadBusy(r) ==
    /\ req[r].pc = "conflict"
    /\ row # NoRow
    /\ ~MayTakeOver(row, req[r].now)
    /\ row.status = "in_progress"
    /\ req' = [req EXCEPT ![r] = Answer(r, "busy")]
    /\ UNCHANGED <<clock, row>>

\* The SELECT finds a row to take over and loads it, without locking it.
ReadStale(r) ==
    /\ req[r].pc = "conflict"
    /\ row # NoRow
    /\ MayTakeOver(row, req[r].now)
    /\ req' = [req EXCEPT ![r] = [@ EXCEPT !.pc = "taking", !.seen = row]]
    /\ UNCHANGED <<clock, row>>

(* A column after the UPDATE: the ORM writes only a value that differs     *)
(* from the one it loaded, and leaves what another transaction wrote.      *)
Written(current, loaded, value) ==
    IF loaded = value THEN current ELSE value

(* The UPDATE of _take_over.  A row completed after the SELECT stays       *)
(* completed; created_at and expires_at always change.                     *)
TakeOver(r) ==
    LET seen == req[r].seen IN
    /\ req[r].pc = "taking"
    /\ row # NoRow
    /\ row.id = seen.id
    /\ row' = [row EXCEPT
                 !.hash = Written(@, seen.hash, req[r].payload),
                 !.status = Written(@, seen.status, "in_progress"),
                 !.body = Written(@, seen.body, Nobody),
                 !.created = req[r].now,
                 !.expires = req[r].now + TTL]
    /\ req' = [req EXCEPT ![r] = [@ EXCEPT !.pc = "executing", !.rid = seen.id]]
    /\ UNCHANGED clock

\* The row was deleted after the SELECT: the UPDATE matches nothing, 500.
TakeOverVanished(r) ==
    /\ req[r].pc = "taking"
    /\ row = NoRow \/ row.id # req[r].seen.id
    /\ req' = [req EXCEPT ![r] = Answer(r, "lost")]
    /\ UNCHANGED <<clock, row>>

\* gateway.create_payment_intent returns, refuses (4xx) or fails (5xx).
Execute(r, outcome) ==
    /\ req[r].pc = "executing"
    /\ req' = [req EXCEPT ![r] = [@ EXCEPT !.pc = "executed",
                                            !.outcome = outcome]]
    /\ UNCHANGED <<clock, row>>

\* Mutant: every outcome is stored, 5xx included.
CompleteAnyOutcome(r) ==
    /\ req[r].pc = "executed"
    /\ row' = IF row # NoRow /\ row.id = req[r].rid
              THEN [row EXCEPT !.status = "completed", !.body = r]
              ELSE row
    /\ req' = [req EXCEPT ![r] = Answer(r, req[r].outcome)]
    /\ UNCHANGED clock

\* complete_idempotency: by record id, whatever request the row now serves.
Complete(r) ==
    /\ req[r].pc = "executed"
    /\ req[r].outcome \in {"created", "rejected"}
    /\ row' = IF row # NoRow /\ row.id = req[r].rid
              THEN [row EXCEPT !.status = "completed", !.body = r]
              ELSE row
    /\ req' = [req EXCEPT ![r] = Answer(r, req[r].outcome)]
    /\ UNCHANGED clock

\* abandon_idempotency: the row goes, so that a retry is not stuck on a 5xx.
Abandon(r) ==
    /\ req[r].pc = "executed"
    /\ req[r].outcome = "failed"
    /\ row' = IF row # NoRow /\ row.id = req[r].rid THEN NoRow ELSE row
    /\ req' = [req EXCEPT ![r] = Answer(r, "failed")]
    /\ UNCHANGED clock

Live(r) == req[r].pc \notin {"idle", "answered", "dead"}

\* The worker process dies; what it committed stays.
Crash(r) ==
    /\ Live(r)
    /\ Cardinality({q \in Requests : req[q].pc = "dead"}) < MaxCrashes
    /\ req' = [req EXCEPT ![r] = [@ EXCEPT !.pc = "dead"]]
    /\ UNCHANGED <<clock, row>>

Tick ==
    /\ clock < MaxClock
    /\ Prompt => \A r \in Requests :
                    Live(r) => clock + 1 < req[r].now + StaleAfter
    /\ clock' = clock + 1
    /\ UNCHANGED <<row, req>>

Next ==
    \/ \E r \in Requests :
        \/ Arrive(r) \/ InsertReservation(r) \/ InsertConflict(r)
        \/ ReadVanished(r) \/ ReadCompleted(r) \/ ReadMismatch(r)
        \/ ReadBusy(r) \/ ReadStale(r) \/ TakeOver(r) \/ TakeOverVanished(r)
        \/ \E outcome \in {"created", "rejected", "failed"} :
                Execute(r, outcome)
        \/ Complete(r) \/ Abandon(r) \/ Crash(r)
    \/ Tick

Spec == Init /\ [][Next]_vars

-----------------------------------------------------------------------------

Holding(r) == req[r].pc \in {"executing", "executed"}

(* The reservation is taken BEFORE the charge is attempted, so that two    *)
(* requests with one Idempotency-Key are never both between begin_ and     *)
(* complete_idempotency.                                                   *)
MutualExclusion ==
    \A r, q \in Requests : Holding(r) /\ Holding(q) => r = q

(* A 5xx is never replayed: a completed row stores the response of a       *)
(* request that reached a definite outcome, even when slow executors and   *)
(* takeovers write the same row.                                           *)
FailuresNeverCached ==
    row # NoRow /\ row.status = "completed" =>
        /\ row.body # Nobody
        /\ req[row.body].outcome \in {"created", "rejected"}

(* A replayed answer is the answer of a request with the same body: the    *)
(* key used again with another plan is refused, not answered.              *)
CachedAnswersMatchPayload ==
    \A r \in Requests :
        req[r].answer = "cached" =>
            req[r].from # Nobody /\ req[req[r].from].payload = req[r].payload

(* A stored response is final: no later step of any request rewrites or    *)
(* deletes a completed row (until the key expires).                        *)
CompletedIsStable ==
    [][row # NoRow /\ row.status = "completed" => row' = row]_vars

(* The requests between begin_ and complete_idempotency, the stored        *)
(* response and the answers behave as one execution per key: what the      *)
(* endpoint promises, for a server that is prompt (see Prompt).            *)
Promise == INSTANCE OneExecution WITH
    payload <- [r \in Requests |-> req[r].payload],
    executing <- {r \in Requests : Holding(r)},
    stored <- IF row # NoRow /\ row.status = "completed" THEN {row.body} ELSE {},
    told <- [r \in Requests |-> req[r].answer]

OneExecutionPerKey == Promise!Spec

=============================================================================
