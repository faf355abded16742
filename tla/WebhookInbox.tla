---------------------------- MODULE WebhookInbox ----------------------------
(***************************************************************************)
(* How StripeGateway.handle_webhook takes one event of Stripe, delivered   *)
(* several times and at the same time: the claim of the row of             *)
(* payment_gateway_events, the handler, the failure record, and the        *)
(* answer that tells Stripe to send again.                                 *)
(*                                                                         *)
(* Claim and handler are one database transaction, so the PROCESSING row   *)
(* is seen by nobody else: other deliveries wait at the row lock or at the *)
(* primary key until that transaction ends.  recorded is the status of    *)
(* the committed row.                                                      *)
(***************************************************************************)
EXTENDS Naturals, FiniteSets

CONSTANTS
    Deliveries,   \* requests that may be open at the same time
    MaxErrors,    \* bound on exceptions raised by the handler
    MaxAborts     \* bound on crashes and HTTPExceptions: rollback, no record

ASSUME InboxAssumption ==
    IsFiniteSet(Deliveries) /\ MaxErrors \in Nat /\ MaxAborts \in Nat

VARIABLES
    recorded,   \* event_status of the committed row, "none" without one
    phase,      \* what each delivery is doing
    applied,    \* how often the handler's effects were committed
    errors,     \* exceptions so far
    aborts      \* crashes so far

vars == <<recorded, phase, applied, errors, aborts>>

Init ==
    /\ recorded = "none"
    /\ phase = [d \in Deliveries |-> "away"]
    /\ applied = 0
    /\ errors = 0
    /\ aborts = 0

\* The transaction of d is open: it has updated or inserted the row.
Handling(d) == phase[d] = "handling"
RowIsFree == \A d \in Deliveries : ~Handling(d)
Acknowledged == \E d \in Deliveries : phase[d] = "200"

Goes(d, next) == phase' = [phase EXCEPT ![d] = next]

-----------------------------------------------------------------------------
\* Stripe sends the event, or sends it again after an answer that is not 200.
Send(d) ==
    /\ phase[d] \in {"away", "500"}
    /\ Goes(d, "arrived")
    /\ UNCHANGED <<recorded, applied, errors, aborts>>

\* Mutant: the claim is committed before the handler runs.
ClaimCommitted(d) ==
    /\ phase[d] = "arrived"
    /\ RowIsFree
    /\ recorded \in {"none", "FAILED"}
    /\ Goes(d, "handling")
    /\ recorded' = "PROCESSING"
    /\ UNCHANGED <<applied, errors, aborts>>

\* Mutant: deliveries do not wait for each other.
ClaimUnlocked(d) ==
    /\ phase[d] = "arrived"
    /\ recorded \in {"none", "FAILED"}
    /\ Goes(d, "handling")
    /\ UNCHANGED <<recorded, applied, errors, aborts>>

\* Mutant: a failed event is not resumed.
ClaimNewOnly(d) ==
    /\ phase[d] = "arrived"
    /\ RowIsFree
    /\ recorded = "none"
    /\ Goes(d, "handling")
    /\ UNCHANGED <<recorded, applied, errors, aborts>>

\* _claim_webhook_event: INSERT, or _resume_claimed_event of a failed row.
Claim(d) ==
    /\ phase[d] = "arrived"
    /\ RowIsFree
    /\ recorded \in {"none", "FAILED"}
    /\ Goes(d, "handling")
    /\ UNCHANGED <<recorded, applied, errors, aborts>>

\* _resume_claimed_event: processed already, or PROCESSING for less than 30 s.
Ignore(d) ==
    /\ phase[d] = "arrived"
    /\ RowIsFree
    /\ recorded \in {"PROCESSED", "PROCESSING"}
    /\ Goes(d, "200")
    /\ UNCHANGED <<recorded, applied, errors, aborts>>

\* The handler ends: its effects and PROCESSED (or SKIPPED) commit together.
Finish(d) ==
    /\ Handling(d)
    /\ recorded' = "PROCESSED"
    /\ applied' = applied + 1
    /\ Goes(d, "200")
    /\ UNCHANGED <<errors, aborts>>

\* The handler raises: everything is rolled back, the row is free again.
Raise(d) ==
    /\ Handling(d)
    /\ errors < MaxErrors
    /\ errors' = errors + 1
    /\ Goes(d, "raised")
    /\ UNCHANGED <<recorded, applied, aborts>>

\* _mark_webhook_failed: db.get reads the row without a lock.
LookForRow(d) ==
    /\ phase[d] = "raised"
    /\ Goes(d, IF recorded = "none" THEN "inserts" ELSE "updates")
    /\ UNCHANGED <<recorded, applied, errors, aborts>>

\* _mark_webhook_failed: INSERT (lost if the row is there now) or UPDATE.
MarkFailed(d) ==
    /\ phase[d] \in {"inserts", "updates"}
    /\ RowIsFree
    /\ recorded' = IF phase[d] = "updates" \/ recorded = "none"
                   THEN "FAILED" ELSE recorded
    /\ Goes(d, "500")
    /\ UNCHANGED <<applied, errors, aborts>>

\* The process dies, or an HTTPException leaves no record.
Abort(d) ==
    /\ phase[d] \in {"arrived", "handling", "raised", "inserts", "updates"}
    /\ aborts < MaxAborts
    /\ aborts' = aborts + 1
    /\ Goes(d, "500")
    /\ UNCHANGED <<recorded, applied, errors>>

\* Every step of a delivery that is not a failure.
Step(d) ==
    \/ Claim(d) \/ Ignore(d) \/ Finish(d) \/ LookForRow(d) \/ MarkFailed(d)

Next == \E d \in Deliveries : Send(d) \/ Step(d) \/ Raise(d) \/ Abort(d)

\* Stripe sends until it is acknowledged; a request that began goes on.
Spec ==
    /\ Init /\ [][Next]_vars
    /\ \A d \in Deliveries : /\ WF_vars(Step(d))
                             /\ WF_vars(~Acknowledged /\ Send(d))

-----------------------------------------------------------------------------
(* Properties *)

(* Stripe is told 200, and stops sending, only when the event was applied:  *)
(* the 30 s rule for PROCESSING rows never swallows an event.               *)
AcknowledgedIsApplied == Acknowledged => applied > 0

(* A duplicate is a no-op: the handler's effects are committed once, and    *)
(* once more at most for each exception it raised.                          *)
RepeatsNeedErrors == applied <= 1 + errors

(* Crashes, exceptions and duplicates do not keep an event from being       *)
(* applied and acknowledged.                                                *)
EventuallyAcknowledged == <>Acknowledged

=============================================================================
