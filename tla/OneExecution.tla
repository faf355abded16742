---------------------------- MODULE OneExecution ----------------------------
(***************************************************************************)
(* What an idempotency key promises to those who send it: the operation    *)
(* runs for one request at a time, its definite result is stored once and  *)
(* for ever, whoever sends the key with the same body is told that result, *)
(* and everybody else is refused for a reason that holds at that moment.   *)
(***************************************************************************)
CONSTANTS Requests, Payloads

VARIABLES
    payload,     \* the body of each request
    executing,   \* the requests for which the operation is running
    stored,      \* the request whose result is stored: {} or {r}
    told         \* what each request has been answered

vars == <<payload, executing, stored, told>>

Init ==
    /\ payload \in [Requests -> Payloads]
    /\ executing = {} /\ stored = {}
    /\ told = [r \in Requests |-> "none"]

Waiting(r) == told[r] = "none" /\ r \notin executing

Begin(r) ==
    /\ Waiting(r)
    /\ executing = {} /\ stored = {}
    /\ executing' = {r}
    /\ UNCHANGED <<payload, stored, told>>

\* The operation was done, or refused for good.
Finish(r, result) ==
    /\ executing = {r}
    /\ executing' = {} /\ stored' = {r}
    /\ told' = [told EXCEPT ![r] = result]
    /\ UNCHANGED payload

\* It failed: nothing is stored, the next request with the key starts anew.
Fail(r) ==
    /\ executing = {r}
    /\ executing' = {}
    /\ told' = [told EXCEPT ![r] = "failed"]
    /\ UNCHANGED <<payload, stored>>

Refusal(r, reason) ==
    /\ Waiting(r)
    /\ told' = [told EXCEPT ![r] = reason]
    /\ UNCHANGED <<payload, executing, stored>>

Replay(r) == (\E q \in stored : payload[q] = payload[r]) /\ Refusal(r, "cached")
Mismatch(r) == (\E q \in stored : payload[q] # payload[r]) /\ Refusal(r, "mismatch")
Busy(r) == executing # {} /\ Refusal(r, "busy")
\* Only where an operation failed in between.
Lost(r) == (\E q \in Requests : told[q] = "failed") /\ Refusal(r, "lost")

Next ==
    \E r \in Requests :
        \/ Begin(r) \/ Fail(r)
        \/ \E result \in {"created", "rejected"} : Finish(r, result)
        \/ Replay(r) \/ Mismatch(r) \/ Busy(r) \/ Lost(r)

Spec == Init /\ [][Next]_vars

=============================================================================
