----------------------------- MODULE AlertRules -----------------------------
(***************************************************************************)
(* The definitions of an organization that another service evaluates: its  *)
(* alert rules, with the units they watch, and its geofences, with their   *)
(* cells.  Each write is committed, read back and published as a whole,    *)
(* keyed by the definition; what cannot be published is not sent again.    *)
(*                                                                         *)
(* A rule is deleted and a geofence deactivated; only a rule has a         *)
(* fingerprint, of its type and configuration.  Names and the units' own   *)
(* deletion are left out.                                                  *)
(***************************************************************************)
EXTENDS Naturals, FiniteSets

CONSTANTS
    RuleIds, FenceIds,    \* the ids of each
    Types, Configs,
    Parts,       \* units or cells
    Requests,
    MaxWrites    \* bound on the requests

AlertRulesAssumption == RuleIds \cap FenceIds = {} /\ MaxWrites \in Nat

VARIABLES
    row,      \* alert_rules with alert_rule_units, or geofences with geofence_cells
    req,      \* the requests under way
    last,     \* the topic: the last event of each key
    lost,     \* ghost: keys with a write of which no event was published since
    mixed,    \* ghost: keys of which two requests overlapped
    writes    \* requests so far

vars == <<row, req, last, lost, mixed, writes>>

Ids == RuleIds \cup FenceIds

NoRow == [status |-> "none"]
Gone == [status |-> "gone"]
Idle == [phase |-> "idle"]
Live(k) == row[k].status = "active"

Init ==
    /\ row = [k \in Ids |-> NoRow]
    /\ req = [r \in Requests |-> Idle]
    /\ last = [k \in Ids |-> NoRow]
    /\ lost = {} /\ mixed = {}
    /\ writes = 0

\* generate_fingerprint.
Fingerprint(type, config) == <<type, config>>

\* uniq_alert_rules_fingerprint, among the active.
Taken(k, fp) == k \in RuleIds /\ \E j \in RuleIds \ {k} : Live(j) /\ row[j].fp = fp

-----------------------------------------------------------------------------
(* The handlers, up to the commit. *)

Under(k) == \E r \in Requests : req[r] # Idle /\ req[r].key = k

Starts(r, k) ==
    /\ req[r] = Idle
    /\ writes < MaxWrites
    /\ writes' = writes + 1
    /\ mixed' = IF Under(k) THEN mixed \cup {k} ELSE mixed

\* A new id; a fingerprint that is taken is a 409.
Create(r, k, type, config, parts) ==
    /\ row[k] = NoRow
    /\ ~ Taken(k, Fingerprint(type, config))
    /\ Starts(r, k)
    /\ row' = [row EXCEPT ![k] = [status |-> "active", type |-> type, config |-> config,
                                  parts |-> parts, fp |-> Fingerprint(type, config)]]
    /\ req' = [req EXCEPT ![r] = [phase |-> "committed", key |-> k, op |-> "write"]]
    /\ lost' = lost \cup {k}
    /\ UNCHANGED last

\* _get_active_rule_or_404: the session has the row as it was, and the request
\* says what to change of it.
Read(r, k, op, change) ==
    /\ Live(k)
    /\ Starts(r, k)
    /\ req' = [req EXCEPT ![r] = [phase |-> "read", key |-> k, op |-> op,
                                  change |-> change, seen |-> row[k]]]
    /\ UNCHANGED <<row, last, lost>>

Change == UNION {[S -> Types \cup Configs] : S \in SUBSET {"type", "config"}}

Fits(c) ==
    /\ "type" \in DOMAIN c => c["type"] \in Types
    /\ "config" \in DOMAIN c => c["config"] \in Configs

\* PATCH: some of the fields, and all of the units or cells, or none.
AskPatch(r, k) ==
    /\ Live(k) /\ req[r] = Idle
    /\ \E c \in {x \in Change : Fits(x)}, p \in SUBSET Parts, replace \in BOOLEAN :
          Read(r, k, "patch", [fields |-> c, replace |-> replace, parts |-> p])

\* A PATCH may deactivate a geofence, and is then an UPSERT.
AskDeactivate(r, k) ==
    /\ k \in FenceIds
    /\ Read(r, k, "deactivate", << >>)

AskDelete(r, k) == Read(r, k, "delete", << >>)

AskAssign(r, k, p) == k \in RuleIds /\ Read(r, k, "assign", [parts |-> p])
AskUnassign(r, k, p) == k \in RuleIds /\ Read(r, k, "unassign", [parts |-> p])

Given(c, field, value) == IF field \in DOMAIN c THEN c[field] ELSE value

\* Mutant: the fingerprint is taken before the fields are set.
PatchedLate(old, seen, c) ==
    [old EXCEPT !.type = Given(c.fields, "type", @), !.config = Given(c.fields, "config", @),
                !.parts = IF c.replace THEN (@ \ seen.parts) \cup c.parts ELSE @,
                !.fp = Fingerprint(seen.type, seen.config)]

\* The columns that change, the fingerprint of the session's row, and the
\* units: the ones it saw go, and its own come.
Patched(old, seen, c) ==
    [old EXCEPT !.type = Given(c.fields, "type", @), !.config = Given(c.fields, "config", @),
                !.parts = IF c.replace THEN (@ \ seen.parts) \cup c.parts ELSE @,
                !.fp = Fingerprint(Given(c.fields, "type", seen.type),
                                   Given(c.fields, "config", seen.config))]

Written(old, q) ==
    CASE q.op = "patch" -> Patched(old, q.seen, q.change)
      [] q.op = "assign" -> [old EXCEPT !.parts = @ \cup q.change.parts]
      [] q.op = "unassign" -> [old EXCEPT !.parts = @ \ q.change.parts]
      [] q.op = "delete" /\ q.key \in RuleIds -> Gone
      [] OTHER -> [old EXCEPT !.status = "inactive"]

\* A commit of a row that is still there; the fingerprint is free.
Commit(r) ==
    /\ req[r].phase = "read"
    /\ LET k == req[r].key
           new == Written(row[k], req[r])
       IN  /\ row[k] \notin {NoRow, Gone}
           /\ new.status = "active" => ~ Taken(k, new.fp)
           /\ row' = [row EXCEPT ![k] = new]
           /\ lost' = lost \cup {k}
    /\ req' = [req EXCEPT ![r] = [phase |-> "committed", key |-> @.key,
                                  op |-> IF @.op = "delete" THEN "delete" ELSE "write"]]
    /\ UNCHANGED <<last, mixed, writes>>

\* 400, 409, 500: nothing is written.
Refused(r) ==
    /\ req[r].phase = "read"
    /\ req' = [req EXCEPT ![r] = Idle]
    /\ UNCHANGED <<row, last, lost, mixed, writes>>

-----------------------------------------------------------------------------
(* After the commit. *)

\* Mutant: the deletion of a geofence is published as what it was.
EventOfRow(k, op) == [row[k] EXCEPT !.status = "active"]

\* _build_upsert_event_payload and _build_delete_event_payload.
Event(k, op) == IF op = "delete" THEN Gone ELSE row[k]

\* refresh fails when the row has gone in between: a 500 and no event.
Build(r) ==
    /\ req[r].phase = "committed"
    /\ LET k == req[r].key
       IN  req' = [req EXCEPT ![r] =
              IF row[k] = Gone /\ req[r].op = "write" THEN Idle
              ELSE [phase |-> "built", key |-> k, event |-> Event(k, req[r].op)]]
    /\ UNCHANGED <<row, last, lost, mixed, writes>>

\* Mutant: what the consumer has is completed with what was written.
PublishedPart(old, event) ==
    IF old.status = "active" /\ event.status = "active" THEN [event EXCEPT !.parts = old.parts]
    ELSE event

Published(old, event) == event

Publish(r) ==
    /\ req[r].phase = "built"
    /\ LET k == req[r].key
       IN  /\ last' = [last EXCEPT ![k] = Published(@, req[r].event)]
           /\ lost' = lost \ {k}
    /\ req' = [req EXCEPT ![r] = Idle]
    /\ UNCHANGED <<row, mixed, writes>>

\* An attempt given up as lost, that arrived.
PublishUnsure(r) ==
    /\ req[r].phase = "built"
    /\ last' = [last EXCEPT ![req[r].key] = Published(@, req[r].event)]
    /\ req' = [req EXCEPT ![r] = Idle]
    /\ UNCHANGED <<row, lost, mixed, writes>>

\* Three seconds without an answer: the error is logged.  Or the process dies.
GiveUp(r) ==
    /\ req[r] # Idle
    /\ req' = [req EXCEPT ![r] = Idle]
    /\ UNCHANGED <<row, last, lost, mixed, writes>>

Next ==
    \E r \in Requests :
        \/ \E k \in Ids :
              \/ \E t \in Types, c \in Configs, p \in SUBSET Parts : Create(r, k, t, c, p)
              \/ AskPatch(r, k) \/ AskDeactivate(r, k) \/ AskDelete(r, k)
              \/ \E p \in SUBSET Parts \ {{}} : AskAssign(r, k, p) \/ AskUnassign(r, k, p)
        \/ Commit(r) \/ Refused(r) \/ Build(r)
        \/ Publish(r) \/ PublishUnsure(r) \/ GiveUp(r)

Spec == Init /\ [][Next]_vars

-----------------------------------------------------------------------------
\* The fingerprint of a rule is that of its type and configuration, for every
\* rule that was not written by two requests at once.
FingerprintIsOfContent ==
    \A k \in RuleIds \ mixed : Live(k) => row[k].fp = Fingerprint(row[k].type, row[k].config)

\* No two live rules of an organization say the same ("dos reglas con distinto
\* nombre o distintas unidades pero mismo type y config colisionan",
\* docs/api/alerts.md), whatever PATCHes moved each one to.
NoTwoAlike ==
    \A j, k \in RuleIds \ mixed :
        (Live(j) /\ Live(k) /\ row[j].type = row[k].type /\ row[j].config = row[k].config)
        => j = k

\* The consumer's last event of a key is the row, once some event of its last
\* write got there: an event says it all, so one that arrives makes up for
\* those that were lost.
TopicFollows ==
    \A k \in Ids \ (lost \cup mixed) :
        ~ Under(k) =>
            IF Live(k) THEN last[k] = row[k] ELSE last[k].status # "active"

=============================================================================
