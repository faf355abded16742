---------------------------- MODULE ControlPlane ----------------------------
(***************************************************************************)
(* The events of control-plane-events: each flush notes which keys it      *)
(* touched, and once the transaction has committed the state of those keys *)
(* is read from the views on another connection and published, one event   *)
(* per key.  A consumer keeps a copy of the views: a snapshot of its own,  *)
(* and the events after it, in the order of the only partition.            *)
(*                                                                         *)
(* Three entities stand for the five: a grant and an assignment, whose     *)
(* views leave out deleted units, and a membership, whose view is its row. *)
(* A device is in one unit at a time (Fleet).  Payloads are the state of   *)
(* the row; the order of the events of one transaction is not kept.        *)
(***************************************************************************)
EXTENDS Naturals, Sequences, FiniteSets

CONSTANTS
    People, Units, Devices,
    Requests,
    MaxChanges,  \* bound on the transactions
    MaxTopic     \* bound on the events the consumer has not read

ControlPlaneAssumption ==
    /\ MaxChanges \in Nat /\ MaxTopic \in Nat
    /\ IsFiniteSet(People) /\ IsFiniteSet(Units) /\ IsFiniteSet(Devices)

VARIABLES
    grants,    \* user_units
    fitted,    \* unit_devices: the unit a device has an open row for
    seats,     \* organization_users: the status of each membership
    deleted,   \* units with a deleted_at
    tx,        \* the requests, with session.info of each
    topic,     \* events the consumer has not read
    reader,    \* the consumer: it noted an offset, or it follows the topic
    copy,      \* what it believes the views say
    been,      \* ghost: what the views said of a key, ever
    unsure,    \* ghost: keys whose last event may not be their last state
    changes    \* transactions begun

base == <<grants, fitted, seats, deleted>>
consumer == <<reader, copy>>
vars == <<grants, fitted, seats, deleted, tx, topic, reader, copy, been, unsure, changes>>

Gone == "DELETE"
Statuses == {"ACTIVE", "INACTIVE"}

Grant(p, u) == <<"user_unit", p, u>>
Place(d) == <<"unit_device", d>>
Seat(p) == <<"organization_user", p>>

Keys == {Grant(p, u) : p \in People, u \in Units}
        \cup {Place(d) : d \in Devices} \cup {Seat(p) : p \in People}

\* What a key is, for whoever reads the tables.
Truth(k) ==
    CASE k[1] = "user_unit" ->
            IF k[3] \in Units \ deleted /\ <<k[2], k[3]>> \in grants THEN "UPSERT" ELSE Gone
      [] k[1] = "unit_device" ->
            IF fitted[k[2]] \in Units \ deleted THEN fitted[k[2]] ELSE Gone
      [] OTHER -> seats[k[2]]

\* Mutant: the view of the grants keeps those of deleted units.
ViewOfEveryUnit(k) ==
    CASE k[1] = "user_unit" -> IF <<k[2], k[3]>> \in grants THEN "UPSERT" ELSE Gone
      [] k[1] = "unit_device" -> IF fitted[k[2]] \notin deleted THEN fitted[k[2]] ELSE Gone
      [] OTHER -> seats[k[2]]

\* control_plane.user_units, unit_devices and organization_users; Gone where
\* the view has no row.
View(k) ==
    CASE k[1] = "user_unit" -> IF <<k[2], k[3]>> \in grants /\ k[3] \notin deleted
                               THEN "UPSERT" ELSE Gone
      [] k[1] = "unit_device" -> IF fitted[k[2]] \notin deleted THEN fitted[k[2]] ELSE Gone
      [] OTHER -> seats[k[2]]

Idle == [phase |-> "idle"]

\* The consumer started on an organization with its first member.
Init ==
    /\ grants = {}
    /\ fitted = [d \in Devices |-> Gone]
    /\ seats \in [People -> {"ACTIVE", Gone}]
    /\ deleted = {}
    /\ tx = [r \in Requests |-> Idle]
    /\ topic = <<>>
    /\ reader = "live"
    /\ copy = [k \in Keys |-> View(k)]
    /\ been = [k \in Keys |-> {Truth(k)}]
    /\ unsure = {}
    /\ changes = 0

-----------------------------------------------------------------------------
(* Requests: what a session writes, and the keys _anotar takes from it. *)

Nothing == [grant |-> {}, revoke |-> {}, place |-> << >>, seat |-> << >>, delete |-> {}]

\* The rows of the session, new, dirty or deleted, by their key; a unit only
\* when its deleted_at changed, to be expanded after the commit.
Noted(w) ==
    {Grant(g[1], g[2]) : g \in w.grant \cup w.revoke}
    \cup {Place(d) : d \in DOMAIN w.place} \cup {Seat(p) : p \in DOMAIN w.seat}

Flushes(r, w) ==
    /\ tx[r] = Idle
    /\ changes < MaxChanges
    /\ changes' = changes + 1
    /\ tx' = [tx EXCEPT ![r] = [phase |-> "open", writes |-> w, keys |-> Noted(w),
                                units |-> w.delete]]
    /\ UNCHANGED <<base, topic, consumer, been, unsure>>

CreateUserUnit(r, p, u) ==
    /\ seats[p] = "ACTIVE" /\ u \notin deleted /\ <<p, u>> \notin grants
    /\ Flushes(r, [Nothing EXCEPT !.grant = {<<p, u>>}])

DeleteUserUnit(r, p, u) ==
    /\ <<p, u>> \in grants
    /\ Flushes(r, [Nothing EXCEPT !.revoke = {<<p, u>>}])

\* POST /units/{id}/device takes out what the unit had; the other ways to fit
\* a device leave it.
Fit(r, d, u) ==
    /\ fitted[d] = Gone /\ u \notin deleted
    /\ \E out \in {{}, {x \in Devices : fitted[x] = u}} :
          Flushes(r, [Nothing EXCEPT !.place =
                        [x \in out \cup {d} |-> IF x = d THEN u ELSE Gone]])

TakeOut(r, d) ==
    /\ fitted[d] # Gone
    /\ Flushes(r, [Nothing EXCEPT !.place = [x \in {d} |-> Gone]])

DeleteUnit(r, u) ==
    /\ u \notin deleted
    /\ \A d \in Devices : fitted[d] # u
    /\ Flushes(r, [Nothing EXCEPT !.delete = {u}])

\* Invited, paused, taken back, removed.
SetSeat(r, p, s) ==
    /\ seats[p] # s
    /\ Flushes(r, [Nothing EXCEPT !.seat = [x \in {p} |-> s]])

\* uq_user_units_user_unit.
Conflicts(w) == w.grant \cap grants # {}

Over(f, g) == [x \in DOMAIN f |-> IF x \in DOMAIN g THEN g[x] ELSE f[x]]

Commit(r) ==
    /\ tx[r].phase = "open"
    /\ ~ Conflicts(tx[r].writes)
    /\ grants' = (grants \cup tx[r].writes.grant) \ tx[r].writes.revoke
    /\ fitted' = Over(fitted, tx[r].writes.place)
    /\ seats' = Over(seats, tx[r].writes.seat)
    /\ deleted' = deleted \cup tx[r].writes.delete
    /\ been' = [k \in Keys |-> been[k] \cup {Truth(k)'}]
    /\ tx' = [tx EXCEPT ![r] = [phase |-> "committed", keys |-> @.keys, units |-> @.units]]
    /\ UNCHANGED <<topic, consumer, unsure, changes>>

\* A conflict or an error: _descartar forgets the keys.
Abort(r) ==
    /\ tx[r].phase = "open"
    /\ tx' = [tx EXCEPT ![r] = Idle]
    /\ UNCHANGED <<base, topic, consumer, been, unsure, changes>>

-----------------------------------------------------------------------------
(* After the commit. *)

\* Mutant: a deleted unit has no keys of its own.
ExpandedToNone(units) == {}

\* _expandir_unidades, on the tables: deleted units have their rows still.
Expanded(units) ==
    {Grant(g[1], g[2]) : g \in {x \in grants : x[2] \in units}}
    \cup {Place(d) : d \in {x \in Devices : fitted[x] \in units}}

Awaiting(r) == IF tx[r].phase = "publishing" THEN DOMAIN tx[r].events ELSE {}

\* construir_eventos: each key as the views have it now.  An event of the
\* same key that another request has built and not sent may follow this one.
Build(r) ==
    /\ tx[r].phase = "committed"
    /\ LET keys == tx[r].keys \cup Expanded(tx[r].units)
       IN  /\ tx' = [tx EXCEPT ![r] = [phase |-> "publishing",
                                       events |-> [k \in keys |-> View(k)]]]
           /\ unsure' = unsure \cup
                {k \in keys : \E s \in Requests \ {r} : k \in Awaiting(s)}
    /\ UNCHANGED <<base, topic, consumer, been, changes>>

Without(r, k) ==
    [tx EXCEPT ![r].events = [x \in DOMAIN @ \ {k} |-> @[x]]]

Publish(r, k) ==
    /\ k \in Awaiting(r)
    /\ Len(topic) < MaxTopic
    /\ topic' = Append(topic, [key |-> k, state |-> tx[r].events[k]])
    /\ tx' = Without(r, k)
    /\ UNCHANGED <<base, consumer, been, unsure, changes>>

\* An attempt that was not acknowledged in time and did arrive: it is sent
\* again.
PublishTwice(r, k) ==
    /\ k \in Awaiting(r)
    /\ Len(topic) < MaxTopic
    /\ topic' = Append(topic, [key |-> k, state |-> tx[r].events[k]])
    /\ UNCHANGED <<base, tx, consumer, been, unsure, changes>>

\* Every attempt fails: control_event_publish_failed, and nothing else.
PublishFails(r, k) ==
    /\ k \in Awaiting(r)
    /\ unsure' = unsure \cup {k}
    /\ tx' = Without(r, k)
    /\ UNCHANGED <<base, topic, consumer, been, changes>>

Finish(r) ==
    /\ tx[r].phase = "publishing" /\ DOMAIN tx[r].events = {}
    /\ tx' = [tx EXCEPT ![r] = Idle]
    /\ UNCHANGED <<base, topic, consumer, been, unsure, changes>>

\* The process dies after the commit, or the views cannot be read: nothing
\* sends what was noted.
Dies(r) ==
    /\ tx[r].phase \in {"committed", "publishing"}
    /\ unsure' = unsure \cup Awaiting(r)
                 \cup (IF tx[r].phase = "committed"
                       THEN tx[r].keys \cup Expanded(tx[r].units) ELSE {})
    /\ tx' = [tx EXCEPT ![r] = Idle]
    /\ UNCHANGED <<base, topic, consumer, been, changes>>

-----------------------------------------------------------------------------
(* The consumer of the contract. *)

Consume ==
    /\ reader = "live" /\ topic # <<>>
    /\ copy' = [copy EXCEPT ![Head(topic).key] = Head(topic).state]
    /\ topic' = Tail(topic)
    /\ UNCHANGED <<base, tx, reader, been, unsure, changes>>

\* It starts again: the end of the topic first, then the snapshot.  What was
\* lost before is in the snapshot, unless an older event is still to come.
NoteOffset ==
    /\ reader = "live"
    /\ reader' = "noted"
    /\ topic' = <<>>
    /\ unsure' = {k \in unsure : \E r \in Requests : k \in Awaiting(r)}
    /\ UNCHANGED <<base, tx, copy, been, changes>>

ReadSnapshot ==
    /\ reader = "noted"
    /\ reader' = "live"
    /\ copy' = [k \in Keys |-> View(k)]
    /\ UNCHANGED <<base, tx, topic, been, unsure, changes>>

Request(r) ==
    \/ \E p \in People, u \in Units : CreateUserUnit(r, p, u) \/ DeleteUserUnit(r, p, u)
    \/ \E d \in Devices, u \in Units : Fit(r, d, u)
    \/ \E d \in Devices : TakeOut(r, d)
    \/ \E u \in Units : DeleteUnit(r, u)
    \/ \E p \in People, s \in Statuses \cup {Gone} : SetSeat(r, p, s)
    \/ Commit(r) \/ Abort(r)

After(r) ==
    \/ Build(r) \/ Finish(r) \/ Dies(r)
    \/ \E k \in Awaiting(r) : Publish(r, k) \/ PublishTwice(r, k) \/ PublishFails(r, k)

Next ==
    \/ \E r \in Requests : Request(r) \/ After(r)
    \/ Consume \/ NoteOffset \/ ReadSnapshot

Spec == Init /\ [][Next]_vars

-----------------------------------------------------------------------------
\* "un evento que sobra le concede algo que nunca existio" (ADR-008): no event
\* on its way says of a key what was never committed of it.
EventsWereTrue ==
    \A i \in 1 .. Len(topic) : topic[i].state \in been[topic[i].key]

\* With every request answered and every event read, the consumer's copy is
\* the database's, for every key no event of which was lost or built while
\* another one of that key waited to be sent; and a restart of the consumer
\* makes up for what was lost.
CopyConverges ==
    (/\ \A r \in Requests : tx[r] = Idle
     /\ topic = <<>> /\ reader = "live")
    => \A k \in Keys \ unsure : copy[k] = Truth(k)

=============================================================================
