------------------------------ MODULE Windows ------------------------------
(***************************************************************************)
(* Who may see what happened when.  A device counts for a unit from its    *)
(* assigned_at to its unassigned_at, a grant of a unit from granted_at to  *)
(* its revoked_at; what a person sees of a device is where the two meet.   *)
(* Telemetry is read by whole hours cut to those windows, trips by the     *)
(* instant they began.                                                     *)
(*                                                                         *)
(* A tick is an instant the rows can tell apart; the first hour begins at  *)
(* 0, before which nothing is recorded, so that a window without beginning *)
(* begins there, and one without end ends at Open.                         *)
(***************************************************************************)
EXTENDS Naturals, Sequences, FiniteSetsExt

CONSTANTS
    Devices,
    OwnUnits,    \* units of the organization whose people ask
    Elsewhere,   \* a unit of another organization
    Trips,       \* trip_id
    Hour,        \* ticks of an hour
    Day,         \* hours of a day
    Page,        \* limit of a page of trips
    Ties,        \* whether two trips may begin at one instant
    MaxTime,     \* bound on the clock
    MaxChanges,  \* bound on what owners and staff change
    None

WindowsAssumption ==
    /\ Hour \in Nat \ {0} /\ Day \in Nat \ {0} /\ Page \in Nat \ {0}
    /\ MaxTime \in Nat /\ MaxChanges \in Nat
    /\ Elsewhere \notin OwnUnits /\ Ties \in BOOLEAN /\ IsFiniteSet(Trips)
    /\ None \notin [from : Nat, to : Nat] \cup [from : Nat, history : BOOLEAN]
                  \cup [device : Devices, start : Nat, end : Nat]

VARIABLES
    now,
    fit,      \* unit_devices: one row for each pair ever made
    grant,    \* user_units, of the one person who asks
    past,     \* user_unit_grants_history, of that person
    closed,   \* units with deleted_at
    trip,     \* the trips another service writes
    reader,   \* someone who reads the list of trips page after page
    carried,  \* ghost: <<instant, unit, device>> while the unit had the device
    let,      \* ghost: <<instant, unit>> that a grant let the person see
    lost,     \* ghost: what of carried a second assignment of a pair overwrote
    changes

vars == <<now, fit, grant, past, closed, trip, reader, carried, let, lost, changes>>

Open == MaxTime + 2
Places == OwnUnits \cup {Elsewhere}
Subjects == {"person", "organization"}

Init ==
    /\ now = 0
    /\ fit = [p \in Places \X Devices |-> None]
    /\ grant = [u \in OwnUnits |-> None]
    /\ past = {}
    /\ closed = {}
    /\ trip = [k \in Trips |-> None]
    /\ reader = None
    /\ carried = {} /\ let = {} /\ lost = {}
    /\ changes = 0

-----------------------------------------------------------------------------
(* Windows: what two have in common, and a set of them put in order.       *)

Meeting(w, from, to) ==
    {v \in {[from |-> Max({w.from, from}), to |-> Min({w.to, to})]} : v.from < v.to}

\* Mutant: a window within the one before it cuts that one short.
AbsorbShorter(merged, w) ==
    IF merged = << >> \/ w.from > merged[Len(merged)].to
    THEN Append(merged, w)
    ELSE [merged EXCEPT ![Len(merged)] = [from |-> merged[Len(merged)].from, to |-> w.to]]

\* One more window, which begins no earlier than those already merged.
Absorb(merged, w) ==
    LET last == merged[Len(merged)] IN
    IF merged = << >> \/ w.from > last.to
    THEN Append(merged, w)
    ELSE [merged EXCEPT ![Len(merged)] = [from |-> last.from, to |-> Max({last.to, w.to})]]

Latest(windows) == CHOOSE w \in windows : \A v \in windows : v.from <= w.from

\* In the order in which they begin.
Merge(windows) ==
    LET Merged[W \in SUBSET windows] ==
            IF W = {} THEN << >>
            ELSE LET w == Latest(W) IN Absorb(Merged[W \ {w}], w)
    IN  Range(Merged[windows])

-----------------------------------------------------------------------------
(* What a subject may see, and when.                                       *)

InPlace(p) == fit[p] # None /\ fit[p].to = Open
Seen(s) == {u \in OwnUnits \ closed : s = "organization" \/ grant[u] # None}

Begins(g) == IF g.history THEN 0 ELSE g.from

\* Mutant: a grant that was withdrawn lets see nothing any more.
LiveGrantsOnly(s, u) ==
    IF s = "organization" THEN {[from |-> 0, to |-> Open]}
    ELSE {[from |-> Begins(grant[u]), to |-> Open]}

GrantWindows(s, u) ==
    IF s = "organization" THEN {[from |-> 0, to |-> Open]}
    ELSE Merge({[from |-> Begins(grant[u]), to |-> Open]}
               \cup {w \in {[from |-> Begins(g), to |-> g.to] : g \in {h \in past : h.unit = u}} :
                        w.from < w.to})

\* The windows of a device: where its stays in units and the grants of those
\* units meet.
Refs(s, d) ==
    Merge(UNION {UNION {Meeting(w, fit[<<u, d>>].from, fit[<<u, d>>].to) : w \in GrantWindows(s, u)} :
                 u \in {v \in Seen(s) : fit[<<v, d>>] # None}})

\* Mutant: the range asked for is served whole to whoever has some of it.
ClipToNothing(s, d, from, to) ==
    IF \E w \in Refs(s, d) : Meeting(w, from, to) # {} THEN {[from |-> from, to |-> to]} ELSE {}

\* The part of [from, to) the subject may see of a device: none is a 404.
Clip(s, d, from, to) == UNION {Meeting(w, from, to) : w \in Refs(s, d)}

-----------------------------------------------------------------------------
(* Telemetry.  A device reports all the time; its rows are by the hour.    *)

Buckets == {h \in 0 .. now : h % Hour = 0}

\* Mutant: every hour the range touches.
HoursTouched(r) == {h \in Buckets : r.from < h + Hour /\ h < r.to}

\* bucket >= from AND bucket < to
HoursOf(r) == {h \in Buckets : r.from <= h /\ h < r.to}

DayOf(h) == h \div (Hour * Day)

\* get_telemetry_single: the points of each range, then sorted.
Single(s, d, from, to) == UNION {HoursOf(r) : r \in Clip(s, d, from, to)}
SingleByDay(s, d, from, to) ==
    UNION {{<<r, DayOf(h)>> : h \in HoursOf(r)} : r \in Clip(s, d, from, to)}

\* get_telemetry_batch: devices with the same ranges are asked for together;
\* one device without any refuses them all.
Batch(s, ds, from, to) ==
    IF \E d \in ds : Clip(s, d, from, to) = {} THEN [d \in {} |-> {}]
    ELSE LET groups == {Clip(s, d, from, to) : d \in ds} IN
         [d \in ds |-> UNION {UNION {HoursOf(r) : r \in g} :
                              g \in {g \in groups : Clip(s, d, from, to) = g}}]

-----------------------------------------------------------------------------
(* Trips.                                                                  *)

Begun == {k \in Trips : trip[k] # None}

\* Mutant: a trip shows when its end falls in a window.
VisibleByEnd(s) ==
    {k \in Begun : \E w \in Refs(s, trip[k].device) : w.from < trip[k].end /\ trip[k].end < w.to}

\* trips_visibility_filter, and trip_visible for a single row.
VisibleTrips(s) ==
    {k \in Begun : \E w \in Refs(s, trip[k].device) :
                      w.from <= trip[k].start /\ trip[k].start < w.to}

\* GET /devices/{id}/trips asks only whether the device was ever seen.
DeviceTrips(s, d) == IF Refs(s, d) = {} THEN {} ELSE {k \in Begun : trip[k].device = d}

\* The unit a trip is shown under: the first row of a query without order.
NamedUnits(k) ==
    {u \in Places : LET r == fit[<<u, trip[k].device>>] IN
        r # None /\ (r.to = Open \/ (r.from <= trip[k].end /\ r.to >= trip[k].start))}

\* Mutant: the cursor is held against the end, as the filter by day is.
AfterByEnd(k, cursor) == trip[k].end < cursor

\* Trip.start_time < cursor
After(k, cursor) == trip[k].start < cursor

\* The start of the last trip of a page, the page being in descending order.
Cursor(page) == Min({trip[k].start : k \in page})

\* A page: of what comes after the cursor, the latest, ties in any order.
Pages(s, cursor) ==
    LET rest == {k \in VisibleTrips(s) : After(k, cursor)} IN
    {page \in SUBSET rest :
        /\ Cardinality(page) = Min({Page, Cardinality(rest)})
        /\ \A k \in page, j \in rest \ page : trip[k].start >= trip[j].start}

\* The person reads the list from its first page until has_more is false.
ReadPage ==
    LET before == IF reader = None THEN [cursor |-> Open, got |-> {}, owed |-> Trips, more |-> TRUE]
                  ELSE reader
        rest == {k \in VisibleTrips("person") : After(k, before.cursor)} IN
    /\ before.more
    /\ \E page \in Pages("person", before.cursor) :
        reader' = [cursor |-> IF page = {} THEN before.cursor ELSE Cursor(page),
                   got    |-> before.got \cup page,
                   owed   |-> before.owed \cap VisibleTrips("person"),
                   more   |-> Cardinality(rest) > Page]
    /\ UNCHANGED <<now, fit, grant, past, closed, trip, carried, let, lost, changes>>

-----------------------------------------------------------------------------
(* What changes who sees what.                                             *)

Change ==
    /\ changes < MaxChanges
    /\ changes' = changes + 1
    /\ UNCHANGED <<now, trip, reader, carried>>

\* A device goes into a unit.  A pair made before has its row overwritten.
\* A unit of the other organization gets it by way of staff.
Assign(u, d) ==
    /\ \A v \in Places : ~InPlace(<<v, d>>)
    /\ u \notin closed
    /\ fit' = [fit EXCEPT ![<<u, d>>] = [from |-> now, to |-> Open]]
    /\ lost' = lost \cup {c \in carried : c[2] = u /\ c[3] = d}
    /\ Change
    /\ UNCHANGED <<grant, past, closed, let>>

Unassign(u, d) ==
    /\ InPlace(<<u, d>>)
    /\ fit' = [fit EXCEPT ![<<u, d>>].to = now]
    /\ Change
    /\ UNCHANGED <<grant, past, closed, let, lost>>

\* POST /user-units, and POST /units/{id}/users.
Grant(u, history) ==
    /\ grant[u] = None
    /\ u \notin closed
    /\ grant' = [grant EXCEPT ![u] = [from |-> now, history |-> history]]
    /\ let' = let \cup IF history THEN {<<t, u>> : t \in 0 .. (now - 1)} ELSE {}
    /\ Change
    /\ UNCHANGED <<fit, past, closed, lost>>

\* Mutant: the row that was deleted leaves no trace of its history.
ArchivedPlain(u) == [unit |-> u, from |-> grant[u].from, to |-> now, history |-> FALSE]

\* The trigger of migration 046 keeps what the deleted row let see.
Archived(u) == [unit |-> u, from |-> grant[u].from, to |-> now, history |-> grant[u].history]

\* DELETE /user-units/{id}, and DELETE /units/{id}/users/{user_id}.
Withdraw(u) ==
    /\ grant[u] # None
    /\ past' = past \cup {Archived(u)}
    /\ grant' = [grant EXCEPT ![u] = None]
    /\ Change
    /\ UNCHANGED <<fit, closed, let, lost>>

\* A unit with a device in it is not deleted.
DeleteUnit(u) ==
    /\ u \notin closed
    /\ \A d \in Devices : ~InPlace(<<u, d>>)
    /\ closed' = closed \cup {u}
    /\ Change
    /\ UNCHANGED <<fit, grant, past, let, lost>>

-----------------------------------------------------------------------------
(* External: trips begin and end, and time passes.                         *)

Begin(k, d) ==
    /\ trip[k] = None
    /\ \A j \in Begun : trip[j].device = d => trip[j].end # Open
    /\ Ties \/ \A j \in Begun : trip[j].start # now
    /\ trip' = [trip EXCEPT ![k] = [device |-> d, start |-> now, end |-> Open]]
    /\ UNCHANGED <<now, fit, grant, past, closed, reader, carried, let, lost, changes>>

End(k) ==
    /\ trip[k] # None /\ trip[k].end = Open /\ trip[k].start < now
    /\ trip' = [trip EXCEPT ![k].end = now]
    /\ UNCHANGED <<now, fit, grant, past, closed, reader, carried, let, lost, changes>>

\* An instant ends: what was so throughout it is remembered.
Tick ==
    /\ now < MaxTime
    /\ now' = now + 1
    /\ carried' = carried \cup {<<now, p[1], p[2]>> : p \in {p \in DOMAIN fit : InPlace(p)}}
    /\ let' = let \cup {<<now, u>> : u \in {u \in OwnUnits : grant[u] # None}}
    /\ UNCHANGED <<fit, grant, past, closed, trip, reader, lost, changes>>

Next ==
    \/ \E u \in Places, d \in Devices : Assign(u, d) \/ Unassign(u, d)
    \/ \E u \in OwnUnits : Withdraw(u) \/ DeleteUnit(u) \/ \E h \in BOOLEAN : Grant(u, h)
    \/ \E k \in Trips : End(k) \/ \E d \in Devices : Begin(k, d)
    \/ ReadPage
    \/ Tick

Spec == Init /\ [][Next]_vars

-----------------------------------------------------------------------------
(* Properties.                                                             *)

TypeOK ==
    /\ now \in 0 .. MaxTime
    /\ fit \in [Places \X Devices -> {None} \cup [from : 0 .. MaxTime, to : 0 .. Open]]
    /\ grant \in [OwnUnits -> {None} \cup [from : 0 .. MaxTime, history : BOOLEAN]]
    /\ \A g \in past : g.unit \in OwnUnits /\ g.from <= g.to
    /\ closed \subseteq OwnUnits
    /\ \A k \in Begun : trip[k].device \in Devices /\ trip[k].start < trip[k].end

\* Instant by instant, from what was so then: the device was in a unit of
\* theirs, which is there today, and a grant of it let them see that instant.
Theirs(s, d, t) ==
    \E u \in Seen(s) :
        /\ <<t, u, d>> \in carried
        /\ s = "organization" \/ <<t, u>> \in let

\* What no row tells any more: the pair was made a second time.
Overwritten(s, d, t) == \E u \in Seen(s) : <<t, u, d>> \in lost

\* An hour of telemetry is served to whoever had the device when that hour
\* began, and to nobody else, however often it and the grants came and went
\* (accessible_refs, Grant.clip and the WHERE of the queries).
HoursServedAreTheirs ==
    \A s \in Subjects, d \in Devices, from \in 0 .. now, to \in 0 .. now :
        LET served == Single(s, d, from, to) IN
        /\ \A h \in served : h < now => Theirs(s, d, h)
        /\ \A h \in Buckets :
              from <= h /\ h < to /\ Theirs(s, d, h) => h \in served \/ Overwritten(s, d, h)

\* One call for several devices serves of each what a call for it alone does.
BatchIsSingle ==
    \A s \in Subjects, ds \in SUBSET Devices, from \in 0 .. now, to \in 0 .. now :
        \A d \in DOMAIN Batch(s, ds, from, to) :
            Batch(s, ds, from, to)[d] = Single(s, d, from, to)

\* A trip is listed for whoever had its device when it began.
TripsListedAreTheirs ==
    \A s \in Subjects, k \in Begun :
        LET at == trip[k].start IN
        at < now =>
            /\ k \in VisibleTrips(s) => Theirs(s, trip[k].device, at)
            /\ Theirs(s, trip[k].device, at) =>
                  k \in VisibleTrips(s) \/ Overwritten(s, trip[k].device, at)

\* Whoever reads the list to its end was given every trip they could see all
\* the while.
PagesMissNothing == reader # None /\ ~reader.more => reader.owed \subseteq reader.got

\* A day has one point.
OnePointPerDay ==
    \A s \in Subjects, d \in Devices, from \in 0 .. now, to \in 0 .. now :
        \A p, q \in SingleByDay(s, d, from, to) : p[2] = q[2] => p = q

\* The trips listed for a device were those of whoever asks.
DeviceTripsAreTheirs == \A s \in Subjects, d \in Devices : DeviceTrips(s, d) \subseteq VisibleTrips(s)

\* A trip that is shown is shown under a unit of those who see it.
NamedUnitIsTheirs == \A s \in Subjects : \A k \in VisibleTrips(s) : NamedUnits(k) \subseteq OwnUnits

=============================================================================
