-------------------------------- MODULE Push --------------------------------
(***************************************************************************)
(* Phones that receive pushes, and the mobility devices linked to them.    *)
(* Registering a phone finds the person's own row, by its token or by its  *)
(* platform, turns off whoever had the token, asks SNS for the endpoint    *)
(* and writes; SNS keeps endpoints of its own, one for each token.         *)
(*                                                                         *)
(* One platform.  Of several rows of a person the code takes the latest;   *)
(* here any of them may be it.                                             *)
(***************************************************************************)
EXTENDS Naturals, FiniteSets

CONSTANTS
    Users,
    Tokens,      \* what a phone gets from APNS or FCM
    Rows,        \* user_devices.id
    Arns,        \* what SNS may name an endpoint
    Mobiles,     \* mobility.devices.id
    Externals,   \* external_device_id: the phone as the app knows it
    Requests,    \* registrations that may be under way at the same time
    Unique,      \* the unique index of user_devices: "token", or "pair" with user_id
    Crashes,     \* where in a registration the process may die
    Overlap,     \* whether a person's own calls overlap
    ExpiresInUse, \* whether a token may expire while it is being registered
    MaxCalls,    \* bound on the requests of people
    None

PushAssumption ==
    /\ Unique \in {"token", "pair"}
    /\ Crashes \subseteq {"claim", "ask", "insert", "refresh", "write"}
    /\ {Overlap, ExpiresInUse} \subseteq BOOLEAN /\ MaxCalls \in Nat
    /\ None \notin Users \cup Tokens \cup Rows \cup Arns
    /\ None \notin [user : Users, token : Tokens, arn : Arns, active : BOOLEAN]
    /\ None \notin [user : Users, external : Externals \cup {None}, link : Rows \cup {None}]

VARIABLES
    row,        \* user_devices
    endpoint,   \* SNS: the token of each endpoint
    req,        \* the registrations under way
    alive,      \* the tokens phones have
    mobile,     \* mobility.devices
    told,       \* ghost: the token for which a person's last registration was answered 200
    calls

vars == <<row, endpoint, req, alive, mobile, told, calls>>

Idle == [phase |-> "idle"]

Init ==
    /\ row = [i \in Rows |-> None]
    /\ endpoint = [a \in Arns |-> None]
    /\ req = [r \in Requests |-> Idle]
    /\ alive = Tokens
    /\ mobile = [m \in Mobiles |-> None]
    /\ told = [u \in Users |-> None]
    /\ calls = 0

\* Which of the unused names is taken makes no difference.
One(S) == IF S = {} THEN {} ELSE {CHOOSE x \in S : TRUE}

Kept == {i \in Rows : row[i] # None}
Of(u) == {i \in Kept : row[i].user = u}
With(u, t) == {i \in Of(u) : row[i].token = t}

Busy == {req[r].user : r \in {r \in Requests : req[r] # Idle}}

Call == calls < MaxCalls /\ calls' = calls + 1

-----------------------------------------------------------------------------
(* SNS.  An endpoint may be had by token, and moved to another token that  *)
(* no endpoint has.                                                        *)

\* What a registration under way was given and has not written.
Held == {req[r].arn : r \in {r \in Requests : req[r].phase \in {"insert", "write"}}}

\* SNS never gives a name twice.
Fresh ==
    {a \in Arns : endpoint[a] = None /\ a \notin Held /\ \A i \in Kept : row[i].arn # a}

Created(t) ==
    LET same == {a \in Arns : endpoint[a] = t} IN
    IF same # {} THEN {[arn |-> a, endpoint |-> endpoint, new |-> TRUE] : a \in same}
    ELSE {[arn |-> a, endpoint |-> [endpoint EXCEPT ![a] = t], new |-> TRUE] :
          a \in One(Fresh)}

\* Mutant: the endpoint the row names is taken as it is.
ReusedBlindly(a, t) ==
    IF a = None THEN Created(t) ELSE {[arn |-> a, endpoint |-> endpoint, new |-> FALSE]}

\* get_or_recreate_endpoint: the row's own endpoint is moved to the token,
\* unless it is gone or the token has another.
GetOrRecreate(a, t) ==
    IF a # None /\ endpoint[a] # None /\ \A b \in Arns \ {a} : endpoint[b] # t
    THEN {[arn |-> a, endpoint |-> [endpoint EXCEPT ![a] = t], new |-> FALSE]}
    ELSE Created(t)

InUse == {req[r].token : r \in {r \in Requests : req[r] # Idle}}

\* A phone leaves a token for good, and SNS drops the endpoint it had.
Expire(t) ==
    /\ ExpiresInUse \/ t \notin InUse
    /\ alive' = alive \ {t}
    /\ \E a \in Arns : endpoint[a] = t /\ endpoint' = [endpoint EXCEPT ![a] = None]
    /\ UNCHANGED <<row, req, mobile, told, calls>>

-----------------------------------------------------------------------------
(* POST /user-devices/register.                                            *)

\* The person's own row by its token, else by its platform.
Look(r, u, t) ==
    /\ req[r] = Idle /\ t \in alive
    /\ Overlap \/ u \notin Busy
    /\ Call
    /\ LET found == IF With(u, t) # {} THEN With(u, t) ELSE Of(u) IN
       IF found = {}
       THEN req' = [req EXCEPT ![r] = [phase |-> "claim", user |-> u, token |-> t]]
       ELSE \E i \in found : req' = [req EXCEPT ![r] =
                [phase |-> "refresh", user |-> u, token |-> t, id |-> i, read |-> row[i]]]
    /\ told' = [told EXCEPT ![u] = None]
    /\ UNCHANGED <<row, endpoint, alive, mobile>>

Others(q) == {i \in Kept : row[i].token = q.token /\ row[i].user # q.user /\ row[i].active}

\* Mutant: the row of another account changes hands.
TurnedOver(i, q) == [row[i] EXCEPT !.user = q.user]

\* The row of another account is turned off.
TurnedOff(i, q) == [row[i] EXCEPT !.active = FALSE]

\* Committed by itself, before SNS is asked and the new row written.
Claim(r) ==
    LET q == req[r] IN
    /\ q.phase = "claim"
    /\ IF Others(q) = {} THEN UNCHANGED <<row, told>>
       ELSE \E i \in Others(q) :
            /\ row' = [row EXCEPT ![i] = TurnedOff(i, q)]
            /\ told' = [told EXCEPT ![row[i].user] = IF @ = q.token THEN None ELSE @]
    /\ req' = [req EXCEPT ![r].phase = "ask"]
    /\ UNCHANGED <<endpoint, alive, mobile, calls>>

\* SNS answers with an endpoint, or fails and the request with it.
Ask(r) ==
    LET q == req[r]
        named == IF q.phase = "refresh" THEN q.read.arn ELSE None IN
    /\ q.phase \in {"ask", "refresh"}
    /\ \/ \E a \in GetOrRecreate(named, q.token) :
            /\ endpoint' = a.endpoint
            /\ req' = [req EXCEPT ![r] =
                  IF q.phase = "ask"
                  THEN [phase |-> "insert", user |-> q.user, token |-> q.token, arn |-> a.arn]
                  ELSE [phase |-> "write", user |-> q.user, token |-> q.token, id |-> q.id,
                        read |-> q.read, arn |-> IF a.new THEN a.arn ELSE q.read.arn]]
       \/ endpoint' = endpoint /\ req' = [req EXCEPT ![r] = Idle]
    /\ UNCHANGED <<row, alive, mobile, told, calls>>

\* What the unique index refuses.
Clash(u, t, i) ==
    \E j \in Kept \ {i} : row[j].token = t /\ (Unique = "pair" => row[j].user = u)

\* A refused insert goes on with the row another request made, or is a 500.
Insert(r) ==
    LET q == req[r] IN
    /\ q.phase = "insert"
    /\ \/ /\ ~Clash(q.user, q.token, None)
          /\ \E i \in One(Rows \ Kept) : row' = [row EXCEPT ![i] =
                [user |-> q.user, token |-> q.token, arn |-> q.arn, active |-> TRUE]]
          /\ told' = [told EXCEPT ![q.user] = q.token]
          /\ req' = [req EXCEPT ![r] = Idle]
       \/ /\ Clash(q.user, q.token, None)
          /\ req' = [req EXCEPT ![r] =
                IF With(q.user, q.token) = {} THEN Idle
                ELSE LET i == CHOOSE i \in With(q.user, q.token) : TRUE IN
                     [phase |-> "refresh", user |-> q.user, token |-> q.token, id |-> i,
                      read |-> row[i]]]
          /\ UNCHANGED <<row, told>>
    /\ UNCHANGED <<endpoint, alive, mobile, calls>>

\* Mutant: the row keeps the token it had.
WrittenKeepingToken(i, q) ==
    [row[i] EXCEPT !.arn = q.arn, !.active = IF q.read.active THEN @ ELSE TRUE]

\* The columns whose value differs from the one that was read.
Written(i, q) ==
    [row[i] EXCEPT !.token = IF q.read.token = q.token THEN @ ELSE q.token,
                   !.arn = IF q.read.arn = q.arn THEN @ ELSE q.arn,
                   !.active = IF q.read.active THEN @ ELSE TRUE]

\* A refused update falls back on the row that has the token, or is a 500.
Write(r) ==
    LET q == req[r] IN
    /\ q.phase = "write"
    /\ IF ~Clash(q.user, q.token, q.id)
       THEN /\ row' = [row EXCEPT ![q.id] = Written(q.id, q)]
            /\ told' = [told EXCEPT ![q.user] = q.token]
       ELSE IF With(q.user, q.token) = {} THEN UNCHANGED <<row, told>>
       ELSE /\ \E i \in With(q.user, q.token) : row' = [row EXCEPT ![i].active = TRUE]
            /\ told' = [told EXCEPT ![q.user] = q.token]
    /\ req' = [req EXCEPT ![r] = Idle]
    /\ UNCHANGED <<endpoint, alive, mobile, calls>>

Crash(r) ==
    /\ req[r].phase \in Crashes
    /\ req' = [req EXCEPT ![r] = Idle]
    /\ UNCHANGED <<row, endpoint, alive, mobile, told, calls>>

\* Mutant: the token alone says which row it is.
FoundByToken(u, t) == {i \in Kept : row[i].token = t}

\* Only the row of whoever asks.
Found(u, t) == With(u, t)

\* POST /user-devices/deactivate.
Deactivate(u, t) ==
    /\ Overlap \/ u \notin Busy
    /\ Call
    /\ \E i \in Found(u, t) : row' = [row EXCEPT ![i].active = FALSE]
    /\ told' = [told EXCEPT ![u] = IF @ = t THEN None ELSE @]
    /\ UNCHANGED <<endpoint, req, alive, mobile>>

-----------------------------------------------------------------------------
(* Mobility devices.                                                       *)

Known == {m \in Mobiles : mobile[m] # None}
Linked(i, but) == \E m \in Known \ {but} : i # None /\ mobile[m].link = i

\* Mutant: a row that exists will do.
MayLinkAny(u, i) == i = None \/ i \in Kept

\* The row to notify is of the same person.
MayLink(u, i) == i = None \/ i \in Of(u)

\* POST /mobility-devices: an upsert by external id, else by the linked row.
Enroll(u, e, i) ==
    LET byExternal == {m \in Known : mobile[m].user = u /\ e # None /\ mobile[m].external = e}
        byLink == {m \in Known : mobile[m].user = u /\ i # None /\ mobile[m].link = i}
        found == IF byExternal # {} THEN byExternal ELSE byLink IN
    /\ MayLink(u, i)
    /\ \E m \in IF found # {} THEN found ELSE One(Mobiles \ Known) :
        /\ ~Linked(i, m)
        /\ mobile' = [mobile EXCEPT ![m] =
              IF found = {} THEN [user |-> u, external |-> e, link |-> i]
              ELSE [mobile[m] EXCEPT !.external = e, !.link = IF i = None THEN @ ELSE i]]
    /\ Call
    /\ UNCHANGED <<row, endpoint, req, told, alive>>

\* PATCH, PUT and DELETE of the link, by the owner of the device.
Relink(u, m, i) ==
    /\ m \in Known /\ mobile[m].user = u
    /\ MayLink(u, i) /\ ~Linked(i, m)
    /\ mobile' = [mobile EXCEPT ![m].link = i]
    /\ Call
    /\ UNCHANGED <<row, endpoint, req, told, alive>>

-----------------------------------------------------------------------------
Next ==
    \/ \E r \in Requests :
        \/ \E u \in Users, t \in Tokens : Look(r, u, t)
        \/ Claim(r) \/ Ask(r) \/ Insert(r) \/ Write(r) \/ Crash(r)
    \/ \E u \in Users, t \in Tokens : Deactivate(u, t)
    \/ \E u \in Users, i \in Kept \cup {None} :
        (\E e \in Externals \cup {None} : Enroll(u, e, i)) \/ \E m \in Mobiles : Relink(u, m, i)
    \/ \E t \in Tokens : Expire(t)

Spec == Init /\ [][Next]_vars

-----------------------------------------------------------------------------
(* Properties.                                                             *)

\* Whoever was answered 200 has a row in use for that phone, until they or the
\* next account on it turn it off, and what is sent to it rings nowhere else: an
\* endpoint that was moved, or had from SNS by its token, is not another row's
\* (register_user_device, get_or_recreate_endpoint).
PushesReachTheirPhone ==
    \A u \in Users : told[u] # None =>
        \E i \in With(u, told[u]) : row[i].active /\ endpoint[row[i].arn] \in {told[u], None}

\* A phone rings for one account.
OneAccountPerPhone ==
    \A i, j \in Kept : row[i].active /\ row[j].active /\ row[i].token = row[j].token =>
        row[i].user = row[j].user

\* A mobility device notifies a row of its own person, and shares it with none.
LinksAreOwn ==
    \A m \in Known : mobile[m].link # None =>
        row[mobile[m].link].user = mobile[m].user /\ ~Linked(mobile[m].link, m)

\* The account that enters last on a phone gets a row of its own for it.
LastAccountHasRow ==
    \A r \in Requests : req[r].phase = "insert" => ~Clash(req[r].user, req[r].token, None)

=============================================================================
