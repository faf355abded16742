------------------------------ MODULE Sessions ------------------------------
(***************************************************************************)
(* From a token to a person who acts in an organization: the keys of       *)
(* Cognito that every thread shares, the guards that turn a token into a   *)
(* user and a membership, and the renewal of a session.                    *)
(*                                                                         *)
(* A request is a thread.  It checks the token against the cached keys,    *)
(* loads the user, then asks for the membership; Cognito changes its keys, *)
(* people join and leave and are turned off in between.                    *)
(***************************************************************************)
EXTENDS Naturals, Sequences

CONSTANTS
    Users, Orgs,
    Requests,
    Kinds,        \* of request: "act", "list", "permit", "renew", "logout"
    TTL,          \* _JWKS_TTL
    MaxFetch,     \* bound on the time Cognito takes to answer a fetch
    Life,         \* of an access token
    MaxTime, MaxKeys, MaxChanges,   \* bounds on time, keys, changes of people
    None

SessionsAssumption ==
    /\ Kinds \subseteq {"act", "list", "permit", "renew", "logout"}
    /\ {TTL, MaxFetch, Life, MaxTime, MaxKeys, MaxChanges} \subseteq Nat
    /\ MaxKeys > 0 /\ None \notin Users \cup Orgs \cup Requests

VARIABLES
    now,
    issued,     \* Cognito: when each signing key was published
    cache,      \* _jwks_cache and _jwks_fetched_at
    lock,       \* _jwks_lock
    token,      \* the access token each app holds
    session,    \* Cognito: who has a refresh token that it honours
    enabled,    \* Cognito: the credentials that are not disabled
    active,     \* users.status = ACTIVE
    home,       \* users.default_organization_id
    role,       \* organization_users that are ACTIVE: whether the role has the permission
    req,
    changes

keyVars == <<issued, cache, lock>>
cognitoVars == <<token, session, enabled>>
peopleVars == <<active, home, role, changes>>
vars == <<now, keyVars, cognitoVars, peopleVars, req>>

\* Cognito publishes the key it signs with and the one before.
Published == {k \in 1..Len(issued) : k + 1 >= Len(issued)}

NoToken == [key |-> 0, exp |-> 0]
Idle == [phase |-> "idle", user |-> None, kind |-> "none", asks |-> None, token |-> NoToken,
         once |-> {}, ever |-> FALSE, always |-> {},   \* history: what it saw of its person
         asked |-> 0, keys |-> {}, home |-> None, orgs |-> {}]
Signed == [key |-> Len(issued), exp |-> now + Life]

\* Any membership lets in; require_organization_permission asks for a role that
\* the catalogue gives the permission.
Rights(kind) == IF kind = "permit" THEN {"owner"} ELSE {"owner", "member"}

\* Where a person may act.
In(u, kind, rl) == {o \in Orgs : rl[<<u, o>>] \in Rights(kind)}
Of(u, kind) == In(u, kind, role)

Init ==
    /\ now = 0 /\ issued = <<0>> /\ changes = 0
    /\ cache = [keys |-> {}, at |-> 0] /\ lock = None
    /\ token = [u \in Users |-> NoToken]
    /\ session = {} /\ enabled = Users /\ active = Users
    /\ home \in [Users -> Orgs]
    /\ role = [m \in Users \X Orgs |-> IF m[2] = home[m[1]] THEN "owner" ELSE None]
    /\ req = [r \in Requests |-> Idle]

-----------------------------------------------------------------------------
(* Time, Cognito and people.                                               *)

Tick ==
    /\ now < MaxTime /\ now' = now + 1
    /\ \A r \in Requests :
        req[r].phase \in {"fetch", "store", "stamp"} => now < req[r].asked + MaxFetch
    /\ UNCHANGED <<keyVars, cognitoVars, peopleVars, req>>

Rotate ==
    /\ Len(issued) < MaxKeys
    /\ issued' = Append(issued, now)
    /\ UNCHANGED <<now, cache, lock, cognitoVars, peopleVars, req>>

\* POST /auth/login asks Cognito, not users.status.  An app logs in when it has
\* no token to use.
Login(u) ==
    /\ u \in enabled
    /\ token[u] = NoToken \/ now >= token[u].exp \/ u \notin session
    /\ token' = [token EXCEPT ![u] = Signed]
    /\ session' = session \cup {u}
    /\ UNCHANGED <<now, keyVars, enabled, peopleVars, req>>

\* What a request has seen of its person: what held at some moment since it
\* began, and what held all along.
Watched(act, rl) ==
    [r \in Requests |->
        IF req[r] = Idle THEN Idle
        ELSE LET q == req[r]
                 orgs == In(q.user, q.kind, rl) IN
             [q EXCEPT !.once = @ \cup orgs, !.ever = @ \/ q.user \in act,
                       !.always = IF q.user \in act THEN @ \cap orgs ELSE {}]]

Change == changes < MaxChanges /\ changes' = changes + 1

\* PATCH of a person's status, whatever it was; Cognito may not learn of it.
With(people, u, on) == IF on THEN people \cup {u} ELSE people \ {u}

SetStatus(u, on) ==
    /\ Change
    /\ active' = With(active, u, on)
    /\ enabled' \in {enabled, With(enabled, u, on)}
    /\ <<active, enabled>>' # <<active, enabled>>
    /\ req' = Watched(active', role)
    /\ UNCHANGED <<now, keyVars, token, session, home, role>>

\* Joins, and is promoted or demoted.
Join(u, o) ==
    /\ Change
    /\ \E c \in {"owner", "member"} \ {role[<<u, o>>]} : role' = [role EXCEPT ![<<u, o>>] = c]
    /\ req' = Watched(active, role')
    /\ UNCHANGED <<now, keyVars, cognitoVars, active, home>>

\* Whoever leaves their default organization gets another one of theirs.
Leave(u, o) ==
    /\ role[<<u, o>>] # None
    /\ Change
    /\ role' = [role EXCEPT ![<<u, o>>] = None]
    /\ LET left == In(u, "act", role') IN
       \E h \in IF home[u] = o /\ left # {} THEN left ELSE {home[u]} :
           home' = [home EXCEPT ![u] = h]
    /\ req' = Watched(active, role')
    /\ UNCHANGED <<now, keyVars, cognitoVars, active>>

-----------------------------------------------------------------------------
(* The keys.                                                               *)

\* A request with a token and, perhaps, X-Organization-Id.
Start(r, u, kind, o) ==
    /\ req[r] = Idle /\ token[u] # NoToken
    /\ o # None => kind = "act"
    /\ req' = [req EXCEPT ![r] =
          [Idle EXCEPT !.phase = "keys", !.user = u, !.kind = kind, !.asks = o,
                       !.token = token[u], !.once = Of(u, kind), !.ever = u \in active,
                       !.always = IF u \in active THEN Of(u, kind) ELSE {}]]
    /\ UNCHANGED <<now, keyVars, cognitoVars, peopleVars>>

Fresh == cache.keys # {} /\ now < cache.at + TTL

Goes(r, phase) == req' = [req EXCEPT ![r].phase = phase]

\* verify_cognito_token; verificar_access_token_para_refresco admits that the
\* token has expired.
Known(q, keys) == q.token.key \in keys /\ (q.kind = "renew" \/ now < q.token.exp)

\* Without its token, which nothing reads any more.
Kept(q, phase) ==
    [q EXCEPT !.phase = phase, !.token = NoToken, !.keys = {}, !.asked = 0, !.home = None]

\* A token that is not known is a 401.
Checked(r, keys) ==
    req' = [req EXCEPT ![r] =
        IF Known(req[r], keys) THEN Kept(req[r], "known") ELSE Idle]

\* _get_jwks without the lock.
Peek(r) ==
    /\ req[r].phase = "keys"
    /\ IF Fresh THEN Checked(r, cache.keys) ELSE Goes(r, "wait")
    /\ UNCHANGED <<now, keyVars, cognitoVars, peopleVars>>

\* Mutant: the cache is not looked at again under the lock.
NeverLooks == FALSE

\* Whether another thread fetched while this one waited.
LooksAgain == Fresh

Enter(r) ==
    /\ req[r].phase = "wait" /\ lock = None
    /\ IF LooksAgain THEN Checked(r, cache.keys) /\ lock' = lock
       ELSE /\ lock' = r
            /\ req' = [req EXCEPT ![r] = [req[r] EXCEPT !.phase = "fetch", !.asked = now]]
    /\ UNCHANGED <<now, issued, cache, cognitoVars, peopleVars>>

\* Cognito answers with what it publishes at that moment.
Answer(r) ==
    /\ req[r].phase = "fetch"
    /\ req' = [req EXCEPT ![r] = [req[r] EXCEPT !.phase = "store", !.keys = Published]]
    /\ UNCHANGED <<now, keyVars, cognitoVars, peopleVars>>

\* Or it does not: the old keys will do; without any it is a 503.
Fails(r) ==
    /\ req[r].phase = "fetch"
    /\ lock' = None
    /\ IF cache.keys # {} THEN Checked(r, cache.keys) ELSE req' = [req EXCEPT ![r] = Idle]
    /\ UNCHANGED <<now, issued, cache, cognitoVars, peopleVars>>

\* The keys and their time are two variables, read without the lock.
Store(r) ==
    /\ req[r].phase = "store"
    /\ cache' = [cache EXCEPT !.keys = req[r].keys]
    /\ Goes(r, "stamp")
    /\ UNCHANGED <<now, issued, lock, cognitoVars, peopleVars>>

\* Mutant: the time is one TTL ahead.
StampedAhead == now + TTL

Stamped == now

Stamp(r) ==
    /\ req[r].phase = "stamp" /\ lock = r
    /\ cache' = [cache EXCEPT !.at = Stamped]
    /\ lock' = None
    /\ Checked(r, cache.keys)
    /\ UNCHANGED <<now, issued, cognitoVars, peopleVars>>

-----------------------------------------------------------------------------
(* The person and the organization.                                        *)

\* Mutant: the status of the person is not looked at to renew.
EnterableButRenewing(q) == q.kind = "renew" \/ q.user \in active

\* _exigir_usuario_activo.
Enterable(q) == q.user \in active

\* _load_user_by_sub, and the membership for whoever acts somewhere.
Load(r) ==
    LET q == req[r] IN
    /\ q.phase = "known"
    /\ req' = [req EXCEPT ![r] =
          IF ~Enterable(q) THEN [q EXCEPT !.phase = "out"]
          ELSE IF q.kind = "list" THEN [q EXCEPT !.phase = "in", !.orgs = Of(q.user, q.kind)]
          ELSE IF q.kind = "renew" THEN [q EXCEPT !.phase = "renew"]
          ELSE [q EXCEPT !.phase = "member", !.home = home[q.user]]]
    /\ UNCHANGED <<now, keyVars, cognitoVars, peopleVars>>

\* Mutant: whoever names an organization is taken at their word.
AdmittedByName(q, o) == q.asks # None \/ o \in Of(q.user, q.kind)

\* Mutant: only the default organization is admitted.
AdmittedAtHome(q, o) == o = q.home /\ o \in Of(q.user, q.kind)

Admitted(q, o) == o \in Of(q.user, q.kind)

\* _load_current_user; require_organization_permission has no selector.
Enters(r) ==
    LET q == req[r]
        o == IF q.asks # None THEN q.asks ELSE q.home IN
    /\ q.phase = "member"
    /\ req' = [req EXCEPT ![r] =
          IF ~Admitted(q, o) THEN Kept(q, "out")
          ELSE [Kept(q, IF q.kind = "logout" THEN "leaving" ELSE "in") EXCEPT !.orgs = {o}]]
    /\ UNCHANGED <<now, keyVars, cognitoVars, peopleVars>>

\* POST /auth/refresh asks Cognito for another access token: it refuses, or it
\* is saturated and the session stays.
Renew(r) ==
    LET q == req[r] IN
    /\ q.phase = "renew"
    /\ \/ /\ q.user \in session \cap enabled
          /\ token' = [token EXCEPT ![q.user] = Signed]
          /\ Goes(r, "in")
       \/ req' = [req EXCEPT ![r] = Idle] /\ UNCHANGED token
    /\ UNCHANGED <<now, keyVars, session, enabled, peopleVars>>

\* POST /auth/logout ends the sessions at Cognito, which may fail.
SignOut(r) ==
    /\ req[r].phase = "leaving"
    /\ session' \in {session, session \ {req[r].user}}
    /\ Goes(r, "in")
    /\ UNCHANGED <<now, keyVars, token, enabled, peopleVars>>

Finish(r) ==
    /\ req[r].phase \in {"in", "out"}
    /\ req' = [req EXCEPT ![r] = Idle]
    /\ UNCHANGED <<now, keyVars, cognitoVars, peopleVars>>

-----------------------------------------------------------------------------
Next ==
    \/ Tick \/ Rotate
    \/ \E u \in Users :
        \/ Login(u)
        \/ \E on \in BOOLEAN : SetStatus(u, on)
        \/ \E o \in Orgs : Join(u, o) \/ Leave(u, o)
        \/ \E r \in Requests, kind \in Kinds, o \in Orgs \cup {None} : Start(r, u, kind, o)
    \/ \E r \in Requests :
        \/ Peek(r) \/ Enter(r) \/ Answer(r) \/ Fails(r) \/ Store(r) \/ Stamp(r)
        \/ Load(r) \/ Enters(r) \/ Renew(r) \/ SignOut(r) \/ Finish(r)

Spec == Init /\ [][Next]_vars

-----------------------------------------------------------------------------
(* Properties.                                                             *)

\* Keys that are taken for fresh are Cognito's, give or take TTL and a fetch:
\* none is kept for longer after it was withdrawn, and none is missing for longer
\* after it was published, however many threads share the cache and whenever
\* they look at it (_get_jwks).
KeysFollowCognito ==
    Fresh =>
        /\ \A k \in cache.keys : k + 2 <= Len(issued) => now < issued[k + 2] + TTL + MaxFetch
        /\ \A k \in Published \ cache.keys : now < issued[k] + TTL + MaxFetch

\* One thread asks Cognito for keys, and none does while those it has are fresh.
FetchedWhenNeeded ==
    \A r \in Requests : req[r].phase = "fetch" =>
        /\ cache.keys = {} \/ req[r].asked >= cache.at + TTL
        /\ \A s \in Requests \ {r} : req[s].phase \notin {"fetch", "store", "stamp"}

\* Whoever is let in was active and a member of the organization they act in
\* at some moment of the request; a renewal is not given to whoever was turned
\* off all through it (_load_current_user, _usuario_para_renovar).
EntersWhereMember ==
    \A r \in Requests :
        LET q == req[r] IN
        q.phase = "in" => q.ever /\ (q.kind # "list" => q.orgs \subseteq q.once)

\* Nobody who was active and a member all through is refused the organization
\* they asked for, and the list of organizations names it
\* (list_my_organizations, _load_current_user).
MembersAreAdmitted ==
    \A r \in Requests :
        LET q == req[r] IN
        /\ q.phase = "out" => q.asks \notin q.always
        /\ q.phase = "in" /\ q.kind = "list" => q.always \subseteq q.orgs

\* Whoever logged out is not let in with the tokens of before (logout_user).
LogoutIsFelt ==
    \A r \in Requests : req[r].phase = "in" /\ req[r].kind = "act" =>
        req[r].user \in session

=============================================================================
