------------------------------- MODULE Access -------------------------------
(***************************************************************************)
(* What a person may see, the data tokens that carry it to the data plane, *)
(* and their revocation.                                                   *)
(*                                                                         *)
(* PostgreSQL decides who sees which units and devices.  A data token only *)
(* names a scope in Valkey, the set of references that were visible when   *)
(* it was issued; it is good until it expires and while its scope exists.  *)
(* A commit that narrows somebody's visibility is followed by a revocation *)
(* that runs after it, in the same process, against Valkey: here a job.    *)
(*                                                                         *)
(* Only open windows ("now") are modelled, of one organization.  The keys  *)
(* of Valkey outlive their tokens by a margin, so their own expiry never   *)
(* shows.                                                                  *)
(***************************************************************************)
EXTENDS Integers, FiniteSets

CONSTANTS
    Users, Units, Devices,
    Issues,       \* scope_refs: fresh at every issue
    Jobs,         \* requests that may be revoking at the same time
    TTL,          \* DATA_TOKEN_MAX_TTL_SECONDS
    ShareTTL,     \* SHARE_TOKEN_TTL_SECONDS
    Margin,       \* VALKEY_SCOPE_TTL_MARGIN_SECONDS
    MaxRequest,   \* how long a request takes, from its first read to its last write
    MaxTime,      \* bound of the clock
    MaxChanges,   \* bound on the commits that change visibility, logouts and stops
    Overlap,      \* TRUE: a scope may be written in the middle of a revocation
    Failures      \* TRUE: Valkey, the database or the process may fail

AccessAssumption ==
    /\ {TTL, ShareTTL, Margin, MaxRequest, MaxTime, MaxChanges} \subseteq Nat
    /\ TTL > 0 /\ ShareTTL > 0
    /\ {Overlap, Failures} \subseteq BOOLEAN
    /\ Users \cap Units = {} /\ Units \cap Devices = {} /\ Users \cap Devices = {}

\* The owners of the reverse index: a session's user, a shared link's unit.
Subjects == Users \cup Units
Roles == {"owner", "member", "out"}   \* "out": no active membership, or not ACTIVE

VARIABLES
    role, grants, live, fit,   \* organization_users, user_units, units, unit_devices
    token,     \* the issues, from the first read of the request on
    index,     \* dt:owner:*, the scopes of a subject
    job,       \* the requests that have revocations to do
    now,       \* the clock
    changes,   \* commits so far
    due,       \* ghost: tokens that a commit or a logout has ended
    since,     \* ghost: when the refs of a token stopped being what its subject sees
    given      \* ghost: subjects of whom a revocation was given up

db == <<role, grants, live, fit>>
ghosts == <<due, since, given>>
vars == <<db, token, index, job, now, changes, ghosts>>

NoToken == [phase |-> "unused"]
NoJob == [phase |-> "none"]
Held == MaxTime + 1    \* since, for a token whose refs are all still visible

\* Any state of the tables (a device in one unit), and nothing issued yet.
Init ==
    /\ role \in [Users -> Roles]
    /\ grants \in SUBSET (Users \X Units)
    /\ live = Units
    /\ fit \in SUBSET (Units \X Devices)
    /\ \A p, q \in fit : p[2] = q[2] => p = q
    /\ token = [i \in Issues |-> NoToken]
    /\ index = [s \in Subjects |-> {}]
    /\ job = [j \in Jobs |-> NoJob]
    /\ now = 0 /\ changes = 0
    /\ due = {} /\ given = {}
    /\ since = [i \in Issues |-> Held]

-----------------------------------------------------------------------------
(* Who sees what                                                           *)

\* accessible_unit_ids: an owner every unit, a member the units granted.
VisibleUnits(u, wide) == {v \in live : wide \/ <<u, v>> \in grants}
\* accessible_refs, the open windows: those units and what is fitted to them.
AccessibleRefs(units) == units \cup {d \in Devices : \E v \in units : <<v, d>> \in fit}

\* What a subject is entitled to: for a unit, what a shared link of it shows.
Sees(s) ==
    IF s \in Units THEN AccessibleRefs({s} \cap live)
    ELSE IF role[s] = "out" THEN {}
    ELSE AccessibleRefs(VisibleUnits(s, role[s] = "owner"))

\* usuarios_que_ven: the grants of those units and the owners.
UsersWhoSee(units) ==
    IF units = {} THEN {}
    ELSE {u \in Users : role[u] = "owner" \/ \E v \in units : <<u, v>> \in grants}

-----------------------------------------------------------------------------
(* Tokens                                                                  *)

Unexpired(i) == token[i].phase = "written" /\ now < token[i].expires
\* What siscom-api accepts: a token that has not expired, whose scope exists.
Accepted(i) == Unexpired(i) /\ token[i].scope

InFlight(i) == token[i].phase \in {"asked", "resolved"}

\* The request has loaded its user: subject_for_user has decided whose units.
AskSession(i, u) ==
    /\ token[i] = NoToken
    /\ role[u] # "out"
    /\ token' = [token EXCEPT ![i] =
          [phase |-> "asked", subject |-> u, wide |-> role[u] = "owner", asked |-> now]]
    /\ UNCHANGED <<db, index, job, now, changes, ghosts>>

\* Mutant: the token lives as long as the keys of its scope.
ResolveKeyTTL(i) ==
    LET t == token[i]
        refs == AccessibleRefs(VisibleUnits(t.subject, t.wide))
    IN
    /\ t.phase = "asked"
    /\ token' = [token EXCEPT ![i] =
          [phase |-> "resolved", subject |-> t.subject, refs |-> refs,
           expires |-> now + TTL + Margin, asked |-> t.asked]]
    /\ since' = [since EXCEPT ![i] = IF refs \subseteq Sees(t.subject) THEN Held ELSE since[i]]
    /\ UNCHANGED <<db, index, job, now, changes, due, given>>

\* moment, then accessible_refs.
Resolve(i) ==
    LET t == token[i]
        refs == AccessibleRefs(VisibleUnits(t.subject, t.wide))
    IN
    /\ t.phase = "asked"
    /\ token' = [token EXCEPT ![i] =
          [phase |-> "resolved", subject |-> t.subject, refs |-> refs,
           expires |-> now + TTL, asked |-> t.asked]]
    /\ since' = [since EXCEPT ![i] = IF refs \subseteq Sees(t.subject) THEN Held ELSE since[i]]
    /\ UNCHANGED <<db, index, job, now, changes, due, given>>

\* A link to share a unit: check_unit_access and one of its devices;
\* issue_share_token takes its moment when it writes.
AskShare(i, u, v, d) ==
    /\ token[i] = NoToken
    /\ v \in Sees(u)
    /\ <<v, d>> \in fit
    /\ token' = [token EXCEPT ![i] =
          [phase |-> "resolved", subject |-> v, refs |-> {v, d},
           expires |-> now, asked |-> now]]
    /\ UNCHANGED <<db, index, job, now, changes, ghosts>>

\* A job that has listed the index of s and not yet deleted it.
Deleting(s) == \E j \in Jobs : job[j].phase \in {"listed", "dropped"} /\ job[j].subject = s

\* write_scope: the scope and its entry in the index, in one pipeline.
WriteScope(i) ==
    LET s == token[i].subject IN
    /\ token[i].phase = "resolved"
    /\ Overlap \/ ~Deleting(s)
    /\ token' = [token EXCEPT ![i] =
          [phase |-> "written", subject |-> s, refs |-> token[i].refs, scope |-> TRUE,
           expires |-> IF s \in Units THEN now + ShareTTL ELSE token[i].expires]]
    /\ index' = [index EXCEPT ![s] = @ \cup {i}]
    /\ UNCHANGED <<db, job, now, changes, ghosts>>

\* Valkey does not answer: no token.
IssueFails(i) ==
    /\ Failures
    /\ token[i].phase = "resolved"
    /\ token' = [token EXCEPT ![i] = NoToken]
    /\ since' = [since EXCEPT ![i] = Held]
    /\ UNCHANGED <<db, index, job, now, changes, due, given>>

-----------------------------------------------------------------------------
(* Commits.  Each takes the database to a new state and leaves a job with  *)
(* what _anotar noted of its writes: users, and units whose readers are    *)
(* still to be found.                                                      *)

\* What the request has read so far is still true.
Entitled(i) ==
    LET s == token[i].subject IN
    CASE token[i].phase = "unused" -> TRUE
      [] token[i].phase = "asked" ->
            role[s] = "owner" \/ (role[s] = "member" /\ ~token[i].wide)
      [] OTHER -> token[i].refs \subseteq Sees(s)

Noted(users, units, shares) ==
    [phase |-> "noted", users |-> users, units |-> units, shares |-> shares]
Revoking(users, shares) ==
    IF users = {} /\ shares = {} THEN NoJob
    ELSE [phase |-> "revoking", users |-> users, shares |-> shares]

\* The parts every commit has.  A link is ended where the code says so only.
Commits(shares) ==
    /\ changes < MaxChanges
    /\ changes' = changes + 1
    /\ UNCHANGED <<token, index, now, given>>
    /\ since' = [i \in Issues |-> IF Entitled(i)' THEN Held
                                  ELSE IF since[i] = Held THEN now ELSE since[i]]
    /\ due' = due \cup {i \in Issues :
          /\ token[i].phase = "written"
          /\ \/ token[i].subject \in shares
             \/ token[i].subject \in Users /\ Entitled(i) /\ ~Entitled(i)'}

Widens == Commits({}) /\ UNCHANGED job
Narrows(j, users, units, shares) ==
    /\ job[j] = NoJob
    /\ job' = [job EXCEPT ![j] = Noted(users, units, shares)]
    /\ Commits(shares)

Join(u, r) ==
    /\ role[u] = "out" /\ r # "out"
    /\ role' = [role EXCEPT ![u] = r]
    /\ UNCHANGED <<grants, live, fit>>
    /\ Widens

Promote(u) ==
    /\ role[u] = "member"
    /\ role' = [role EXCEPT ![u] = "owner"]
    /\ UNCHANGED <<grants, live, fit>>
    /\ Widens

Demote(j, u) ==
    /\ role[u] = "owner"
    /\ role' = [role EXCEPT ![u] = "member"]
    /\ UNCHANGED <<grants, live, fit>>
    /\ Narrows(j, {u}, {}, {})

\* Membership deleted or suspended, or the user deactivated: grants remain.
Remove(j, u) ==
    /\ role[u] # "out"
    /\ role' = [role EXCEPT ![u] = "out"]
    /\ UNCHANGED <<grants, live, fit>>
    /\ Narrows(j, {u}, {}, {})

AssignUserToUnit(u, v) ==
    /\ role[u] = "member" /\ v \in live /\ <<u, v>> \notin grants
    /\ grants' = grants \cup {<<u, v>>}
    /\ UNCHANGED <<role, live, fit>>
    /\ Widens

RemoveUserFromUnit(j, u, v) ==
    /\ <<u, v>> \in grants
    /\ grants' = grants \ {<<u, v>>}
    /\ UNCHANGED <<role, live, fit>>
    /\ Narrows(j, {u}, {}, {})

\* Mutant: the commit that closes a row of unit_devices notes nothing.
UnfitNoticesNobody(j, v, d, shares) ==
    /\ <<v, d>> \in fit
    /\ fit' = fit \ {<<v, d>>}
    /\ UNCHANGED <<role, grants, live>>
    /\ Narrows(j, {}, {}, shares)

\* A row of unit_devices is closed: by DELETE /unit-devices, which then ends
\* the links of the unit, or by a replacement or the staff, who do not.
Unfit(j, v, d, shares) ==
    /\ <<v, d>> \in fit
    /\ fit' = fit \ {<<v, d>>}
    /\ UNCHANGED <<role, grants, live>>
    /\ Narrows(j, {}, {v}, shares)

FitDevice(v, d) ==
    /\ \A w \in Units : <<w, d>> \notin fit
    /\ fit' = fit \cup {<<v, d>>}
    /\ UNCHANGED <<role, grants, live>>
    /\ Widens

\* delete_unit refuses a unit with a device.
DeleteUnit(j, v) ==
    /\ v \in live
    /\ \A d \in Devices : <<v, d>> \notin fit
    /\ live' = live \ {v}
    /\ UNCHANGED <<role, grants, fit>>
    /\ Narrows(j, {}, {v}, {})

-----------------------------------------------------------------------------
(* Revocations                                                             *)

\* Logout, a change or a reset of the password: every session of u ends.
Logout(j, u) ==
    /\ job[j] = NoJob
    /\ role[u] # "out"
    /\ job' = [job EXCEPT ![j] = Revoking({u}, {})]
    /\ due' = due \cup {i \in Issues : token[i].phase = "written" /\ token[i].subject = u}
    /\ changes < MaxChanges /\ changes' = changes + 1
    /\ UNCHANGED <<db, token, index, now, since, given>>

\* DELETE /units/{id}/share-location.
StopSharing(j, v) ==
    /\ job[j] = NoJob
    /\ v \in live
    /\ job' = [job EXCEPT ![j] = Revoking({}, {v})]
    /\ due' = due \cup {i \in Issues : token[i].phase = "written" /\ token[i].subject = v}
    /\ changes < MaxChanges /\ changes' = changes + 1
    /\ UNCHANGED <<db, token, index, now, since, given>>

\* _revocar_lo_anotado: who saw the units, asked after the commit.
FindReaders(j) ==
    /\ job[j].phase = "noted"
    /\ job' = [job EXCEPT ![j] =
          Revoking(job[j].users \cup UsersWhoSee(job[j].units), job[j].shares)]
    /\ UNCHANGED <<db, token, index, now, changes, ghosts>>

\* That query fails: nobody's sessions are revoked.
FindReadersFails(j) ==
    /\ Failures
    /\ job[j].phase = "noted" /\ job[j].units # {}
    /\ job' = [job EXCEPT ![j] = Revoking({}, job[j].shares)]
    /\ given' = given \cup job[j].users \cup UsersWhoSee(job[j].units)
    /\ UNCHANGED <<db, token, index, now, changes, due, since>>

\* revoke_all_for_subject in its three calls to Valkey.  The users come first,
\* in the order of a set; then the links of the unit.
ListScopes(j, s) ==
    /\ job[j].phase = "revoking"
    /\ s \in job[j].users \/ (job[j].users = {} /\ s \in job[j].shares)
    /\ job' = [job EXCEPT ![j] =
          [phase |-> "listed", subject |-> s, refs |-> index[s],
           users |-> job[j].users \ {s}, shares |-> job[j].shares \ {s}]]
    /\ UNCHANGED <<db, token, index, now, changes, ghosts>>

DropScopes(j) ==
    /\ job[j].phase = "listed"
    /\ token' = [i \in Issues |-> IF i \in job[j].refs /\ token[i].phase = "written"
                                  THEN [token[i] EXCEPT !.scope = FALSE] ELSE token[i]]
    /\ job' = [job EXCEPT ![j].phase = "dropped"]
    /\ UNCHANGED <<db, index, now, changes, ghosts>>

DropIndex(j) ==
    /\ job[j].phase = "dropped"
    /\ index' = [index EXCEPT ![job[j].subject] = {}]
    /\ job' = [job EXCEPT ![j] = Revoking(job[j].users, job[j].shares)]
    /\ UNCHANGED <<db, token, now, changes, ghosts>>

\* The subjects a job has still to begin with.
Awaits(j, s) ==
    /\ job[j] # NoJob
    /\ \/ s \in job[j].users \cup job[j].shares
       \/ job[j].phase = "noted" /\ s \in UsersWhoSee(job[j].units)
\* The one it has listed the scopes of and not deleted them.
Lists(j, s) == job[j].phase = "listed" /\ job[j].subject = s

\* An error of Valkey is not one best_effort_revoke catches: it leaves the
\* loop with the users and links that were still to come.  Nor does anything
\* remember them when the process dies.
GiveUp(j) ==
    /\ Failures
    /\ job[j] # NoJob
    /\ given' = given \cup {s \in Subjects : Awaits(j, s) \/ Lists(j, s)}
    /\ job' = [job EXCEPT ![j] = NoJob]
    /\ UNCHANGED <<db, token, index, now, changes, due, since>>

-----------------------------------------------------------------------------
Tick ==
    /\ now < MaxTime
    /\ \A i \in Issues : InFlight(i) => now - token[i].asked < MaxRequest
    /\ now' = now + 1
    /\ UNCHANGED <<db, token, index, job, changes, ghosts>>

Issue ==
    \E i \in Issues :
        \/ \E u \in Users : AskSession(i, u)
        \/ \E u \in Users, v \in Units, d \in Devices : AskShare(i, u, v, d)
        \/ Resolve(i) \/ WriteScope(i) \/ IssueFails(i)

Widen ==
    \/ \E u \in Users : Promote(u) \/ \E r \in Roles : Join(u, r)
    \/ \E u \in Users, v \in Units : AssignUserToUnit(u, v)
    \/ \E v \in Units, d \in Devices : FitDevice(v, d)

Narrow ==
    \E j \in Jobs :
        \/ \E u \in Users : Demote(j, u) \/ Remove(j, u) \/ Logout(j, u)
        \/ \E u \in Users, v \in Units : RemoveUserFromUnit(j, u, v)
        \/ \E v \in Units, d \in Devices : \E shares \in {{}, {v}} : Unfit(j, v, d, shares)
        \/ \E v \in Units : DeleteUnit(j, v) \/ StopSharing(j, v)

Revoke ==
    \E j \in Jobs :
        \/ FindReaders(j) \/ FindReadersFails(j)
        \/ \E s \in Subjects : ListScopes(j, s)
        \/ DropScopes(j) \/ DropIndex(j) \/ GiveUp(j)

Next == Issue \/ Widen \/ Narrow \/ Revoke \/ Tick

Spec == Init /\ [][Next]_vars

-----------------------------------------------------------------------------
\* What still ends a token: its subject is awaited by a job, or its scope is on
\* the list of one.
Covered(i) ==
    \E j \in Jobs : \/ Awaits(j, token[i].subject)
                    \/ Lists(j, token[i].subject) /\ i \in job[j].refs

\* A session that shows more than its user sees since a commit, a session that
\* was logged out, and a link that was stopped, are not accepted once the
\* revocation has run, unless it was given up.
RevocationReaches ==
    \A i \in due : Accepted(i) => Covered(i) \/ token[i].subject \in given

\* Whatever is lost, no token shows for longer than its life and the request
\* that issued it something its subject no longer sees.
StaleAccessEnds ==
    \A i \in Issues : Accepted(i) /\ ~(token[i].refs \subseteq Sees(token[i].subject)) =>
        now < since[i] + MaxRequest
                 + (IF token[i].subject \in Units THEN ShareTTL ELSE TTL)

=============================================================================
