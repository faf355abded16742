------------------------------- MODULE Teams --------------------------------
(***************************************************************************)
(* One team of people: its members and their roles, its invitations, one   *)
(* visibility rule and the emergencies of its members.  Teams share        *)
(* nothing, so one is enough.                                              *)
(*                                                                         *)
(* As in Fleet, a request reads without locks and leaves in tx the columns *)
(* its session will write; Commit writes them.  What each request          *)
(* publishes on team-rules-updates is left out: nobody consumes the topic. *)
(***************************************************************************)
EXTENDS Naturals

CONSTANTS
    Users,       \* people
    Colleagues,  \* those whose organization is of the account of the team
    Invites,     \* ids of the invitations that may be created
    Alarms,      \* ids of the emergencies that may be started
    MaxUses,     \* bound of max_uses
    Modes,       \* access modes that rules are given
    Requests     \* requests that may be open at the same time

TeamsAssumption ==
    /\ Colleagues \subseteq Users
    /\ MaxUses \in Nat \ {0}
    /\ Modes \subseteq {"ALWAYS", "SCHEDULED", "EMERGENCY_ONLY"}

Roles == {"OWNER", "ADMIN", "MEMBER"}    \* MEMBER: every role below ADMIN
Managers == {"OWNER", "ADMIN"}
TeamStatus == {"ACTIVE", "SUSPENDED", "EXPIRED", "DELETED"}
\* expires_at against the clock.
Expiry == {"never", "ahead", "past"}

VARIABLES
    team,     \* status and expires_at, "absent" without a row
    role,     \* the role of each person, "none" without a row of members
    invite,   \* the invitations
    rule,     \* the visibility rule
    alarm,    \* the emergencies
    joined,   \* history: how many people each invitation has let in
    crashed,  \* the operation that has just been answered 500, or "none"
    tx        \* the columns each open request will write

vars == <<team, role, invite, rule, alarm, joined, crashed, tx>>

NoInvite == [role |-> "none", max |-> 0, used |-> 0, active |-> FALSE, past |-> FALSE]
NoRule == [mode |-> "none", schedule |-> FALSE, active |-> FALSE]
NoAlarm == [by |-> "nobody", status |-> "none"]
Idle == [open |-> FALSE]

Init ==
    /\ team = [status |-> "absent", expires |-> "never"]
    /\ role = [u \in Users |-> "none"]
    /\ invite = [i \in Invites |-> NoInvite]
    /\ rule = NoRule
    /\ alarm = [k \in Alarms |-> NoAlarm]
    /\ joined = [i \in Invites |-> 0]
    /\ crashed = "none"
    /\ tx = [r \in Requests |-> Idle]

\* Mutant: every member counts.
AnotherMember(u) == \E v \in Users \ {u} : role[v] # "none"

\* count_owners > 1, asked for an OWNER.
AnotherOwner(u) == \E v \in Users \ {u} : role[v] = "OWNER"

-----------------------------------------------------------------------------
(* The columns a session writes; the ORM leaves out those that keep their  *)
(* value.                                                                  *)
Nothing == [x \in {} |-> 0]
Changed(old, new) == [x \in {y \in DOMAIN new : new[y] # old[y]} |-> new[x]]
Only(x, value) == [y \in {x} |-> value]
Over(new, old) == [x \in DOMAIN old |-> IF x \in DOMAIN new THEN new[x] ELSE old[x]]

Quiet == [open |-> TRUE, team |-> Nothing, insert |-> Nothing, role |-> Nothing,
          delete |-> {}, invite |-> Nothing, via |-> {}, rule |-> Nothing,
          drop |-> FALSE, alarm |-> Nothing]
\* insert, role and delete are rows of members; via is the invitation that
\* lets the inserted one in; drop deletes the rule.

Prepares(r, writes) ==
    /\ ~tx[r].open
    /\ tx' = [tx EXCEPT ![r] = writes]
    /\ crashed' = "none"
    /\ UNCHANGED <<team, role, invite, rule, alarm, joined>>

\* The request ends with a TypeError.
Crashes(r, operation) ==
    /\ ~tx[r].open
    /\ crashed' = operation
    /\ UNCHANGED <<team, role, invite, rule, alarm, joined, tx>>

TeamWrites(columns) == [Quiet EXCEPT !.team = Changed(team, columns)]
RuleWrites(columns) == [Quiet EXCEPT !.rule = Changed(rule, columns)]
InviteWrites(i, columns) == [Quiet EXCEPT !.invite = Only(i, Changed(invite[i], columns))]

-----------------------------------------------------------------------------
(* The team (team_service.py, teams.py)                                    *)

Exists == team.status # "absent"
Manages(a) == Exists /\ role[a] \in Managers

\* With the rule that some types of team come with.
CreateTeam(r, a, expires, mode) ==
    /\ ~Exists
    /\ \A q \in Requests : ~tx[q].open
    /\ expires # "past"
    /\ mode # "SCHEDULED"
    /\ Prepares(r, [TeamWrites([status |-> "ACTIVE", expires |-> expires]) EXCEPT
          !.insert = Only(a, "OWNER"),
          !.rule = IF mode = "none" THEN Nothing
                   ELSE [mode |-> mode, schedule |-> FALSE, active |-> TRUE]])

\* PATCH takes any date; without one the column stays.
UpdateTeam(r, a, expires) ==
    /\ Manages(a)
    /\ team.status # "DELETED"
    /\ expires # "never"
    /\ Prepares(r, TeamWrites([expires |-> expires]))

SuspendTeam(r, a) ==
    /\ Manages(a)
    /\ team.status = "ACTIVE"
    /\ Prepares(r, TeamWrites([status |-> "SUSPENDED"]))

\* Mutant: the check of DELETED is missing.
ActivateTeamAny(r, a, expires) ==
    /\ Manages(a)
    /\ IF team.expires # "never" THEN Crashes(r, "activate")
       ELSE Prepares(r, TeamWrites([status |-> "ACTIVE",
                           expires |-> IF expires = "never" THEN team.expires ELSE expires]))

\* expires_at comes from a TIMESTAMPTZ column with its zone and utcnow() has
\* none: comparing them raises TypeError, whatever date the request brings.
ActivateTeam(r, a, expires) ==
    /\ Manages(a)
    /\ team.status # "DELETED"
    /\ IF team.expires # "never" THEN Crashes(r, "activate")
       ELSE Prepares(r, TeamWrites([status |-> "ACTIVE",
                           expires |-> IF expires = "never" THEN team.expires ELSE expires]))

\* The same comparison: a team that may expire crashes, one without a date is
\* refused, and so no team is ever EXPIRED.
ExpireTeam(r, a) ==
    /\ Manages(a)
    /\ team.status = "ACTIVE"
    /\ team.expires # "never"
    /\ Crashes(r, IF team.expires = "past" THEN "expire" ELSE "expire early")

DeleteTeam(r, a) ==
    /\ Exists
    /\ role[a] = "OWNER"
    /\ Prepares(r, TeamWrites([status |-> "DELETED"]))

DatePasses ==
    /\ team.expires = "ahead"
    /\ team' = [team EXCEPT !.expires = "past"]
    /\ crashed' = "none"
    /\ UNCHANGED <<role, invite, rule, alarm, joined, tx>>

-----------------------------------------------------------------------------
(* Members                                                                 *)

AddMember(r, a, u, new) ==
    /\ Manages(a)
    /\ team.status = "ACTIVE"
    /\ u \in Colleagues
    /\ role[u] = "none"
    /\ new = "OWNER" => role[a] = "OWNER"
    /\ Prepares(r, [Quiet EXCEPT !.insert = Only(u, new)])

\* Neither the status of the team nor who the actor is, but for his role.
UpdateMember(r, a, u, new) ==
    /\ Manages(a)
    /\ role[u] \notin {"none", new}
    /\ role[u] = "OWNER" => AnotherOwner(u)
    /\ role[a] = "ADMIN" => "OWNER" \notin {role[u], new}
    /\ Prepares(r, [Quiet EXCEPT !.role = Only(u, new)])

RemoveMember(r, a, u) ==
    /\ role[u] # "none"
    /\ u = a \/ Manages(a)
    /\ role[u] = "OWNER" => AnotherOwner(u)
    /\ u # a /\ role[a] = "ADMIN" => role[u] # "OWNER"
    /\ Prepares(r, [Quiet EXCEPT !.delete = {u}])

-----------------------------------------------------------------------------
(* Invitations (team_invite_service.py, team_invites.py)                   *)

CreateInvite(r, a, i, new, max) ==
    /\ Manages(a)
    /\ team.status = "ACTIVE"
    /\ invite[i] = NoInvite
    /\ \A q \in Requests : tx[q].open => i \notin DOMAIN tx[q].invite
    /\ new = "OWNER" => role[a] = "OWNER"
    /\ Prepares(r, InviteWrites(i, [role |-> new, max |-> max, active |-> TRUE]))

RevokeInvite(r, a, i) ==
    /\ Manages(a)
    /\ invite[i] # NoInvite
    /\ Prepares(r, InviteWrites(i, [active |-> FALSE]))

\* _find_valid_invite_by_token.
Valid(i) ==
    /\ invite[i].active
    /\ ~invite[i].past
    /\ invite[i].used < invite[i].max
    /\ team.status = "ACTIVE"

\* Mutant: the use is not counted.
AcceptUncounted(r, u, i) ==
    /\ Valid(i)
    /\ role[u] = "none"
    /\ Prepares(r, [Quiet EXCEPT !.insert = Only(u, invite[i].role), !.via = {i}])

\* used_count is what was read plus one, and nothing locks the row.
AcceptInvite(r, u, i) ==
    LET used == invite[i].used + 1 IN
    /\ Valid(i)
    /\ role[u] = "none"
    /\ Prepares(r, [InviteWrites(i, [used |-> used, active |-> used < invite[i].max])
                       EXCEPT !.insert = Only(u, invite[i].role), !.via = {i}])

InviteExpires(i) ==
    /\ invite[i] # NoInvite
    /\ ~invite[i].past
    /\ invite' = [invite EXCEPT ![i].past = TRUE]
    /\ crashed' = "none"
    /\ UNCHANGED <<team, role, rule, alarm, joined, tx>>

-----------------------------------------------------------------------------
(* The visibility rule                                                     *)

CreateRule(r, a, mode, schedule, active) ==
    /\ Manages(a)
    /\ team.status = "ACTIVE"
    /\ rule = NoRule
    /\ mode = "SCHEDULED" => schedule
    /\ Prepares(r, RuleWrites([mode |-> mode, schedule |-> schedule, active |-> active]))

\* Mutant: ALWAYS leaves the schedule, and SCHEDULED needs none.
UpdateRuleUnchecked(r, a, mode, schedule) ==
    /\ Manages(a)
    /\ rule # NoRule
    /\ Prepares(r, RuleWrites([mode |-> mode, schedule |-> schedule \/ rule.schedule]))

\* PATCH of the mode ("same": not given) and of the schedule (FALSE: not
\* given), which ALWAYS erases unless the request brings one.
UpdateRule(r, a, mode, schedule) ==
    LET new == [mode |-> IF mode = "same" THEN rule.mode ELSE mode,
                schedule |-> schedule \/ (rule.schedule /\ mode # "ALWAYS")]
    IN
    /\ Manages(a)
    /\ rule # NoRule
    /\ mode = "SCHEDULED" => schedule
    /\ new.mode = "SCHEDULED" => new.schedule
    /\ Prepares(r, RuleWrites(new))

SetRuleActive(r, a, active) ==
    /\ Manages(a)
    /\ rule # NoRule
    /\ Prepares(r, RuleWrites([active |-> active]))

DeleteRule(r, a) ==
    /\ Manages(a)
    /\ rule # NoRule
    /\ Prepares(r, [Quiet EXCEPT !.drop = TRUE])

-----------------------------------------------------------------------------
(* Emergencies (emergency_event_service.py)                                *)

\* Mutant: an emergency already open is not looked for.
StartAgain(r, u, k) ==
    /\ team.status = "ACTIVE"
    /\ role[u] # "none"
    /\ alarm[k] = NoAlarm
    /\ \A q \in Requests : tx[q].open => k \notin DOMAIN tx[q].alarm
    /\ Prepares(r, [Quiet EXCEPT !.alarm = Only(k, [by |-> u, status |-> "ACTIVE"])])

StartAlarm(r, u, k) ==
    /\ team.status = "ACTIVE"
    /\ role[u] # "none"
    /\ alarm[k] = NoAlarm
    /\ \A q \in Requests : tx[q].open => k \notin DOMAIN tx[q].alarm
    /\ \A x \in Alarms : alarm[x] # [by |-> u, status |-> "ACTIVE"]
    /\ Prepares(r, [Quiet EXCEPT !.alarm = Only(k, [by |-> u, status |-> "ACTIVE"])])

\* Whoever started it, if still a member, or a manager; the team may be over.
MayEnd(a, k) ==
    /\ role[a] # "none"
    /\ alarm[k].status = "ACTIVE"
    /\ alarm[k].by = a \/ role[a] \in Managers

ResolveAlarm(r, a, k) ==
    /\ MayEnd(a, k)
    /\ Prepares(r, [Quiet EXCEPT !.alarm = Only(k, [status |-> "RESOLVED"])])

CancelAlarm(r, a, k) ==
    /\ MayEnd(a, k)
    /\ Prepares(r, [Quiet EXCEPT !.alarm = Only(k, [status |-> "CANCELLED"])])

-----------------------------------------------------------------------------
\* uq_team_member, and the UPDATE of a row that is gone (StaleDataError).
Conflicts(w) ==
    \/ \E u \in DOMAIN w.insert : role[u] # "none"
    \/ \E u \in DOMAIN w.role \cup w.delete : role[u] = "none"
    \/ rule = NoRule /\ (w.drop \/ (w.rule # Nothing /\ "mode" \notin DOMAIN w.rule))

Commit(r) ==
    LET w == tx[r] IN
    /\ w.open
    /\ ~Conflicts(w)
    /\ team' = Over(w.team, team)
    /\ role' = Over([u \in w.delete |-> "none"], Over(w.insert, Over(w.role, role)))
    /\ invite' = [i \in Invites |->
          IF i \in DOMAIN w.invite THEN Over(w.invite[i], invite[i]) ELSE invite[i]]
    /\ rule' = IF w.drop THEN NoRule ELSE Over(w.rule, rule)
    /\ alarm' = [k \in Alarms |->
          IF k \in DOMAIN w.alarm THEN Over(w.alarm[k], alarm[k]) ELSE alarm[k]]
    /\ joined' = [i \in Invites |-> IF i \in w.via THEN joined[i] + 1 ELSE joined[i]]
    /\ tx' = [tx EXCEPT ![r] = Idle]
    /\ crashed' = "none"

Abort(r) ==
    /\ tx[r].open
    /\ tx' = [tx EXCEPT ![r] = Idle]
    /\ crashed' = "none"
    /\ UNCHANGED <<team, role, invite, rule, alarm, joined>>

OfTeam(r, a) ==
    \/ \E e \in Expiry, mode \in Modes \cup {"none"} : CreateTeam(r, a, e, mode)
    \/ \E e \in Expiry : UpdateTeam(r, a, e) \/ ActivateTeam(r, a, e)
    \/ SuspendTeam(r, a) \/ ExpireTeam(r, a) \/ DeleteTeam(r, a)

OfMembers(r, a) ==
    \E u \in Users :
        \/ RemoveMember(r, a, u)
        \/ \E new \in Roles : AddMember(r, a, u, new) \/ UpdateMember(r, a, u, new)

OfInvites(r, a) ==
    \E i \in Invites :
        \/ \E new \in Roles, max \in 1..MaxUses : CreateInvite(r, a, i, new, max)
        \/ RevokeInvite(r, a, i) \/ AcceptInvite(r, a, i)

OfRule(r, a) ==
    \/ \E mode \in Modes, schedule, active \in BOOLEAN :
          CreateRule(r, a, mode, schedule, active)
    \/ \E mode \in Modes \cup {"same"}, schedule \in BOOLEAN :
          UpdateRule(r, a, mode, schedule)
    \/ \E active \in BOOLEAN : SetRuleActive(r, a, active)
    \/ DeleteRule(r, a)

OfAlarms(r, a) ==
    \E k \in Alarms : StartAlarm(r, a, k) \/ ResolveAlarm(r, a, k) \/ CancelAlarm(r, a, k)

Next ==
    \/ \E r \in Requests :
          \/ Commit(r) \/ Abort(r)
          \/ \E a \in Users : \/ OfTeam(r, a) \/ OfMembers(r, a)
                              \/ OfInvites(r, a) \/ OfRule(r, a) \/ OfAlarms(r, a)
    \/ DatePasses
    \/ \E i \in Invites : InviteExpires(i)

Spec == Init /\ [][Next]_vars

-----------------------------------------------------------------------------
TypeOK ==
    /\ team \in [status : TeamStatus \cup {"absent"}, expires : Expiry]
    /\ role \in [Users -> Roles \cup {"none"}]
    /\ DOMAIN invite = Invites /\ DOMAIN alarm = Alarms
    /\ joined \in [Invites -> Nat]
    /\ crashed \in {"none", "activate", "expire", "expire early"}

\* A team keeps an OWNER, whatever sequence of promotions, removals and
\* departures it sees: the owners counted are those of the same team.
OwnerRemains == Exists => \E u \in Users : role[u] = "OWNER"

\* An invitation lets in no more people than its max_uses, whoever leaves and
\* comes back in between.
JoinsWithinMax == \A i \in Invites : joined[i] <= invite[i].max

\* A rule that shows people by schedule has one, whatever PATCHes came before.
ScheduledHasSchedule == rule.mode = "SCHEDULED" => rule.schedule

\* Nobody has two emergencies open.
OneAlarmPerPerson ==
    \A j, k \in Alarms :
        alarm[j].status = "ACTIVE" /\ alarm[k].status = "ACTIVE"
            /\ alarm[j].by = alarm[k].by => j = k

\* A deleted team stays deleted, and what ended an emergency stands.
KeepsEnds ==
    /\ team.status = "DELETED" => team'.status = "DELETED"
    /\ \A k \in Alarms :
          alarm[k].status \in {"RESOLVED", "CANCELLED"} => alarm'[k] = alarm[k]

EndsAreFinal == [][KeepsEnds]_vars

\* A manager may mark as EXPIRED a team whose date has passed.
DueTeamsExpire == crashed # "expire"

=============================================================================
