----------------------------- MODULE Operations -----------------------------
(***************************************************************************)
(* Paid periods, teams, the catalogue of plans, and what a request goes    *)
(* through before it does anything.  They share no state with one another: *)
(* part says which of them a behaviour is about, and the others stay as    *)
(* they began.  The periods are the module this one extends.               *)
(***************************************************************************)
EXTENDS PaidPeriods

CONSTANTS
    Team, RuledTeam,      \* Teams, two sizes: members and invitations, rules and emergencies
    Plans, Products, Codes, Code, MaxValue, Staff,    \* Catalog
    Threads, Visitors,    \* Sessions, two sizes: shared keys, guarded doors
    None

VARIABLES
    part,
    team, role, invite, rule, alarm, joined, crashed, tx,                \* Teams
    plans, caps, bundle, products, sub, override, sent, mixed, writing,  \* Catalog
    now, issued, cache, lock, token, session, enabled, active, home, rights, req, changes  \* Sessions

\* The members of a team and its invitations.
People == INSTANCE Teams WITH
    Users <- Team.users, Colleagues <- Team.colleagues, Invites <- Team.invites,
    Alarms <- Team.alarms, MaxUses <- Team.uses, Modes <- Team.modes, Requests <- Team.requests

\* Its rule and its emergencies.
Rules == INSTANCE Teams WITH
    Users <- RuledTeam.users, Colleagues <- RuledTeam.colleagues, Invites <- RuledTeam.invites,
    Alarms <- RuledTeam.alarms, MaxUses <- RuledTeam.uses, Modes <- RuledTeam.modes,
    Requests <- RuledTeam.requests

\* Members of staff edit the plans.
Catalogue == INSTANCE Catalog WITH tx <- writing, Requests <- Staff

\* Threads that share the keys of Cognito.
Keys == INSTANCE Sessions WITH
    role <- rights, Users <- Threads.users, Orgs <- Threads.orgs, Requests <- Threads.requests,
    Kinds <- Threads.kinds, TTL <- Threads.ttl, MaxFetch <- Threads.fetch, Life <- Threads.life,
    MaxTime <- Threads.time, MaxKeys <- Threads.keys, MaxChanges <- Threads.changes

\* Requests of every kind, of people who come and go.
Doors == INSTANCE Sessions WITH
    role <- rights, Users <- Visitors.users, Orgs <- Visitors.orgs,
    Requests <- Visitors.requests, Kinds <- Visitors.kinds, TTL <- Visitors.ttl,
    MaxFetch <- Visitors.fetch, Life <- Visitors.life, MaxTime <- Visitors.time,
    MaxKeys <- Visitors.keys, MaxChanges <- Visitors.changes

ASSUME OperationsAssumption ==
    /\ PeriodsAssumption
    /\ People!TeamsAssumption /\ Rules!TeamsAssumption
    /\ Catalogue!CatalogAssumption
    /\ Keys!SessionsAssumption /\ Doors!SessionsAssumption

teamVars == <<team, role, invite, rule, alarm, joined, crashed, tx>>
catalogVars == <<plans, caps, bundle, products, sub, override, sent, mixed, writing>>
sessionVars ==
    <<now, issued, cache, lock, token, session, enabled, active, home, rights, req, changes>>
operationsVars == <<part, vars, teamVars, catalogVars, sessionVars>>

OperationsInit ==
    /\ part \in {"periods", "people", "rules", "catalog", "keys", "doors"}
    /\ Init /\ Catalogue!Init
    /\ IF part = "rules" THEN Rules!Init ELSE People!Init
    /\ IF part = "doors" THEN Doors!Init ELSE Keys!Init

OperationsNext ==
    /\ UNCHANGED part
    /\ \/ part = "periods" /\ Next /\ UNCHANGED <<teamVars, catalogVars, sessionVars>>
       \/ part = "people" /\ People!Next /\ UNCHANGED <<vars, catalogVars, sessionVars>>
       \/ part = "rules" /\ Rules!Next /\ UNCHANGED <<vars, catalogVars, sessionVars>>
       \/ part = "catalog" /\ Catalogue!Next /\ UNCHANGED <<vars, teamVars, sessionVars>>
       \/ part = "keys" /\ Keys!Next /\ UNCHANGED <<vars, teamVars, catalogVars>>
       \/ part = "doors" /\ Doors!Next /\ UNCHANGED <<vars, teamVars, catalogVars>>

OperationsSpec == OperationsInit /\ [][OperationsNext]_operationsVars

\* The properties are the components' own, each where its component moves.

\* Cards, cash, refunds and disputes: an active subscription lasts one cycle
\* for each payment that was not given back, and once Stripe has told all,
\* payment, invoice and period agree with the money.
PeriodsMatchMoney ==
    part = "periods" =>
        /\ TimeMatchesMoney
        /\ SettledAgrees

\* A team keeps an OWNER through promotions, removals and departures, and an
\* invitation lets in no more people than its max_uses.
MembersAreCounted ==
    part = "people" =>
        /\ People!OwnerRemains
        /\ People!JoinsWithinMax

\* A visibility rule by schedule has a schedule, whatever PATCHes it saw, and
\* nobody has two emergencies open in a team.
TeamRulesHold ==
    part = "rules" =>
        /\ Rules!ScheduledHasSchedule
        /\ Rules!OneAlarmPerPerson

\* The keys threads share are Cognito's, and asked for when they are needed;
\* whoever is let in is a member, and no member is kept out.
MembersGetIn ==
    /\ part = "keys" =>
        /\ Keys!KeysFollowCognito
        /\ Keys!FetchedWhenNeeded
    /\ part = "doors" =>
        /\ Doors!EntersWhereMember
        /\ Doors!MembersAreAdmitted

\* A deleted team and a closed emergency stay as they ended.
EndsAreFinal == [][part = "rules" => Rules!KeepsEnds]_operationsVars

\* Whoever pays has a plan that offers products that exist; a PATCH of a plan
\* replaces the capabilities it had; an organization is served what an
\* override or its plan grants, and no more.
CatalogIsSound ==
    part = "catalog" =>
        /\ Catalogue!ReferencesResolve
        /\ Catalogue!ReplacedWhole
        /\ Catalogue!ServedIsGranted

=============================================================================
