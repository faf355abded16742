------------------------------ MODULE Accounts ------------------------------
(***************************************************************************)
(* The people of one account: the rows of users and organization_users,    *)
(* the invitations, and the credential each person has with the identity   *)
(* provider (external to the database: a call to it is not part of any     *)
(* transaction).                                                           *)
(*                                                                         *)
(* As in Fleet, a request reads without locks and decides, leaving in tx   *)
(* what its session will write; Commit writes it; a call to the provider   *)
(* that follows the commit is a third step, which may fail or be lost with *)
(* the process.  billing is left out: it may do less than admin.           *)
(***************************************************************************)
EXTENDS Naturals, FiniteSets

CONSTANTS
    Users,      \* people, one per email
    Orgs,       \* organizations the account may have
    Requests,   \* requests that may be open at the same time
    StaffSets,  \* values of users.status the staff of the platform may set
    MayFail,    \* calls to the provider after a commit that may be lost
    None        \* no default organization: there is no row yet

ASSUME AccountsAssumption ==
    /\ None \notin Orgs
    /\ StaffSets \subseteq {"ACTIVE", "INACTIVE"}
    /\ MayFail \subseteq {"enabled", "disabled"}

Roles == {"owner", "admin", "member"}
Pairs == Users \X Orgs
NoSeat == [role |-> "none", active |-> FALSE]

VARIABLES
    orgs,        \* the organizations that exist
    seat,        \* organization_users: role and status of each membership
    status,      \* users.status, "absent" without a row
    home,        \* users.default_organization_id
    credential,  \* what the provider says of users.external_id
    invite,      \* the unused invitations of each email and organization
    tx,          \* the writes of each open request
    unopened     \* history: whose credential the staff's PATCH failed to open,
                 \* and who has been ACTIVE without it since

vars == <<orgs, seat, status, home, credential, invite, tx, unopened>>

Init ==
    /\ orgs = {}
    /\ seat = [p \in Pairs |-> NoSeat]
    /\ status = [u \in Users |-> "absent"]
    /\ home = [u \in Users |-> None]
    /\ credential = [u \in Users |-> "none"]
    /\ invite = [p \in Pairs |-> {}]
    /\ tx = [r \in Requests |-> [phase |-> "idle"]]
    /\ unopened = {}

\* get_user_role: a paused membership gives no role.
Role(u, o) == IF seat[<<u, o>>].active THEN seat[<<u, o>>].role ELSE "none"
Exists(p) == seat[p].role # "none"
ActiveSeats(u) == {o \in Orgs : seat[<<u, o>>].active}

\* Mutant: paused owners count.
CountOwnersPaused(o) == Cardinality({u \in Users : seat[<<u, o>>].role = "owner"})

CountOwners(o) == Cardinality({u \in Users : Role(u, o) = "owner"})

\* organization_users.manage is checked in the default organization of the
\* actor; the rules of the endpoint use the role in the organization of the
\* path, or else the same default one.
MayAct(a) == status[a] = "ACTIVE" /\ home[a] \in Orgs
ActorRole(a, o) ==
    IF Role(a, o) # "none" THEN Role(a, o) ELSE Role(a, home[a])
Manages(a) == MayAct(a) /\ Role(a, home[a]) \in {"owner", "admin"}
CanTouch(a, o, role) ==
    \/ ActorRole(a, o) = "owner"
    \/ ActorRole(a, o) = "admin" /\ role # "owner"
MayManage(o, touched) ==
    \E a \in Users : Manages(a) /\ \A role \in touched : CanTouch(a, o, role)

LastOwner(p) == seat[p].role = "owner" /\ CountOwners(p[2]) <= 1

-----------------------------------------------------------------------------
(* The writes of a session; the ORM leaves out columns that do not change. *)
Nothing == <<>>
Value(x, v) == [y \in {x} |-> v]

Quiet == [phase |-> "open", org |-> {}, person |-> {}, insert |-> Nothing, role |-> Nothing,
          active |-> Nothing, delete |-> {}, status |-> Nothing,
          home |-> Nothing, invite |-> Nothing, call |-> Nothing]
\* org and person are the organizations and users inserted, and insert the
\* memberships; call is what the provider is told after the commit.

Prepares(r, writes) ==
    /\ tx[r].phase = "idle"
    /\ tx' = [tx EXCEPT ![r] = writes]
    /\ UNCHANGED <<orgs, seat, status, home, invite>>

Decides(r, writes) == Prepares(r, writes) /\ UNCHANGED <<credential, unopened>>

\* Mutant: the column is left as it is.
RepairedNever(u, active) == {Nothing}

\* reparar_organizacion_por_defecto, for the memberships the session sees: the
\* oldest active one, any of them for what is modelled here.
Repaired(u, active) ==
    IF active = {} \/ home[u] \in active THEN {Nothing}
                                         ELSE {Value(u, o) : o \in active}

-----------------------------------------------------------------------------
(* The account and its organizations (auth.py, organizations.py)           *)

\* The credential is made before the commit, with a handle of its own.
Register(r, u, o) ==
    /\ orgs = {}
    /\ \A q \in Requests : tx[q].phase = "idle"
    /\ status[u] = "absent"
    /\ Decides(r, [Quiet EXCEPT !.org = {o}, !.person = {u},
                                !.insert = Value(<<u, o>>, "owner"),
                                !.status = Value(u, "ACTIVE"),
                                !.home = Value(u, o)])

CreateOrganization(r, a, o) ==
    /\ MayAct(a)
    /\ Role(a, home[a]) = "owner"
    /\ o \notin orgs
    /\ \A q \in Requests : tx[q].phase = "open" => o \notin tx[q].org
    /\ \E h \in Repaired(a, ActiveSeats(a) \cup {o}) :
          Decides(r, [Quiet EXCEPT !.org = {o}, !.home = h,
                                   !.insert = Value(<<a, o>>, "owner")])

-----------------------------------------------------------------------------
(* Memberships (organization_users.py)                                     *)

\* users.status of the person added is left as it is.
AddUser(r, u, o, role) ==
    /\ o \in orgs
    /\ status[u] # "absent"
    /\ MayManage(o, {role})
    /\ ~Exists(<<u, o>>)
    /\ \E h \in Repaired(u, ActiveSeats(u) \cup {o}) :
          Decides(r, [Quiet EXCEPT !.insert = Value(<<u, o>>, role), !.home = h])

UpdateRole(r, p, role) ==
    /\ Exists(p)
    /\ MayManage(p[2], {seat[p].role, role})
    /\ LastOwner(p) => role = "owner"
    /\ Decides(r, [Quiet EXCEPT
                      !.role = IF role = seat[p].role THEN Nothing
                                                      ELSE Value(p, role)])

UpdateStatus(r, p, active) ==
    LET u == p[1]
        seen == (ActiveSeats(u) \ {p[2]}) \cup (IF active THEN {p[2]} ELSE {})
    IN
    /\ Exists(p)
    /\ MayManage(p[2], {seat[p].role})
    /\ LastOwner(p) => active
    /\ \E h \in Repaired(u, seen) :
          Decides(r, [Quiet EXCEPT
                         !.active = IF active = seat[p].active THEN Nothing
                                                               ELSE Value(p, active),
                         !.home = h])

\* Whoever is left without an active membership is turned off, and the
\* credential is closed after the commit.
RemoveUser(r, p) ==
    LET u == p[1]
        seen == ActiveSeats(u) \ {p[2]}
    IN
    /\ Exists(p)
    /\ MayManage(p[2], {seat[p].role})
    /\ ~LastOwner(p)
    /\ \E h \in Repaired(u, seen) :
          Decides(r, [Quiet EXCEPT
              !.delete = {p}, !.home = h,
              !.status = IF seen = {} THEN Value(u, "INACTIVE") ELSE Nothing,
              !.call = IF seen = {} THEN Value(u, "disabled") ELSE Nothing])

\* PATCH /internal/users/{id}/status: the provider is told even when the row
\* does not change.
SetUserStatus(r, u, s) ==
    /\ status[u] # "absent"
    /\ s \in StaffSets
    /\ Decides(r, [Quiet EXCEPT
          !.status = IF status[u] = s THEN Nothing ELSE Value(u, s),
          !.call = Value(u, IF s = "ACTIVE" THEN "enabled" ELSE "disabled")])

-----------------------------------------------------------------------------
(* Invitations (users.py)                                                  *)

\* An owner acting in o, which may be any organization of his.
MayInvite(o) == \E a \in Users : status[a] = "ACTIVE" /\ Role(a, o) = "owner"

InviteUser(r, u, o) ==
    /\ MayInvite(o)
    /\ status[u] # "ACTIVE"
    /\ \A x \in Orgs : "live" \notin invite[<<u, x>>]
    /\ Decides(r, [Quiet EXCEPT
                      !.invite = Value(<<u, o>>, invite[<<u, o>>] \cup {"live"})])

ResendInvitation(r, u, o) ==
    /\ MayInvite(o)
    /\ status[u] # "ACTIVE"
    /\ invite[<<u, o>>] # {}
    /\ Decides(r, [Quiet EXCEPT !.invite = Value(<<u, o>>, {"live"})])

Accepts(u, o) ==
    LET p == <<u, o>> IN
    [Quiet EXCEPT
        !.person = IF status[u] = "absent" THEN {u} ELSE {},
        !.insert = IF Exists(p) THEN Nothing ELSE Value(p, "member"),
        !.active = IF Exists(p) /\ ~seat[p].active THEN Value(p, TRUE) ELSE Nothing,
        !.status = Value(u, "ACTIVE"), !.home = Value(u, o),
        !.invite = Value(p, invite[p] \ {"live"})]

\* Mutant: the credential that the removal closed stays closed.
AcceptWithoutEnabling(r, u, o) ==
    /\ "live" \in invite[<<u, o>>]
    /\ status[u] # "ACTIVE"
    /\ Decides(r, Accepts(u, o))

\* The provider first, the database last: whoever comes back has the
\* credential opened before the transaction that makes the row ACTIVE.
AcceptInvitation(r, u, o) ==
    /\ "live" \in invite[<<u, o>>]
    /\ status[u] # "ACTIVE"
    /\ Prepares(r, Accepts(u, o))
    /\ IF status[u] = "absent" THEN UNCHANGED <<credential, unopened>>
       ELSE /\ credential' = [credential EXCEPT ![u] = "enabled"]
            /\ unopened' = unopened \ {u}

Expire(p) ==
    /\ "live" \in invite[p]
    /\ invite' = [invite EXCEPT ![p] = {"expired"}]
    /\ UNCHANGED <<orgs, seat, status, home, credential, tx, unopened>>

-----------------------------------------------------------------------------
Merged(old, new) == [x \in DOMAIN old |-> IF x \in DOMAIN new THEN new[x] ELSE old[x]]

\* uq_org_user, the unique email, and StaleDataError: an UPDATE of a row that
\* another request deleted.
Conflicts(w) ==
    \/ \E p \in DOMAIN w.insert : Exists(p)
    \/ \E p \in DOMAIN w.role \cup DOMAIN w.active : ~Exists(p)
    \/ \E u \in w.person : status[u] # "absent"

Commit(r) ==
    LET w == tx[r]
        row(p) == CASE p \in DOMAIN w.insert -> [role |-> w.insert[p], active |-> TRUE]
                    [] p \in w.delete -> NoSeat
                    [] OTHER -> [role |-> IF p \in DOMAIN w.role THEN w.role[p]
                                                                 ELSE seat[p].role,
                                 active |-> IF p \in DOMAIN w.active THEN w.active[p]
                                                                     ELSE seat[p].active]
    IN
    /\ w.phase = "open"
    /\ ~Conflicts(w)
    /\ orgs' = orgs \cup w.org
    /\ seat' = [p \in Pairs |-> row(p)]
    /\ status' = Merged(status, w.status)
    /\ home' = Merged(home, w.home)
    /\ invite' = Merged(invite, w.invite)
    /\ credential' = [u \in Users |->
          IF u \in w.person THEN "enabled" ELSE credential[u]]
    /\ tx' = [tx EXCEPT ![r] = IF w.call = Nothing THEN [phase |-> "idle"]
                               ELSE [phase |-> "call", call |-> w.call]]
    /\ unopened' = {u \in unopened : u \notin DOMAIN w.status \/ w.status[u] = "ACTIVE"}

Abort(r) ==
    /\ tx[r].phase = "open"
    /\ tx' = [tx EXCEPT ![r] = [phase |-> "idle"]]
    /\ UNCHANGED <<orgs, seat, status, home, credential, invite, unopened>>

CallProvider(r) ==
    /\ tx[r].phase = "call"
    /\ credential' = Merged(credential, tx[r].call)
    /\ unopened' = unopened \ DOMAIN tx[r].call
    /\ tx' = [tx EXCEPT ![r] = [phase |-> "idle"]]
    /\ UNCHANGED <<orgs, seat, status, home, invite>>

\* The provider does not answer, has no such credential, or the process ends:
\* the error is logged (or answered, to the staff) and nothing tries again.
CallLost(r) ==
    /\ tx[r].phase = "call"
    /\ \A u \in DOMAIN tx[r].call : tx[r].call[u] \in MayFail
    /\ unopened' = unopened \cup {u \in DOMAIN tx[r].call :
                      tx[r].call[u] = "enabled" /\ credential[u] # "enabled"}
    /\ tx' = [tx EXCEPT ![r] = [phase |-> "idle"]]
    /\ UNCHANGED <<orgs, seat, status, home, credential, invite>>

Read(r) ==
    \/ \E u \in Users, o \in Orgs :
          \/ Register(r, u, o) \/ CreateOrganization(r, u, o)
          \/ InviteUser(r, u, o) \/ ResendInvitation(r, u, o)
          \/ AcceptInvitation(r, u, o)
    \/ \E u \in Users, o \in Orgs, role \in Roles : AddUser(r, u, o, role)
    \/ \E p \in Pairs, role \in Roles : UpdateRole(r, p, role)
    \/ \E p \in Pairs, active \in BOOLEAN : UpdateStatus(r, p, active)
    \/ \E p \in Pairs : RemoveUser(r, p)
    \/ \E u \in Users, s \in {"ACTIVE", "INACTIVE"} : SetUserStatus(r, u, s)

Next ==
    \/ \E r \in Requests :
          \/ Read(r) \/ Commit(r) \/ Abort(r) \/ CallProvider(r) \/ CallLost(r)
    \/ \E p \in Pairs : Expire(p)

Spec == Init /\ [][Next]_vars

-----------------------------------------------------------------------------
TypeOK ==
    /\ orgs \subseteq Orgs
    /\ seat \in [Pairs -> [role : Roles, active : BOOLEAN] \cup {NoSeat}]
    /\ status \in [Users -> {"absent", "ACTIVE", "INACTIVE"}]
    /\ home \in [Users -> Orgs \cup {None}]
    /\ credential \in [Users -> {"none", "enabled", "disabled"}]
    /\ invite \in [Pairs -> SUBSET {"live", "expired"}]
    /\ \A r \in Requests : tx[r].phase \in {"idle", "open", "call"}
    /\ unopened \subseteq Users

\* Every organization keeps an owner whose membership is active, whatever
\* sequence of demotions, pauses, removals and readmissions it sees.
OwnerRemains == \A o \in orgs : \E u \in Users : Role(u, o) = "owner"

\* Whoever has an active membership finds one by default: without it every
\* request that does not name an organization is answered 403.
DefaultIsActive == \A u \in Users : ActiveSeats(u) # {} => home[u] \in ActiveSeats(u)

\* Once no request is under way, a person the database takes for ACTIVE has a
\* credential that opens, whichever calls to the provider were lost, unless the
\* call lost is that of the staff's own PATCH to ACTIVE.  That PATCH commits
\* the row first and answers the difference (proveedor_sincronizado: false),
\* which the code calls a real one (internal/users.py:224-227); the person
\* stays out until another PATCH, or an invitation accepted after the account
\* is turned off again, opens the credential.
ActiveCanLogIn ==
    (\A r \in Requests : tx[r].phase = "idle") =>
        \A u \in Users : status[u] = "ACTIVE" =>
            credential[u] = "enabled" \/ u \in unopened

\* Every organization keeps an owner who may act: get_current_user refuses a
\* user that is not ACTIVE, whatever his membership says.
SomeOwnerMayAct ==
    \A o \in orgs : \E u \in Users : status[u] = "ACTIVE" /\ Role(u, o) = "owner"

=============================================================================
