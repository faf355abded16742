---------------------------- MODULE Accounts_proofs ----------------------------
(***************************************************************************)
(* OwnerRemains and DefaultIsActive for any people, organizations and      *)
(* behaviour of the identity provider, when requests do not overlap.  As   *)
(* in Fleet_proofs, nothing in the database enforces them: the invariant   *)
(* is about what an open request is going to write.  Then ActiveCanLogIn,  *)
(* which is about two stores: the invariant says what the provider will be *)
(* told, before the commit and between the commit and the call.            *)
(***************************************************************************)
EXTENDS Accounts, FiniteSetTheorems, TLAPS

Seats == [role : Roles \cup {"none"}, active : BOOLEAN]

\* The tables once w is written.
RowAfter(w, p) ==
    CASE p \in DOMAIN w.insert -> [role |-> w.insert[p], active |-> TRUE]
      [] p \in w.delete -> NoSeat
      [] OTHER -> [role |-> IF p \in DOMAIN w.role THEN w.role[p] ELSE seat[p].role,
                   active |-> IF p \in DOMAIN w.active THEN w.active[p] ELSE seat[p].active]
OwnsAfter(w, u, o) == RowAfter(w, <<u, o>>).active /\ RowAfter(w, <<u, o>>).role = "owner"
ActiveAfter(w, u) == {o \in Orgs : RowAfter(w, <<u, o>>).active}
HomeAfter(w, u) == IF u \in DOMAIN w.home THEN w.home[u] ELSE home[u]

KeepsTypes(w) == w.org \subseteq Orgs /\ \A p \in Pairs : RowAfter(w, p) \in Seats
KeepsOwners(w) == \A o \in orgs \cup w.org : \E u \in Users : OwnsAfter(w, u, o)
KeepsDefaults(w) ==
    \A u \in Users : ActiveAfter(w, u) # {} => HomeAfter(w, u) \in ActiveAfter(w, u)
Keeps(w) == KeepsTypes(w) /\ KeepsOwners(w) /\ KeepsDefaults(w)

Tables ==
    /\ orgs \subseteq Orgs
    /\ seat \in [Pairs -> Seats]
    /\ DOMAIN home = Users
    /\ DOMAIN tx = Requests

AccountsInv ==
    /\ Tables
    /\ OwnerRemains
    /\ DefaultIsActive
    /\ \A r \in Requests : tx[r].phase = "open" => Keeps(tx[r])

-----------------------------------------------------------------------------
LEMMA NothingAt == \A x : x \notin DOMAIN Nothing
  BY DEF Nothing

LEMMA SeatTyped ==
    ASSUME NEW x \in Roles \cup {"none"}, NEW b \in BOOLEAN
    PROVE  [role |-> x, active |-> b] \in Seats
  BY DEF Seats

LEMMA SeatIsRecord ==
    ASSUME AccountsInv, NEW p \in Pairs
    PROVE  seat[p] = [role |-> seat[p].role, active |-> seat[p].active]
  BY DEF AccountsInv, Tables, Seats

\* What the repair writes.
LEMMA RepairedForms ==
    ASSUME NEW u, NEW active, NEW h \in Repaired(u, active)
    PROVE  \/ h = Nothing /\ (active = {} \/ home[u] \in active)
           \/ \E o \in active : h = Value(u, o)
  BY DEF Repaired

\* More than one owner: one besides u.
LEMMA AnotherOwner ==
    ASSUME NEW u \in Users, NEW o \in Orgs, ~(CountOwners(o) <= 1)
    PROVE  \E v \in Users : v # u /\ Role(v, o) = "owner"
  <1> DEFINE S == {v \in Users : Role(v, o) = "owner"}
  <1>1. SUFFICES ASSUME S \subseteq {u} PROVE FALSE
    OBVIOUS
  <1>2. S = {} \/ S = {u}
    BY <1>1
  <1>3. CASE S = {}
    <2>1. Cardinality(S) = 0
      BY <1>3, FS_EmptySet
    <2>2. QED  BY <2>1 DEF CountOwners
  <1>4. CASE S = {u}
    <2>1. Cardinality({u}) = 1
      BY FS_Singleton
    <2>2. Cardinality(S) = 1
      BY <1>4, <2>1
    <2>3. QED  BY <2>2 DEF CountOwners
  <1>5. QED  BY <1>2, <1>3, <1>4

\* A write that touches no membership and no default.
LEMMA KeepsAll ==
    ASSUME AccountsInv, NEW w, w.org = {}, w.insert = Nothing, w.delete = {},
           w.role = Nothing, w.active = Nothing, w.home = Nothing
    PROVE  Keeps(w)
  <1>1. \A p \in Pairs : RowAfter(w, p) = seat[p]
    <2> SUFFICES ASSUME NEW p \in Pairs PROVE RowAfter(w, p) = seat[p]
      OBVIOUS
    <2>1. p \notin DOMAIN w.insert /\ p \notin w.delete
          /\ p \notin DOMAIN w.role /\ p \notin DOMAIN w.active
      BY NothingAt
    <2>2. RowAfter(w, p) = [role |-> seat[p].role, active |-> seat[p].active]
      BY <2>1 DEF RowAfter
    <2>3. QED  BY <2>2, SeatIsRecord
  <1>2. \A u \in Users : HomeAfter(w, u) = home[u]
    BY NothingAt DEF HomeAfter
  <1>3. KeepsTypes(w)
    BY <1>1 DEF KeepsTypes, AccountsInv, Tables
  <1>4. KeepsOwners(w)
    BY <1>1 DEF KeepsOwners, OwnsAfter, AccountsInv, Tables, OwnerRemains, Role, Pairs
  <1>5. \A u \in Users : ActiveAfter(w, u) = ActiveSeats(u)
    BY <1>1 DEF ActiveAfter, ActiveSeats, Pairs
  <1>6. KeepsDefaults(w)
    BY <1>2, <1>5 DEF KeepsDefaults, AccountsInv, DefaultIsActive
  <1>7. QED  BY <1>3, <1>4, <1>6 DEF Keeps

\* A write that touches one membership keeps an owner in every organization.
LEMMA KeepsOwnersOne ==
    ASSUME AccountsInv, NEW w, NEW u \in Users, NEW o \in Orgs, w.org \subseteq {o},
           \A p \in Pairs : p # <<u, o>> => RowAfter(w, p) = seat[p],
           \/ OwnsAfter(w, u, o)
           \/ w.org = {} /\ Role(u, o) # "owner"
           \/ w.org = {} /\ ~(CountOwners(o) <= 1)
    PROVE  KeepsOwners(w)
  <1> SUFFICES ASSUME NEW x \in orgs \cup w.org PROVE \E v \in Users : OwnsAfter(w, v, x)
    BY DEF KeepsOwners
  <1>1. x \in Orgs
    BY DEF AccountsInv, Tables
  <1>2. ASSUME NEW v \in Users, Role(v, x) = "owner", <<v, x>> # <<u, o>>
        PROVE  OwnsAfter(w, v, x)
    BY <1>1, <1>2 DEF OwnsAfter, Role, Pairs
  <1>3. CASE OwnsAfter(w, u, o) /\ x = o
    BY <1>3
  <1>4. CASE x # o
    <2>1. PICK v \in Users : Role(v, x) = "owner"
      BY <1>4 DEF AccountsInv, OwnerRemains
    <2>2. QED  BY <1>2, <1>4, <2>1
  <1>5. CASE w.org = {} /\ Role(u, o) # "owner" /\ x = o
    <2>1. PICK v \in Users : Role(v, x) = "owner"
      BY <1>5 DEF AccountsInv, OwnerRemains
    <2>2. QED  BY <1>2, <1>5, <2>1
  <1>6. CASE w.org = {} /\ ~(CountOwners(o) <= 1) /\ x = o
    <2>1. PICK v \in Users : v # u /\ Role(v, o) = "owner"
      BY <1>6, AnotherOwner
    <2>2. QED  BY <1>2, <1>6, <2>1
  <1>7. QED  BY <1>3, <1>4, <1>5, <1>6

\* reparar_organizacion_por_defecto, told what will be active, keeps the default
\* of u active; the others' memberships and defaults are not touched.
LEMMA KeepsDefaultsOne ==
    ASSUME AccountsInv, NEW w, NEW u \in Users, NEW o \in Orgs,
           \A p \in Pairs : p # <<u, o>> => RowAfter(w, p) = seat[p],
           \/ w.home \in Repaired(u, ActiveAfter(w, u))
           \/ w.home = Value(u, o) /\ o \in ActiveAfter(w, u)
           \/ w.home = Nothing /\ ActiveAfter(w, u) = ActiveSeats(u)
    PROVE  KeepsDefaults(w)
  <1> SUFFICES ASSUME NEW v \in Users, ActiveAfter(w, v) # {}
               PROVE  HomeAfter(w, v) \in ActiveAfter(w, v)
    BY DEF KeepsDefaults
  <1>1. CASE v # u
    <2>1. ActiveAfter(w, v) = ActiveSeats(v)
      BY <1>1 DEF ActiveAfter, ActiveSeats, Pairs
    <2>2. w.home = Nothing \/ \E x : w.home = Value(u, x)
      BY RepairedForms
    <2>3. v \notin DOMAIN w.home
      BY <1>1, <2>2, NothingAt DEF Value
    <2>4. QED  BY <2>1, <2>3 DEF HomeAfter, AccountsInv, DefaultIsActive
  <1>2. CASE v = u /\ w.home \in Repaired(u, ActiveAfter(w, u))
    <2>1. CASE w.home = Nothing /\ home[u] \in ActiveAfter(w, u)
      BY <1>2, <2>1, NothingAt DEF HomeAfter
    <2>2. ASSUME NEW x \in ActiveAfter(w, u), w.home = Value(u, x)
          PROVE  HomeAfter(w, v) \in ActiveAfter(w, v)
      BY <1>2, <2>2 DEF HomeAfter, Value
    <2>3. QED  BY <1>2, <2>1, <2>2, RepairedForms
  <1>3. CASE v = u /\ w.home = Value(u, o) /\ o \in ActiveAfter(w, u)
    BY <1>3 DEF HomeAfter, Value
  <1>4. CASE v = u /\ w.home = Nothing /\ ActiveAfter(w, u) = ActiveSeats(u)
    BY <1>4, NothingAt DEF HomeAfter, AccountsInv, DefaultIsActive
  <1>5. QED  BY <1>1, <1>2, <1>3, <1>4

-----------------------------------------------------------------------------
(* What an action leaves in tx.                                            *)

\* A request that touches one membership at most, as every one does.
Only(w, p) ==
    /\ DOMAIN w.insert \subseteq {p} /\ w.delete \subseteq {p}
    /\ DOMAIN w.role \subseteq {p} /\ DOMAIN w.active \subseteq {p}

LEMMA OthersStay ==
    ASSUME AccountsInv, NEW w, NEW p, Only(w, p), NEW q \in Pairs, q # p
    PROVE  RowAfter(w, q) = seat[q]
  <1>1. q \notin DOMAIN w.insert /\ q \notin w.delete
        /\ q \notin DOMAIN w.role /\ q \notin DOMAIN w.active
    BY DEF Only
  <1>2. RowAfter(w, q) = [role |-> seat[q].role, active |-> seat[q].active]
    BY <1>1 DEF RowAfter
  <1>3. QED  BY <1>2, SeatIsRecord

LEMMA OneSeat ==
    ASSUME AccountsInv, NEW w, NEW u \in Users, NEW o \in Orgs, Only(w, <<u, o>>),
           w.org \subseteq {o}, RowAfter(w, <<u, o>>) \in Seats,
           \/ OwnsAfter(w, u, o)
           \/ w.org = {} /\ Role(u, o) # "owner"
           \/ w.org = {} /\ ~(CountOwners(o) <= 1),
           \/ w.home \in Repaired(u, ActiveAfter(w, u))
           \/ w.home = Value(u, o) /\ o \in ActiveAfter(w, u)
           \/ w.home = Nothing /\ ActiveAfter(w, u) = ActiveSeats(u)
    PROVE  Keeps(w)
  <1>1. \A p \in Pairs : p # <<u, o>> => RowAfter(w, p) = seat[p]
    BY OthersStay
  <1>2. KeepsTypes(w)
    <2>1. \A p \in Pairs : RowAfter(w, p) \in Seats
      BY <1>1 DEF AccountsInv, Tables
    <2>2. QED  BY <2>1 DEF KeepsTypes
  <1>3. KeepsOwners(w)
    BY <1>1, KeepsOwnersOne
  <1>4. KeepsDefaults(w)
    BY <1>1, KeepsDefaultsOne
  <1>5. QED  BY <1>2, <1>3, <1>4 DEF Keeps

\* What is active after the write of one membership.
LEMMA ActiveAfterOne ==
    ASSUME AccountsInv, NEW w, NEW u \in Users, NEW o \in Orgs, Only(w, <<u, o>>)
    PROVE  /\ RowAfter(w, <<u, o>>).active => ActiveAfter(w, u) = ActiveSeats(u) \cup {o}
           /\ ~RowAfter(w, <<u, o>>).active => ActiveAfter(w, u) = ActiveSeats(u) \ {o}
  <1>1. \A x \in Orgs : x # o => RowAfter(w, <<u, x>>) = seat[<<u, x>>]
    BY OthersStay DEF Pairs
  <1>2. QED  BY <1>1 DEF ActiveAfter, ActiveSeats

LEMMA InsertKeeps ==
    ASSUME AccountsInv, NEW w, NEW u \in Users, NEW o \in Orgs, NEW role \in Roles,
           w.insert = Value(<<u, o>>, role), w.delete = {},
           w.role = Nothing, w.active = Nothing,
           \/ w.org = {o} /\ role = "owner"
           \/ w.org = {} /\ ~Exists(<<u, o>>),
           w.home = Value(u, o) \/ w.home \in Repaired(u, ActiveSeats(u) \cup {o})
    PROVE  Keeps(w)
  <1>1. Only(w, <<u, o>>)
    BY NothingAt DEF Only, Value
  <1>2. RowAfter(w, <<u, o>>) = [role |-> role, active |-> TRUE]
    BY DEF RowAfter, Value
  <1>3. ActiveAfter(w, u) = ActiveSeats(u) \cup {o}
    BY <1>1, <1>2, ActiveAfterOne
  <1>4. OwnsAfter(w, u, o) \/ (w.org = {} /\ Role(u, o) # "owner")
    BY <1>2 DEF OwnsAfter, Exists, Role
  <1>5. RowAfter(w, <<u, o>>) \in Seats
    BY <1>2, SeatTyped
  <1>6. QED  BY <1>1, <1>3, <1>4, <1>5, OneSeat

\* update_user_role writes the role of a membership.
LEMMA RoleKeeps ==
    ASSUME AccountsInv, NEW w, NEW u \in Users, NEW o \in Orgs, NEW role \in Roles,
           w.org = {}, w.insert = Nothing, w.delete = {}, w.active = Nothing,
           w.role = Value(<<u, o>>, role), w.home = Nothing,
           LastOwner(<<u, o>>) => role = "owner"
    PROVE  Keeps(w)
  <1> DEFINE p == <<u, o>>
  <1>1. Only(w, p)
    BY NothingAt DEF Only, Value
  <1>2. p \in Pairs
    BY DEF Pairs
  <1>3. RowAfter(w, p) = [role |-> role, active |-> seat[p].active]
    <2>1. p \notin DOMAIN w.insert /\ p \notin w.delete /\ p \notin DOMAIN w.active
      BY NothingAt
    <2>2. p \in DOMAIN w.role /\ w.role[p] = role
      BY DEF Value
    <2>3. QED  BY <2>1, <2>2 DEF RowAfter
  <1>4. seat[p].active \in BOOLEAN
    BY <1>2 DEF AccountsInv, Tables, Seats
  <1>5. RowAfter(w, p) \in Seats
    BY <1>3, <1>4, SeatTyped
  <1>6. ActiveAfter(w, u) = ActiveSeats(u)
    <2>1. seat[p].active <=> o \in ActiveSeats(u)
      BY DEF ActiveSeats
    <2>2. QED  BY <1>1, <1>3, <1>4, <2>1, ActiveAfterOne
  <1>7. \/ OwnsAfter(w, u, o)
        \/ Role(u, o) # "owner"
        \/ ~(CountOwners(o) <= 1)
    BY <1>3, <1>4 DEF OwnsAfter, Role, LastOwner
  <1>8. QED  BY <1>1, <1>5, <1>6, <1>7, OneSeat

\* update_membership_status writes the status of a membership.
LEMMA ActiveKeeps ==
    ASSUME AccountsInv, NEW w, NEW u \in Users, NEW o \in Orgs, NEW active \in BOOLEAN,
           w.org = {}, w.insert = Nothing, w.delete = {}, w.role = Nothing,
           \/ w.active = Value(<<u, o>>, active)
           \/ w.active = Nothing /\ seat[<<u, o>>].active = active,
           LastOwner(<<u, o>>) => active,
           \/ w.home \in Repaired(u, (ActiveSeats(u) \ {o})
                                        \cup (IF active THEN {o} ELSE {}))
           \/ active /\ w.home = Value(u, o)
    PROVE  Keeps(w)
  <1> DEFINE p == <<u, o>>
  <1>1. Only(w, p)
    BY NothingAt DEF Only, Value
  <1>2. p \in Pairs
    BY DEF Pairs
  <1>3. RowAfter(w, p) = [role |-> seat[p].role, active |-> active]
    <2>1. p \notin DOMAIN w.insert /\ p \notin w.delete /\ p \notin DOMAIN w.role
      BY NothingAt
    <2>2. CASE w.active = Value(p, active)
      <3>1. p \in DOMAIN w.active /\ w.active[p] = active
        BY <2>2 DEF Value
      <3>2. QED  BY <2>1, <3>1 DEF RowAfter
    <2>3. CASE w.active = Nothing /\ seat[p].active = active
      <3>1. p \notin DOMAIN w.active
        BY <2>3, NothingAt
      <3>2. QED  BY <2>1, <2>3, <3>1 DEF RowAfter
    <2>4. QED  BY <2>2, <2>3
  <1>4. RowAfter(w, p) \in Seats
    <2>1. seat[p].role \in Roles \cup {"none"}
      BY <1>2 DEF AccountsInv, Tables, Seats
    <2>2. QED  BY <1>3, <2>1, SeatTyped
  <1>5. ActiveAfter(w, u) = (ActiveSeats(u) \ {o}) \cup (IF active THEN {o} ELSE {})
    BY <1>1, <1>3, ActiveAfterOne
  <1>6. \/ OwnsAfter(w, u, o)
        \/ Role(u, o) # "owner"
        \/ ~(CountOwners(o) <= 1)
    BY <1>3 DEF OwnsAfter, Role, LastOwner
  <1>7. QED  BY <1>1, <1>4, <1>5, <1>6, OneSeat

\* remove_user deletes a membership.
LEMMA RemoveKeeps ==
    ASSUME AccountsInv, NEW w, NEW u \in Users, NEW o \in Orgs,
           w.org = {}, w.insert = Nothing, w.delete = {<<u, o>>},
           w.role = Nothing, w.active = Nothing, ~LastOwner(<<u, o>>),
           w.home \in Repaired(u, ActiveSeats(u) \ {o})
    PROVE  Keeps(w)
  <1> DEFINE p == <<u, o>>
  <1>1. Only(w, p)
    BY NothingAt DEF Only
  <1>2. RowAfter(w, p) = NoSeat
    <2>1. p \notin DOMAIN w.insert
      BY NothingAt
    <2>2. QED  BY <2>1 DEF RowAfter
  <1>3. RowAfter(w, p) \in Seats
    BY <1>2, SeatTyped DEF NoSeat
  <1>4. ActiveAfter(w, u) = ActiveSeats(u) \ {o}
    BY <1>1, <1>2, ActiveAfterOne DEF NoSeat
  <1>5. Role(u, o) # "owner" \/ ~(CountOwners(o) <= 1)
    BY DEF Role, LastOwner
  <1>6. QED  BY <1>1, <1>3, <1>4, <1>5, OneSeat

\* Every action leaves in tx a write that is right for the rows it read.
LEMMA ReadKeeps ==
    ASSUME AccountsInv, NEW r \in Requests, Read(r)
    PROVE  \E w : Prepares(r, w) /\ Keeps(w)
  <1>1. ASSUME NEW u \in Users, NEW o \in Orgs, Register(r, u, o)
        PROVE  \E w : Prepares(r, w) /\ Keeps(w)
    <2> DEFINE w == [Quiet EXCEPT !.org = {o}, !.person = {u},
                                  !.insert = Value(<<u, o>>, "owner"),
                                  !.status = Value(u, "ACTIVE"),
                                  !.home = Value(u, o)]
    <2>1. w.org = {o} /\ w.insert = Value(<<u, o>>, "owner") /\ w.delete = {}
          /\ w.role = Nothing /\ w.active = Nothing /\ w.home = Value(u, o)
      BY DEF Quiet
    <2>2. Prepares(r, w)
      BY <1>1 DEF Register, Decides
    <2> HIDE DEF w
    <2>3. Keeps(w)
      BY <2>1, InsertKeeps DEF Roles
    <2>4. QED  BY <2>2, <2>3
  <1>2. ASSUME NEW u \in Users, NEW o \in Orgs, CreateOrganization(r, u, o)
        PROVE  \E w : Prepares(r, w) /\ Keeps(w)
    <2>1. PICK h \in Repaired(u, ActiveSeats(u) \cup {o}) :
              Prepares(r, [Quiet EXCEPT !.org = {o}, !.home = h,
                                        !.insert = Value(<<u, o>>, "owner")])
      BY <1>2 DEF CreateOrganization, Decides
    <2> DEFINE w == [Quiet EXCEPT !.org = {o}, !.home = h,
                                  !.insert = Value(<<u, o>>, "owner")]
    <2>2. w.org = {o} /\ w.insert = Value(<<u, o>>, "owner") /\ w.delete = {}
          /\ w.role = Nothing /\ w.active = Nothing /\ w.home = h
      BY DEF Quiet
    <2>3. Prepares(r, w)
      BY <2>1
    <2> HIDE DEF w
    <2>4. Keeps(w)
      BY <2>2, InsertKeeps DEF Roles
    <2>5. QED  BY <2>3, <2>4
  <1>3. ASSUME NEW u \in Users, NEW o \in Orgs, InviteUser(r, u, o)
        PROVE  \E w : Prepares(r, w) /\ Keeps(w)
    <2> DEFINE w == [Quiet EXCEPT
                        !.invite = Value(<<u, o>>, invite[<<u, o>>] \cup {"live"})]
    <2>1. w.org = {} /\ w.insert = Nothing /\ w.delete = {}
          /\ w.role = Nothing /\ w.active = Nothing /\ w.home = Nothing
      BY DEF Quiet
    <2>2. Prepares(r, w)
      BY <1>3 DEF InviteUser, Decides
    <2> HIDE DEF w
    <2>3. QED  BY <2>1, <2>2, KeepsAll
  <1>4. ASSUME NEW u \in Users, NEW o \in Orgs, ResendInvitation(r, u, o)
        PROVE  \E w : Prepares(r, w) /\ Keeps(w)
    <2> DEFINE w == [Quiet EXCEPT !.invite = Value(<<u, o>>, {"live"})]
    <2>1. w.org = {} /\ w.insert = Nothing /\ w.delete = {}
          /\ w.role = Nothing /\ w.active = Nothing /\ w.home = Nothing
      BY DEF Quiet
    <2>2. Prepares(r, w)
      BY <1>4 DEF ResendInvitation, Decides
    <2> HIDE DEF w
    <2>3. QED  BY <2>1, <2>2, KeepsAll
  <1>5. ASSUME NEW u \in Users, NEW o \in Orgs, AcceptInvitation(r, u, o)
        PROVE  \E w : Prepares(r, w) /\ Keeps(w)
    <2> DEFINE w == Accepts(u, o)
               p == <<u, o>>
    <2>1. Prepares(r, w)
      BY <1>5 DEF AcceptInvitation
    <2>2. w.org = {} /\ w.delete = {} /\ w.role = Nothing /\ w.home = Value(u, o)
          /\ w.insert = (IF Exists(p) THEN Nothing ELSE Value(p, "member"))
          /\ w.active = (IF Exists(p) /\ ~seat[p].active THEN Value(p, TRUE) ELSE Nothing)
      BY DEF Accepts, Quiet
    <2> HIDE DEF w
    <2>3. CASE ~Exists(p)
      <3>1. w.insert = Value(p, "member") /\ w.active = Nothing
        BY <2>2, <2>3
      <3>2. Keeps(w)
        BY <2>2, <2>3, <3>1, InsertKeeps DEF Roles
      <3>3. QED  BY <2>1, <3>2
    <2>4. CASE Exists(p)
      <3>1. seat[p].active \in BOOLEAN
        BY DEF AccountsInv, Tables, Seats, Pairs
      <3>2. w.insert = Nothing
            /\ (w.active = Value(p, TRUE) \/ (w.active = Nothing /\ seat[p].active = TRUE))
        BY <2>2, <2>4, <3>1
      <3>3. Keeps(w)
        BY <2>2, <3>2, ActiveKeeps
      <3>4. QED  BY <2>1, <3>3
    <2>5. QED  BY <2>3, <2>4
  <1>6. ASSUME NEW u \in Users, NEW o \in Orgs, NEW role \in Roles, AddUser(r, u, o, role)
        PROVE  \E w : Prepares(r, w) /\ Keeps(w)
    <2>1. PICK h \in Repaired(u, ActiveSeats(u) \cup {o}) :
              Prepares(r, [Quiet EXCEPT !.insert = Value(<<u, o>>, role), !.home = h])
      BY <1>6 DEF AddUser, Decides
    <2> DEFINE w == [Quiet EXCEPT !.insert = Value(<<u, o>>, role), !.home = h]
    <2>2. w.org = {} /\ w.insert = Value(<<u, o>>, role) /\ w.delete = {}
          /\ w.role = Nothing /\ w.active = Nothing /\ w.home = h
      BY DEF Quiet
    <2>3. Prepares(r, w) /\ ~Exists(<<u, o>>)
      BY <1>6, <2>1 DEF AddUser
    <2> HIDE DEF w
    <2>4. Keeps(w)
      BY <2>2, <2>3, InsertKeeps
    <2>5. QED  BY <2>3, <2>4
  <1>7. ASSUME NEW p \in Pairs, NEW role \in Roles, UpdateRole(r, p, role)
        PROVE  \E w : Prepares(r, w) /\ Keeps(w)
    <2>1. PICK u \in Users, o \in Orgs : p = <<u, o>>
      BY DEF Pairs
    <2> DEFINE w == [Quiet EXCEPT !.role = IF role = seat[p].role THEN Nothing
                                                                  ELSE Value(p, role)]
    <2>2. w.org = {} /\ w.insert = Nothing /\ w.delete = {}
          /\ w.active = Nothing /\ w.home = Nothing
          /\ (w.role = Nothing \/ w.role = Value(p, role))
      BY DEF Quiet
    <2>3. Prepares(r, w) /\ (LastOwner(p) => role = "owner")
      BY <1>7 DEF UpdateRole, Decides
    <2> HIDE DEF w
    <2>4. CASE w.role = Nothing
      BY <2>2, <2>3, <2>4, KeepsAll
    <2>5. CASE w.role = Value(p, role)
      BY <2>1, <2>2, <2>3, <2>5, RoleKeeps
    <2>6. QED  BY <2>2, <2>4, <2>5
  <1>8. ASSUME NEW p \in Pairs, NEW active \in BOOLEAN, UpdateStatus(r, p, active)
        PROVE  \E w : Prepares(r, w) /\ Keeps(w)
    <2>1. PICK u \in Users, o \in Orgs : p = <<u, o>>
      BY DEF Pairs
    <2> DEFINE seen == (ActiveSeats(u) \ {o}) \cup (IF active THEN {o} ELSE {})
               write == IF active = seat[p].active THEN Nothing ELSE Value(p, active)
    <2>2. PICK h \in Repaired(u, seen) :
              Prepares(r, [Quiet EXCEPT !.active = write, !.home = h])
      BY <1>8, <2>1 DEF UpdateStatus, Decides
    <2> DEFINE w == [Quiet EXCEPT !.active = write, !.home = h]
    <2>3. w.org = {} /\ w.insert = Nothing /\ w.delete = {}
          /\ w.role = Nothing /\ w.home = h /\ w.active = write
      BY DEF Quiet
    <2>4. Prepares(r, w) /\ (LastOwner(p) => active)
      BY <1>8, <2>2 DEF UpdateStatus
    <2> HIDE DEF w
    <2>5. Keeps(w)
      BY <2>1, <2>3, <2>4, ActiveKeeps
    <2>6. QED  BY <2>4, <2>5
  <1>9. ASSUME NEW p \in Pairs, RemoveUser(r, p)
        PROVE  \E w : Prepares(r, w) /\ Keeps(w)
    <2>1. PICK u \in Users, o \in Orgs : p = <<u, o>>
      BY DEF Pairs
    <2> DEFINE seen == ActiveSeats(u) \ {o}
               written(h) == [Quiet EXCEPT
                  !.delete = {p}, !.home = h,
                  !.status = IF seen = {} THEN Value(u, "INACTIVE") ELSE Nothing,
                  !.call = IF seen = {} THEN Value(u, "disabled") ELSE Nothing]
    <2>2. PICK h \in Repaired(u, seen) : Prepares(r, written(h))
      BY <1>9, <2>1 DEF RemoveUser, Decides
    <2> DEFINE w == written(h)
    <2>3. w.org = {} /\ w.insert = Nothing /\ w.delete = {p}
          /\ w.role = Nothing /\ w.active = Nothing /\ w.home = h
      BY DEF Quiet
    <2>4. Prepares(r, w) /\ ~LastOwner(p)
      BY <1>9, <2>2 DEF RemoveUser
    <2> HIDE DEF w
    <2>5. Keeps(w)
      BY <2>1, <2>3, <2>4, RemoveKeeps
    <2>6. QED  BY <2>4, <2>5
  <1>10. ASSUME NEW u \in Users, NEW s, SetUserStatus(r, u, s)
         PROVE  \E w : Prepares(r, w) /\ Keeps(w)
    <2> DEFINE w == [Quiet EXCEPT
                !.status = IF status[u] = s THEN Nothing ELSE Value(u, s),
                !.call = Value(u, IF s = "ACTIVE" THEN "enabled" ELSE "disabled")]
    <2>1. w.org = {} /\ w.insert = Nothing /\ w.delete = {}
          /\ w.role = Nothing /\ w.active = Nothing /\ w.home = Nothing
      BY DEF Quiet
    <2>2. Prepares(r, w)
      BY <1>10 DEF SetUserStatus, Decides
    <2> HIDE DEF w
    <2>3. QED  BY <2>1, <2>2, KeepsAll
  <1>11. QED
    BY <1>1, <1>2, <1>3, <1>4, <1>5, <1>6, <1>7, <1>8, <1>9, <1>10 DEF Read

-----------------------------------------------------------------------------
LEMMA AccountsInit == Init => AccountsInv
  <1> SUFFICES ASSUME Init PROVE AccountsInv
    OBVIOUS
  <1>1. Tables
    BY DEF Init, Tables, Seats, NoSeat
  <1>2. DefaultIsActive
    BY DEF Init, DefaultIsActive, ActiveSeats, NoSeat, Pairs
  <1>3. QED  BY <1>1, <1>2 DEF Init, AccountsInv, OwnerRemains

\* A commit whose write is right for the rows as they are now.
LEMMA CommitKeeps ==
    ASSUME AccountsInv, NEW r \in Requests, Commit(r)
    PROVE  Tables' /\ OwnerRemains' /\ DefaultIsActive'
  <1> DEFINE w == tx[r]
  <1>1. Keeps(w)
    BY DEF Commit, AccountsInv
  <1>2. seat' = [p \in Pairs |-> RowAfter(w, p)]
    BY DEF Commit, RowAfter
  <1>3. orgs' = orgs \cup w.org
    BY DEF Commit
  <1>4. DOMAIN home' = Users /\ \A u \in Users : home'[u] = HomeAfter(w, u)
    BY DEF Commit, Merged, HomeAfter, AccountsInv, Tables
  <1>5. DOMAIN tx' = Requests
    BY DEF Commit, AccountsInv, Tables
  <1> HIDE DEF w
  <1>6. Tables'
    BY <1>1, <1>2, <1>3, <1>4, <1>5 DEF Keeps, KeepsTypes, AccountsInv, Tables
  <1>7. \A u \in Users, o \in Orgs : seat'[<<u, o>>] = RowAfter(w, <<u, o>>)
    BY <1>2 DEF Pairs
  <1>8. OwnerRemains'
    <2> SUFFICES ASSUME NEW o \in orgs \cup w.org
                 PROVE  \E u \in Users : Role(u, o)' = "owner"
      BY <1>3 DEF OwnerRemains
    <2>1. PICK u \in Users : OwnsAfter(w, u, o)
      BY <1>1 DEF Keeps, KeepsOwners
    <2>2. o \in Orgs
      BY <1>1 DEF Keeps, KeepsTypes, AccountsInv, Tables
    <2>3. QED  BY <1>7, <2>1, <2>2 DEF OwnsAfter, Role
  <1>9. DefaultIsActive'
    <2> SUFFICES ASSUME NEW u \in Users, ActiveSeats(u)' # {}
                 PROVE  home'[u] \in ActiveSeats(u)'
      BY DEF DefaultIsActive
    <2>1. ActiveSeats(u)' = ActiveAfter(w, u)
      BY <1>7 DEF ActiveSeats, ActiveAfter
    <2>2. QED  BY <1>1, <1>4, <2>1 DEF Keeps, KeepsDefaults
  <1>10. QED  BY <1>6, <1>8, <1>9

LEMMA AccountsStep ==
    ASSUME \A r, s \in Requests : r = s, AccountsInv, [Next]_vars
    PROVE  AccountsInv'
  <1>1. ASSUME UNCHANGED <<orgs, seat, home>>, DOMAIN tx' = Requests,
               \A r \in Requests : tx'[r].phase = "open" => Keeps(tx'[r])
        PROVE  AccountsInv'
    <2>1. Tables' /\ OwnerRemains' /\ DefaultIsActive'
      BY <1>1 DEF AccountsInv, Tables, OwnerRemains, Role, DefaultIsActive, ActiveSeats
    <2>2. ASSUME NEW r \in Requests, (tx[r].phase = "open")' PROVE Keeps(tx[r])'
      <3>1. Keeps(tx'[r])
        BY <1>1, <2>2
      <3>2. \A p : RowAfter(tx'[r], p) = RowAfter(tx[r], p)'
        BY <1>1 DEF RowAfter
      <3>3. KeepsTypes(tx[r])'
        BY <1>1, <3>1, <3>2 DEF Keeps, KeepsTypes
      <3>4. KeepsOwners(tx[r])'
        BY <1>1, <3>1, <3>2 DEF Keeps, KeepsOwners, OwnsAfter
      <3>5. \A u : ActiveAfter(tx'[r], u) = ActiveAfter(tx[r], u)'
        BY <3>2 DEF ActiveAfter
      <3>6. \A u : HomeAfter(tx'[r], u) = HomeAfter(tx[r], u)'
        BY <1>1 DEF HomeAfter
      <3>7. KeepsDefaults(tx[r])'
        BY <3>1, <3>5, <3>6 DEF Keeps, KeepsDefaults
      <3>8. QED  BY <3>3, <3>4, <3>7 DEF Keeps
    <2>3. QED  BY <2>1, <2>2 DEF AccountsInv
  <1>2. ASSUME NEW r \in Requests, Read(r) PROVE AccountsInv'
    <2>1. PICK w : Prepares(r, w) /\ Keeps(w)
      BY <1>2, ReadKeeps
    <2>2. DOMAIN tx' = Requests /\ tx'[r] = w /\ UNCHANGED <<orgs, seat, home>>
      BY <2>1 DEF Prepares, AccountsInv, Tables
    <2>3. \A q \in Requests : Keeps(tx'[q])
      BY <2>1, <2>2
    <2>4. QED  BY <1>1, <2>2, <2>3
  <1>3. ASSUME NEW r \in Requests, Commit(r) PROVE AccountsInv'
    <2>1. DOMAIN tx' = Requests /\ tx'[r].phase # "open"
      BY <1>3 DEF Commit, AccountsInv, Tables
    <2>2. QED  BY <1>3, <2>1, CommitKeeps DEF AccountsInv
  <1>4. ASSUME NEW r \in Requests, Abort(r) \/ CallProvider(r) \/ CallLost(r)
        PROVE  AccountsInv'
    <2>1. /\ DOMAIN tx' = Requests /\ tx'[r].phase # "open"
          /\ UNCHANGED <<orgs, seat, home>>
      BY <1>4 DEF Abort, CallProvider, CallLost, AccountsInv, Tables
    <2>2. QED  BY <1>1, <2>1
  <1>5. ASSUME NEW p \in Pairs, Expire(p) PROVE AccountsInv'
    BY <1>1, <1>5 DEF Expire, AccountsInv, Tables
  <1>6. CASE UNCHANGED vars
    BY <1>1, <1>6 DEF vars, AccountsInv, Tables
  <1>7. QED  BY <1>2, <1>3, <1>4, <1>5, <1>6 DEF Next

-----------------------------------------------------------------------------
\* If requests do not overlap, every organization keeps an active owner.
THEOREM OwnerRemainsAlone ==
    ASSUME \A r, s \in Requests : r = s
    PROVE  Spec => []OwnerRemains
  <1>1. AccountsInv => OwnerRemains
    BY DEF AccountsInv
  <1>2. QED  BY <1>1, AccountsInit, AccountsStep, PTL DEF Spec

\* If requests do not overlap, whoever has an active membership has one by
\* default, whatever reparar_organizacion_por_defecto picks.
THEOREM DefaultIsActiveAlone ==
    ASSUME \A r, s \in Requests : r = s
    PROVE  Spec => []DefaultIsActive
  <1>1. AccountsInv => DefaultIsActive
    BY DEF AccountsInv
  <1>2. QED  BY <1>1, AccountsInit, AccountsStep, PTL DEF Spec
-----------------------------------------------------------------------------
(* The database and the provider: what the rows say once a request has     *)
(* committed, and what the provider says once it has been called.          *)

\* now is what the provider says of each person.
CredentialAfter(w, now, u) == IF u \in w.person THEN "enabled" ELSE now[u]
StatusAfter(w, u) == IF u \in DOMAIN w.status THEN w.status[u] ELSE status[u]

\* Whoever is ACTIVE has a credential that opens, or is in the call to come.
Promised(call, u, state, says) ==
    state = "ACTIVE" => IF u \in DOMAIN call THEN call[u] = "enabled"
                                             ELSE says = "enabled"

\* What the provider says, or would if the staff's PATCH had reached it.
Says == [u \in Users |-> IF u \in unopened THEN "enabled" ELSE credential[u]]

Opens(now) == \A u \in Users : Promised(Nothing, u, status[u], now[u])
OpensAfter(w, now) ==
    \A u \in Users : Promised(w.call, u, StatusAfter(w, u), CredentialAfter(w, now, u))
OpensOnceCalled(call) == \A u \in Users : Promised(call, u, status[u], Says[u])

LoginInv ==
    /\ DOMAIN status = Users /\ DOMAIN credential = Users /\ DOMAIN tx = Requests
    /\ (\A r \in Requests : tx[r].phase # "call") => Opens(Says)
    /\ \A r \in Requests : tx[r].phase = "open" => OpensAfter(tx[r], Says)
    /\ \A r \in Requests : tx[r].phase = "call" => OpensOnceCalled(tx[r].call)

LEMMA SaysAt == \A u \in Users : Says[u] = IF u \in unopened THEN "enabled" ELSE credential[u]
  BY DEF Says

LEMMA OneValue ==
    ASSUME NEW x, NEW v
    PROVE  /\ DOMAIN Value(x, v) = {x}
           /\ Value(x, v)[x] = v
  BY Zenon DEF Value

\* A write that turns nobody on and tells the provider nothing.
LEMMA QuietOpens ==
    ASSUME NEW now, Opens(now), NEW w, w.person = {}, w.status = Nothing, w.call = Nothing
    PROVE  OpensAfter(w, now)
  <1>1. \A u : StatusAfter(w, u) = status[u] /\ CredentialAfter(w, now, u) = now[u]
    BY NothingAt DEF StatusAfter, CredentialAfter
  <1>2. QED  BY <1>1 DEF Opens, OpensAfter

\* A write about one person, told to the provider if it is not ACTIVE.
LEMMA OneOpens ==
    ASSUME NEW now, Opens(now), NEW w, NEW u \in Users, NEW s, NEW c, w.person = {},
           w.status = Value(u, s) \/ (w.status = Nothing /\ status[u] = s),
           w.call = Value(u, c), s = "ACTIVE" => c = "enabled"
    PROVE  OpensAfter(w, now)
  <1> SUFFICES ASSUME NEW v \in Users
               PROVE  Promised(w.call, v, StatusAfter(w, v), CredentialAfter(w, now, v))
    BY DEF OpensAfter
  <1>1. CASE v = u
    <2>1. StatusAfter(w, u) = s
      BY NothingAt, OneValue DEF Value, StatusAfter
    <2>2. u \in DOMAIN w.call /\ w.call[u] = c
      <3>1. DOMAIN Value(u, c) = {u} /\ Value(u, c)[u] = c
        BY OneValue
      <3>2. QED  BY <3>1
    <2>3. QED  BY <1>1, <2>1, <2>2 DEF Promised
  <1>2. CASE v # u
    <2>1. StatusAfter(w, v) = status[v] /\ CredentialAfter(w, now, v) = now[v]
      BY <1>2, NothingAt, OneValue DEF Value, StatusAfter, CredentialAfter
    <2>2. v \notin DOMAIN w.call
      BY <1>2 DEF Value
    <2>3. QED  BY <2>1, <2>2, NothingAt DEF Promised, Opens
  <1>3. QED  BY <1>1, <1>2

\* A write that makes a person ACTIVE whose credential is, or will be, open.
LEMMA ComesBackOpens ==
    ASSUME NEW now, Opens(now), NEW w, NEW u \in Users, w.status = Value(u, "ACTIVE"),
           w.call = Nothing, w.person \subseteq {u},
           u \in w.person \/ now[u] = "enabled"
    PROVE  OpensAfter(w, now)
  <1> SUFFICES ASSUME NEW v \in Users
               PROVE  Promised(w.call, v, StatusAfter(w, v), CredentialAfter(w, now, v))
    BY DEF OpensAfter
  <1>1. v \notin DOMAIN w.call
    BY NothingAt
  <1>2. CASE v = u
    <2>1. CredentialAfter(w, now, u) = "enabled"
      BY DEF CredentialAfter
    <2>2. QED  BY <1>1, <1>2, <2>1 DEF Promised
  <1>3. CASE v # u
    <2>1. StatusAfter(w, v) = status[v] /\ CredentialAfter(w, now, v) = now[v]
      BY <1>3, OneValue DEF Value, StatusAfter, CredentialAfter
    <2>2. QED  BY <1>1, <2>1, NothingAt DEF Promised, Opens
  <1>4. QED  BY <1>2, <1>3

\* Every action leaves in tx a write after which whoever is ACTIVE can log in,
\* for the rows as it read them and the provider as it leaves it.
LEMMA ReadOpens ==
    ASSUME LoginInv, Opens(Says), NEW r \in Requests, Read(r)
    PROVE  /\ Opens(Says') /\ DOMAIN credential' = Users
           /\ \E w : Prepares(r, w) /\ w.phase = "open" /\ OpensAfter(w, Says')
  <1> DEFINE Goal(w) == Prepares(r, w) /\ w.phase = "open" /\ OpensAfter(w, Says')
             Done == /\ Opens(Says') /\ DOMAIN credential' = Users
                     /\ \E w : Goal(w)
  \* All but one leave the provider as it is.
  <1>1. ASSUME NEW w, Decides(r, w), w.phase = "open", OpensAfter(w, Says)
        PROVE  Done
    <2>1. UNCHANGED <<status, credential, Says>> /\ Prepares(r, w)
      BY <1>1 DEF Decides, Prepares, Says
    <2>2. Opens(Says') /\ DOMAIN credential' = Users
      BY <2>1 DEF Opens, LoginInv
    <2>3. OpensAfter(w, Says')
      BY <1>1, <2>1 DEF OpensAfter, StatusAfter, CredentialAfter
    <2>4. QED  BY <1>1, <2>1, <2>2, <2>3
  <1>2. ASSUME NEW u \in Users, NEW o \in Orgs, Register(r, u, o) PROVE Done
    <2> DEFINE w == [Quiet EXCEPT !.org = {o}, !.person = {u},
                                  !.insert = Value(<<u, o>>, "owner"),
                                  !.status = Value(u, "ACTIVE"),
                                  !.home = Value(u, o)]
    <2>1. w.phase = "open" /\ w.person = {u} /\ w.status = Value(u, "ACTIVE")
          /\ w.call = Nothing
      BY DEF Quiet
    <2>2. Decides(r, w)
      BY <1>2 DEF Register
    <2> HIDE DEF w
    <2>3. OpensAfter(w, Says)
      BY <2>1, ComesBackOpens
    <2>4. QED  BY <1>1, <2>1, <2>2, <2>3
  <1>3. ASSUME NEW u \in Users, NEW o \in Orgs, CreateOrganization(r, u, o) PROVE Done
    <2>1. PICK h \in Repaired(u, ActiveSeats(u) \cup {o}) :
              Decides(r, [Quiet EXCEPT !.org = {o}, !.home = h,
                                       !.insert = Value(<<u, o>>, "owner")])
      BY <1>3 DEF CreateOrganization
    <2> DEFINE w == [Quiet EXCEPT !.org = {o}, !.home = h,
                                  !.insert = Value(<<u, o>>, "owner")]
    <2>2. w.phase = "open" /\ w.person = {} /\ w.status = Nothing /\ w.call = Nothing
      BY DEF Quiet
    <2>3. Decides(r, w)
      BY <2>1
    <2> HIDE DEF w
    <2>4. QED  BY <1>1, <2>2, <2>3, QuietOpens
  <1>4. ASSUME NEW u \in Users, NEW o \in Orgs, InviteUser(r, u, o) PROVE Done
    <2> DEFINE w == [Quiet EXCEPT
                        !.invite = Value(<<u, o>>, invite[<<u, o>>] \cup {"live"})]
    <2>1. w.phase = "open" /\ w.person = {} /\ w.status = Nothing /\ w.call = Nothing
      BY DEF Quiet
    <2>2. Decides(r, w)
      BY <1>4 DEF InviteUser
    <2> HIDE DEF w
    <2>3. QED  BY <1>1, <2>1, <2>2, QuietOpens
  <1>5. ASSUME NEW u \in Users, NEW o \in Orgs, ResendInvitation(r, u, o) PROVE Done
    <2> DEFINE w == [Quiet EXCEPT !.invite = Value(<<u, o>>, {"live"})]
    <2>1. w.phase = "open" /\ w.person = {} /\ w.status = Nothing /\ w.call = Nothing
      BY DEF Quiet
    <2>2. Decides(r, w)
      BY <1>5 DEF ResendInvitation
    <2> HIDE DEF w
    <2>3. QED  BY <1>1, <2>1, <2>2, QuietOpens
  \* The provider first, the database last.
  <1>6. ASSUME NEW u \in Users, NEW o \in Orgs, AcceptInvitation(r, u, o) PROVE Done
    <2> DEFINE w == Accepts(u, o)
    <2>1. w.phase = "open" /\ w.status = Value(u, "ACTIVE") /\ w.call = Nothing
          /\ w.person = (IF status[u] = "absent" THEN {u} ELSE {})
      BY DEF Accepts, Quiet
    <2>2. Prepares(r, w)
      BY <1>6 DEF AcceptInvitation
    <2> HIDE DEF w
    <2>3. /\ DOMAIN credential' = Users /\ status' = status
          /\ \A v \in Users : Says'[v] = Says[v] \/ Says'[v] = "enabled"
          /\ status[u] # "absent" => Says'[u] = "enabled"
      BY <1>6, SaysAt DEF AcceptInvitation, LoginInv, Prepares, Says
    <2>4. Opens(Says')
      BY <2>3, NothingAt DEF Opens, Promised
    <2>5. OpensAfter(w, Says')
      BY <2>1, <2>3, <2>4, ComesBackOpens
    <2>6. QED  BY <2>1, <2>2, <2>3, <2>4, <2>5
  <1>7. ASSUME NEW u \in Users, NEW o \in Orgs, NEW role \in Roles, AddUser(r, u, o, role)
        PROVE  Done
    <2>1. PICK h \in Repaired(u, ActiveSeats(u) \cup {o}) :
              Decides(r, [Quiet EXCEPT !.insert = Value(<<u, o>>, role), !.home = h])
      BY <1>7 DEF AddUser
    <2> DEFINE w == [Quiet EXCEPT !.insert = Value(<<u, o>>, role), !.home = h]
    <2>2. w.phase = "open" /\ w.person = {} /\ w.status = Nothing /\ w.call = Nothing
      BY DEF Quiet
    <2>3. Decides(r, w)
      BY <2>1
    <2> HIDE DEF w
    <2>4. QED  BY <1>1, <2>2, <2>3, QuietOpens
  <1>8. ASSUME NEW p \in Pairs, NEW role \in Roles, UpdateRole(r, p, role) PROVE Done
    <2> DEFINE w == [Quiet EXCEPT !.role = IF role = seat[p].role THEN Nothing
                                                                  ELSE Value(p, role)]
    <2>1. w.phase = "open" /\ w.person = {} /\ w.status = Nothing /\ w.call = Nothing
      BY DEF Quiet
    <2>2. Decides(r, w)
      BY <1>8 DEF UpdateRole
    <2> HIDE DEF w
    <2>3. QED  BY <1>1, <2>1, <2>2, QuietOpens
  <1>9. ASSUME NEW p \in Pairs, NEW active \in BOOLEAN, UpdateStatus(r, p, active)
        PROVE  Done
    <2> DEFINE u == p[1]
               seen == (ActiveSeats(u) \ {p[2]}) \cup (IF active THEN {p[2]} ELSE {})
               write == IF active = seat[p].active THEN Nothing ELSE Value(p, active)
    <2>1. PICK h \in Repaired(u, seen) :
              Decides(r, [Quiet EXCEPT !.active = write, !.home = h])
      BY <1>9 DEF UpdateStatus
    <2> DEFINE w == [Quiet EXCEPT !.active = write, !.home = h]
    <2>2. w.phase = "open" /\ w.person = {} /\ w.status = Nothing /\ w.call = Nothing
      BY DEF Quiet
    <2>3. Decides(r, w)
      BY <2>1
    <2> HIDE DEF w
    <2>4. QED  BY <1>1, <2>2, <2>3, QuietOpens
  <1>10. ASSUME NEW p \in Pairs, RemoveUser(r, p) PROVE Done
    <2>1. PICK u \in Users, o \in Orgs : p = <<u, o>>
      BY DEF Pairs
    <2> DEFINE seen == ActiveSeats(u) \ {o}
               written(h) == [Quiet EXCEPT
                  !.delete = {p}, !.home = h,
                  !.status = IF seen = {} THEN Value(u, "INACTIVE") ELSE Nothing,
                  !.call = IF seen = {} THEN Value(u, "disabled") ELSE Nothing]
    <2>2. PICK h \in Repaired(u, seen) : Decides(r, written(h))
      BY <1>10, <2>1 DEF RemoveUser
    <2> DEFINE w == written(h)
    <2>3. w.phase = "open" /\ w.person = {}
          /\ w.status = (IF seen = {} THEN Value(u, "INACTIVE") ELSE Nothing)
          /\ w.call = (IF seen = {} THEN Value(u, "disabled") ELSE Nothing)
      BY DEF Quiet
    <2>4. Decides(r, w)
      BY <2>2
    <2> HIDE DEF w
    <2>5. OpensAfter(w, Says)
      <3>1. CASE seen = {}
        BY <2>3, <3>1, OneOpens
      <3>2. CASE seen # {}
        BY <2>3, <3>2, QuietOpens
      <3>3. QED  BY <3>1, <3>2
    <2>6. QED  BY <1>1, <2>3, <2>4, <2>5
  <1>11. ASSUME NEW u \in Users, NEW s, SetUserStatus(r, u, s) PROVE Done
    <2> DEFINE c == IF s = "ACTIVE" THEN "enabled" ELSE "disabled"
               w == [Quiet EXCEPT
                        !.status = IF status[u] = s THEN Nothing ELSE Value(u, s),
                        !.call = Value(u, c)]
    <2>1. w.phase = "open" /\ w.person = {} /\ w.call = Value(u, c)
          /\ (w.status = Value(u, s) \/ (w.status = Nothing /\ status[u] = s))
      BY DEF Quiet
    <2>2. Decides(r, w)
      BY <1>11 DEF SetUserStatus
    <2>3. s = "ACTIVE" => c = "enabled"
      OBVIOUS
    <2> HIDE DEF w, c
    <2>4. OpensAfter(w, Says)
      BY <2>1, <2>3, OneOpens
    <2>5. QED  BY <1>1, <2>1, <2>2, <2>4
  <1> HIDE DEF Done
  <1>12. Done
    BY <1>2, <1>3, <1>4, <1>5, <1>6, <1>7, <1>8, <1>9, <1>10, <1>11 DEF Read
  <1>13. QED  BY <1>12 DEF Done

LEMMA LoginInit == Init => LoginInv
  BY SaysAt DEF Init, LoginInv, Opens, Promised

LEMMA LoginStep ==
    ASSUME \A r, s \in Requests : r = s, LoginInv, [Next]_vars
    PROVE  LoginInv'
  <1>1. ASSUME NEW r \in Requests, Read(r) PROVE LoginInv'
    <2>1. Opens(Says)
      BY <1>1 DEF LoginInv, Read, Register, CreateOrganization, InviteUser,
                  ResendInvitation, AcceptInvitation, AddUser, UpdateRole,
                  UpdateStatus, RemoveUser, SetUserStatus, Decides, Prepares
    <2>2. Opens(Says') /\ DOMAIN credential' = Users
      BY <1>1, <2>1, ReadOpens
    <2>3. PICK w : Prepares(r, w) /\ w.phase = "open" /\ OpensAfter(w, Says')
      BY <1>1, <2>1, ReadOpens
    <2>4. DOMAIN tx' = Requests /\ tx'[r] = w /\ status' = status
      BY <2>3 DEF Prepares, LoginInv
    <2>5. \A q \in Requests : tx'[q] = w
      BY <2>4
    <2>6. Opens(Says)'
      BY <2>2, <2>4 DEF Opens
    <2>7. OpensAfter(w, Says')
          <=> \A u \in Users : Promised(w.call, u, StatusAfter(w, u)',
                                       CredentialAfter(w, Says', u))
      BY <2>4 DEF OpensAfter, StatusAfter
    <2>8. \A q \in Requests : OpensAfter(tx[q], Says)'
      BY <2>3, <2>5, <2>7 DEF OpensAfter, StatusAfter, CredentialAfter
    <2>9. DOMAIN status' = Users
      BY <2>4 DEF LoginInv
    <2>10. QED  BY <2>2, <2>3, <2>4, <2>5, <2>6, <2>8, <2>9 DEF LoginInv
  <1>2. ASSUME NEW r \in Requests, Commit(r) PROVE LoginInv'
    <2>0. PICK w : w = tx[r]
      OBVIOUS
    <2>1. OpensAfter(w, Says)
      BY <1>2, <2>0 DEF Commit, LoginInv
    <2>2. /\ DOMAIN status' = Users /\ DOMAIN credential' = Users
          /\ \A u \in Users : status'[u] = StatusAfter(w, u)
          /\ \A u \in Users : status'[u] = "ACTIVE" =>
                 Says'[u] = CredentialAfter(w, Says, u)
      BY <1>2, <2>0, SaysAt DEF Commit, Merged, StatusAfter, CredentialAfter, LoginInv, Says
    <2>3. /\ DOMAIN tx' = Requests
          /\ tx'[r].phase # "open"
          /\ tx'[r].phase = "call" => tx'[r].call = w.call
          /\ tx'[r].phase # "call" => w.call = Nothing
      BY <1>2, <2>0 DEF Commit, LoginInv
    <2>4. \A u \in Users : Promised(w.call, u, status'[u], Says'[u])
      BY <2>1, <2>2 DEF OpensAfter, Promised
    <2>5. tx'[r].phase # "call" => Opens(Says)'
      BY <2>3, <2>4 DEF Opens, Promised
    <2>6. tx'[r].phase = "call" => OpensOnceCalled(tx[r].call)'
      BY <2>3, <2>4 DEF OpensOnceCalled, Promised
    <2>7. \A q \in Requests : q = r
      OBVIOUS
    <2>8. QED  BY <2>2, <2>3, <2>5, <2>6, <2>7 DEF LoginInv
  \* The request is over, and the rows and the provider agree.
  <1>3. ASSUME NEW r \in Requests, UNCHANGED status, DOMAIN credential' = Users,
               Opens(Says)', tx' = [tx EXCEPT ![r] = [phase |-> "idle"]]
        PROVE  LoginInv'
    <2>1. DOMAIN tx' = Requests /\ tx'[r].phase = "idle"
      BY <1>3 DEF LoginInv
    <2>2. QED  BY <1>3, <2>1 DEF LoginInv
  <1>4. ASSUME NEW r \in Requests, Abort(r) PROVE LoginInv'
    <2>1. Opens(Says)
      BY <1>4 DEF Abort, LoginInv
    <2>2. QED  BY <1>3, <1>4, <2>1 DEF Abort, LoginInv, Opens, Says
  <1>5. ASSUME NEW r \in Requests, CallProvider(r) PROVE LoginInv'
    <2>1. OpensOnceCalled(tx[r].call)
      BY <1>5 DEF CallProvider, LoginInv
    <2>2. DOMAIN credential' = Users /\ status' = status
      BY <1>5 DEF CallProvider, Merged, LoginInv
    <2>3. \A u \in Users : Says'[u] = IF u \in DOMAIN tx[r].call
                                      THEN tx[r].call[u] ELSE Says[u]
      BY <1>5 DEF CallProvider, Merged, LoginInv, Says
    <2>4. Opens(Says)'
      BY <2>1, <2>2, <2>3, NothingAt DEF Opens, OpensOnceCalled, Promised
    <2>5. QED  BY <1>3, <1>5, <2>2, <2>4 DEF CallProvider
  <1>6. ASSUME NEW r \in Requests, CallLost(r) PROVE LoginInv'
    <2>1. OpensOnceCalled(tx[r].call)
      BY <1>6 DEF CallLost, LoginInv
    \* Either the call was not to open, or the person is exempt from now on,
    \* or the credential was open already.
    <2>2. \A u \in Users :
             /\ (u \in DOMAIN tx[r].call /\ tx[r].call[u] = "enabled")
                    => Says'[u] = "enabled"
             /\ Says'[u] = Says[u] \/ Says'[u] = "enabled"
      BY <1>6 DEF CallLost, Says
    <2>3. Opens(Says)'
      BY <1>6, <2>1, <2>2, NothingAt DEF CallLost, Opens, OpensOnceCalled, Promised
    <2>4. DOMAIN credential' = Users
      BY <1>6 DEF CallLost, LoginInv
    <2>5. QED  BY <1>3, <1>6, <2>3, <2>4 DEF CallLost
  <1>7. ASSUME UNCHANGED <<status, credential, tx, unopened>> PROVE LoginInv'
    BY <1>7 DEF LoginInv, Opens, OpensAfter, OpensOnceCalled, StatusAfter,
                CredentialAfter, Says
  <1>8. QED
    BY <1>1, <1>2, <1>4, <1>5, <1>6, <1>7 DEF Next, Expire, vars

\* If requests do not overlap, then whatever becomes of the calls to the
\* provider, a person the database takes for ACTIVE can log in once no request
\* is under way, unless the staff's PATCH that made the row ACTIVE failed to
\* open the credential and answered so.
THEOREM ActiveCanLogInAlone ==
    ASSUME \A r, s \in Requests : r = s
    PROVE  Spec => []ActiveCanLogIn
  <1>1. LoginInv => ActiveCanLogIn
    BY NothingAt, SaysAt DEF LoginInv, Opens, Promised, ActiveCanLogIn
  <1>2. QED  BY <1>1, LoginInit, LoginStep, PTL DEF Spec
=============================================================================
