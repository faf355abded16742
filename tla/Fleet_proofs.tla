----------------------------- MODULE Fleet_proofs -----------------------------
(***************************************************************************)
(* OneUnitPerDevice and StatusIsOfTheUnit for any devices, units and       *)
(* organizations when requests do not overlap.  The database has no        *)
(* constraint that says either: each endpoint reads what is open and       *)
(* leaves a write that closes it, and that writes the status with it,      *)
(* which is worth as much as the reading is still true at the commit.      *)
(***************************************************************************)
EXTENDS Fleet, TLAPS

Opens(w) == w.insert \cup w.reopen

\* Written on the rows as they are, w leaves every device in one unit at most.
LeavesOne(w) ==
    /\ \A d \in Devices, u, v \in Units :
          <<u, d>> \in Opens(w) /\ <<v, d>> \in Opens(w) => u = v
    /\ \A d \in Devices, u, v \in Units :
          <<u, d>> \in Opens(w) /\ u # v /\ link[<<v, d>>] = "open" => <<v, d>> \in w.shut

Tables ==
    /\ link \in [Pairs -> Link]
    /\ DOMAIN tx = Requests

FleetInv ==
    /\ Tables
    /\ OneUnitPerDevice
    /\ \A r \in Requests : tx[r].busy => LeavesOne(tx[r])

-----------------------------------------------------------------------------
\* What Sets leaves and its updates keep.
LEMMA SetsFields ==
    ASSUME NEW status
    PROVE  /\ Sets(status).busy = TRUE
           /\ Sets(status).insert = {} /\ Sets(status).reopen = {} /\ Sets(status).shut = {}
           /\ DOMAIN Sets(status) = {"busy", "status", "org", "row", "shut", "reopen", "insert"}
  BY DEF Sets, Writes

\* A write that opens nothing leaves every device where it is.
LEMMA OpensNothing ==
    ASSUME NEW w, w.insert = {}, w.reopen = {}
    PROVE  LeavesOne(w)
  BY DEF LeavesOne, Opens

\* A write that opens one row of a device closes all others of it.
LEMMA OpensOne ==
    ASSUME NEW w, NEW u \in Units, NEW d \in Devices, Opens(w) = {<<u, d>>},
           \A v \in OpenUnits(d) : <<v, d>> \in w.shut
    PROVE  LeavesOne(w)
  BY DEF LeavesOne, OpenUnits

LEMMA OpensFree ==
    ASSUME NEW w, NEW u \in Units, NEW d \in Devices, Opens(w) = {<<u, d>>}, OpenUnits(d) = {}
    PROVE  LeavesOne(w)
  BY OpensOne

\* Fits opens the pair and nothing else.
LEMMA FitsOpens ==
    ASSUME NEW u, NEW d, NEW status, NEW shut
    PROVE  /\ Opens(Fits(u, d, Sets(status))) = {<<u, d>>}
           /\ Opens(Fits(u, d, [Sets(status) EXCEPT !.shut = shut])) = {<<u, d>>}
  BY DEF Fits, Opens, Sets, Writes

\* If at most one unit is open, the one .first() finds is all there is.
LEMMA FirstIsAll ==
    ASSUME OneUnitPerDevice, NEW d \in Devices, NEW old \in AnyOf(OpenUnits(d))
    PROVE  old = OpenUnits(d)
  BY DEF OneUnitPerDevice, AnyOf, OpenUnits

-----------------------------------------------------------------------------
LEMMA FleetInit == Init => FleetInv
  BY DEF Init, FleetInv, Tables, Link, OneUnitPerDevice, Pairs

\* The write an endpoint leaves is right for the rows it has read.
LEMMA ReadLeavesOne ==
    ASSUME FleetInv, NEW r \in Requests, Read(r)
    PROVE  \E w : Leaves(r, w) /\ LeavesOne(w)
  <1> USE DEF Prepares
  <1>1. ASSUME NEW d \in Devices, CreateDevice(r, d) \/ Ship(r, d) \/ Deliver(r, d) \/ Retire(r, d)
        PROVE  \E w : Leaves(r, w) /\ LeavesOne(w)
    <2>1. PICK status : Prepares(r, Sets(status))
      BY <1>1 DEF CreateDevice, Ship, Deliver, Retire
    <2>2. QED  BY <2>1, SetsFields, OpensNothing
  <1>2. ASSUME NEW d \in Devices, Return(r, d)
        PROVE  \E w : Leaves(r, w) /\ LeavesOne(w)
    <2>1. PICK old \in AnyOf(OpenUnits(d)) :
              Prepares(r, [Sets(NewStatus(d, "devuelto")) EXCEPT
                              !.org = Value(d, None), !.shut = old \X {d}])
      BY <1>2 DEF Return
    <2> DEFINE w == [Sets(NewStatus(d, "devuelto")) EXCEPT
                              !.org = Value(d, None), !.shut = old \X {d}]
    <2>2. w.insert = {} /\ w.reopen = {}
      BY SetsFields
    <2>3. QED  BY <2>1, <2>2, OpensNothing
  <1>3. ASSUME NEW d \in Devices, NEW o \in Orgs, Prepare(r, d, o)
        PROVE  \E w : Leaves(r, w) /\ LeavesOne(w)
    <2> DEFINE w == [Sets(NewStatus(d, "preparado")) EXCEPT !.org = Value(d, o)]
    <2>1. w.insert = {} /\ w.reopen = {}
      BY SetsFields
    <2>2. QED  BY <1>3, <2>1, OpensNothing DEF Prepare
  <1>4. ASSUME NEW d \in Devices, NEW u \in Units, AssignByStaff(r, d, u)
        PROVE  \E w : Leaves(r, w) /\ LeavesOne(w)
    <2>1. PICK old \in AnyOf(OpenUnits(d)) :
              Prepares(r, [Sets(NewStatus(d, "asignado")) EXCEPT
                              !.shut = old \X {d}, !.insert = {<<u, d>>}])
      BY <1>4 DEF AssignByStaff
    <2> DEFINE w == [Sets(NewStatus(d, "asignado")) EXCEPT
                              !.shut = old \X {d}, !.insert = {<<u, d>>}]
    <2>2. Opens(w) = {<<u, d>>} /\ w.shut = old \X {d}
      BY SetsFields DEF Opens
    <2>3. old = OpenUnits(d)
      BY <2>1, FirstIsAll DEF FleetInv
    <2>4. \A v \in OpenUnits(d) : <<v, d>> \in w.shut
      BY <2>2, <2>3
    <2>5. LeavesOne(w)
      BY <2>2, <2>4, OpensOne
    <2>6. QED  BY <2>1, <2>5
  <1>5. ASSUME NEW o \in Orgs, NEW u \in Units, CreateUnit(r, o, u)
        PROVE  \E w : Leaves(r, w) /\ LeavesOne(w)
    <2> DEFINE row == Value(u, [state |-> "live", org |-> o])
               bare == [Sets(Nothing) EXCEPT !.row = row]
               fitted(d) == [Sets(Value(d, "asignado")) EXCEPT
                                !.row = row, !.insert = {<<u, d>>}]
    <2>1. CASE Prepares(r, bare)
      <3>1. bare.insert = {} /\ bare.reopen = {}
        BY SetsFields
      <3>2. QED  BY <2>1, <3>1, OpensNothing
    <2>2. ASSUME NEW d \in Devices, Free(o, d), Prepares(r, fitted(d))
          PROVE  \E w : Leaves(r, w) /\ LeavesOne(w)
      <3>1. Opens(fitted(d)) = {<<u, d>>}
        BY SetsFields DEF Opens
      <3>2. QED  BY <2>2, <3>1, OpensFree DEF Free
    <2>3. QED  BY <1>5, <2>1, <2>2 DEF CreateUnit
  <1>6. ASSUME NEW o \in Orgs, NEW u \in Units, DeleteUnit(r, o, u)
        PROVE  \E w : Leaves(r, w) /\ LeavesOne(w)
    <2> DEFINE w == [Sets(Nothing) EXCEPT
                       !.row = Value(u, [state |-> "deleted", org |-> o])]
    <2>1. w.insert = {} /\ w.reopen = {}
      BY SetsFields
    <2>2. QED  BY <1>6, <2>1, OpensNothing DEF DeleteUnit
  <1>7. ASSUME NEW o \in Orgs, NEW u \in Units, NEW d \in Devices, CreateUnitDevice(r, o, u, d)
        PROVE  \E w : Leaves(r, w) /\ LeavesOne(w)
    <2> DEFINE w == Fits(u, d, Sets(Value(d, "asignado")))
    <2>1. Prepares(r, w) /\ OpenUnits(d) = {}
      BY <1>7 DEF CreateUnitDevice, Free
    <2>2. Opens(w) = {<<u, d>>}
      BY FitsOpens
    <2>3. LeavesOne(w)
      BY <2>1, <2>2, OpensFree
    <2>4. QED  BY <2>1, <2>3
  <1>8. ASSUME NEW o \in Orgs, NEW u \in Units, NEW d \in Devices, AssignToUnit(r, o, u, d)
        PROVE  \E w : Leaves(r, w) /\ LeavesOne(w)
    <2> DEFINE freed(old) == {x \in old : device[x].status # "entregado"}
               status(old) == [x \in freed(old) \cup {d} |->
                                 IF x = d THEN "asignado" ELSE "entregado"]
               w(old) == Fits(u, d, [Sets(status(old)) EXCEPT !.shut = {u} \X old])
    <2>1. PICK old \in AnyOf(Fitted(u)) : Prepares(r, w(old))
      BY <1>8 DEF AssignToUnit
    <2>2. Opens(w(old)) = {<<u, d>>}
      BY FitsOpens
    <2>3. OpenUnits(d) = {}
      BY <1>8 DEF AssignToUnit, Free
    <2>4. LeavesOne(w(old))
      BY <2>2, <2>3, OpensFree
    <2>5. QED  BY <2>1, <2>4
  <1>9. ASSUME NEW o \in Orgs, NEW u \in Units, NEW d \in Devices, DeleteUnitDevice(r, o, u, d)
        PROVE  \E w : Leaves(r, w) /\ LeavesOne(w)
    <2> DEFINE w == [Sets(NewStatus(d, "entregado")) EXCEPT !.shut = {<<u, d>>}]
    <2>1. w.insert = {} /\ w.reopen = {}
      BY SetsFields
    <2>2. QED  BY <1>9, <2>1, OpensNothing DEF DeleteUnitDevice
  <1>10. QED
    BY <1>1, <1>2, <1>3, <1>4, <1>5, <1>6, <1>7, <1>8, <1>9 DEF Read

\* A PATCH of the row opens nothing.
LEMMA PatchLeavesOne ==
    ASSUME NEW r \in Requests, Patch(r)
    PROVE  \E w : Leaves(r, w) /\ LeavesOne(w)
  <1>1. PICK d \in Devices, s \in Status, o \in Orgs \cup {None} : UpdateDevice(r, d, s, o)
    BY DEF Patch
  <1> DEFINE w == [Sets(NewStatus(d, s)) EXCEPT
                     !.org = IF device[d].org = o THEN Nothing ELSE Value(d, o)]
  <1>2. w.insert = {} /\ w.reopen = {}
    BY SetsFields
  <1>3. QED  BY <1>1, <1>2, OpensNothing DEF UpdateDevice

\* A commit whose write is right for the rows as they are now.
LEMMA CommitKeepsOne ==
    ASSUME FleetInv, NEW r \in Requests, Commit(r)
    PROVE  link' \in [Pairs -> Link] /\ OneUnitPerDevice'
  <1> DEFINE w == tx[r]
  <1>1. LeavesOne(w)
    BY DEF Commit, FleetInv
  <1>2. \A p \in Pairs : link'[p] = "open" =>
            p \in Opens(w) \/ (link[p] = "open" /\ p \notin w.shut)
    BY DEF Commit, Opens
  <1>3. link' \in [Pairs -> Link]
    BY DEF Commit, FleetInv, Tables, Link
  <1>4. ASSUME NEW d \in Devices, NEW u \in Units, NEW v \in Units,
               link'[<<u, d>>] = "open", link'[<<v, d>>] = "open"
        PROVE  u = v
    <2>1. <<u, d>> \in Pairs /\ <<v, d>> \in Pairs
      BY DEF Pairs
    <2>2. CASE <<u, d>> \in Opens(w)
      BY <1>1, <1>2, <1>4, <2>1, <2>2 DEF LeavesOne
    <2>3. CASE <<v, d>> \in Opens(w)
      BY <1>1, <1>2, <1>4, <2>1, <2>3 DEF LeavesOne
    <2>4. CASE <<u, d>> \notin Opens(w) /\ <<v, d>> \notin Opens(w)
      BY <1>2, <1>4, <2>1, <2>4 DEF FleetInv, OneUnitPerDevice
    <2>5. QED  BY <2>2, <2>3, <2>4
  <1>5. QED  BY <1>3, <1>4 DEF OneUnitPerDevice

LEMMA FleetStep ==
    ASSUME \A r, s \in Requests : r = s, FleetInv, [Next]_vars
    PROVE  FleetInv'
  <1>1. ASSUME NEW r \in Requests, Read(r) \/ Patch(r) PROVE FleetInv'
    <2>1. PICK w : Leaves(r, w) /\ LeavesOne(w)
      BY <1>1, ReadLeavesOne, PatchLeavesOne
    <2>2. UNCHANGED link /\ DOMAIN tx' = Requests /\ tx'[r] = w
      BY <2>1 DEF Leaves, FleetInv, Tables
    <2>3. LeavesOne(tx[r])'
      BY <2>1, <2>2 DEF LeavesOne
    <2>4. QED  BY <2>2, <2>3 DEF FleetInv, Tables, OneUnitPerDevice
  <1>2. ASSUME NEW r \in Requests, Commit(r) PROVE FleetInv'
    <2>1. DOMAIN tx' = Requests /\ ~tx'[r].busy
      BY <1>2 DEF Commit, FleetInv, Tables
    <2>2. QED  BY <1>2, <2>1, CommitKeepsOne DEF FleetInv, Tables
  <1>3. ASSUME NEW r \in Requests, Abort(r) PROVE FleetInv'
    <2>1. DOMAIN tx' = Requests /\ ~tx'[r].busy /\ UNCHANGED link
      BY <1>3 DEF Abort, FleetInv, Tables
    <2>2. QED  BY <2>1 DEF FleetInv, Tables, OneUnitPerDevice
  <1>4. CASE UNCHANGED vars
    BY <1>4 DEF vars, FleetInv, Tables, OneUnitPerDevice, LeavesOne
  <1>5. QED  BY <1>1, <1>2, <1>3, <1>4 DEF Next

-----------------------------------------------------------------------------
\* If requests do not overlap, a device is never fitted to two units, although no
\* constraint of the database forbids it.
THEOREM OneUnitPerDeviceAlone ==
    ASSUME \A r, s \in Requests : r = s
    PROVE  Spec => []OneUnitPerDevice
  <1>1. FleetInv => OneUnitPerDevice
    BY DEF FleetInv
  <1>2. QED  BY <1>1, FleetInit, FleetStep, PTL DEF Spec

-----------------------------------------------------------------------------
(* The status of a device and the unit it is in                            *)

\* The tables once w is written on the rows as they are.
StatusAfter(w, d) == IF d \in DOMAIN w.status THEN w.status[d] ELSE device[d].status
OrgAfter(w, d) == IF d \in DOMAIN w.org THEN w.org[d] ELSE device[d].org
OwnerAfter(w, u) == IF u \in DOMAIN w.row THEN w.row[u].org ELSE unit[u].org
OpenAfter(w, u, d) ==
    <<u, d>> \in Opens(w) \/ (link[<<u, d>>] = "open" /\ <<u, d>> \notin w.shut)

\* Then a device that is "asignado" is fitted, and to a unit of its own
\* organization, but where the row was written by hand.
KeepsStatus(w, hand) ==
    /\ \A d \in Devices \ hand : StatusAfter(w, d) = "asignado" =>
          /\ \E u \in Units : OpenAfter(w, u, d)
          /\ \A u \in Units : OpenAfter(w, u, d) /\ OrgAfter(w, d) # None =>
                OwnerAfter(w, u) = OrgAfter(w, d)
    /\ \A u \in DOMAIN w.row : w.row[u].state # "absent"

\* A unit that does not exist is nobody's: creating it gives no device another
\* owner.
StatusInv ==
    /\ FleetInv
    /\ StatusIsOfTheUnit
    /\ \A u \in Units : unit[u].state = "absent" => unit[u].org = None
    /\ \A r \in Requests : tx[r].busy => KeepsStatus(tx[r], patched)

LEMMA Values ==
    /\ DOMAIN Nothing = {}
    /\ \A x, v : DOMAIN Value(x, v) = {x} /\ Value(x, v)[x] = v
  BY DEF Nothing, Value

\* A write keeps the statuses if each device ends without the status, or as it
\* was, or in one unit of its organization; and units keep their owner.
LEMMA StatusKept ==
    ASSUME StatusInv, NEW w, NEW hand, patched \subseteq hand,
           \A d \in Devices \ hand :
              \/ StatusAfter(w, d) # "asignado"
              \/ /\ StatusAfter(w, d) = device[d].status /\ OrgAfter(w, d) = device[d].org
                 /\ \A u \in Units : OpenAfter(w, u, d) <=> link[<<u, d>>] = "open"
              \/ \E u \in Units :
                    /\ \A v \in Units : OpenAfter(w, v, d) <=> v = u
                    /\ OrgAfter(w, d) # None => OwnerAfter(w, u) = OrgAfter(w, d),
           \A u \in Units : OwnerAfter(w, u) = unit[u].org \/ unit[u].org = None,
           \A u \in DOMAIN w.row : w.row[u].state # "absent"
    PROVE  KeepsStatus(w, hand)
  <1> SUFFICES ASSUME NEW d \in Devices \ hand, StatusAfter(w, d) = "asignado"
               PROVE  /\ \E u \in Units : OpenAfter(w, u, d)
                      /\ \A u \in Units : OpenAfter(w, u, d) /\ OrgAfter(w, d) # None =>
                            OwnerAfter(w, u) = OrgAfter(w, d)
    BY DEF KeepsStatus
  <1>1. CASE /\ StatusAfter(w, d) = device[d].status /\ OrgAfter(w, d) = device[d].org
             /\ \A u \in Units : OpenAfter(w, u, d) <=> link[<<u, d>>] = "open"
    <2>1. /\ OpenUnits(d) # {}
          /\ \A u \in Units : link[<<u, d>>] = "open" /\ device[d].org # None =>
                unit[u].org = device[d].org
      BY <1>1 DEF StatusInv, StatusIsOfTheUnit, AssignedIsFitted, AssignedWithinOrg
    <2>2. QED  BY <1>1, <2>1 DEF OpenUnits
  <1>2. CASE \E u \in Units :
                /\ \A v \in Units : OpenAfter(w, v, d) <=> v = u
                /\ OrgAfter(w, d) # None => OwnerAfter(w, u) = OrgAfter(w, d)
    BY <1>2
  <1>3. QED  BY <1>1, <1>2

LEMMA StatusInit == Init => StatusInv
  <1>1. ASSUME Init PROVE StatusIsOfTheUnit
    BY <1>1 DEF Init, StatusIsOfTheUnit, AssignedIsFitted, AssignedWithinOrg
  <1>2. QED  BY <1>1, FleetInit DEF Init, StatusInv

\* A write of status or organization that opens nothing and touches no unit.
LEMMA StatusOnly ==
    ASSUME StatusInv, NEW w, NEW d \in Devices, w.insert = {}, w.reopen = {}, w.row = Nothing,
           DOMAIN w.status \subseteq {d}, DOMAIN w.org \subseteq {d}, w.shut \subseteq Units \X {d},
           StatusAfter(w, d) # "asignado"
    PROVE  KeepsStatus(w, patched)
  <1>1. \A u \in Units : OwnerAfter(w, u) = unit[u].org
    BY Values DEF OwnerAfter
  <1>2. \A x \in Devices : x # d =>
            /\ StatusAfter(w, x) = device[x].status /\ OrgAfter(w, x) = device[x].org
            /\ \A u \in Units : OpenAfter(w, u, x) <=> link[<<u, x>>] = "open"
    BY DEF StatusAfter, OrgAfter, OpenAfter, Opens
  <1>3. QED  BY <1>1, <1>2, StatusKept, Values

LEMMA ValueIs ==
    ASSUME NEW s, NEW d
    PROVE  /\ \A w : w.status = Value(d, s) => StatusAfter(w, d) = s
           /\ \A w, x : w.status = Value(d, s) /\ x # d => StatusAfter(w, x) = device[x].status
  <1>1. DOMAIN Value(d, s) = {d} /\ Value(d, s)[d] = s
    BY Values
  <1>2. d \in DOMAIN Value(d, s) /\ \A x : x # d => x \notin DOMAIN Value(d, s)
    BY <1>1
  <1>3. QED  BY <1>1, <1>2, Zenon DEF StatusAfter

LEMMA NewStatusIs ==
    ASSUME NEW s, NEW d
    PROVE  /\ DOMAIN NewStatus(d, s) \subseteq {d}
           /\ \A w : w.status = NewStatus(d, s) => StatusAfter(w, d) = s
  <1>1. CASE device[d].status = s
    BY <1>1, Values DEF NewStatus, StatusAfter
  <1>2. CASE device[d].status # s
    <2>1. NewStatus(d, s) = Value(d, s)
      BY <1>2 DEF NewStatus
    <2>2. DOMAIN Value(d, s) = {d}
      BY Values
    <2>3. \A w : w.status = Value(d, s) => StatusAfter(w, d) = s
      BY ValueIs
    <2>4. QED  BY <2>1, <2>2, <2>3
  <1>3. QED  BY <1>1, <1>2

\* What a reading of the inventory leaves.
LEMMA InventoryKeepsStatus ==
    ASSUME StatusInv, NEW r \in Requests, NEW d \in Devices,
           \/ CreateDevice(r, d) \/ Ship(r, d) \/ Deliver(r, d) \/ Return(r, d) \/ Retire(r, d)
           \/ \E o \in Orgs : Prepare(r, d, o)
    PROVE  \E w : Prepares(r, w) /\ KeepsStatus(w, patched)
  <1>1. ASSUME NEW status, Prepares(r, Sets(status)), DOMAIN status \subseteq {d},
               StatusAfter(Sets(status), d) # "asignado"
        PROVE  \E w : Prepares(r, w) /\ KeepsStatus(w, patched)
    <2> DEFINE w == Sets(status)
    <2>1. /\ w.insert = {} /\ w.reopen = {} /\ w.row = Nothing /\ w.status = status
          /\ w.org = Nothing /\ w.shut = {}
      BY DEF Sets, Writes
    <2>2. Prepares(r, w) /\ StatusAfter(w, d) # "asignado"
      BY <1>1
    <2> HIDE DEF w
    <2>3. KeepsStatus(w, patched)
      BY <1>1, <2>1, <2>2, StatusOnly, Values
    <2>4. QED  BY <2>2, <2>3
  <1>2. CASE CreateDevice(r, d) \/ Ship(r, d)
    <2>1. PICK s \in {"nuevo", "enviado"} : Prepares(r, Sets(Value(d, s)))
      BY <1>2 DEF CreateDevice, Ship
    <2>2. Sets(Value(d, s)).status = Value(d, s)
      BY DEF Sets, Writes
    <2>3. DOMAIN Value(d, s) \subseteq {d} /\ StatusAfter(Sets(Value(d, s)), d) = s
      BY <2>2, Values, ValueIs
    <2>4. QED  BY <1>1, <2>1, <2>3
  <1>3. CASE Deliver(r, d) \/ Retire(r, d)
    <2>1. PICK s \in {"entregado", "inactivo"} : Prepares(r, Sets(NewStatus(d, s)))
      BY <1>3 DEF Deliver, Retire
    <2>2. Sets(NewStatus(d, s)).status = NewStatus(d, s)
      BY DEF Sets, Writes
    <2>3. QED  BY <1>1, <2>1, <2>2, NewStatusIs
  <1>4. CASE Return(r, d)
    <2>1. PICK old \in AnyOf(OpenUnits(d)) :
              Prepares(r, [Sets(NewStatus(d, "devuelto")) EXCEPT
                              !.org = Value(d, None), !.shut = old \X {d}])
      BY <1>4 DEF Return
    <2> DEFINE w == [Sets(NewStatus(d, "devuelto")) EXCEPT
                              !.org = Value(d, None), !.shut = old \X {d}]
    <2>2. /\ w.insert = {} /\ w.reopen = {} /\ w.row = Nothing
          /\ w.status = NewStatus(d, "devuelto") /\ w.org = Value(d, None) /\ w.shut = old \X {d}
      BY DEF Sets, Writes
    <2>3. old \subseteq Units
      BY DEF AnyOf, OpenUnits
    <2>4. Prepares(r, w)
      BY <2>1
    <2> HIDE DEF w
    <2>5. KeepsStatus(w, patched)
      <3>1. /\ DOMAIN w.status \subseteq {d} /\ StatusAfter(w, d) = "devuelto"
            /\ DOMAIN w.org = {d}
        BY <2>2, NewStatusIs, Values
      <3>2. QED  BY <2>2, <2>3, <3>1, StatusOnly
    <2>6. QED  BY <2>4, <2>5
  <1>5. ASSUME NEW o \in Orgs, Prepare(r, d, o)
        PROVE  \E w : Prepares(r, w) /\ KeepsStatus(w, patched)
    <2> DEFINE w == [Sets(NewStatus(d, "preparado")) EXCEPT !.org = Value(d, o)]
    <2>1. /\ w.insert = {} /\ w.reopen = {} /\ w.row = Nothing
          /\ w.status = NewStatus(d, "preparado") /\ w.org = Value(d, o) /\ w.shut = {}
      BY DEF Sets, Writes
    <2>2. Prepares(r, w)
      BY <1>5 DEF Prepare
    <2> HIDE DEF w
    <2>3. KeepsStatus(w, patched)
      <3>1. /\ DOMAIN w.status \subseteq {d} /\ StatusAfter(w, d) = "preparado"
            /\ DOMAIN w.org = {d}
        BY <2>1, NewStatusIs, Values
      <3>2. QED  BY <2>1, <3>1, StatusOnly
    <2>4. QED  BY <2>2, <2>3
  <1>6. QED  BY <1>2, <1>3, <1>4, <1>5

\* A write that fits d to u and leaves the other devices where they are.
LEMMA FitsKeepStatus ==
    ASSUME StatusInv, NEW w, NEW u \in Units, NEW d \in Devices,
           Opens(w) = {<<u, d>>}, \A v \in OpenUnits(d) : <<v, d>> \in w.shut,
           \A x \in Devices : x # d =>
              \/ StatusAfter(w, x) # "asignado"
              \/ StatusAfter(w, x) = device[x].status /\ \A v \in Units : <<v, x>> \notin w.shut,
           w.org = Nothing, device[d].org # None => OwnerAfter(w, u) = device[d].org,
           \A v \in Units : OwnerAfter(w, v) = unit[v].org \/ unit[v].org = None,
           \A v \in DOMAIN w.row : w.row[v].state # "absent"
    PROVE  KeepsStatus(w, patched)
  <1>1. \A x \in Devices : OrgAfter(w, x) = device[x].org
    BY Values DEF OrgAfter
  <1>2. \A v \in Units : OpenAfter(w, v, d) <=> v = u
    BY DEF OpenAfter, OpenUnits
  <1>3. \A x \in Devices : x # d =>
            \/ StatusAfter(w, x) # "asignado"
            \/ /\ StatusAfter(w, x) = device[x].status
               /\ \A v \in Units : OpenAfter(w, v, x) <=> link[<<v, x>>] = "open"
    BY DEF OpenAfter
  <1>4. \A x \in Devices \ patched :
              \/ StatusAfter(w, x) # "asignado"
              \/ /\ StatusAfter(w, x) = device[x].status /\ OrgAfter(w, x) = device[x].org
                 /\ \A v \in Units : OpenAfter(w, v, x) <=> link[<<v, x>>] = "open"
              \/ \E y \in Units :
                    /\ \A v \in Units : OpenAfter(w, v, x) <=> v = y
                    /\ OrgAfter(w, x) # None => OwnerAfter(w, y) = OrgAfter(w, x)
    BY <1>1, <1>2, <1>3
  <1>5. QED  BY <1>4, StatusKept

\* The write an endpoint leaves keeps the statuses right for the rows it has read.
LEMMA ReadKeepsStatus ==
    ASSUME StatusInv, NEW r \in Requests, Read(r)
    PROVE  \E w : Prepares(r, w) /\ KeepsStatus(w, patched)
  <1>1. ASSUME NEW d \in Devices, NEW u \in Units, AssignByStaff(r, d, u)
        PROVE  \E w : Prepares(r, w) /\ KeepsStatus(w, patched)
    <2>1. PICK old \in AnyOf(OpenUnits(d)) :
              Prepares(r, [Sets(NewStatus(d, "asignado")) EXCEPT
                              !.shut = old \X {d}, !.insert = {<<u, d>>}])
      BY <1>1 DEF AssignByStaff
    <2> DEFINE w == [Sets(NewStatus(d, "asignado")) EXCEPT
                              !.shut = old \X {d}, !.insert = {<<u, d>>}]
    <2>2. /\ Opens(w) = {<<u, d>>} /\ w.shut = old \X {d} /\ w.row = Nothing /\ w.org = Nothing
          /\ w.status = NewStatus(d, "asignado")
      BY DEF Sets, Writes, Opens
    <2>3. old = OpenUnits(d) /\ device[d].org # None => unit[u].org = device[d].org
      BY <1>1, FirstIsAll DEF StatusInv, FleetInv, AssignByStaff
    <2>4. Prepares(r, w) /\ old = OpenUnits(d)
      BY <2>1, FirstIsAll DEF StatusInv, FleetInv
    <2> HIDE DEF w
    <2>5. \A v \in Units : OwnerAfter(w, v) = unit[v].org
      BY <2>2, Values DEF OwnerAfter
    <2>6. \A x \in Devices : x # d => StatusAfter(w, x) = device[x].status
      BY <2>2, NewStatusIs DEF StatusAfter
    <2>7. KeepsStatus(w, patched)
      BY <2>2, <2>3, <2>4, <2>5, <2>6, FitsKeepStatus, Values
    <2>8. QED  BY <2>4, <2>7
  <1>2. ASSUME NEW o \in Orgs, NEW u \in Units, CreateUnit(r, o, u)
        PROVE  \E w : Prepares(r, w) /\ KeepsStatus(w, patched)
    <2> DEFINE row == Value(u, [state |-> "live", org |-> o])
               bare == [Sets(Nothing) EXCEPT !.row = row]
               fitted(d) == [Sets(Value(d, "asignado")) EXCEPT
                                !.row = row, !.insert = {<<u, d>>}]
    <2>1. /\ unit[u].org = None
          /\ row[u].state # "absent" /\ row[u].org = o /\ DOMAIN row = {u}
      <3>1. unit[u].org = None
        BY <1>2 DEF CreateUnit, StatusInv
      <3>2. DOMAIN row = {u} /\ row[u].state = "live" /\ row[u].org = o
        <4> DEFINE rec == [state |-> "live", org |-> o]
        <4>1. DOMAIN row = {u} /\ row[u] = rec
          BY Values, Zenon
        <4>2. rec.state = "live" /\ rec.org = o
          OBVIOUS
        <4>3. QED  BY <4>1, <4>2, Zenon
      <3>3. QED  BY <3>1, <3>2
    <2>2. \A w : w.row = row =>
              /\ \A v \in Units : OwnerAfter(w, v) = unit[v].org \/ unit[v].org = None
              /\ OwnerAfter(w, u) = o
              /\ \A v \in DOMAIN w.row : w.row[v].state # "absent"
      BY <2>1 DEF OwnerAfter
    <2>3. /\ bare.row = row /\ Opens(bare) = {} /\ bare.shut = {} /\ bare.status = Nothing
          /\ bare.org = Nothing
      BY DEF Sets, Writes, Opens
    <2>4. \A d : /\ fitted(d).row = row /\ Opens(fitted(d)) = {<<u, d>>} /\ fitted(d).shut = {}
                 /\ fitted(d).status = Value(d, "asignado") /\ fitted(d).org = Nothing
      BY DEF Sets, Writes, Opens
    <2>5. CASE Prepares(r, bare)
      <3> HIDE DEF bare, row
      <3>1. \A x \in Devices :
                /\ StatusAfter(bare, x) = device[x].status /\ OrgAfter(bare, x) = device[x].org
                /\ \A v \in Units : OpenAfter(bare, v, x) <=> link[<<v, x>>] = "open"
        BY <2>3, Values DEF StatusAfter, OrgAfter, OpenAfter
      <3>2. KeepsStatus(bare, patched)
        BY <2>2, <2>3, <3>1, StatusKept
      <3>3. QED  BY <2>5, <3>2
    <2>6. ASSUME NEW d \in Devices, Free(o, d), Prepares(r, fitted(d))
          PROVE  \E w : Prepares(r, w) /\ KeepsStatus(w, patched)
      <3> DEFINE w == fitted(d)
      <3>1. /\ w.row = row /\ Opens(w) = {<<u, d>>} /\ w.shut = {}
            /\ w.status = Value(d, "asignado") /\ w.org = Nothing /\ Prepares(r, w)
        BY <2>4, <2>6
      <3>2. OpenUnits(d) = {} /\ device[d].org = o
        BY <2>6 DEF Free
      <3> HIDE DEF w, row, bare, fitted
      <3>3. \A x \in Devices : x # d => StatusAfter(w, x) = device[x].status
        BY <3>1, ValueIs
      <3>4. KeepsStatus(w, patched)
        BY <2>2, <3>1, <3>2, <3>3, FitsKeepStatus
      <3>5. QED  BY <3>1, <3>4
    <2>7. QED  BY <1>2, <2>5, <2>6 DEF CreateUnit
  <1>3. ASSUME NEW o \in Orgs, NEW u \in Units, DeleteUnit(r, o, u)
        PROVE  \E w : Prepares(r, w) /\ KeepsStatus(w, patched)
    <2> DEFINE row == Value(u, [state |-> "deleted", org |-> o])
               w == [Sets(Nothing) EXCEPT !.row = row]
    <2>1. unit[u].org = o /\ row[u].state # "absent" /\ row[u].org = o /\ DOMAIN row = {u}
      <3>1. unit[u].org = o
        BY <1>3 DEF DeleteUnit, Owns
      <3>2. DOMAIN row = {u} /\ row[u].state = "deleted" /\ row[u].org = o
        <4> DEFINE rec == [state |-> "deleted", org |-> o]
        <4>1. DOMAIN row = {u} /\ row[u] = rec
          BY Values, Zenon
        <4>2. rec.state = "deleted" /\ rec.org = o
          OBVIOUS
        <4>3. QED  BY <4>1, <4>2, Zenon
      <3>3. QED  BY <3>1, <3>2
    <2>2. /\ w.row = row /\ Opens(w) = {} /\ w.shut = {} /\ w.status = Nothing
          /\ w.org = Nothing /\ Prepares(r, w)
      BY <1>3 DEF Sets, Writes, Opens, DeleteUnit
    <2> HIDE DEF w, row
    <2>3. \A x \in Devices :
              /\ StatusAfter(w, x) = device[x].status /\ OrgAfter(w, x) = device[x].org
              /\ \A v \in Units : OpenAfter(w, v, x) <=> link[<<v, x>>] = "open"
      BY <2>2, Values DEF StatusAfter, OrgAfter, OpenAfter
    <2>4. \A v \in Units : OwnerAfter(w, v) = unit[v].org
      BY <2>1, <2>2 DEF OwnerAfter
    <2>5. KeepsStatus(w, patched)
      BY <2>1, <2>2, <2>3, <2>4, StatusKept
    <2>6. QED  BY <2>2, <2>5
  <1>4. ASSUME NEW o \in Orgs, NEW u \in Units, NEW d \in Devices, CreateUnitDevice(r, o, u, d)
        PROVE  \E w : Prepares(r, w) /\ KeepsStatus(w, patched)
    <2> DEFINE w == Fits(u, d, Sets(Value(d, "asignado")))
    <2>1. Prepares(r, w) /\ OpenUnits(d) = {} /\ device[d].org = o /\ unit[u].org = o
      BY <1>4 DEF CreateUnitDevice, Free, Owns
    <2>2. /\ w.row = Nothing /\ w.shut = {} /\ w.status = Value(d, "asignado") /\ w.org = Nothing
      BY DEF Fits, Sets, Writes
    <2>3. Opens(w) = {<<u, d>>}
      BY FitsOpens
    <2> HIDE DEF w
    <2>4. \A v \in Units : OwnerAfter(w, v) = unit[v].org
      BY <2>2, Values DEF OwnerAfter
    <2>5. \A x \in Devices : x # d => StatusAfter(w, x) = device[x].status
      BY <2>2, ValueIs
    <2>6. KeepsStatus(w, patched)
      BY <2>1, <2>2, <2>3, <2>4, <2>5, FitsKeepStatus, Values
    <2>7. QED  BY <2>1, <2>6
  <1>5. ASSUME NEW o \in Orgs, NEW u \in Units, NEW d \in Devices, AssignToUnit(r, o, u, d)
        PROVE  \E w : Prepares(r, w) /\ KeepsStatus(w, patched)
    <2> DEFINE freed(old) == {x \in old : device[x].status # "entregado"}
               status(old) == [x \in freed(old) \cup {d} |->
                                 IF x = d THEN "asignado" ELSE "entregado"]
               w(old) == Fits(u, d, [Sets(status(old)) EXCEPT !.shut = {u} \X old])
    <2>1. PICK old \in AnyOf(Fitted(u)) : Prepares(r, w(old))
      BY <1>5 DEF AssignToUnit
    <2>2. OpenUnits(d) = {} /\ device[d].org = o /\ unit[u].org = o
      BY <1>5 DEF AssignToUnit, Free, Owns
    <2>3. /\ w(old).row = Nothing /\ w(old).shut = {u} \X old /\ w(old).status = status(old)
          /\ w(old).org = Nothing
      BY DEF Fits, Sets, Writes
    <2>4. Opens(w(old)) = {<<u, d>>}
      BY FitsOpens
    <2> DEFINE W == w(old)
    <2> HIDE DEF W
    <2>5. /\ W.row = Nothing /\ W.shut = {u} \X old /\ W.status = status(old) /\ W.org = Nothing
          /\ Opens(W) = {<<u, d>>} /\ Prepares(r, W)
      BY <2>1, <2>3, <2>4 DEF W
    <2> HIDE DEF w
    <2>6. \A v \in Units : OwnerAfter(W, v) = unit[v].org
      BY <2>5, Values DEF OwnerAfter
    <2>7. ASSUME NEW x \in Devices, x # d
          PROVE  \/ StatusAfter(W, x) # "asignado"
                 \/ StatusAfter(W, x) = device[x].status /\ \A v \in Units : <<v, x>> \notin W.shut
      <3>1. CASE x \in old
        BY <2>5, <2>7, <3>1 DEF StatusAfter
      <3>2. CASE x \notin old
        BY <2>5, <2>7, <3>2 DEF StatusAfter
      <3>3. QED  BY <3>1, <3>2
    <2>8. KeepsStatus(W, patched)
      BY <2>2, <2>5, <2>6, <2>7, FitsKeepStatus, Values
    <2>9. QED  BY <2>5, <2>8
  <1>6. ASSUME NEW o \in Orgs, NEW u \in Units, NEW d \in Devices, DeleteUnitDevice(r, o, u, d)
        PROVE  \E w : Prepares(r, w) /\ KeepsStatus(w, patched)
    <2> DEFINE w == [Sets(NewStatus(d, "entregado")) EXCEPT !.shut = {<<u, d>>}]
    <2>1. /\ w.insert = {} /\ w.reopen = {} /\ w.row = Nothing
          /\ w.status = NewStatus(d, "entregado") /\ w.org = Nothing /\ w.shut = {<<u, d>>}
          /\ Prepares(r, w)
      BY <1>6 DEF Sets, Writes, DeleteUnitDevice
    <2> HIDE DEF w
    <2>2. /\ DOMAIN w.status \subseteq {d} /\ StatusAfter(w, d) = "entregado"
          /\ DOMAIN w.org = {} /\ w.shut \subseteq Units \X {d}
      BY <2>1, NewStatusIs, Values
    <2>3. KeepsStatus(w, patched)
      BY <2>1, <2>2, StatusOnly
    <2>4. QED  BY <2>1, <2>3
  <1>7. QED
    BY <1>1, <1>2, <1>3, <1>4, <1>5, <1>6, InventoryKeepsStatus DEF Read

\* So does a PATCH, but for the device that it writes by hand.
LEMMA PatchKeepsStatus ==
    ASSUME StatusInv, NEW r \in Requests, Patch(r)
    PROVE  \E w : Leaves(r, w) /\ KeepsStatus(w, patched') /\ patched \subseteq patched'
  <1>1. PICK d \in Devices, s \in Status, o \in Orgs \cup {None} : UpdateDevice(r, d, s, o)
    BY DEF Patch
  <1> DEFINE org == IF device[d].org = o THEN Nothing ELSE Value(d, o)
             w == [Sets(NewStatus(d, s)) EXCEPT !.org = org]
  <1>2. /\ Opens(w) = {} /\ w.row = Nothing /\ w.shut = {}
        /\ w.status = NewStatus(d, s) /\ w.org = org
    BY DEF Sets, Writes, Opens
  <1>3. Leaves(r, w) /\ patched' = patched \cup {d}
    BY <1>1 DEF UpdateDevice
  <1>4. DOMAIN org \subseteq {d} /\ DOMAIN NewStatus(d, s) \subseteq {d}
    BY Values, NewStatusIs
  <1> HIDE DEF w, org
  <1>5. \A x \in Devices \ patched' :
            /\ StatusAfter(w, x) = device[x].status /\ OrgAfter(w, x) = device[x].org
            /\ \A v \in Units : OpenAfter(w, v, x) <=> link[<<v, x>>] = "open"
    BY <1>2, <1>3, <1>4 DEF StatusAfter, OrgAfter, OpenAfter
  <1>6. \A v \in Units : OwnerAfter(w, v) = unit[v].org
    BY <1>2, Values DEF OwnerAfter
  <1>7. KeepsStatus(w, patched')
    <2>1. patched \subseteq patched' /\ \A v \in DOMAIN w.row : w.row[v].state # "absent"
      BY <1>2, <1>3, Values
    <2>2. QED  BY <1>5, <1>6, <2>1, StatusKept
  <1>8. QED  BY <1>3, <1>7

\* The commit makes true what the reading left.
LEMMA CommitKeepsStatus ==
    ASSUME StatusInv, NEW r \in Requests, Commit(r)
    PROVE  /\ StatusIsOfTheUnit'
           /\ \A u \in Units : unit'[u].state = "absent" => unit'[u].org = None
  <1> DEFINE w == tx[r]
  <1>1. KeepsStatus(w, patched) /\ patched' = patched
    BY DEF Commit, StatusInv
  <1>2. /\ \A d \in Devices : /\ device'[d].status = StatusAfter(w, d)
                              /\ device'[d].org = OrgAfter(w, d)
        /\ \A u \in Units : unit'[u].org = OwnerAfter(w, u)
    BY DEF Commit, StatusAfter, OrgAfter, OwnerAfter
  <1>3. \A u \in Units, d \in Devices : link'[<<u, d>>] = "open" <=> OpenAfter(w, u, d)
    BY DEF Commit, OpenAfter, Opens, Pairs
  <1>4. \A u \in Units : unit'[u].state = "absent" => unit'[u].org = None
    BY <1>1 DEF Commit, KeepsStatus, StatusInv
  <1>5. AssignedIsFitted'
    BY <1>1, <1>2, <1>3 DEF KeepsStatus, AssignedIsFitted, OpenUnits
  <1>6. AssignedWithinOrg'
    BY <1>1, <1>2, <1>3 DEF KeepsStatus, AssignedWithinOrg
  <1>7. QED  BY <1>4, <1>5, <1>6 DEF StatusIsOfTheUnit

LEMMA StatusStep ==
    ASSUME \A r, s \in Requests : r = s, StatusInv, [Next]_vars
    PROVE  StatusInv'
  <1>1. FleetInv'
    BY FleetStep DEF StatusInv
  <1>2. ASSUME NEW r \in Requests, Read(r) \/ Patch(r) PROVE StatusInv'
    <2>1. PICK w : Leaves(r, w) /\ KeepsStatus(w, patched') /\ patched \subseteq patched'
      BY <1>2, ReadKeepsStatus, PatchKeepsStatus DEF Prepares
    <2>2. UNCHANGED <<device, unit, link>> /\ tx'[r] = w
      BY <2>1 DEF Leaves, StatusInv, FleetInv, Tables
    <2>3. KeepsStatus(tx[r], patched)'
      BY <2>1, <2>2 DEF KeepsStatus, StatusAfter, OrgAfter, OwnerAfter, OpenAfter
    <2>4. StatusIsOfTheUnit'
      BY <2>1, <2>2 DEF StatusInv, StatusIsOfTheUnit, AssignedIsFitted, AssignedWithinOrg, OpenUnits
    <2>5. QED  BY <1>1, <2>2, <2>3, <2>4 DEF StatusInv
  <1>3. ASSUME NEW r \in Requests, Commit(r) PROVE StatusInv'
    <2>1. ~tx'[r].busy
      BY <1>3 DEF Commit, StatusInv, FleetInv, Tables
    <2>2. QED  BY <1>1, <1>3, <2>1, CommitKeepsStatus DEF StatusInv
  <1>4. ASSUME NEW r \in Requests, Abort(r) PROVE StatusInv'
    <2>1. ~tx'[r].busy /\ UNCHANGED <<device, unit, link, patched>>
      BY <1>4 DEF Abort, StatusInv, FleetInv, Tables
    <2>2. QED
      BY <1>1, <2>1 DEF StatusInv, StatusIsOfTheUnit, AssignedIsFitted, AssignedWithinOrg, OpenUnits
  <1>5. CASE UNCHANGED vars
    BY <1>1, <1>5 DEF vars, StatusInv, StatusIsOfTheUnit, AssignedIsFitted, AssignedWithinOrg,
                      OpenUnits, KeepsStatus, StatusAfter, OrgAfter, OwnerAfter, OpenAfter
  <1>6. QED  BY <1>2, <1>3, <1>4, <1>5 DEF Next

\* If requests do not overlap, a device that devices.py and unit_devices.py call
\* "asignado" is fitted, and to a unit of its own organization, unless staff wrote
\* its row by hand.
THEOREM StatusIsOfTheUnitAlone ==
    ASSUME \A r, s \in Requests : r = s
    PROVE  Spec => []StatusIsOfTheUnit
  <1>1. StatusInv => StatusIsOfTheUnit
    BY DEF StatusInv
  <1>2. QED  BY <1>1, StatusInit, StatusStep, PTL DEF Spec

===============================================================================
