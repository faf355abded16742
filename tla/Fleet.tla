------------------------------- MODULE Fleet --------------------------------
(***************************************************************************)
(* The GPS devices of the inventory, the units (vehicles) of the           *)
(* organizations, and the rows of unit_devices that fit one to the other.  *)
(*                                                                         *)
(* Every endpoint reads without locks, decides, and writes in one commit   *)
(* (the session has autoflush off), so a request is two steps: the         *)
(* endpoint runs its checks on the committed state and leaves in tx what   *)
(* its session is going to write; Commit writes it, and only the           *)
(* constraints of the database can still refuse it.  The SELECTs of one    *)
(* endpoint count as one reading.                                          *)
(***************************************************************************)

CONSTANTS
    Devices,    \* device_id (IMEI) values that may be registered
    Units,      \* ids of units that may be created
    Orgs,       \* organizations
    Requests,   \* requests that may be open at the same time
    None        \* the NULL of organization_id

ASSUME FleetAssumption == None \notin Orgs

Status == {"nuevo", "preparado", "enviado", "entregado", "asignado",
           "devuelto", "inactivo"}
Pairs == Units \X Devices

\* "absent" stands for a row that does not exist yet.
DeviceRow == [status : Status \cup {"absent"}, org : Orgs \cup {None}]
UnitRow == [state : {"absent", "live", "deleted"}, org : Orgs \cup {None}]
\* A row of unit_devices, open while unassigned_at is NULL: at most one per
\* pair (uq_unit_devices_unit_device).
Link == {"never", "open", "closed"}

VARIABLES
    device,   \* the table devices
    unit,     \* the table units
    link,     \* the table unit_devices
    tx,       \* the writes of each open request, Idle without one
    patched   \* history: devices that a PATCH of the row was asked for

vars == <<device, unit, link, tx, patched>>

Init ==
    /\ device = [d \in Devices |-> [status |-> "absent", org |-> None]]
    /\ unit = [u \in Units |-> [state |-> "absent", org |-> None]]
    /\ link = [p \in Pairs |-> "never"]
    /\ tx = [r \in Requests |-> [busy |-> FALSE]]
    /\ patched = {}

Registered(d) == device[d].status # "absent"
Owns(o, u) == unit[u].state # "absent" /\ unit[u].org = o
OpenUnits(d) == {u \in Units : link[<<u, d>>] = "open"}
Fitted(u) == {d \in Devices : link[<<u, d>>] = "open"}
\* .first() without an order: one of the rows, or none when there is none.
AnyOf(S) == IF S = {} THEN {{}} ELSE {{x} : x \in S}

(***************************************************************************)
(* What a session holds before its commit: new values of status, of        *)
(* organization_id and of unit rows, the rows of unit_devices to close     *)
(* and to open again, and those to insert.  The ORM leaves out of the      *)
(* UPDATE a column set to the value it had when it was read.               *)
(***************************************************************************)
Nothing == <<>>
Value(x, v) == [y \in {x} |-> v]
NewStatus(d, s) == IF device[d].status = s THEN Nothing ELSE Value(d, s)

Writes(status, org, row, shut, reopen, insert) ==
    [busy |-> TRUE, status |-> status, org |-> org, row |-> row,
     shut |-> shut, reopen |-> reopen, insert |-> insert]
Sets(status) == Writes(status, Nothing, Nothing, {}, {}, {})

Leaves(r, writes) ==
    /\ ~tx[r].busy
    /\ tx' = [tx EXCEPT ![r] = writes]
    /\ UNCHANGED <<device, unit, link>>

Prepares(r, writes) == Leaves(r, writes) /\ UNCHANGED patched

-----------------------------------------------------------------------------
(* Inventory, for the staff of the platform (devices.py)                   *)

CreateDevice(r, d) ==
    /\ ~Registered(d)
    /\ Prepares(r, Sets(Value(d, "nuevo")))

\* Mutant: only the organization is changed.
PrepareOrgOnly(r, d, o) ==
    /\ Registered(d)
    /\ Prepares(r, [Sets(Nothing) EXCEPT !.org = Value(d, o)])

\* "preparado" gives the device to an organization, from any status, and says
\* nothing of a unit it is fitted to.
Prepare(r, d, o) ==
    /\ Registered(d)
    /\ Prepares(r, [Sets(NewStatus(d, "preparado")) EXCEPT !.org = Value(d, o)])

Ship(r, d) ==
    /\ device[d].status = "preparado"
    /\ Prepares(r, Sets(Value(d, "enviado")))

Deliver(r, d) ==
    /\ device[d].org # None
    /\ Prepares(r, Sets(NewStatus(d, "entregado")))

\* Mutant: the row that was open stays open.
AssignWithoutClosing(r, d, u) ==
    /\ Registered(d)
    /\ unit[u].state # "absent"
    /\ device[d].org # None => unit[u].org = device[d].org
    /\ Prepares(r, [Sets(NewStatus(d, "asignado")) EXCEPT !.insert = {<<u, d>>}])

\* "asignado" closes the row it finds open and inserts one; the unit may be a
\* deleted one, and the device one without organization.
AssignByStaff(r, d, u) ==
    /\ Registered(d)
    /\ unit[u].state # "absent"
    /\ device[d].org # None => unit[u].org = device[d].org
    /\ \E old \in AnyOf(OpenUnits(d)) :
          Prepares(r, [Sets(NewStatus(d, "asignado")) EXCEPT
                          !.shut = old \X {d}, !.insert = {<<u, d>>}])

Return(r, d) ==
    /\ Registered(d)
    /\ \E old \in AnyOf(OpenUnits(d)) :
          Prepares(r, [Sets(NewStatus(d, "devuelto")) EXCEPT
                          !.org = Value(d, None), !.shut = old \X {d}])

Retire(r, d) ==
    /\ Registered(d)
    /\ Prepares(r, Sets(NewStatus(d, "inactivo")))

\* PATCH /devices/{id} writes the status and the organization it is sent, with
\* no look at the other nor at a unit.
UpdateDevice(r, d, s, o) ==
    /\ Registered(d)
    /\ Leaves(r, [Sets(NewStatus(d, s)) EXCEPT
                     !.org = IF device[d].org = o THEN Nothing ELSE Value(d, o)])
    /\ patched' = patched \cup {d}

-----------------------------------------------------------------------------
(* Units and what is fitted to them, for the customers (units.py,          *)
(* unit_devices.py)                                                        *)

\* Free(o, d): organization o may fit the device d somewhere.
Free(o, d) ==
    /\ device[d].org = o
    /\ device[d].status \in {"entregado", "devuelto"}
    /\ OpenUnits(d) = {}

\* Fits d to u: the historical row of the pair is opened again if there is one.
Fits(u, d, writes) ==
    IF link[<<u, d>>] = "never" THEN [writes EXCEPT !.insert = {<<u, d>>}]
                                ELSE [writes EXCEPT !.reopen = {<<u, d>>}]

\* Ids are generated: no two requests create the same unit.
CreateUnit(r, o, u) ==
    LET row == Value(u, [state |-> "live", org |-> o]) IN
    /\ unit[u].state = "absent"
    /\ \A q \in Requests : tx[q].busy => u \notin DOMAIN tx[q].row
    /\ \/ Prepares(r, [Sets(Nothing) EXCEPT !.row = row])
       \/ \E d \in Devices :
             /\ Free(o, d)
             /\ Prepares(r, [Sets(Value(d, "asignado")) EXCEPT
                                !.row = row, !.insert = {<<u, d>>}])

DeleteUnit(r, o, u) ==
    /\ Owns(o, u)
    /\ unit[u].state = "live"
    /\ Fitted(u) = {}
    /\ Prepares(r, [Sets(Nothing) EXCEPT
                       !.row = Value(u, [state |-> "deleted", org |-> o])])

\* POST /unit-devices: a unit may hold several devices, and deleted_at is not
\* looked at.
CreateUnitDevice(r, o, u, d) ==
    /\ Owns(o, u)
    /\ Free(o, d)
    /\ Prepares(r, Fits(u, d, Sets(Value(d, "asignado"))))

\* Mutant: the device that is replaced keeps its status.
AssignKeepingOld(r, o, u, d) ==
    /\ Owns(o, u)
    /\ unit[u].state = "live"
    /\ Free(o, d)
    /\ \E old \in AnyOf(Fitted(u)) :
          Prepares(r, Fits(u, d, [Sets(Value(d, "asignado")) EXCEPT
                                     !.shut = {u} \X old]))

\* POST /units/{id}/device replaces one of the devices of the unit.
AssignToUnit(r, o, u, d) ==
    /\ Owns(o, u)
    /\ unit[u].state = "live"
    /\ Free(o, d)
    /\ \E old \in AnyOf(Fitted(u)) :
          LET freed == {x \in old : device[x].status # "entregado"}
              status == [x \in freed \cup {d} |->
                            IF x = d THEN "asignado" ELSE "entregado"]
          IN  Prepares(r, Fits(u, d, [Sets(status) EXCEPT !.shut = {u} \X old]))

\* DELETE /unit-devices/{id}: the device is "entregado" again, whatever it was.
DeleteUnitDevice(r, o, u, d) ==
    /\ Owns(o, u)
    /\ link[<<u, d>>] = "open"
    /\ Prepares(r, [Sets(NewStatus(d, "entregado")) EXCEPT !.shut = {<<u, d>>}])

-----------------------------------------------------------------------------
\* The primary key of devices and uq_unit_devices_unit_device.
Conflicts(writes) ==
    \/ \E p \in writes.insert : link[p] # "never"
    \/ \E d \in DOMAIN writes.status : writes.status[d] = "nuevo" /\ Registered(d)

Commit(r) ==
    LET w == tx[r] IN
    /\ w.busy
    /\ ~Conflicts(w)
    /\ device' = [d \in Devices |->
          [status |-> IF d \in DOMAIN w.status THEN w.status[d]
                                               ELSE device[d].status,
           org |-> IF d \in DOMAIN w.org THEN w.org[d] ELSE device[d].org]]
    /\ unit' = [u \in Units |-> IF u \in DOMAIN w.row THEN w.row[u] ELSE unit[u]]
    /\ link' = [p \in Pairs |-> CASE p \in w.insert \cup w.reopen -> "open"
                                  [] p \in w.shut \ (w.insert \cup w.reopen) -> "closed"
                                  [] OTHER -> link[p]]
    /\ tx' = [tx EXCEPT ![r] = [busy |-> FALSE]]
    /\ UNCHANGED patched

\* An IntegrityError (409, or 500 where the endpoint does not catch it), or the
\* end of the process: nothing of the transaction remains.
Abort(r) ==
    /\ tx[r].busy
    /\ tx' = [tx EXCEPT ![r] = [busy |-> FALSE]]
    /\ UNCHANGED <<device, unit, link, patched>>

Read(r) ==
    \/ \E d \in Devices :
          \/ CreateDevice(r, d) \/ Ship(r, d) \/ Deliver(r, d)
          \/ Return(r, d) \/ Retire(r, d)
    \/ \E d \in Devices, o \in Orgs : Prepare(r, d, o)
    \/ \E d \in Devices, u \in Units : AssignByStaff(r, d, u)
    \/ \E o \in Orgs, u \in Units : CreateUnit(r, o, u) \/ DeleteUnit(r, o, u)
    \/ \E o \in Orgs, u \in Units, d \in Devices :
          \/ CreateUnitDevice(r, o, u, d)
          \/ AssignToUnit(r, o, u, d)
          \/ DeleteUnitDevice(r, o, u, d)

Patch(r) == \E d \in Devices, s \in Status, o \in Orgs \cup {None} : UpdateDevice(r, d, s, o)

Next == \E r \in Requests : Read(r) \/ Patch(r) \/ Commit(r) \/ Abort(r)

Spec == Init /\ [][Next]_vars

-----------------------------------------------------------------------------
TypeOK ==
    /\ device \in [Devices -> DeviceRow]
    /\ unit \in [Units -> UnitRow]
    /\ link \in [Pairs -> Link]
    /\ \A r \in Requests : tx[r].busy \in BOOLEAN
    /\ patched \subseteq Devices

\* A device is fitted to one unit at most: what list_my_devices joins and what
\* decides whose vehicle a position belongs to.
OneUnitPerDevice ==
    \A d \in Devices, u, v \in Units :
        link[<<u, d>>] = "open" /\ link[<<v, d>>] = "open" => u = v

\* A device whose status is "asignado" has an open row: nothing closed the row
\* and left the status behind, but where staff wrote the status by hand.
AssignedIsFitted ==
    \A d \in Devices \ patched : device[d].status = "asignado" => OpenUnits(d) # {}

\* A device that is "asignado" is in a unit of its own organization, unless
\* staff assigned it while it had none, or wrote its row by hand.
AssignedWithinOrg ==
    \A d \in Devices \ patched, u \in Units :
        device[d].status = "asignado" /\ link[<<u, d>>] = "open"
            /\ device[d].org # None => unit[u].org = device[d].org

\* The two together: what a customer is told of a device is where it is, however
\* rows of others were overwritten.
StatusIsOfTheUnit == AssignedIsFitted /\ AssignedWithinOrg

=============================================================================
