------------------------------ MODULE Commands ------------------------------
(***************************************************************************)
(* Commands to devices by SMS, and the SIMs that carry them: the row is    *)
(* committed as "pending" before KORE is called, the SIM is looked up      *)
(* after that commit, and a later request asks KORE what became of it.     *)
(*                                                                         *)
(* The handlers of orders and listings are coroutines of one process: what *)
(* they do between two awaits is one step for one another.  Those of staff *)
(* run in threads and commit at any moment, also between what a listing    *)
(* reads of the cards and what it writes.  The session writes the columns  *)
(* whose value it changed, and no other.  A sid of KORE and the ICCID of   *)
(* its SIM are one.  Two assignments of one SIM at the same time are left  *)
(* out, as is the carrier: every SIM is of KORE.                           *)
(***************************************************************************)
EXTENDS Naturals, Sequences, FiniteSets

CONSTANTS
    Orders,      \* command_id
    Devices, Units,
    Cards,       \* sim_id
    Sims,        \* what KORE has, by ICCID
    Syncs,       \* requests to sync an order
    Listings,    \* requests to sync the SIMs
    Patches,     \* requests of staff that write the SIM of a device
    MaxMoves,    \* bound on what staff change in devices and SIMs
    None

CommandsAssumption == MaxMoves \in Nat /\ None \notin Devices \cup Units \cup Cards \cup Sims

VARIABLES
    place,     \* unit_devices: the unit a device is in
    card,      \* sim_cards, with its profile of KORE
    order,     \* commands
    sending,   \* the requests that create an order
    sms,       \* KORE: the message of an order
    asking,    \* the requests that sync an order
    listing,   \* the requests that sync the SIMs
    patching,  \* the requests of staff that write a SIM
    obeyed,    \* ghost: devices that carried out an order
    moves,     \* changes of staff so far
    doubled    \* history: SIMs that staff wrote on a card while another had it, or
               \* while a listing that had found none was about to make one

vars == <<place, card, order, sending, sms, asking, listing, patching, obeyed, moves, doubled>>

\* profile: the SIM that sim_kore_profiles names.
NoCard == [iccid |-> None, device |-> None, profile |-> None]
NoOrder == [status |-> "none", owner |-> FALSE, device |-> None, unit |-> None, url |-> FALSE]
NoSms == [status |-> "none", sim |-> None]
Idle == [phase |-> "idle"]
Statuses == {"pending", "sent", "delivered", "failed"}    \* check_command_status

Init ==
    /\ place \in [Devices -> Units \cup {None}]
    /\ \A d, e \in Devices : place[d] = place[e] /\ d # e => place[d] = None
    /\ card \in [Cards -> {NoCard} \cup [iccid : Sims, device : Devices, profile : Sims]]
    /\ \A a \in Cards : card[a].profile = card[a].iccid
    /\ \A a, b \in Cards : a # b /\ card[a] # NoCard /\ card[b] # NoCard =>
          card[a].iccid # card[b].iccid /\ card[a].device # card[b].device
    /\ order = [c \in Orders |-> NoOrder]
    /\ sending = [c \in Orders |-> Idle]
    /\ sms = [c \in Orders |-> NoSms]
    /\ asking = [r \in Syncs |-> Idle]
    /\ listing = [r \in Listings |-> Idle]
    /\ patching = [q \in Patches |-> Idle]
    /\ obeyed = {}
    /\ moves = 0
    /\ doubled = {}

-----------------------------------------------------------------------------
(* Creating an order. *)

Created(c, d, u) ==
    /\ order[c] = NoOrder
    /\ order' = [order EXCEPT ![c] = [status |-> "pending", owner |-> u # None,
                                      device |-> d, unit |-> u, url |-> FALSE]]
    /\ sending' = [sending EXCEPT ![c] = [phase |-> "created"]]
    /\ UNCHANGED <<place, card, sms, asking, listing, patching, obeyed, moves>>

\* POST /user-commands, of an owner whose password was good: the device the
\* unit has.
CreateUserCommand(c, u) == \E d \in Devices : place[d] = u /\ Created(c, d, u)

\* POST /commands, of staff, who write the payload themselves.
CreateCommand(c, d) == Created(c, d, None)

SimOf(d) == {card[a].profile : a \in {x \in Cards : card[x].device = d /\ card[x].profile # None}}

\* unified_sim_profiles, after the commit: without a SIM of KORE the order
\* stays as it is, and the owner is answered 400.
Address(c) ==
    /\ sending[c].phase = "created"
    /\ sending' = [sending EXCEPT ![c] =
          IF SimOf(order[c].device) = {} THEN Idle
          ELSE [phase |-> "addressed", sim |-> CHOOSE s \in SimOf(order[c].device) : TRUE]]
    /\ UNCHANGED <<place, card, order, sms, asking, listing, patching, obeyed, moves>>

\* KORE takes the message; the answer may be lost.
SendSms(c) ==
    /\ sending[c].phase = "addressed"
    /\ sms' = [sms EXCEPT ![c] = [status |-> "queued", sim |-> sending[c].sim]]
    /\ \E answer \in {"accepted", "error"} :
          sending' = [sending EXCEPT ![c] = [phase |-> answer]]
    /\ UNCHANGED <<place, card, order, asking, listing, patching, obeyed, moves>>

\* authenticate or send_sms_command fails.
SendFails(c) ==
    /\ sending[c].phase = "addressed"
    /\ sending' = [sending EXCEPT ![c] = [phase |-> "error"]]
    /\ UNCHANGED <<place, card, order, sms, asking, listing, patching, obeyed, moves>>

\* Mutant: sent, whatever KORE said.
RecordedAnyway(o, phase) == [o EXCEPT !.status = "sent", !.url = phase = "accepted"]

\* The second commit; an error stays in the metadata only.
Recorded(o, phase) ==
    IF phase = "accepted" THEN [o EXCEPT !.status = "sent", !.url = TRUE] ELSE o

Record(c) ==
    /\ sending[c].phase \in {"accepted", "error"}
    /\ order' = [order EXCEPT ![c] = Recorded(@, sending[c].phase)]
    /\ sending' = [sending EXCEPT ![c] = Idle]
    /\ UNCHANGED <<place, card, sms, asking, listing, patching, obeyed, moves>>

\* The process dies, with everything it had under way.
Crash ==
    /\ sending' = [c \in Orders |-> Idle]
    /\ asking' = [r \in Syncs |-> Idle]
    /\ listing' = [r \in Listings |-> Idle]
    /\ patching' = [q \in Patches |-> Idle]
    /\ UNCHANGED <<place, card, order, sms, obeyed, moves>>

-----------------------------------------------------------------------------
(* KORE and the devices. *)

\* Mutant: a payload that does not say which device it is for.
PayloadForAnyone(c) == Devices

\* Whom the payload concerns: AT^CMD;<device_id> of _build_command_for_device.
PayloadFor(c) == IF order[c].owner THEN {order[c].device} ELSE Devices

\* A delivered message is obeyed where the SIM is, by a device it concerns.
KoreMoves(c) ==
    /\ \/ sms[c].status = "queued" /\ sms' = [sms EXCEPT ![c].status = "sent"]
          /\ UNCHANGED obeyed
       \/ /\ sms[c].status = "sent"
          /\ \E s \in {"delivered", "failed"} : sms' = [sms EXCEPT ![c].status = s]
          /\ obeyed' = IF sms'[c].status = "delivered"
                       THEN obeyed \cup {<<c, card[a].device>> :
                              a \in {x \in Cards : /\ card[x].iccid = sms[c].sim
                                                   /\ card[x].device \in PayloadFor(c)}}
                       ELSE obeyed
    /\ UNCHANGED <<place, card, order, sending, asking, listing, patching, moves>>

-----------------------------------------------------------------------------
(* Asking KORE what became of an order. *)

Asks(r, c) ==
    /\ asking[r] = Idle
    /\ asking' = [asking EXCEPT ![r] = [phase |-> "asking", order |-> c,
                                        read |-> order[c].status]]
    /\ UNCHANGED <<place, card, order, sending, sms, listing, patching, obeyed, moves>>

\* Of staff, any order whose answer of KORE was kept.
SyncCommand(r, c) == order[c].url /\ Asks(r, c)

\* Of the owner, those of the organization.
SyncUserCommand(r, c) == order[c].owner /\ order[c].url /\ Asks(r, c)

KoreTells(r) ==
    /\ asking[r].phase = "asking"
    /\ asking' = [asking EXCEPT ![r] =
          [phase |-> "told", order |-> @.order, read |-> @.read, answer |-> sms[@.order].status]]
    /\ UNCHANGED <<place, card, order, sending, sms, listing, patching, obeyed, moves>>

\* sync_error, in the metadata: or an answer with no status.
KoreTellsNothing(r) ==
    /\ asking[r].phase = "asking"
    /\ asking' = [asking EXCEPT ![r] = Idle]
    /\ UNCHANGED <<place, card, order, sending, sms, listing, patching, obeyed, moves>>

\* Mutant: the status is written although it is the one that was read.
SyncedAlways(o, a) == IF a.answer \in Statuses THEN [o EXCEPT !.status = a.answer] ELSE o

\* The owner's sync takes the four statuses; the check of the table refuses
\* what else the staff's would write, and the request with it.
Synced(o, a) ==
    IF a.answer \in Statuses /\ a.answer # a.read THEN [o EXCEPT !.status = a.answer] ELSE o

SyncSaves(r) ==
    /\ asking[r].phase = "told"
    /\ order' = [order EXCEPT ![asking[r].order] = Synced(@, asking[r])]
    /\ asking' = [asking EXCEPT ![r] = Idle]
    /\ UNCHANGED <<place, card, sending, sms, listing, patching, obeyed, moves>>

-----------------------------------------------------------------------------
(* The SIMs. *)

Moves == moves < MaxMoves /\ moves' = moves + 1

\* Fleet: a device goes from one unit to another.
Refit(d, u) ==
    /\ Moves
    /\ \A e \in Devices : place[e] # u
    /\ place' = [place EXCEPT ![d] = u]
    /\ UNCHANGED <<card, order, sending, sms, asking, listing, patching, obeyed>>

\* unique_active_sim_per_device.
AssignSim(a, d) ==
    /\ Moves
    /\ card[a] # NoCard /\ card[a].device = None
    /\ \A b \in Cards : card[b].device # d
    /\ card' = [card EXCEPT ![a].device = d]
    /\ UNCHANGED <<place, order, sending, sms, asking, listing, patching, obeyed>>

UnassignSim(a) ==
    /\ Moves
    /\ card[a].device # None
    /\ card' = [card EXCEPT ![a].device = None]
    /\ UNCHANGED <<place, order, sending, sms, asking, listing, patching, obeyed>>

Local(iccid) == {a \in Cards : card[a].iccid = iccid}

\* list_sims fetches page after page; a SIM may be on two of them when the
\* pages shift in between.
ListSims(r) ==
    /\ listing[r] = Idle
    /\ listing' = [listing EXCEPT ![r] = [phase |-> "listing", sims |-> <<>>, began |-> card]]
    /\ UNCHANGED <<place, card, order, sending, sms, asking, patching, obeyed, moves>>

NextPage(r, s) ==
    /\ listing[r].phase = "listing" /\ Len(listing[r].sims) < 2
    /\ listing' = [listing EXCEPT ![r].sims = Append(@, s)]
    /\ UNCHANGED <<place, card, order, sending, sms, asking, patching, obeyed, moves>>

\* KORE fails, or the session: a profile that somebody else wrote meanwhile.
ListFails(r) ==
    /\ listing[r] # Idle
    /\ listing' = [listing EXCEPT ![r] = Idle]
    /\ UNCHANGED <<place, card, order, sending, sms, asking, patching, obeyed, moves>>

Listed(r) == {listing[r].sims[i] : i \in 1 .. Len(listing[r].sims)}

\* Mutant: the cards are read before the listing is asked for.
MissingBefore(r) == {s \in Listed(r) : \A a \in Cards : listing[r].began[a].iccid # s}

\* The SIMs with no card; sim_card_by_iccid makes one of each.
Missing(r) == {s \in Listed(r) : Local(s) = {}}

\* sync_kore_sims, after the listing: one card of each SIM, or none; kept are
\* those with the profile they should have.
ReadCards(r) ==
    /\ listing[r].phase = "listing"
    /\ \E found \in [Listed(r) -> Cards \cup {None}] :
          /\ \A s \in Listed(r) : IF s \in Missing(r) THEN found[s] = None ELSE found[s] \in Local(s)
          /\ listing' = [listing EXCEPT ![r] =
                [phase |-> "read", found |-> found,
                 kept |-> {s \in Listed(r) : found[s] # None /\ card[found[s]].profile = s}]]
    /\ UNCHANGED <<place, card, order, sending, sms, asking, patching, obeyed, moves>>

\* Its commit: cards, of no device, for what was missing, and a profile for the
\* others.  Profiles are read after the cards, so one that was kept may have
\* changed by then and be written too.
SaveSims(r) ==
    /\ listing[r].phase = "read"
    /\ LET found == listing[r].found  listed == DOMAIN found IN
       \E at \in [listed -> Cards], written \in SUBSET listed :
          /\ \A s \in listed : IF found[s] = None THEN card[at[s]] = NoCard ELSE at[s] = found[s]
          /\ \A s, z \in listed : at[s] = at[z] => s = z
          /\ listed \ listing[r].kept \subseteq written
          /\ card' = [a \in Cards |->
                IF \A s \in listed : at[s] # a THEN card[a]
                ELSE LET s == CHOOSE z \in listed : at[z] = a
                     IN  [iccid |-> IF found[s] = None THEN s ELSE card[a].iccid,
                          device |-> card[a].device,
                          profile |-> IF s \in written THEN s ELSE card[a].profile]]
    /\ listing' = [listing EXCEPT ![r] = Idle]
    /\ UNCHANGED <<place, order, sending, sms, asking, patching, obeyed, moves>>

\* PATCH /devices/{id} reads the card of the device; a new one needs the ICCID.
\* It holds what it will change.
ReadSim(q, d, iccid, kore) ==
    /\ patching[q] = Idle
    /\ Moves
    /\ iccid # None \/ kore # None
    /\ \E a \in Cards \cup {None} :
          /\ IF \E x \in Cards : card[x].device = d THEN a # None /\ card[a].device = d
             ELSE a = None /\ iccid # None
          /\ patching' = [patching EXCEPT ![q] =
                [phase |-> "read", device |-> d, card |-> a, kore |-> kore,
                 iccid |-> IF a # None /\ card[a].iccid = iccid THEN None ELSE iccid,
                 kept |-> a # None /\ card[a].profile = kore]]
    /\ UNCHANGED <<place, card, order, sending, sms, asking, listing, obeyed>>

\* What the PATCH p may leave of the card old: it reads the profile after the
\* card.
Patched(p, old) ==
    [iccid : {IF p.iccid = None THEN old.iccid ELSE p.iccid},
     device : {IF p.card = None THEN p.device ELSE old.device},
     profile : (IF p.kore = None \/ p.kept THEN {old.profile} ELSE {}) \cup ({p.kore} \ {None})]

\* A listing has read that the SIM has no card, and is to make one.
AboutToMake(r, s) ==
    listing[r].phase = "read" /\ s \in DOMAIN listing[r].found /\ listing[r].found[s] = None

\* Its commit; nothing looks for another card of the SIM.  POST /devices does
\* the same for the device it makes.
UpdateSim(q) ==
    /\ patching[q].phase = "read"
    /\ LET p == patching[q] IN
       \E a \in Cards :
          /\ IF p.card # None THEN a = p.card
             ELSE card[a] = NoCard /\ \A x \in Cards : card[x].device # p.device
          /\ \E new \in Patched(p, card[a]) : card' = [card EXCEPT ![a] = new]
          /\ doubled' = doubled \cup {s \in {p.iccid} \ {None} :
                \/ Local(s) \ {a} # {}
                \/ \E r \in Listings : AboutToMake(r, s)}
    /\ patching' = [patching EXCEPT ![q] = Idle]
    /\ UNCHANGED <<place, order, sending, sms, asking, listing, obeyed, moves>>

\* The device has a card by now, or the PATCH fails otherwise.
PatchFails(q) ==
    /\ patching[q] # Idle
    /\ patching' = [patching EXCEPT ![q] = Idle]
    /\ UNCHANGED <<place, card, order, sending, sms, asking, listing, obeyed, moves>>

\* A coroutine is between what it reads and its commit, with no await.
Saving == \E r \in Listings : listing[r].phase = "read"

\* The steps of coroutines.
Loop ==
    \/ \E c \in Orders :
          \/ \E u \in Units : CreateUserCommand(c, u)
          \/ \E d \in Devices : CreateCommand(c, d)
          \/ Address(c) \/ Record(c)
          \/ \E r \in Syncs : SyncCommand(r, c) \/ SyncUserCommand(r, c)
    \/ \E r \in Syncs : SyncSaves(r)
    \/ \E r \in Listings : ListSims(r) \/ ReadCards(r) \/ \E s \in Sims : NextPage(r, s)

\* KORE, the threads of staff, and the end of what a coroutine is at.
Others ==
    \/ \E c \in Orders : SendSms(c) \/ SendFails(c) \/ KoreMoves(c)
    \/ \E r \in Syncs : KoreTells(r) \/ KoreTellsNothing(r)
    \/ \E r \in Listings : ListFails(r) \/ SaveSims(r)
    \/ \E d \in Devices, u \in Units : Refit(d, u)
    \/ \E a \in Cards : UnassignSim(a) \/ \E d \in Devices : AssignSim(a, d)
    \/ \E q \in Patches :
          PatchFails(q) \/ \E d \in Devices, s, k \in Sims \cup {None} : ReadSim(q, d, s, k)
    \/ Crash

Next ==
    \/ Loop /\ ~ Saving /\ UNCHANGED doubled
    \/ Others /\ UNCHANGED doubled
    \/ \E q \in Patches : UpdateSim(q)

Spec == Init /\ [][Next]_vars

-----------------------------------------------------------------------------
\* An order is shown as sent only if KORE took its message, and as delivered
\* or failed only if that is what KORE says.
StatusIsKores ==
    \A c \in Orders :
        /\ order[c].status = "sent" => sms[c] # NoSms
        /\ order[c].status \in {"delivered", "failed"} => sms[c].status = order[c].status

\* A step of the model that does not show an order KORE has settled as under
\* way again.
KeepsSettled ==
    \A c \in Orders :
        order[c].status \in {"delivered", "failed"} => order'[c].status = order[c].status

\* What an owner orders is carried out by the device the unit had when it was
\* ordered, or by nobody, whatever SIM went where while KORE was called.
OnlyTheNamedObeys ==
    \A o \in obeyed : order[o[1]].owner => o[2] = order[o[1]].device

\* "El ICCID es el identificador unico de la tarjeta SIM" (models/sim_card.py):
\* no two cards for one SIM, whatever listings overlap or repeat it and
\* whatever staff write meanwhile, but where they wrote it on a second card
\* themselves, or between what a listing read and the card it made.
OneCardPerSim == \A s \in Sims \ doubled : Cardinality(Local(s)) <= 1

=============================================================================
