---------------------------- MODULE RoomLeasing ----------------------------
(***************************************************************************)
(* Rooms, tenants, leases and room repairs: the state that one HTTP        *)
(* request writes in its database transaction and another part of the same *)
(* request corrects after the commit.                                      *)
(*                                                                         *)
(* A request (or a scheduler job) occupies one slot of Reqs.  Most of them *)
(* are one atomic action: everything they read before they write is read   *)
(* FOR UPDATE, so PostgreSQL serialises them on those rows.  The exceptions *)
(* are what this module is about:                                          *)
(*  - SetRoomMaintenance, DeleteRoom, DeleteProperty and CreateRepair read *)
(*    without a lock and write in a later statement of the transaction;    *)
(*    DeactivateTenant is one statement whose snapshot of the leases may   *)
(*    be older than the row it writes.  Each of them is a Read step that   *)
(*    fills txn[q], and a Write step that commits.                         *)
(*  - CreateLease, TerminateLease, ForceTerminateLease, FinalizeCheckout   *)
(*    and ReplaceLease commit the lease and only then run the subscribers  *)
(*    that set the room's and the tenant's status, each in a transaction   *)
(*    of its own: pub[q] is the sequence of subscriber calls still to run. *)
(*    A subscriber error, a cancelled request context or a crash loses the *)
(*    rest of the sequence (LosePublication, of requests in Lossy).         *)
(***************************************************************************)
EXTENDS Naturals, Sequences

CONSTANTS
    Rooms,        \* primary keys of table rooms
    Properties,   \* primary keys of table properties
    PropertyOf,   \* rooms.property_id
    Tenants,      \* primary keys of table tenants
    Leases,       \* the lease ids there are to allocate (a bound)
    Repairs,      \* the repair request ids there are to allocate (a bound)
    Reqs,         \* slots of concurrent requests and jobs
    Lossy,        \* requests whose post-commit publication may be cut short
    None          \* "no transaction is open in this slot"

Transaction ==
    [op : {"SetRoomMaintenance", "DeleteRoom", "CreateRepair"}, on : Rooms]
        \cup [op : {"DeleteProperty"}, on : Properties]
        \cup [op : {"DeactivateTenant"}, on : Tenants]

ASSUME PropertyOfAssumption == PropertyOf \in [Rooms -> Properties]
ASSUME LossyAssumption == Lossy \subseteq Reqs
ASSUME NoneAssumption == None \notin Transaction
ASSUME TenantAssumption == {"vacant", "maintenance", "removed"} \cap Tenants = {}

VARIABLES
    room,             \* room[r]: status and soft-deletion of the row
    propertyDeleted,  \* propertyDeleted[p]: properties.deleted_at is set
    tenant,           \* tenant[t]: tenants.status
    lease,            \* lease[l]: the row, or Absent
    repair,           \* repair[p]: the row, or Absent
    txn,              \* txn[q]: what the open transaction of q has read and will write
    pub,              \* pub[q]: the subscriber calls q has still to make
    lost              \* history: the subscriber calls that will never be made

vars == <<room, propertyDeleted, tenant, lease, repair, txn, pub, lost>>

-----------------------------------------------------------------------------
RoomStatus == {"vacant", "occupied", "maintenance"}
LeaseStatus == {"active", "expired", "terminated", "force_terminated"}
RepairStatus == {"submitted", "assigned", "in_progress", "completed", "cancelled"}

(* The statuses Terminate and ForceTerminate accept: the lease still holds *)
(* its room.                                                               *)
Terminable == {"active", "expired"}
Unfinished == {"submitted", "assigned", "in_progress"}

Absent == [status |-> "absent"]
LeaseRow == [status : LeaseStatus, tenant : Tenants, room : Rooms]
RepairRow == [status : RepairStatus, room : Rooms, deleted : BOOLEAN]

Call == [do : {"OccupyRoom", "ReleaseRoom"}, on : Rooms]
            \cup [do : {"ActivateTenant", "DeactivateTenant"}, on : Tenants]

TypeOK ==
    /\ room \in [Rooms -> [status : RoomStatus, deleted : BOOLEAN]]
    /\ propertyDeleted \in [Properties -> BOOLEAN]
    /\ tenant \in [Tenants -> {"active", "inactive"}]
    /\ lease \in [Leases -> LeaseRow \cup {Absent}]
    /\ repair \in [Repairs -> RepairRow \cup {Absent}]
    /\ txn \in [Reqs -> Transaction \cup {None}]
    /\ pub \in [Reqs -> Seq(Call)]
    /\ lost \subseteq Call

Init ==
    /\ room = [r \in Rooms |-> [status |-> "vacant", deleted |-> FALSE]]
    /\ propertyDeleted = [p \in Properties |-> FALSE]
    /\ tenant \in [Tenants -> {"active", "inactive"}]
    /\ lease = [l \in Leases |-> Absent]
    /\ repair = [p \in Repairs |-> Absent]
    /\ txn = [q \in Reqs |-> None]
    /\ pub = [q \in Reqs |-> <<>>]
    /\ lost = {}

-----------------------------------------------------------------------------
(* Helpers: the rows a query selects, the statements several operations    *)
(* share.                                                                  *)

Free(q) == txn[q] = None /\ pub[q] = <<>>

OpenLeasesIn(r) == {l \in Leases : lease[l].status \in Terminable /\ lease[l].room = r}
OpenLeasesOf(t) == {l \in Leases : lease[l].status \in Terminable /\ lease[l].tenant = t}

(* FindRoomByIDForUpdate joins the room with its property, both live.      *)
Lockable(r) == ~room[r].deleted /\ ~propertyDeleted[PropertyOf[r]]

(* UPDATE rooms SET status = s WHERE id = r AND deleted_at IS NULL.        *)
SetRoomStatus(r, s) ==
    IF room[r].deleted THEN room ELSE [room EXCEPT ![r].status = s]

(* The subscribers of LeaseCreated and of LeaseTerminated, in the order    *)
(* they are registered with the bus.                                       *)
(* Mutation: the room's subscriber is not registered.                      *)
LeaseCreatedTenantOnly(r, t) == << [do |-> "ActivateTenant", on |-> t] >>
LeaseCreated(r, t) ==
    << [do |-> "OccupyRoom", on |-> r], [do |-> "ActivateTenant", on |-> t] >>
LeaseTerminated(r, t) ==
    << [do |-> "ReleaseRoom", on |-> r], [do |-> "DeactivateTenant", on |-> t] >>

-----------------------------------------------------------------------------
(* Leases: each operation is one transaction, then its publication.        *)

CreateLease(q, l, t, r) ==
    /\ Free(q) /\ lease[l] = Absent
    /\ Lockable(r) /\ room[r].status = "vacant"
    /\ lease' = [lease EXCEPT ![l] = [status |-> "active", tenant |-> t, room |-> r]]
    /\ pub' = [pub EXCEPT ![q] = LeaseCreated(r, t)]
    /\ UNCHANGED <<room, propertyDeleted, tenant, repair, txn, lost>>

EndLease(q, l, s) ==
    /\ Free(q) /\ lease[l].status \in Terminable
    /\ lease' = [lease EXCEPT ![l].status = s]
    /\ pub' = [pub EXCEPT ![q] = LeaseTerminated(lease[l].room, lease[l].tenant)]
    /\ UNCHANGED <<room, propertyDeleted, tenant, repair, txn, lost>>

TerminateLease(q, l) == EndLease(q, l, "terminated")
FinalizeCheckout(q, l) == EndLease(q, l, "terminated")
ForceTerminateLease(q, l) == EndLease(q, l, "force_terminated")

(* Mutation: the two events of a replacement in the other order.           *)
ReplaceLeaseCreatedFirst(q, l, m) ==
    /\ Free(q) /\ lease[l].status = "active" /\ lease[m] = Absent
    /\ Lockable(lease[l].room)
    /\ lease' = [lease EXCEPT ![l].status = "terminated", ![m] = lease[l]]
    /\ LET r == lease[l].room
           t == lease[l].tenant
       IN  pub' = [pub EXCEPT ![q] = LeaseCreated(r, t) \o LeaseTerminated(r, t)]
    /\ UNCHANGED <<room, propertyDeleted, tenant, repair, txn, lost>>

(* The successor m takes over tenant and room of l in one transaction; the *)
(* two events are then published one after the other.                      *)
ReplaceLease(q, l, m) ==
    /\ Free(q) /\ lease[l].status = "active" /\ lease[m] = Absent
    /\ Lockable(lease[l].room)
    /\ lease' = [lease EXCEPT ![l].status = "terminated", ![m] = lease[l]]
    /\ LET r == lease[l].room
           t == lease[l].tenant
       IN  pub' = [pub EXCEPT ![q] = LeaseTerminated(r, t) \o LeaseCreated(r, t)]
    /\ UNCHANGED <<room, propertyDeleted, tenant, repair, txn, lost>>

(* The expiry job: "expired" still holds the room.                         *)
MarkLeaseExpired(q, l) ==
    /\ Free(q) /\ lease[l].status = "active"
    /\ lease' = [lease EXCEPT ![l].status = "expired"]
    /\ UNCHANGED <<room, propertyDeleted, tenant, repair, txn, pub, lost>>

-----------------------------------------------------------------------------
(* The subscribers: the first call of pub[q], in a transaction of its own. *)

Next1(q, call) == pub[q] # <<>> /\ Head(pub[q]).do = call /\ txn[q] = None
Done(q) == pub' = [pub EXCEPT ![q] = Tail(pub[q])]

OccupyRoom(q) ==
    /\ Next1(q, "OccupyRoom") /\ Done(q)
    /\ room' = SetRoomStatus(Head(pub[q]).on, "occupied")
    /\ UNCHANGED <<propertyDeleted, tenant, lease, repair, txn, lost>>

ReleaseRoom(q) ==
    /\ Next1(q, "ReleaseRoom") /\ Done(q)
    /\ room' = SetRoomStatus(Head(pub[q]).on, "vacant")
    /\ UNCHANGED <<propertyDeleted, tenant, lease, repair, txn, lost>>

ActivateTenant(q) ==
    /\ Next1(q, "ActivateTenant") /\ Done(q)
    /\ tenant' = [tenant EXCEPT ![Head(pub[q]).on] = "active"]
    /\ UNCHANGED <<room, propertyDeleted, lease, repair, txn, lost>>

(* UPDATE ... WHERE NOT EXISTS (open lease): the subquery sees the leases  *)
(* of the statement's snapshot, and is not evaluated again on newer ones   *)
(* when the tenant's row becomes free to write.                            *)
ReadOpenLeases(q) ==
    /\ Next1(q, "DeactivateTenant")
    /\ LET t == Head(pub[q]).on
       IN  IF OpenLeasesOf(t) = {}
           THEN /\ txn' = [txn EXCEPT ![q] = [op |-> "DeactivateTenant", on |-> t]]
                /\ UNCHANGED pub
           ELSE Done(q) /\ UNCHANGED txn
    /\ UNCHANGED <<room, propertyDeleted, tenant, lease, repair, lost>>

DeactivateTenant(q) ==
    /\ pub[q] # <<>> /\ Head(pub[q]).do = "DeactivateTenant"
    /\ txn[q] = [op |-> "DeactivateTenant", on |-> Head(pub[q]).on]
    /\ tenant' = [tenant EXCEPT ![txn[q].on] = "inactive"]
    /\ txn' = [txn EXCEPT ![q] = None]
    /\ Done(q)
    /\ UNCHANGED <<room, propertyDeleted, lease, repair, lost>>

(* Publish stops at the first error and returns it; nobody retries.        *)
LosePublication(q) ==
    /\ pub[q] # <<>>
    /\ lost' = lost \cup {pub[q][i] : i \in DOMAIN pub[q]}
    /\ pub' = [pub EXCEPT ![q] = <<>>]
    /\ txn' = [txn EXCEPT ![q] = None]
    /\ UNCHANGED <<room, propertyDeleted, tenant, lease, repair>>

-----------------------------------------------------------------------------
(* Rooms and properties: a read without a lock, then the write.            *)

ReadUnlocked(q, op, x) ==
    /\ Free(q)
    /\ txn' = [txn EXCEPT ![q] = [op |-> op, on |-> x]]
    /\ UNCHANGED <<room, propertyDeleted, tenant, lease, repair, pub, lost>>

Writing(q, op) ==
    /\ txn[q] # None /\ txn[q].op = op
    /\ txn' = [txn EXCEPT ![q] = None]

(* EnterMaintenance and EnsureRoomDeletable refuse the same statuses.      *)
ReadRoomForMaintenance(q, r) ==
    ~room[r].deleted /\ room[r].status = "vacant" /\ ReadUnlocked(q, "SetRoomMaintenance", r)

ReadRoomForDeletion(q, r) ==
    ~room[r].deleted /\ room[r].status = "vacant" /\ ReadUnlocked(q, "DeleteRoom", r)

(* Mutation: a property is deletable whatever its rooms' statuses.         *)
ReadOccupiedRoomsUnchecked(q, p) == ~propertyDeleted[p] /\ ReadUnlocked(q, "DeleteProperty", p)

ReadOccupiedRooms(q, p) ==
    /\ ~propertyDeleted[p]
    /\ \A r \in Rooms : PropertyOf[r] = p /\ ~room[r].deleted => room[r].status # "occupied"
    /\ ReadUnlocked(q, "DeleteProperty", p)

(* The repair request and the room's status are written whatever the room  *)
(* has become since it was read; only a deleted room rolls back.           *)
SetRoomMaintenance(q, p) ==
    /\ Writing(q, "SetRoomMaintenance") /\ repair[p] = Absent
    /\ LET r == txn[q].on
       IN  /\ ~room[r].deleted
           /\ repair' = [repair EXCEPT ![p] = [status |-> "submitted", room |-> r, deleted |-> FALSE]]
           /\ room' = SetRoomStatus(r, "maintenance")
    /\ UNCHANGED <<propertyDeleted, tenant, lease, pub, lost>>

DeleteRoom(q) ==
    /\ Writing(q, "DeleteRoom")
    /\ ~room[txn[q].on].deleted
    /\ room' = [room EXCEPT ![txn[q].on].deleted = TRUE]
    /\ UNCHANGED <<propertyDeleted, tenant, lease, repair, pub, lost>>

(* SoftDelete compares the property's version, which no room or lease      *)
(* operation changes.                                                      *)
DeleteProperty(q) ==
    /\ Writing(q, "DeleteProperty")
    /\ ~propertyDeleted[txn[q].on]
    /\ propertyDeleted' = [propertyDeleted EXCEPT ![txn[q].on] = TRUE]
    /\ UNCHANGED <<room, tenant, lease, repair, pub, lost>>

(* The write finds no row, or the connection fails: nothing was written.   *)
Rollback(q) ==
    /\ txn[q] # None /\ pub[q] = <<>>
    /\ txn' = [txn EXCEPT ![q] = None]
    /\ UNCHANGED <<room, propertyDeleted, tenant, lease, repair, pub, lost>>

-----------------------------------------------------------------------------
(* Repair requests: the row is locked, the workflow's last step also       *)
(* restores the room.                                                      *)

ReadRoomForRepair(q, r) == ~room[r].deleted /\ ReadUnlocked(q, "CreateRepair", r)

CreateRepair(q, p) ==
    /\ Writing(q, "CreateRepair") /\ repair[p] = Absent
    /\ repair' = [repair EXCEPT ![p] =
                     [status |-> "submitted", room |-> txn[q].on, deleted |-> FALSE]]
    /\ UNCHANGED <<room, propertyDeleted, tenant, lease, pub, lost>>

Live(p) == repair[p] # Absent /\ ~repair[p].deleted

Advance(q, p, from, to) ==
    /\ Free(q) /\ Live(p) /\ repair[p].status \in from
    /\ repair' = [repair EXCEPT ![p].status = to]
    /\ UNCHANGED <<propertyDeleted, tenant, lease, txn, pub, lost>>

(* After p is finished: a live room in maintenance becomes vacant when no  *)
(* other live repair request of it is unfinished.                          *)
RestoreRoomVacantIfNoActiveRepairs(p) ==
    LET r == repair[p].room
        others == {x \in Repairs \ {p} :
                      Live(x) /\ repair[x].room = r /\ repair[x].status \in Unfinished}
    IN  room' = IF room[r].status = "maintenance" /\ others = {}
                THEN SetRoomStatus(r, "vacant")
                ELSE room

AssignRepair(q, p) == Advance(q, p, {"submitted"}, "assigned") /\ UNCHANGED room
ProgressRepair(q, p) == Advance(q, p, {"assigned"}, "in_progress") /\ UNCHANGED room

(* Mutation: completion leaves the room to the cancellation path.          *)
CompleteRepairOnly(q, p) == Advance(q, p, {"in_progress"}, "completed") /\ UNCHANGED room

CompleteRepair(q, p) ==
    Advance(q, p, {"in_progress"}, "completed") /\ RestoreRoomVacantIfNoActiveRepairs(p)
CancelRepair(q, p) ==
    Advance(q, p, Unfinished, "cancelled") /\ RestoreRoomVacantIfNoActiveRepairs(p)

(* Soft deletion looks neither at the status nor at the room.              *)
DeleteRepair(q, p) ==
    /\ Free(q) /\ Live(p)
    /\ repair' = [repair EXCEPT ![p].deleted = TRUE]
    /\ UNCHANGED <<room, propertyDeleted, tenant, lease, txn, pub, lost>>

-----------------------------------------------------------------------------
LeaseNext(q) ==
    \/ \E l \in Leases, t \in Tenants, r \in Rooms : CreateLease(q, l, t, r)
    \/ \E l \in Leases :
          \/ TerminateLease(q, l) \/ FinalizeCheckout(q, l) \/ ForceTerminateLease(q, l)
          \/ MarkLeaseExpired(q, l)
          \/ \E m \in Leases : ReplaceLease(q, l, m)

PublishNext(q) ==
    \/ OccupyRoom(q) \/ ReleaseRoom(q) \/ ActivateTenant(q)
    \/ ReadOpenLeases(q) \/ DeactivateTenant(q)

RoomNext(q) ==
    \/ \E r \in Rooms : ReadRoomForMaintenance(q, r) \/ ReadRoomForDeletion(q, r)
    \/ \E p \in Properties : ReadOccupiedRooms(q, p)
    \/ \E p \in Repairs : SetRoomMaintenance(q, p)
    \/ DeleteRoom(q) \/ DeleteProperty(q) \/ Rollback(q)

RepairNext(q) ==
    \/ \E r \in Rooms : ReadRoomForRepair(q, r)
    \/ \E p \in Repairs :
        \/ CreateRepair(q, p)
        \/ AssignRepair(q, p) \/ ProgressRepair(q, p) \/ CompleteRepair(q, p)
        \/ CancelRepair(q, p) \/ DeleteRepair(q, p)

Next ==
    \/ \E q \in Reqs : LeaseNext(q) \/ PublishNext(q) \/ RoomNext(q) \/ RepairNext(q)
    \/ \E q \in Lossy : LosePublication(q)

Spec == Init /\ [][Next]_vars

(* The goroutine that committed goes on to call its subscribers, and the   *)
(* one that has read goes on to write or to roll back.  Nothing obliges a  *)
(* user to send a request, so the other actions have no fairness.          *)
Fairness == \A q \in Reqs : WF_vars(PublishNext(q))
FairSpec == Spec /\ Fairness

-----------------------------------------------------------------------------
(* Properties.                                                             *)

Owed(call) == \E q \in Reqs : \E i \in DOMAIN pub[q] : pub[q][i] = call
Occupy(r) == [do |-> "OccupyRoom", on |-> r]
Release(r) == [do |-> "ReleaseRoom", on |-> r]
Activate(t) == [do |-> "ActivateTenant", on |-> t]

(* A live room is in maintenance only while a repair request of that room  *)
(* is unfinished (a soft-deleted one counts: it can never be finished):    *)
(* setting maintenance inserts the request in the same transaction, and    *)
(* finishing the last one restores the room.  Any number of requests.      *)
MaintenanceHasRepair ==
    \A r \in Rooms :
        ~room[r].deleted /\ room[r].status = "maintenance"
            => \E p \in Repairs : /\ repair[p] # Absent
                                  /\ repair[p].room = r
                                  /\ repair[p].status \in Unfinished

(* The tenant of an active or expired lease is active, unless the          *)
(* activation of that tenant is still to run or was lost: deactivation     *)
(* looks for other open leases before it writes.                           *)
TenantFollowsLeases ==
    \A t \in Tenants :
        OpenLeasesOf(t) # {} =>
            tenant[t] = "active" \/ Owed(Activate(t)) \/ Activate(t) \in lost

(* A room is leased by at most one open lease (DR-P02), unless the         *)
(* occupancy call of one of its leases was lost: CreateLease looks only at *)
(* the room's status, which the subscriber sets after the commit.          *)
OneOpenLeasePerRoom ==
    \A r \in Rooms :
        Occupy(r) \in lost \/ \A l, m \in OpenLeasesIn(r) : l = m

(* When no subscriber call on a live room is still to run or was lost, the *)
(* room is occupied exactly when it has an open lease.                     *)
RoomFollowsLeases ==
    \A r \in Rooms :
        \/ room[r].deleted
        \/ \E call \in {Occupy(r), Release(r)} : Owed(call) \/ call \in lost
        \/ (room[r].status = "occupied" <=> OpenLeasesIn(r) # {})

(* Neither an open lease's room nor the property of that room is deleted   *)
(* (DR-P01), unless the occupancy call of the room was lost.               *)
LeasedRoomIsLive ==
    \A r \in Rooms :
        OpenLeasesIn(r) # {} => Lockable(r) \/ Occupy(r) \in lost

(* A room that was let becomes occupied, unless the lease ends first.      *)
LetRoomBecomesOccupied ==
    \A r \in Rooms :
        OpenLeasesIn(r) # {} ~> (room[r].status = "occupied" \/ OpenLeasesIn(r) = {})

-----------------------------------------------------------------------------
(* Who holds a room, read off the leases rather than off rooms.status.     *)
Holder(r) ==
    IF ~Lockable(r) THEN "removed"
    ELSE IF OpenLeasesIn(r) # {} THEN lease[CHOOSE l \in OpenLeasesIn(r) : TRUE].tenant
    ELSE IF room[r].status = "maintenance" THEN "maintenance"
    ELSE "vacant"

Promise == INSTANCE Tenancy WITH
    holder <- [r \in Rooms |-> Holder(r)],
    Vacant <- "vacant", Maintenance <- "maintenance", Removed <- "removed"

(* Every step of the room, lease and repair operations is a step of        *)
(* Tenancy or leaves every room's holder as it was.                        *)
ImplementsTenancy == Promise!Spec

-----------------------------------------------------------------------------
(* The inductive invariant behind the properties of one request at a time. *)

(* The status a room will have when the pending calls have run.            *)
Due(r) ==
    IF Owed(Occupy(r)) THEN "occupied"
    ELSE IF Owed(Release(r)) THEN "vacant"
    ELSE room[r].status

(* A release is always the first pending call, an activation the last.     *)
PublicationOrder ==
    \A q \in Reqs : \A i \in DOMAIN pub[q] :
        /\ pub[q][i].do = "ReleaseRoom" => i = 1
        /\ pub[q][i].do = "ActivateTenant" => i = Len(pub[q])

(* What an open transaction has read is still so.                          *)
ReadsAreCurrent ==
    \A q \in Reqs :
        txn[q] # None =>
            /\ txn[q].op # "DeactivateTenant" => pub[q] = <<>>
            /\ txn[q].op = "DeactivateTenant" => OpenLeasesOf(txn[q].on) = {}
            /\ txn[q].op \in {"SetRoomMaintenance", "DeleteRoom"} =>
                   room[txn[q].on].status = "vacant"
            /\ txn[q].op = "DeleteProperty" =>
                   \A r \in Rooms : PropertyOf[r] = txn[q].on /\ ~room[r].deleted
                                       => room[r].status # "occupied"

(* A let room is live, has one open lease, and is or will be occupied; so  *)
(* is no other, unless its release was lost.                               *)
Occupancy(r) ==
    \/ Occupy(r) \in lost
    \/ /\ OpenLeasesIn(r) # {} => Lockable(r)
       /\ \A l, m \in OpenLeasesIn(r) : l = m
       /\ ~room[r].deleted =>
             /\ OpenLeasesIn(r) # {} => Due(r) = "occupied"
             /\ Due(r) = "occupied" => OpenLeasesIn(r) # {} \/ Release(r) \in lost

SerialInv ==
    /\ PublicationOrder
    /\ ReadsAreCurrent
    /\ TenantFollowsLeases
    /\ \A r \in Rooms : Occupancy(r)
=============================================================================
