------------------------ MODULE RoomLeasing_proofs ------------------------
(* Proofs about RoomLeasing, for every choice of its constants.            *)
EXTENDS RoomOverlaps, SequenceTheorems, TLAPS

(***************************************************************************)
(* Type correctness.                                                       *)
(***************************************************************************)

(* The calls a commit leaves to its subscribers are calls on the room and  *)
(* the tenant of its lease.                                                *)
LEMMA PublishedCalls ==
    ASSUME NEW r \in Rooms, NEW t \in Tenants
    PROVE  /\ LeaseCreated(r, t) \in Seq(Call)
           /\ LeaseTerminated(r, t) \in Seq(Call)
           /\ LeaseTerminated(r, t) \o LeaseCreated(r, t) \in Seq(Call)
BY DEF LeaseCreated, LeaseTerminated, Call

(* A row with a terminable status is a lease row.                           *)
LEMMA LeaseRowOfOpen ==
    ASSUME TypeOK, NEW l \in Leases, lease[l].status \in Terminable
    PROVE  lease[l] \in LeaseRow
BY DEF TypeOK, Absent, Terminable

(* A repair that is not absent is a repair row.                             *)
LEMMA RepairRowOfLive ==
    ASSUME TypeOK, NEW p \in Repairs, repair[p] # Absent
    PROVE  repair[p] \in RepairRow
BY DEF TypeOK

(* SetRoomStatus keeps the rows well formed.                                *)
LEMMA RoomStatusSet ==
    ASSUME TypeOK, NEW r \in Rooms, NEW s \in RoomStatus
    PROVE  SetRoomStatus(r, s) \in [Rooms -> [status : RoomStatus, deleted : BOOLEAN]]
BY DEF TypeOK, SetRoomStatus

(* What a subscriber call is about.                                        *)
LEMMA CallTarget ==
    ASSUME NEW c \in Call
    PROVE  /\ c.do \in {"OccupyRoom", "ReleaseRoom"} => c.on \in Rooms
           /\ c.do \in {"ActivateTenant", "DeactivateTenant"} => c.on \in Tenants
BY DEF Call

(* An unlocked read only opens a transaction in its slot.                  *)
LEMMA ReadUnlockedType ==
    ASSUME TypeOK, NEW q \in Reqs, NEW op, NEW x, ReadUnlocked(q, op, x),
           [op |-> op, on |-> x] \in Transaction
    PROVE  TypeOK'
BY DEF ReadUnlocked, TypeOK

(* No operation stores anything but well-formed rows, open transactions    *)
(* and pending calls.                                                      *)
THEOREM TypeCorrect == Spec => []TypeOK
<1>1. Init => TypeOK
  BY DEF Init, TypeOK, RoomStatus, Absent
<1>2. TypeOK /\ [Next]_vars => TypeOK'
  <2> SUFFICES ASSUME TypeOK, [Next]_vars PROVE TypeOK'
    OBVIOUS
  <2>1. CASE UNCHANGED vars
    BY <2>1 DEF vars, TypeOK
  <2> SUFFICES ASSUME NEW q \in Reqs,
                      LeaseNext(q) \/ PublishNext(q) \/ LosePublication(q)
                        \/ RoomNext(q) \/ RepairNext(q)
               PROVE  TypeOK'
    BY <2>1, LossyAssumption DEF Next
  <2>2. CASE LeaseNext(q)
    <3>1. ASSUME NEW l \in Leases, NEW t \in Tenants, NEW r \in Rooms, CreateLease(q, l, t, r)
          PROVE  TypeOK'
      BY <3>1, PublishedCalls DEF CreateLease, TypeOK, LeaseRow, LeaseStatus
    <3>2. ASSUME NEW l \in Leases, NEW s \in LeaseStatus, EndLease(q, l, s)
          PROVE  TypeOK'
      <4>1. lease[l] \in LeaseRow
        BY <3>2, LeaseRowOfOpen DEF EndLease
      <4>2. [lease[l] EXCEPT !.status = s] \in LeaseRow
        BY <4>1, <3>2 DEF LeaseRow
      <4>3. lease' \in [Leases -> LeaseRow \cup {Absent}]
        BY <3>2, <4>2 DEF EndLease, TypeOK
      <4>4. pub' \in [Reqs -> Seq(Call)]
        BY <3>2, <4>1, PublishedCalls DEF EndLease, TypeOK, LeaseRow
      <4> QED
        BY <3>2, <4>3, <4>4 DEF EndLease, TypeOK
    <3>3. ASSUME NEW l \in Leases, MarkLeaseExpired(q, l)
          PROVE  TypeOK'
      <4>1. lease[l] \in LeaseRow
        BY <3>3, LeaseRowOfOpen DEF MarkLeaseExpired, Terminable
      <4>2. [lease[l] EXCEPT !.status = "expired"] \in LeaseRow
        BY <4>1 DEF LeaseRow, LeaseStatus
      <4> QED
        BY <3>3, <4>2 DEF MarkLeaseExpired, TypeOK
    <3>4. ASSUME NEW l \in Leases, NEW m \in Leases, ReplaceLease(q, l, m)
          PROVE  TypeOK'
      <4>1. lease[l] \in LeaseRow
        BY <3>4, LeaseRowOfOpen DEF ReplaceLease, Terminable
      <4>2. [lease[l] EXCEPT !.status = "terminated"] \in LeaseRow
        BY <4>1 DEF LeaseRow, LeaseStatus
      <4>3. lease' \in [Leases -> LeaseRow \cup {Absent}]
        BY <3>4, <4>1, <4>2 DEF ReplaceLease, TypeOK
      <4>4. pub' \in [Reqs -> Seq(Call)]
        BY <3>4, <4>1, PublishedCalls DEF ReplaceLease, TypeOK, LeaseRow
      <4> QED
        BY <3>4, <4>3, <4>4 DEF ReplaceLease, TypeOK
    <3> QED
      BY <2>2, <3>1, <3>2, <3>3, <3>4
         DEF LeaseNext, TerminateLease, FinalizeCheckout, ForceTerminateLease, LeaseStatus
  <2>3. CASE PublishNext(q)
    <3>1. ASSUME pub[q] # <<>>
          PROVE  Head(pub[q]) \in Call /\ Tail(pub[q]) \in Seq(Call)
      BY <3>1 DEF TypeOK
    <3>2. CASE OccupyRoom(q)
      <4>1. Head(pub[q]).on \in Rooms
        BY <3>1, <3>2, CallTarget DEF OccupyRoom, Next1
      <4> QED
        BY <3>1, <3>2, <4>1, RoomStatusSet DEF OccupyRoom, Next1, Done, TypeOK, RoomStatus
    <3>3. CASE ReleaseRoom(q)
      <4>1. Head(pub[q]).on \in Rooms
        BY <3>1, <3>3, CallTarget DEF ReleaseRoom, Next1
      <4> QED
        BY <3>1, <3>3, <4>1, RoomStatusSet DEF ReleaseRoom, Next1, Done, TypeOK, RoomStatus
    <3>4. CASE ActivateTenant(q)
      BY <3>1, <3>4 DEF ActivateTenant, Next1, Done, TypeOK
    <3>5. CASE ReadOpenLeases(q)
      <4>1. Head(pub[q]).on \in Tenants
        BY <3>1, <3>5, CallTarget DEF ReadOpenLeases, Next1
      <4>2. [op |-> "DeactivateTenant", on |-> Head(pub[q]).on] \in Transaction
        BY <4>1 DEF Transaction
      <4>3. pub' \in [Reqs -> Seq(Call)] /\ txn' \in [Reqs -> Transaction \cup {None}]
        BY <3>1, <3>5, <4>2 DEF ReadOpenLeases, Next1, Done, TypeOK
      <4> QED
        BY <3>5, <4>3 DEF ReadOpenLeases, TypeOK
    <3>6. CASE DeactivateTenant(q)
      BY <3>1, <3>6 DEF DeactivateTenant, Done, TypeOK, Transaction
    <3> QED
      BY <2>3, <3>2, <3>3, <3>4, <3>5, <3>6 DEF PublishNext
  <2>4. CASE LosePublication(q)
    BY <2>4 DEF LosePublication, TypeOK
  <2>5. CASE RoomNext(q)
    <3>1. ASSUME NEW r \in Rooms, ReadRoomForMaintenance(q, r) \/ ReadRoomForDeletion(q, r)
          PROVE  TypeOK'
      BY <3>1, ReadUnlockedType DEF ReadRoomForMaintenance, ReadRoomForDeletion, Transaction
    <3>2. ASSUME NEW p \in Properties, ReadOccupiedRooms(q, p)
          PROVE  TypeOK'
      BY <3>2, ReadUnlockedType DEF ReadOccupiedRooms, Transaction
    <3>3. ASSUME NEW p \in Repairs, SetRoomMaintenance(q, p)
          PROVE  TypeOK'
      <4>1. txn[q].on \in Rooms
        BY <3>3 DEF SetRoomMaintenance, Writing, TypeOK, Transaction
      <4> QED
        BY <3>3, <4>1, RoomStatusSet
           DEF SetRoomMaintenance, Writing, TypeOK, RepairRow, RepairStatus, RoomStatus
    <3>4. CASE DeleteRoom(q)
      BY <3>4 DEF DeleteRoom, Writing, TypeOK
    <3>5. CASE DeleteProperty(q)
      BY <3>5 DEF DeleteProperty, Writing, TypeOK
    <3>6. CASE Rollback(q)
      BY <3>6 DEF Rollback, TypeOK
    <3> QED
      BY <2>5, <3>1, <3>2, <3>3, <3>4, <3>5, <3>6 DEF RoomNext
  <2>6. CASE RepairNext(q)
    <3>1. ASSUME NEW r \in Rooms, ReadRoomForRepair(q, r)
          PROVE  TypeOK'
      BY <3>1, ReadUnlockedType DEF ReadRoomForRepair, Transaction
    <3>2. ASSUME NEW p \in Repairs, CreateRepair(q, p)
          PROVE  TypeOK'
      BY <3>2 DEF CreateRepair, Writing, TypeOK, Transaction, RepairRow, RepairStatus
    <3>3. ASSUME NEW p \in Repairs, NEW from, NEW to \in RepairStatus, Advance(q, p, from, to),
                 UNCHANGED room \/ RestoreRoomVacantIfNoActiveRepairs(p)
          PROVE  TypeOK'
      <4>1. repair[p] \in RepairRow
        BY <3>3, RepairRowOfLive DEF Advance, Live
      <4>2. [repair[p] EXCEPT !.status = to] \in RepairRow
        BY <3>3, <4>1 DEF RepairRow
      <4>3. repair' \in [Repairs -> RepairRow \cup {Absent}]
        BY <3>3, <4>2 DEF Advance, TypeOK
      <4>4. room' \in [Rooms -> [status : RoomStatus, deleted : BOOLEAN]]
        BY <3>3, <4>1, RoomStatusSet
           DEF RestoreRoomVacantIfNoActiveRepairs, TypeOK, RepairRow, RoomStatus
      <4> QED
        BY <3>3, <4>3, <4>4 DEF Advance, TypeOK
    <3>4. ASSUME NEW p \in Repairs, DeleteRepair(q, p)
          PROVE  TypeOK'
      <4>1. repair[p] \in RepairRow
        BY <3>4, RepairRowOfLive DEF DeleteRepair, Live
      <4>2. [repair[p] EXCEPT !.deleted = TRUE] \in RepairRow
        BY <4>1 DEF RepairRow
      <4> QED
        BY <3>4, <4>2 DEF DeleteRepair, TypeOK
    <3> QED
      BY <2>6, <3>1, <3>2, <3>3, <3>4
         DEF RepairNext, AssignRepair, ProgressRepair, CompleteRepair, CancelRepair, RepairStatus
  <2> QED
    BY <2>2, <2>3, <2>4, <2>5, <2>6
<1> QED
  BY <1>1, <1>2, PTL DEF Spec

(***************************************************************************)
(* A room in maintenance has an unfinished repair request.                 *)
(***************************************************************************)

(* Storing "vacant" or "occupied" in a room, or leaving the rooms alone,   *)
(* cannot disturb the invariant as long as the unfinished requests stay.   *)
LEMMA MaintenanceKept ==
    ASSUME TypeOK, MaintenanceHasRepair,
           \A r \in Rooms : ~room'[r].deleted /\ room'[r].status = "maintenance"
                               => ~room[r].deleted /\ room[r].status = "maintenance",
           \A p \in Repairs : repair[p] # Absent /\ repair[p].status \in Unfinished
                               => /\ repair'[p] # Absent
                                  /\ repair'[p].room = repair[p].room
                                  /\ repair'[p].status \in Unfinished
    PROVE  MaintenanceHasRepair'
BY DEF MaintenanceHasRepair

(* What SetRoomStatus does to each room.                                    *)
LEMMA StatusSet ==
    ASSUME TypeOK, NEW r \in Rooms, NEW s \in {"vacant", "occupied"},
           NEW x \in Rooms, room' = SetRoomStatus(r, s),
           ~room'[x].deleted, room'[x].status = "maintenance"
    PROVE  x # r /\ ~room[x].deleted /\ room[x].status = "maintenance"
BY DEF TypeOK, SetRoomStatus

(* Whatever the interleaving of requests, and whatever publications are    *)
(* lost: a live room in maintenance has an unfinished repair request.      *)
THEOREM MaintenanceRepaired == Spec => []MaintenanceHasRepair
<1>1. Init => MaintenanceHasRepair
  BY DEF Init, MaintenanceHasRepair
<1>2. TypeOK /\ MaintenanceHasRepair /\ [Next]_vars => MaintenanceHasRepair'
  <2> SUFFICES ASSUME TypeOK, MaintenanceHasRepair, [Next]_vars
               PROVE  MaintenanceHasRepair'
    OBVIOUS
  <2>1. CASE UNCHANGED <<room, repair>>
    BY <2>1, MaintenanceKept
  <2>2. ASSUME NEW q \in Reqs, OccupyRoom(q) \/ ReleaseRoom(q)
        PROVE  MaintenanceHasRepair'
    <3>1. Head(pub[q]).on \in Rooms
      <4>1. Head(pub[q]) \in Call
        BY <2>2 DEF OccupyRoom, ReleaseRoom, Next1, TypeOK
      <4> QED
        BY <2>2, <4>1, CallTarget DEF OccupyRoom, ReleaseRoom, Next1
    <3>2. \A x \in Rooms : ~room'[x].deleted /\ room'[x].status = "maintenance"
                            => ~room[x].deleted /\ room[x].status = "maintenance"
      BY <2>2, <3>1, StatusSet DEF OccupyRoom, ReleaseRoom
    <3> QED
      BY <2>2, <3>2, MaintenanceKept DEF OccupyRoom, ReleaseRoom
  <2>3. ASSUME NEW q \in Reqs, NEW p \in Repairs, SetRoomMaintenance(q, p)
        PROVE  MaintenanceHasRepair'
    <3>1. txn[q].on \in Rooms
      BY <2>3 DEF SetRoomMaintenance, Writing, TypeOK, Transaction
    <3>2. /\ repair[p] = Absent
          /\ repair' = [repair EXCEPT ![p] =
                          [status |-> "submitted", room |-> txn[q].on, deleted |-> FALSE]]
          /\ room' = [room EXCEPT ![txn[q].on].status = "maintenance"]
      BY <2>3 DEF SetRoomMaintenance, SetRoomStatus
    <3> SUFFICES ASSUME NEW r \in Rooms,
                        ~room'[r].deleted, room'[r].status = "maintenance"
                 PROVE  \E x \in Repairs : /\ repair'[x] # Absent
                                           /\ repair'[x].room = r
                                           /\ repair'[x].status \in Unfinished
      BY DEF MaintenanceHasRepair
    <3>3. CASE r = txn[q].on
      <4>1. repair'[p] = [status |-> "submitted", room |-> r, deleted |-> FALSE]
        BY <3>2, <3>3 DEF TypeOK
      <4> QED
        BY <4>1 DEF Absent, Unfinished
    <3>4. CASE r # txn[q].on
      <4>1. ~room[r].deleted /\ room[r].status = "maintenance"
        BY <3>1, <3>2, <3>4 DEF TypeOK
      <4>2. PICK x \in Repairs : /\ repair[x] # Absent
                                 /\ repair[x].room = r
                                 /\ repair[x].status \in Unfinished
        BY <4>1 DEF MaintenanceHasRepair
      <4>3. repair'[x] = repair[x]
        BY <3>2, <4>2 DEF TypeOK
      <4> QED
        BY <4>2, <4>3
    <3> QED
      BY <3>3, <3>4
  <2>4. ASSUME NEW q \in Reqs, DeleteRoom(q)
        PROVE  MaintenanceHasRepair'
    BY <2>4, MaintenanceKept DEF DeleteRoom, TypeOK
  <2>5. ASSUME NEW q \in Reqs, NEW p \in Repairs, CreateRepair(q, p)
        PROVE  MaintenanceHasRepair'
    BY <2>5, MaintenanceKept DEF CreateRepair, TypeOK
  <2>6. ASSUME NEW q \in Reqs, NEW p \in Repairs,
               AssignRepair(q, p) \/ ProgressRepair(q, p) \/ DeleteRepair(q, p)
        PROVE  MaintenanceHasRepair'
    <3>1. repair[p] \in RepairRow
      BY <2>6, RepairRowOfLive DEF AssignRepair, ProgressRepair, DeleteRepair, Advance, Live
    <3>2. /\ repair'[p] # Absent
          /\ repair'[p].room = repair[p].room
          /\ repair[p].status \in Unfinished => repair'[p].status \in Unfinished
      BY <2>6, <3>1
         DEF AssignRepair, ProgressRepair, DeleteRepair, Advance, TypeOK, RepairRow, Absent,
             RepairStatus, Unfinished
    <3>3. room' = room /\ \A x \in Repairs : x # p => repair'[x] = repair[x]
      BY <2>6 DEF AssignRepair, ProgressRepair, DeleteRepair, Advance, TypeOK
    <3> QED
      BY <3>2, <3>3, MaintenanceKept
  <2>7. ASSUME NEW q \in Reqs, NEW p \in Repairs, CompleteRepair(q, p) \/ CancelRepair(q, p)
        PROVE  MaintenanceHasRepair'
    <3>1. repair[p] \in RepairRow
      BY <2>7, RepairRowOfLive DEF CompleteRepair, CancelRepair, Advance, Live
    <3>2. \A x \in Repairs : x # p => repair'[x] = repair[x]
      BY <2>7 DEF CompleteRepair, CancelRepair, Advance, TypeOK
    <3>3. RestoreRoomVacantIfNoActiveRepairs(p)
      BY <2>7 DEF CompleteRepair, CancelRepair
    <3> DEFINE r == repair[p].room
    <3>4. r \in Rooms
      BY <3>1 DEF RepairRow
    <3> SUFFICES ASSUME NEW y \in Rooms,
                        ~room'[y].deleted, room'[y].status = "maintenance"
                 PROVE  \E x \in Repairs : /\ repair'[x] # Absent
                                           /\ repair'[x].room = y
                                           /\ repair'[x].status \in Unfinished
      BY DEF MaintenanceHasRepair
    <3>5. ~room[y].deleted /\ room[y].status = "maintenance"
      BY <3>3, <3>4, StatusSet DEF RestoreRoomVacantIfNoActiveRepairs
    <3>6. CASE y # r
      BY <3>2, <3>5, <3>6 DEF MaintenanceHasRepair
    <3>7. CASE y = r
      <4> DEFINE others == {x \in Repairs \ {p} :
                              Live(x) /\ repair[x].room = r /\ repair[x].status \in Unfinished}
      <4>1. others # {}
        <5> SUFFICES ASSUME others = {} PROVE FALSE
          OBVIOUS
        <5>1. room' = SetRoomStatus(r, "vacant")
          BY <3>3, <3>5, <3>7 DEF RestoreRoomVacantIfNoActiveRepairs
        <5> QED
          BY <5>1, <3>4, <3>7, StatusSet
      <4>2. PICK x \in others : TRUE
        BY <4>1
      <4>3. /\ x \in Repairs /\ x # p
            /\ Live(x) /\ repair[x].room = r /\ repair[x].status \in Unfinished
        BY <4>2
      <4> QED
        BY <4>3, <3>2, <3>7 DEF Live
    <3> QED
      BY <3>6, <3>7
  <2>8. ASSUME NEW q \in Reqs,
               LeaseNext(q) \/ PublishNext(q) \/ LosePublication(q)
                 \/ RoomNext(q) \/ RepairNext(q)
        PROVE  MaintenanceHasRepair'
    <3>1. CASE LeaseNext(q)
      BY <3>1, <2>1 DEF LeaseNext, CreateLease, TerminateLease, FinalizeCheckout,
                        ForceTerminateLease, EndLease, MarkLeaseExpired, ReplaceLease
    <3>2. CASE PublishNext(q)
      BY <3>2, <2>1, <2>2 DEF PublishNext, ActivateTenant, ReadOpenLeases, DeactivateTenant
    <3>3. CASE LosePublication(q)
      BY <3>3, <2>1 DEF LosePublication
    <3>4. CASE RoomNext(q)
      BY <3>4, <2>1, <2>3, <2>4
         DEF RoomNext, ReadRoomForMaintenance, ReadRoomForDeletion, ReadOccupiedRooms,
             ReadUnlocked, DeleteProperty, Rollback
    <3>5. CASE RepairNext(q)
      BY <3>5, <2>1, <2>5, <2>6, <2>7 DEF RepairNext, ReadRoomForRepair, ReadUnlocked
    <3> QED
      BY <2>8, <3>1, <3>2, <3>3, <3>4, <3>5
  <2>9. CASE UNCHANGED vars
    BY <2>9, <2>1 DEF vars
  <2> QED
    BY <2>8, <2>9, LossyAssumption DEF Next
<1> QED
  BY <1>1, <1>2, TypeCorrect, PTL DEF Spec

(***************************************************************************)
(* What RoomLeasing guarantees as long as no request has begun while       *)
(* another was in progress, whatever calls were lost: the occupancy rules, *)
(* and Tenancy room by room.  Any number of slots, rooms, properties,      *)
(* tenants, leases and repairs.                                            *)
(***************************************************************************)

(* Nobody but q has a transaction or a publication in progress.            *)
Alone(q) == \A a \in Reqs \ {q} : Free(a)

(***************************************************************************)
(* Pending calls.                                                          *)
(***************************************************************************)

(* A call is in a sequence when it is its head or is in its tail.           *)
LEMMA HeadAndTail ==
    ASSUME NEW S, NEW s \in Seq(S), s # <<>>, NEW c
    PROVE  (\E i \in DOMAIN s : s[i] = c)
              <=> (c = Head(s) \/ \E i \in DOMAIN Tail(s) : Tail(s)[i] = c)
<1>1. Len(s) \in Nat /\ Len(s) > 0 /\ DOMAIN s = 1 .. Len(s) /\ Head(s) = s[1]
  OBVIOUS
<1>2. DOMAIN Tail(s) = 1 .. Len(s) - 1 /\ \A i \in 1 .. Len(s) - 1 : Tail(s)[i] = s[i + 1]
  BY <1>1
<1>3. ASSUME NEW i \in DOMAIN s, s[i] = c
      PROVE  c = Head(s) \/ \E j \in DOMAIN Tail(s) : Tail(s)[j] = c
  <2>1. CASE i = 1
    BY <1>1, <1>3, <2>1
  <2>2. CASE i # 1
    <3>1. i - 1 \in DOMAIN Tail(s) /\ Tail(s)[i - 1] = s[i]
      BY <1>1, <1>2, <2>2
    <3> QED
      BY <1>3, <3>1
  <2> QED
    BY <2>1, <2>2
<1>4. ASSUME NEW j \in DOMAIN Tail(s), Tail(s)[j] = c
      PROVE  \E i \in DOMAIN s : s[i] = c
  <2>1. j + 1 \in DOMAIN s /\ s[j + 1] = c
    BY <1>1, <1>2, <1>4
  <2> QED
    BY <2>1
<1>5. ASSUME c = Head(s)
      PROVE  \E i \in DOMAIN s : s[i] = c
  BY <1>1, <1>5
<1> QED
  BY <1>3, <1>4, <1>5

(* Once the first call is done, exactly the calls of the tail are owed.    *)
LEMMA OwedBy ==
    ASSUME NEW q \in Reqs, Alone(q), NEW c
    PROVE  Owed(c) <=> \E i \in DOMAIN pub[q] : pub[q][i] = c
<1>1. \A a \in Reqs \ {q} : DOMAIN pub[a] = {}
  BY DEF Alone, Free
<1> QED
  BY <1>1 DEF Owed

LEMMA OwedByNext ==
    ASSUME TypeOK, NEW q \in Reqs, Alone(q), NEW calls, pub' = [pub EXCEPT ![q] = calls], NEW c
    PROVE  Owed(c)' <=> \E i \in DOMAIN calls : calls[i] = c
<1>1. pub'[q] = calls /\ \A a \in Reqs \ {q} : DOMAIN pub'[a] = {}
  BY DEF TypeOK, Alone, Free
<1> QED
  BY <1>1 DEF Owed

LEMMA OwedAfterDone ==
    ASSUME TypeOK, NEW q \in Reqs, Alone(q), pub[q] # <<>>, Done(q)
    PROVE  /\ \A x \in Rooms :
                 /\ Owed(Occupy(x)) <=> (Occupy(x) = Head(pub[q]) \/ Owed(Occupy(x))')
                 /\ Owed(Release(x)) <=> (Release(x) = Head(pub[q]) \/ Owed(Release(x))')
           /\ \A t \in Tenants :
                 Owed(Activate(t)) <=> (Activate(t) = Head(pub[q]) \/ Owed(Activate(t))')
<1>1. ASSUME NEW c PROVE Owed(c) <=> (c = Head(pub[q]) \/ Owed(c)')
  <2>1. PICK calls : calls = pub[q]
    OBVIOUS
  <2>2. PICK rest : rest = Tail(calls)
    OBVIOUS
  <2>0. pub' = [pub EXCEPT ![q] = rest]
    BY <2>1, <2>2 DEF Done
  <2>3. calls \in Seq(Call) /\ calls # <<>>
    BY <2>1 DEF TypeOK
  <2>4. Owed(c) <=> \E i \in DOMAIN calls : calls[i] = c
    BY <2>1, OwedBy
  <2>5. Owed(c)' <=> \E i \in DOMAIN rest : rest[i] = c
    BY <2>0, OwedByNext, Zenon
  <2>6. (\E i \in DOMAIN calls : calls[i] = c)
           <=> (c = Head(calls) \/ \E i \in DOMAIN rest : rest[i] = c)
    BY <2>2, <2>3, HeadAndTail
  <2> QED
    BY <2>1, <2>4, <2>5, <2>6
<1>2. ASSUME NEW x \in Rooms
      PROVE  /\ Owed(Occupy(x)) <=> (Occupy(x) = Head(pub[q]) \/ Owed(Occupy(x))')
             /\ Owed(Release(x)) <=> (Release(x) = Head(pub[q]) \/ Owed(Release(x))')
  <2>1. PICK c, d : c = Occupy(x) /\ d = Release(x)
    OBVIOUS
  <2>2. (Owed(c)' <=> Owed(Occupy(x))') /\ (Owed(d)' <=> Owed(Release(x))')
    BY <2>1 DEF Owed, Occupy, Release
  <2> QED
    BY <1>1, <2>1, <2>2
<1>3. ASSUME NEW t \in Tenants
      PROVE  Owed(Activate(t)) <=> (Activate(t) = Head(pub[q]) \/ Owed(Activate(t))')
  <2>1. PICK c : c = Activate(t)
    OBVIOUS
  <2>2. Owed(c)' <=> Owed(Activate(t))'
    BY <2>1 DEF Owed, Activate
  <2> QED
    BY <1>1, <2>1, <2>2
<1> QED
  BY <1>2, <1>3

(* The publication of a replacement, call by call.                         *)
LEMMA ReplacedCalls ==
    ASSUME NEW r \in Rooms, NEW t \in Tenants
    PROVE  LET s == LeaseTerminated(r, t) \o LeaseCreated(r, t)
           IN  /\ Len(s) = 4 /\ DOMAIN s = 1 .. 4
               /\ s[1] = Release(r) /\ s[2] = [do |-> "DeactivateTenant", on |-> t]
               /\ s[3] = Occupy(r) /\ s[4] = Activate(t)
<1> DEFINE a == LeaseTerminated(r, t)
           b == LeaseCreated(r, t)
           s == a \o b
<1>1. a \in Seq(Call) /\ b \in Seq(Call)
  BY PublishedCalls
<1>2. /\ Len(a) = 2 /\ a[1] = Release(r) /\ a[2] = [do |-> "DeactivateTenant", on |-> t]
      /\ Len(b) = 2 /\ b[1] = Occupy(r) /\ b[2] = Activate(t)
  BY DEF LeaseCreated, LeaseTerminated, Release, Occupy, Activate
<1> HIDE DEF a, b
<1>3. /\ s \in Seq(Call) /\ Len(s) = Len(a) + Len(b)
      /\ \A i \in 1 .. Len(a) + Len(b) : s[i] = IF i <= Len(a) THEN a[i] ELSE b[i - Len(a)]
  BY <1>1, ConcatProperties
<1> HIDE DEF s
<1>4. /\ Len(s) = 4 /\ DOMAIN s = 1 .. 4
      /\ s[1] = Release(r) /\ s[2] = [do |-> "DeactivateTenant", on |-> t]
      /\ s[3] = Occupy(r) /\ s[4] = Activate(t)
  BY <1>2, <1>3
<1> QED
  BY <1>4 DEF s, a, b

InOrder(calls) ==
    \A i \in DOMAIN calls :
        /\ calls[i].do = "ReleaseRoom" => i = 1
        /\ calls[i].do = "ActivateTenant" => i = Len(calls)

(* Every publication starts with its release and ends with its activation.  *)
LEMMA PublicationsInOrder ==
    ASSUME NEW r \in Rooms, NEW t \in Tenants
    PROVE  /\ InOrder(LeaseCreated(r, t))
           /\ InOrder(LeaseTerminated(r, t))
           /\ InOrder(LeaseTerminated(r, t) \o LeaseCreated(r, t))
<1>1. InOrder(LeaseCreated(r, t)) /\ InOrder(LeaseTerminated(r, t))
  BY DEF InOrder, LeaseCreated, LeaseTerminated
<1>2. InOrder(LeaseTerminated(r, t) \o LeaseCreated(r, t))
  <2> DEFINE s == LeaseTerminated(r, t) \o LeaseCreated(r, t)
  <2>1. /\ Len(s) = 4 /\ DOMAIN s = 1 .. 4
        /\ s[1] = Release(r) /\ s[2] = [do |-> "DeactivateTenant", on |-> t]
        /\ s[3] = Occupy(r) /\ s[4] = Activate(t)
    BY ReplacedCalls
  <2> HIDE DEF s
  <2>2. InOrder(s)
    BY <2>1 DEF InOrder, Release, Occupy, Activate
  <2> QED
    BY <2>2 DEF s
<1> QED
  BY <1>1, <1>2

(* Filling a slot with such a publication keeps PublicationOrder.           *)
LEMMA OrderAfterCommit ==
    ASSUME TypeOK, NEW q \in Reqs, Alone(q), NEW calls, InOrder(calls),
           pub' = [pub EXCEPT ![q] = calls]
    PROVE  PublicationOrder'
<1>1. pub'[q] = calls /\ \A a \in Reqs \ {q} : DOMAIN pub'[a] = {}
  BY DEF TypeOK, Alone, Free
<1> QED
  BY <1>1 DEF PublicationOrder, InOrder

(* Doing the first call keeps PublicationOrder.                             *)
LEMMA OrderAfterDone ==
    ASSUME TypeOK, PublicationOrder, NEW q \in Reqs, Alone(q), pub[q] # <<>>, Done(q)
    PROVE  PublicationOrder'
<1>1. pub[q] \in Seq(Call) /\ Len(pub[q]) \in Nat /\ Len(pub[q]) > 0
  BY DEF TypeOK
<1>2. /\ DOMAIN Tail(pub[q]) = 1 .. Len(pub[q]) - 1
      /\ Len(Tail(pub[q])) = Len(pub[q]) - 1
      /\ \A i \in 1 .. Len(pub[q]) - 1 :
            i + 1 \in DOMAIN pub[q] /\ Tail(pub[q])[i] = pub[q][i + 1]
  BY <1>1
<1>3. pub'[q] = Tail(pub[q]) /\ \A a \in Reqs \ {q} : DOMAIN pub'[a] = {}
  BY DEF TypeOK, Alone, Free, Done
<1> SUFFICES ASSUME NEW i \in 1 .. Len(pub[q]) - 1
             PROVE  /\ Tail(pub[q])[i].do = "ReleaseRoom" => i = 1
                    /\ Tail(pub[q])[i].do = "ActivateTenant" => i = Len(pub[q]) - 1
  BY <1>2, <1>3 DEF PublicationOrder
<1>4. /\ pub[q][i + 1].do = "ReleaseRoom" => i + 1 = 1
      /\ pub[q][i + 1].do = "ActivateTenant" => i + 1 = Len(pub[q])
  BY <1>2 DEF PublicationOrder
<1> QED
  BY <1>1, <1>2, <1>4

(* When an occupancy call runs, no release of a room waits behind it.      *)
LEMMA NoReleaseBehind ==
    ASSUME TypeOK, TypeOK', PublicationOrder,
           NEW q \in Reqs, Alone(q), pub[q] # <<>>, Done(q), NEW x \in Rooms
    PROVE  ~Owed(Release(x))'
<1>1. pub[q] \in Seq(Call) /\ pub'[q] = Tail(pub[q]) /\ Len(pub[q]) \in Nat
  BY DEF TypeOK, Done
<1>2. \A i \in DOMAIN Tail(pub[q]) : i \in Nat /\ i > 0
                                    /\ i + 1 \in DOMAIN pub[q]
                                    /\ Tail(pub[q])[i] = pub[q][i + 1]
  BY <1>1
<1>3. ASSUME NEW i \in DOMAIN Tail(pub[q]), Tail(pub[q])[i] = Release(x)
      PROVE  FALSE
  BY <1>2, <1>3 DEF PublicationOrder, Release
<1>4. Owed(Release(x))' <=> \E i \in DOMAIN pub'[q] : pub'[q][i] = Release(x)
  <2>1. \A a \in Reqs \ {q} : DOMAIN pub'[a] = {}
    BY DEF TypeOK, Done, Alone, Free
  <2> QED
    BY <2>1 DEF Owed, Release
<1> QED
  BY <1>1, <1>3, <1>4

(***************************************************************************)
(* The invariant, one lemma per kind of step.                              *)
(***************************************************************************)

(* Steps that leave the leases alone.                                      *)
LEMMA OccupancyKept ==
    ASSUME NEW x \in Rooms, Occupancy(x), UNCHANGED <<lease, lost>>,
           room'[x].deleted = room[x].deleted,
           propertyDeleted'[PropertyOf[x]] = propertyDeleted[PropertyOf[x]],
           ~room[x].deleted => (Due(x)' = "occupied" <=> Due(x) = "occupied")
    PROVE  Occupancy(x)'
<1>1. OpenLeasesIn(x)' = OpenLeasesIn(x) /\ Lockable(x)' = Lockable(x)
  BY DEF OpenLeasesIn, Lockable
<1>2. Occupy(x)' = Occupy(x) /\ Release(x)' = Release(x)
  BY DEF Occupy, Release
<1> QED
  BY <1>1, <1>2 DEF Occupancy

(* Tenants stay active or to be activated unless their leases have ended.  *)
LEMMA TenantsKept ==
    ASSUME TenantFollowsLeases, lost \subseteq lost',
           \A t \in Tenants :
              /\ OpenLeasesOf(t)' # {} =>
                    OpenLeasesOf(t) # {} \/ Owed(Activate(t))'
              /\ Owed(Activate(t)) =>
                    Owed(Activate(t))' \/ tenant'[t] = "active" \/ Activate(t) \in lost'
              /\ tenant[t] = "active" /\ OpenLeasesOf(t) # {} => tenant'[t] = "active"
    PROVE  TenantFollowsLeases'
<1>1. \A t : Activate(t)' = Activate(t)
  BY DEF Activate
<1> QED
  BY <1>1 DEF TenantFollowsLeases

(* A free slot, and nobody else: nothing is pending or open.               *)
LEMMA AllFree ==
    ASSUME NEW q \in Reqs, Alone(q), Free(q)
    PROVE  /\ \A c : ~Owed(c)
           /\ \A a \in Reqs : txn[a] = None /\ pub[a] = <<>>
           /\ \A x \in Rooms : Due(x) = room[x].status
<1>1. \A a \in Reqs : txn[a] = None /\ pub[a] = <<>>
  BY DEF Alone, Free
<1>2. \A c : ~Owed(c)
  BY <1>1 DEF Owed
<1> QED
  BY <1>1, <1>2 DEF Due

(* What is owed after each of the three kinds of commits.                  *)
LEMMA OwedAfterCreation ==
    ASSUME TypeOK, NEW q \in Reqs, Alone(q), NEW r \in Rooms, NEW t \in Tenants,
           pub' = [pub EXCEPT ![q] = LeaseCreated(r, t)]
    PROVE  /\ \A x \in Rooms : (Owed(Occupy(x))' <=> x = r) /\ ~Owed(Release(x))'
           /\ Owed(Activate(t))'
<1> DEFINE s == LeaseCreated(r, t)
<1>1. \A c : Owed(c)' <=> \E i \in DOMAIN s : s[i] = c
  BY OwedByNext
<1>2. DOMAIN s = {1, 2} /\ s[1] = Occupy(r) /\ s[2] = Activate(t)
  BY DEF LeaseCreated, Occupy, Activate
<1> HIDE DEF s
<1>3. \A c : Owed(c)' <=> c = Occupy(r) \/ c = Activate(t)
  BY <1>1, <1>2
<1> QED
  BY <1>3 DEF Owed, Occupy, Release, Activate

(* After a termination only the release of the lease's room is owed.        *)
LEMMA OwedAfterTermination ==
    ASSUME TypeOK, NEW q \in Reqs, Alone(q), NEW r \in Rooms, NEW t \in Tenants,
           pub' = [pub EXCEPT ![q] = LeaseTerminated(r, t)], NEW x \in Rooms
    PROVE  (Owed(Release(x))' <=> x = r) /\ ~Owed(Occupy(x))'
<1> DEFINE s == LeaseTerminated(r, t)
<1>1. \A c : Owed(c)' <=> \E i \in DOMAIN s : s[i] = c
  BY OwedByNext
<1>2. DOMAIN s = {1, 2} /\ s[1] = Release(r) /\ s[2] = [do |-> "DeactivateTenant", on |-> t]
  BY DEF LeaseTerminated, Release
<1> HIDE DEF s
<1>3. \A c : Owed(c)' <=> c = Release(r) \/ c = [do |-> "DeactivateTenant", on |-> t]
  BY <1>1, <1>2
<1> QED
  BY <1>3 DEF Owed, Occupy, Release

(* After a replacement the release and the occupation of its room are owed. *)
LEMMA OwedAfterReplacement ==
    ASSUME TypeOK, NEW q \in Reqs, Alone(q), NEW r \in Rooms, NEW t \in Tenants,
           pub' = [pub EXCEPT ![q] = LeaseTerminated(r, t) \o LeaseCreated(r, t)]
    PROVE  /\ \A x \in Rooms : (Owed(Release(x))' <=> x = r) /\ (Owed(Occupy(x))' <=> x = r)
           /\ Owed(Activate(t))'
<1> DEFINE s == LeaseTerminated(r, t) \o LeaseCreated(r, t)
<1>1. /\ DOMAIN s = 1 .. 4
      /\ s[1] = Release(r) /\ s[2] = [do |-> "DeactivateTenant", on |-> t]
      /\ s[3] = Occupy(r) /\ s[4] = Activate(t)
  BY ReplacedCalls
<1>2. \A c : Owed(c)' <=> \E i \in DOMAIN s : s[i] = c
  BY OwedByNext
<1> HIDE DEF s
<1>3. \A c : Owed(c)' <=> c \in {Release(r), [do |-> "DeactivateTenant", on |-> t],
                                 Occupy(r), Activate(t)}
  BY <1>1, <1>2
<1> QED
  BY <1>3 DEF Owed, Occupy, Release, Activate

(* CreateLease finds the room vacant, hence without an open lease.          *)
LEMMA CreateLeaseStep ==
    ASSUME TypeOK, TypeOK', SerialInv, NEW q \in Reqs, Alone(q), NEW l \in Leases,
           NEW t \in Tenants, NEW r \in Rooms, CreateLease(q, l, t, r)
    PROVE  SerialInv'
<1>1. (\A c : ~Owed(c)) /\ \A x \in Rooms : Due(x) = room[x].status
  BY AllFree DEF CreateLease
<1>2. PublicationOrder'
  BY OrderAfterCommit, PublicationsInOrder DEF CreateLease
<1>3. ReadsAreCurrent'
  BY AllFree DEF CreateLease, ReadsAreCurrent
<1>4. /\ lease'[l] = [status |-> "active", tenant |-> t, room |-> r]
      /\ \A k \in Leases : k # l => lease'[k] = lease[k]
      /\ lease[l].status = "absent"
  BY DEF CreateLease, TypeOK, Absent
<1>5. /\ \A x \in Rooms : (Owed(Occupy(x))' <=> x = r) /\ ~Owed(Release(x))'
      /\ Owed(Activate(t))'
  BY OwedAfterCreation DEF CreateLease
<1>6. ASSUME NEW x \in Rooms
      PROVE  Occupancy(x)'
  <2>0. Occupy(x)' = Occupy(x) /\ Release(x)' = Release(x) /\ UNCHANGED <<lost, room, propertyDeleted>>
    BY DEF Occupy, Release, CreateLease
  <2>1. CASE Occupy(x) \in lost
    BY <2>0, <2>1 DEF Occupancy
  <2>2. CASE Occupy(x) \notin lost /\ x = r
    <3>1. OpenLeasesIn(r) = {}
      BY <1>1, <2>2 DEF CreateLease, SerialInv, Occupancy, Lockable
    <3>2. OpenLeasesIn(r)' = {l}
      BY <1>4, <3>1 DEF OpenLeasesIn, Terminable
    <3>3. Due(r)' = "occupied" /\ Lockable(r)'
      BY <1>5, <2>0, <2>2 DEF Due, CreateLease, Lockable
    <3> QED
      BY <2>2, <3>2, <3>3 DEF Occupancy
  <2>3. CASE x # r
    <3>1. OpenLeasesIn(x)' = OpenLeasesIn(x)
      BY <1>4, <2>3 DEF OpenLeasesIn, Terminable
    <3>2. Due(x)' = Due(x)
      BY <1>1, <1>5, <2>0, <2>3 DEF Due
    <3> QED
      BY <2>0, <3>1, <3>2 DEF Occupancy, SerialInv, Lockable
  <2> QED
    BY <2>1, <2>2, <2>3
<1>7. TenantFollowsLeases'
  <2>1. \A u \in Tenants : u # t => OpenLeasesOf(u)' = OpenLeasesOf(u)
    BY <1>4 DEF OpenLeasesOf, Terminable
  <2> QED
    BY <1>1, <1>5, <2>1, TenantsKept DEF CreateLease, SerialInv
<1> QED
  BY <1>2, <1>3, <1>6, <1>7 DEF SerialInv

(* The lease that ends was the only open one of its room.                   *)
LEMMA EndLeaseStep ==
    ASSUME TypeOK, TypeOK', SerialInv, NEW q \in Reqs, Alone(q), NEW l \in Leases,
           NEW s \in {"terminated", "force_terminated"}, EndLease(q, l, s)
    PROVE  SerialInv'
<1> DEFINE r == lease[l].room
           t == lease[l].tenant
<1>1. (\A c : ~Owed(c)) /\ \A x \in Rooms : Due(x) = room[x].status
  BY AllFree DEF EndLease
<1>2. r \in Rooms /\ t \in Tenants
  BY LeaseRowOfOpen DEF EndLease, LeaseRow
<1> HIDE DEF r, t
<1>3. PublicationOrder'
  BY <1>2, OrderAfterCommit, PublicationsInOrder DEF EndLease, r, t
<1>4. ReadsAreCurrent'
  BY AllFree DEF EndLease, ReadsAreCurrent
<1>5. /\ lease'[l].status = s /\ lease[l].status \in Terminable
      /\ \A k \in Leases : k # l => lease'[k] = lease[k]
  BY DEF EndLease, TypeOK
<1>6. ASSUME NEW x \in Rooms
      PROVE  Occupancy(x)'
  <2>0. Occupy(x)' = Occupy(x) /\ Release(x)' = Release(x) /\ UNCHANGED <<lost, room, propertyDeleted>>
    BY DEF Occupy, Release, EndLease
  <2>1. /\ Owed(Release(x))' <=> x = r
        /\ ~Owed(Occupy(x))'
    BY <1>2, OwedAfterTermination DEF EndLease, r, t
  <2>2. CASE Occupy(x) \in lost
    BY <2>0, <2>2 DEF Occupancy
  <2>3. CASE Occupy(x) \notin lost /\ x = r
    <3>1. OpenLeasesIn(x) = {l}
      BY <1>5, <2>3 DEF OpenLeasesIn, SerialInv, Occupancy, r
    <3>2. OpenLeasesIn(x)' = {}
      BY <1>5, <3>1 DEF OpenLeasesIn, Terminable
    <3>3. Due(x)' = "vacant"
      BY <2>1, <2>3 DEF Due
    <3> QED
      BY <3>2, <3>3 DEF Occupancy
  <2>4. CASE x # r
    <3>1. OpenLeasesIn(x)' = OpenLeasesIn(x)
      BY <1>5, <2>4 DEF OpenLeasesIn, Terminable, r
    <3>2. Due(x)' = Due(x)
      BY <1>1, <2>0, <2>1, <2>4 DEF Due
    <3> QED
      BY <2>0, <3>1, <3>2 DEF Occupancy, SerialInv, Lockable
  <2> QED
    BY <2>2, <2>3, <2>4
<1>7. TenantFollowsLeases'
  <2>1. \A u \in Tenants : OpenLeasesOf(u)' \subseteq OpenLeasesOf(u)
    BY <1>5 DEF OpenLeasesOf, Terminable
  <2> QED
    BY <1>1, <2>1, TenantsKept DEF EndLease, SerialInv
<1> QED
  BY <1>3, <1>4, <1>6, <1>7 DEF SerialInv

(* The successor becomes the only open lease of the room.                   *)
LEMMA ReplaceLeaseStep ==
    ASSUME TypeOK, TypeOK', SerialInv, NEW q \in Reqs, Alone(q), NEW l \in Leases,
           NEW m \in Leases, ReplaceLease(q, l, m)
    PROVE  SerialInv'
<1> DEFINE r == lease[l].room
           t == lease[l].tenant
<1>1. (\A c : ~Owed(c)) /\ \A x \in Rooms : Due(x) = room[x].status
  BY AllFree DEF ReplaceLease
<1>2. r \in Rooms /\ t \in Tenants
  BY LeaseRowOfOpen DEF ReplaceLease, LeaseRow, Terminable
<1>2a. Lockable(r) /\ pub' = [pub EXCEPT ![q] = LeaseTerminated(r, t) \o LeaseCreated(r, t)]
  BY DEF ReplaceLease
<1> HIDE DEF r, t
<1>3. PublicationOrder'
  BY <1>2, <1>2a, OrderAfterCommit, PublicationsInOrder
<1>4. ReadsAreCurrent'
  BY AllFree DEF ReplaceLease, ReadsAreCurrent
<1>5. /\ l # m /\ lease[m].status = "absent"
      /\ lease'[l].status = "terminated" /\ lease'[m] = lease[l]
      /\ \A k \in Leases : k # l /\ k # m => lease'[k] = lease[k]
      /\ lease[l].status = "active"
  <2>1. l # m /\ lease[m].status = "absent" /\ lease[l].status = "active"
    BY DEF ReplaceLease, Absent
  <2>2. lease[l] \in LeaseRow
    BY LeaseRowOfOpen DEF ReplaceLease, Terminable
  <2>3. lease' = [[lease EXCEPT ![l].status = "terminated"] EXCEPT ![m] = lease[l]]
    BY DEF ReplaceLease
  <2> QED
    BY <2>1, <2>2, <2>3 DEF TypeOK, LeaseRow
<1>6. /\ \A x \in Rooms : (Owed(Release(x))' <=> x = r) /\ (Owed(Occupy(x))' <=> x = r)
      /\ \E u \in Tenants : u = t /\ Owed(Activate(u))'
  <2>1. PICK u \in Tenants, y \in Rooms : u = t /\ y = r
    BY <1>2
  <2>2. pub' = [pub EXCEPT ![q] = LeaseTerminated(y, u) \o LeaseCreated(y, u)]
    BY <1>2a, <2>1
  <2>3. /\ \A x \in Rooms : (Owed(Release(x))' <=> x = y) /\ (Owed(Occupy(x))' <=> x = y)
        /\ Owed(Activate(u))'
    BY <2>2, OwedAfterReplacement, Zenon
  <2> QED
    BY <2>1, <2>3
<1>7. ASSUME NEW x \in Rooms
      PROVE  Occupancy(x)'
  <2>0. Occupy(x)' = Occupy(x) /\ Release(x)' = Release(x) /\ UNCHANGED <<lost, room, propertyDeleted>>
    BY DEF Occupy, Release, ReplaceLease
  <2>2. CASE Occupy(x) \in lost
    BY <2>0, <2>2 DEF Occupancy
  <2>3. CASE Occupy(x) \notin lost /\ x = r
    <3>1. OpenLeasesIn(x) = {l}
      BY <1>5, <2>3 DEF OpenLeasesIn, SerialInv, Occupancy, r, Terminable
    <3>2. OpenLeasesIn(x)' = {m}
      BY <1>5, <2>3, <3>1 DEF OpenLeasesIn, Terminable, r
    <3>3. Due(x)' = "occupied" /\ Lockable(x)'
      BY <1>2a, <1>6, <2>0, <2>3 DEF Due, Lockable
    <3> QED
      BY <3>2, <3>3 DEF Occupancy
  <2>4. CASE x # r
    <3>1. OpenLeasesIn(x)' = OpenLeasesIn(x)
      BY <1>5, <2>4 DEF OpenLeasesIn, Terminable, r
    <3>2. Due(x)' = Due(x)
      BY <1>1, <1>6, <2>0, <2>4 DEF Due
    <3> QED
      BY <2>0, <3>1, <3>2 DEF Occupancy, SerialInv, Lockable
  <2> QED
    BY <2>2, <2>3, <2>4
<1>8. TenantFollowsLeases'
  <2>1. \A u \in Tenants : u # t => OpenLeasesOf(u)' = OpenLeasesOf(u)
    BY <1>5 DEF OpenLeasesOf, Terminable, t
  <2> QED
    BY <1>1, <1>6, <2>1, TenantsKept DEF ReplaceLease, SerialInv
<1> QED
  BY <1>3, <1>4, <1>7, <1>8 DEF SerialInv

(* An expired lease is still open: nothing changes for its room.            *)
LEMMA MarkLeaseExpiredStep ==
    ASSUME TypeOK, SerialInv, NEW q \in Reqs, Alone(q), NEW l \in Leases,
           MarkLeaseExpired(q, l)
    PROVE  SerialInv'
<1>1. \A k \in Leases :
         /\ lease'[k].room = lease[k].room /\ lease'[k].tenant = lease[k].tenant
         /\ lease'[k].status \in Terminable <=> lease[k].status \in Terminable
  BY LeaseRowOfOpen DEF MarkLeaseExpired, TypeOK, Terminable, LeaseRow
<1>2. /\ \A x \in Rooms : OpenLeasesIn(x)' = OpenLeasesIn(x)
      /\ \A t : OpenLeasesOf(t)' = OpenLeasesOf(t)
  BY <1>1 DEF OpenLeasesIn, OpenLeasesOf
<1>3. \A x \in Rooms : Due(x)' = Due(x)
  BY DEF MarkLeaseExpired, Due, Owed, Occupy, Release
<1>4. \A x \in Rooms : Occupancy(x)'
  <2>1. \A x : Occupy(x)' = Occupy(x) /\ Release(x)' = Release(x)
    BY DEF Occupy, Release
  <2> QED
    BY <1>2, <1>3, <2>1 DEF Occupancy, MarkLeaseExpired, SerialInv, Lockable
<1>5. TenantFollowsLeases'
  BY <1>2, TenantsKept DEF MarkLeaseExpired, SerialInv, Owed
<1>6. ReadsAreCurrent'
  BY AllFree DEF MarkLeaseExpired, ReadsAreCurrent
<1> QED
  BY <1>4, <1>5, <1>6 DEF SerialInv, MarkLeaseExpired, PublicationOrder

(* The calls that leave the rooms alone owe what they owed to the rooms.   *)
LEMMA TenantCallStep ==
    ASSUME TypeOK, TypeOK', SerialInv, NEW q \in Reqs, Alone(q), pub[q] # <<>>, Done(q),
           Head(pub[q]).do \in {"ActivateTenant", "DeactivateTenant"},
           UNCHANGED <<room, propertyDeleted, lease, lost>>, ReadsAreCurrent',
           Head(pub[q]).do = "ActivateTenant" => tenant' = [tenant EXCEPT ![Head(pub[q]).on] = "active"],
           \A t \in Tenants : tenant[t] = "active" /\ OpenLeasesOf(t) # {} => tenant'[t] = "active"
    PROVE  SerialInv'
<1>1. ASSUME NEW x \in Rooms
      PROVE  Occupancy(x)'
  <2>1. Head(pub[q]) # Occupy(x) /\ Head(pub[q]) # Release(x)
    BY DEF Occupy, Release
  <2>2. (Owed(Occupy(x)) <=> Owed(Occupy(x))') /\ (Owed(Release(x)) <=> Owed(Release(x))')
    BY <2>1, OwedAfterDone
  <2>3. Due(x)' = Due(x)
    BY <2>2 DEF Due
  <2> QED
    BY <2>3, OccupancyKept DEF SerialInv
<1>2. PublicationOrder'
  BY OrderAfterDone DEF SerialInv
<1>3. TenantFollowsLeases'
  <2>1. \A t \in Tenants : Owed(Activate(t)) => Owed(Activate(t))' \/ Activate(t) = Head(pub[q])
    BY OwedAfterDone
  <2>2. \A t \in Tenants : Activate(t) = Head(pub[q]) => tenant'[t] = "active"
    BY DEF Activate, TypeOK
  <2>3. \A t : OpenLeasesOf(t)' = OpenLeasesOf(t)
    BY DEF OpenLeasesOf
  <2> QED
    BY <2>1, <2>2, <2>3, TenantsKept DEF SerialInv
<1> QED
  BY <1>1, <1>2, <1>3 DEF SerialInv

(* The calls that set a room's status make true what was due.              *)
LEMMA RoomCallStep ==
    ASSUME TypeOK, TypeOK', SerialInv, NEW q \in Reqs, Alone(q),
           OccupyRoom(q) \/ ReleaseRoom(q)
    PROVE  SerialInv'
<1>1. pub[q] # <<>> /\ Done(q) /\ Head(pub[q]) \in Call
  BY DEF OccupyRoom, ReleaseRoom, Next1, TypeOK
<1> DEFINE r == Head(pub[q]).on
<1>2. r \in Rooms
  BY <1>1, CallTarget DEF OccupyRoom, ReleaseRoom, Next1
<1>3. Head(pub[q]) = IF OccupyRoom(q) THEN Occupy(r) ELSE Release(r)
  BY <1>1 DEF OccupyRoom, ReleaseRoom, Next1, Call, Occupy, Release
<1> HIDE DEF r
<1>4. /\ UNCHANGED <<propertyDeleted, lease, txn, lost>>
      /\ room' = SetRoomStatus(r, IF OccupyRoom(q) THEN "occupied" ELSE "vacant")
  BY DEF OccupyRoom, ReleaseRoom, Next1, r
<1>5. ReadsAreCurrent'
  <2>1. \A a \in Reqs : txn'[a] = None
    BY <1>4 DEF OccupyRoom, ReleaseRoom, Next1, Alone, Free
  <2> QED
    BY <2>1 DEF ReadsAreCurrent
<1>6. ASSUME NEW x \in Rooms
      PROVE  Occupancy(x)'
  <2>1. /\ room'[x].deleted = room[x].deleted
        /\ x # r => room'[x] = room[x]
        /\ x = r /\ ~room[x].deleted =>
              room'[x].status = IF OccupyRoom(q) THEN "occupied" ELSE "vacant"
    BY <1>2, <1>4 DEF SetRoomStatus, TypeOK
  <2>2. /\ Owed(Occupy(x)) <=> (Occupy(x) = Head(pub[q]) \/ Owed(Occupy(x))')
        /\ Owed(Release(x)) <=> (Release(x) = Head(pub[q]) \/ Owed(Release(x))')
    BY <1>1, OwedAfterDone
  <2>3. ~Owed(Release(x))'
    BY <1>1, NoReleaseBehind DEF SerialInv
  <2>4. CASE x # r
    <3>1. Head(pub[q]) # Occupy(x) /\ Head(pub[q]) # Release(x)
      BY <1>3, <2>4 DEF Occupy, Release
    <3>2. Due(x)' = Due(x)
      BY <2>1, <2>2, <2>4, <3>1 DEF Due
    <3> QED
      BY <1>4, <2>1, <3>2, OccupancyKept DEF SerialInv
  <2>5. CASE x = r
    <3>1. Occupy(x) # Release(x)
      BY DEF Occupy, Release
    <3>2. ~room[x].deleted => Due(x)' = Due(x)
      BY <1>3, <2>1, <2>2, <2>3, <2>5, <3>1 DEF Due
    <3> QED
      BY <1>4, <2>1, <3>2, OccupancyKept DEF SerialInv
  <2> QED
    BY <2>4, <2>5
<1>7. PublicationOrder'
  BY <1>1, OrderAfterDone DEF SerialInv
<1>8. TenantFollowsLeases'
  <2>1. \A t \in Tenants : Activate(t) # Head(pub[q])
    BY <1>3 DEF Activate, Occupy, Release
  <2>2. \A t \in Tenants : Owed(Activate(t)) => Owed(Activate(t))'
    BY <1>1, <2>1, OwedAfterDone
  <2>3. \A t : OpenLeasesOf(t)' = OpenLeasesOf(t)
    BY <1>4 DEF OpenLeasesOf
  <2>4. tenant' = tenant
    BY DEF OccupyRoom, ReleaseRoom
  <2> QED
    BY <1>4, <2>2, <2>3, <2>4, TenantsKept DEF SerialInv
<1> QED
  BY <1>5, <1>6, <1>7, <1>8 DEF SerialInv

(* Steps of a slot with nothing pending that change room statuses, never   *)
(* to or from "occupied", and delete nothing that is let.                  *)
LEMMA QuietStep ==
    ASSUME TypeOK, SerialInv, NEW q \in Reqs, Alone(q), pub[q] = <<>>,
           UNCHANGED <<lease, tenant, pub, lost>>,
           \A x \in Rooms :
              /\ ~room'[x].deleted => ~room[x].deleted
              /\ ~room'[x].deleted => (room'[x].status = "occupied" <=> room[x].status = "occupied")
              /\ OpenLeasesIn(x) # {} => Lockable(x)' \/ Occupy(x) \in lost,
           ReadsAreCurrent'
    PROVE  SerialInv'
<1>1. /\ \A x \in Rooms : OpenLeasesIn(x)' = OpenLeasesIn(x)
      /\ \A t : OpenLeasesOf(t)' = OpenLeasesOf(t)
  BY DEF OpenLeasesIn, OpenLeasesOf
<1>2. \A a \in Reqs : pub[a] = <<>> /\ pub'[a] = <<>>
  BY DEF Alone, Free
<1>3. \A x \in Rooms : Due(x) = room[x].status /\ Due(x)' = room'[x].status
  BY <1>2 DEF Due, Owed
<1>4. \A x \in Rooms : Occupancy(x)'
  <2>1. \A x : Occupy(x)' = Occupy(x) /\ Release(x)' = Release(x)
    BY DEF Occupy, Release
  <2> QED
    BY <1>1, <1>3, <2>1 DEF Occupancy, SerialInv
<1>5. TenantFollowsLeases'
  BY <1>1, TenantsKept DEF SerialInv, Owed
<1> QED
  BY <1>4, <1>5 DEF SerialInv, PublicationOrder

(* A room that is not occupied is not let, nothing being pending.          *)
LEMMA NotOccupiedNotLet ==
    ASSUME SerialInv, NEW q \in Reqs, Alone(q), pub[q] = <<>>, NEW x \in Rooms,
           room[x].status # "occupied"
    PROVE  OpenLeasesIn(x) = {} \/ Occupy(x) \in lost
<1>1. Due(x) = room[x].status
  BY DEF Alone, Free, Due, Owed
<1> QED
  BY <1>1 DEF SerialInv, Occupancy, Lockable

(* The room and property operations touch no room that is let.              *)
LEMMA RoomStep ==
    ASSUME TypeOK, SerialInv, NEW q \in Reqs, Alone(q), RoomNext(q)
    PROVE  SerialInv'
<1>1. ASSUME NEW r \in Rooms, ReadRoomForMaintenance(q, r) \/ ReadRoomForDeletion(q, r)
      PROVE  SerialInv'
  <2>1. ReadsAreCurrent'
    BY <1>1 DEF ReadRoomForMaintenance, ReadRoomForDeletion, ReadUnlocked, Alone, Free,
                ReadsAreCurrent, TypeOK
  <2> QED
    BY <1>1, <2>1, QuietStep
       DEF ReadRoomForMaintenance, ReadRoomForDeletion, ReadUnlocked, Free, SerialInv,
           Occupancy, Lockable
<1>2. ASSUME NEW p \in Properties, ReadOccupiedRooms(q, p)
      PROVE  SerialInv'
  <2>1. ReadsAreCurrent'
    BY <1>2 DEF ReadOccupiedRooms, ReadUnlocked, Alone, Free, ReadsAreCurrent, TypeOK
  <2> QED
    BY <1>2, <2>1, QuietStep
       DEF ReadOccupiedRooms, ReadUnlocked, Free, SerialInv, Occupancy, Lockable
<1>3. ASSUME NEW op, Writing(q, op)
      PROVE  \A a \in Reqs : txn'[a] = None
  BY <1>3 DEF Writing, TypeOK, Alone, Free
<1>4. ASSUME \A a \in Reqs : txn'[a] = None
      PROVE  ReadsAreCurrent'
  BY <1>4 DEF ReadsAreCurrent
<1>5. ASSUME NEW op, Writing(q, op), op # "DeactivateTenant"
      PROVE  pub[q] = <<>>
  BY <1>5 DEF Writing, SerialInv, ReadsAreCurrent
<1>6. ASSUME NEW p \in Repairs, SetRoomMaintenance(q, p)
      PROVE  SerialInv'
  <2>1. /\ pub[q] = <<>> /\ ReadsAreCurrent'
        /\ txn[q].on \in Rooms /\ room[txn[q].on].status = "vacant"
    BY <1>3, <1>4, <1>5, <1>6
       DEF SetRoomMaintenance, Writing, SerialInv, ReadsAreCurrent, TypeOK, Transaction
  <2>2. room' = [room EXCEPT ![txn[q].on].status = "maintenance"]
    BY <1>6 DEF SetRoomMaintenance, SetRoomStatus
  <2>3. \A x \in Rooms :
           /\ room'[x].deleted = room[x].deleted
           /\ room'[x].status = "occupied" <=> room[x].status = "occupied"
    BY <2>1, <2>2 DEF TypeOK
  <2> QED
    BY <1>6, <2>1, <2>3, QuietStep DEF SetRoomMaintenance, SerialInv, Occupancy, Lockable
<1>7. CASE DeleteRoom(q)
  <2>1. /\ pub[q] = <<>> /\ ReadsAreCurrent'
        /\ txn[q].on \in Rooms /\ room[txn[q].on].status = "vacant"
    BY <1>3, <1>4, <1>5, <1>7
       DEF DeleteRoom, Writing, SerialInv, ReadsAreCurrent, TypeOK, Transaction
  <2>2. OpenLeasesIn(txn[q].on) = {} \/ Occupy(txn[q].on) \in lost
    BY <2>1, NotOccupiedNotLet
  <2>3. \A x \in Rooms :
           /\ ~room'[x].deleted => ~room[x].deleted
           /\ room'[x].status = room[x].status
           /\ x # txn[q].on => room'[x] = room[x]
    BY <1>7, <2>1 DEF DeleteRoom, TypeOK
  <2> QED
    BY <1>7, <2>1, <2>2, <2>3, QuietStep DEF DeleteRoom, SerialInv, Occupancy, Lockable
<1>8. CASE DeleteProperty(q)
  <2> DEFINE p == txn[q].on
  <2>1. /\ pub[q] = <<>> /\ ReadsAreCurrent' /\ p \in Properties
        /\ \A r \in Rooms : PropertyOf[r] = p /\ ~room[r].deleted => room[r].status # "occupied"
    BY <1>3, <1>4, <1>5, <1>8
       DEF DeleteProperty, Writing, SerialInv, ReadsAreCurrent, TypeOK, Transaction
  <2>2. \A x \in Rooms : PropertyOf[x] = p => OpenLeasesIn(x) = {} \/ Occupy(x) \in lost
    BY <2>1, NotOccupiedNotLet DEF SerialInv, Occupancy, Lockable
  <2>3. \A x \in Rooms : PropertyOf[x] # p =>
           propertyDeleted'[PropertyOf[x]] = propertyDeleted[PropertyOf[x]]
    BY <1>8, <2>1, PropertyOfAssumption DEF DeleteProperty, TypeOK
  <2> HIDE DEF p
  <2> QED
    BY <1>8, <2>1, <2>2, <2>3, QuietStep DEF DeleteProperty, SerialInv, Occupancy, Lockable
<1>9. CASE Rollback(q)
  <2>1. ReadsAreCurrent'
    BY <1>4, <1>9 DEF Rollback, TypeOK, Alone, Free
  <2> QED
    BY <1>9, <2>1, QuietStep DEF Rollback, SerialInv, Occupancy, Lockable
<1> QED
  BY <1>1, <1>2, <1>6, <1>7, <1>8, <1>9 DEF RoomNext

(* The repair operations change a room's status only out of maintenance.    *)
LEMMA RepairStep ==
    ASSUME TypeOK, SerialInv, NEW q \in Reqs, Alone(q), RepairNext(q)
    PROVE  SerialInv'
<1>1. ASSUME NEW r \in Rooms, ReadRoomForRepair(q, r)
      PROVE  SerialInv'
  <2>1. ReadsAreCurrent'
    BY <1>1 DEF ReadRoomForRepair, ReadUnlocked, Alone, Free, ReadsAreCurrent, TypeOK
  <2> QED
    BY <1>1, <2>1, QuietStep
       DEF ReadRoomForRepair, ReadUnlocked, Free, SerialInv, Occupancy, Lockable
<1>2. ASSUME NEW p \in Repairs, CreateRepair(q, p)
      PROVE  SerialInv'
  <2>1. pub[q] = <<>>
    BY <1>2 DEF CreateRepair, Writing, SerialInv, ReadsAreCurrent
  <2>2. ReadsAreCurrent'
    BY <1>2 DEF CreateRepair, Writing, ReadsAreCurrent, TypeOK, Alone, Free
  <2> QED
    BY <1>2, <2>1, <2>2, QuietStep DEF CreateRepair, SerialInv, Occupancy, Lockable
<1>3. ASSUME NEW p \in Repairs, Free(q), UNCHANGED <<propertyDeleted, tenant, lease, txn, pub, lost>>,
             room' = room \/ (Live(p) /\ RestoreRoomVacantIfNoActiveRepairs(p))
      PROVE  SerialInv'
  <2>1. ReadsAreCurrent'
    BY <1>3, AllFree DEF ReadsAreCurrent
  <2>2. \A x \in Rooms :
           /\ room'[x].deleted = room[x].deleted
           /\ room'[x].status = "occupied" <=> room[x].status = "occupied"
    <3>1. CASE room' = room
      BY <3>1
    <3>2. CASE Live(p) /\ RestoreRoomVacantIfNoActiveRepairs(p)
      <4>1. repair[p].room \in Rooms
        BY <3>2, RepairRowOfLive DEF Live, RepairRow
      <4>2. \/ room' = room
            \/ /\ room' = [room EXCEPT ![repair[p].room].status = "vacant"]
               /\ room[repair[p].room].status = "maintenance"
        BY <3>2 DEF RestoreRoomVacantIfNoActiveRepairs, SetRoomStatus
      <4> QED
        BY <4>1, <4>2 DEF TypeOK
    <3> QED
      BY <1>3, <3>1, <3>2
  <2> QED
    BY <1>3, <2>1, <2>2, QuietStep DEF Free, SerialInv, Occupancy, Lockable
<1> QED
  BY <1>1, <1>2, <1>3
     DEF RepairNext, AssignRepair, ProgressRepair, CompleteRepair, CancelRepair, DeleteRepair,
         Advance

(* The subscribers' calls.                                                 *)
LEMMA PublishStep ==
    ASSUME TypeOK, TypeOK', SerialInv, NEW q \in Reqs, Alone(q), PublishNext(q)
    PROVE  SerialInv'
<1>1. CASE OccupyRoom(q) \/ ReleaseRoom(q)
  BY <1>1, RoomCallStep
<1>2. CASE ActivateTenant(q)
  <2>1. ReadsAreCurrent'
    BY <1>2 DEF ActivateTenant, Next1, ReadsAreCurrent, Alone, Free
  <2>2. \A t \in Tenants : tenant[t] = "active" => tenant'[t] = "active"
    BY <1>2 DEF ActivateTenant, TypeOK
  <2> QED
    BY <1>2, <2>1, <2>2, TenantCallStep DEF ActivateTenant, Next1
<1>3. CASE ReadOpenLeases(q)
  <2>1. CASE Done(q) /\ UNCHANGED txn
    <3>1. ReadsAreCurrent'
      BY <1>3, <2>1 DEF ReadOpenLeases, Next1, ReadsAreCurrent, Alone, Free
    <3> QED
      BY <1>3, <2>1, <3>1, TenantCallStep DEF ReadOpenLeases, Next1
  <2>2. CASE /\ txn' = [txn EXCEPT ![q] = [op |-> "DeactivateTenant", on |-> Head(pub[q]).on]]
             /\ OpenLeasesOf(Head(pub[q]).on) = {} /\ UNCHANGED pub
    <3>1. ReadsAreCurrent'
      <4>1. txn'[q] = [op |-> "DeactivateTenant", on |-> Head(pub[q]).on]
            /\ \A a \in Reqs \ {q} : txn'[a] = None
        BY <2>2 DEF TypeOK, Alone, Free
      <4>2. OpenLeasesOf(Head(pub[q]).on)' = {}
        BY <1>3, <2>2 DEF ReadOpenLeases, OpenLeasesOf
      <4> QED
        BY <4>1, <4>2, <2>2 DEF ReadsAreCurrent, OpenLeasesOf
    <3>2. \A x \in Rooms : Due(x)' = Due(x)
      BY <1>3, <2>2 DEF ReadOpenLeases, Due, Owed, Occupy, Release
    <3>3. \A x \in Rooms : Occupancy(x)'
      BY <1>3, <3>2, OccupancyKept DEF ReadOpenLeases, SerialInv
    <3>4. TenantFollowsLeases'
      BY <1>3, <2>2 DEF ReadOpenLeases, SerialInv, TenantFollowsLeases, OpenLeasesOf, Owed, Activate
    <3> QED
      BY <2>2, <3>1, <3>3, <3>4 DEF SerialInv, PublicationOrder
  <2> QED
    BY <1>3, <2>1, <2>2 DEF ReadOpenLeases
<1>4. CASE DeactivateTenant(q)
  <2>1. ReadsAreCurrent'
    BY <1>4 DEF DeactivateTenant, ReadsAreCurrent, Alone, Free, TypeOK
  <2>2. Head(pub[q]).do = "DeactivateTenant"
    BY <1>4 DEF DeactivateTenant
  <2>3. \A t \in Tenants : tenant[t] = "active" /\ OpenLeasesOf(t) # {} => tenant'[t] = "active"
    <3>1. txn[q] # None /\ txn[q].op = "DeactivateTenant"
      <4>1. /\ txn[q] = [op |-> "DeactivateTenant", on |-> Head(pub[q]).on]
            /\ pub[q] \in Seq(Call) /\ pub[q] # <<>> /\ Head(pub[q]).do = "DeactivateTenant"
        BY <1>4 DEF DeactivateTenant, TypeOK
      <4>2. Head(pub[q]) \in Call
        BY <4>1
      <4>3. Head(pub[q]).on \in Tenants
        BY <4>1, <4>2, CallTarget
      <4>4. txn[q] \in Transaction
        BY <4>1, <4>3 DEF Transaction
      <4> QED
        BY <4>1, <4>4, NoneAssumption
    <3>2. OpenLeasesOf(txn[q].on) = {}
      BY <3>1 DEF SerialInv, ReadsAreCurrent
    <3> QED
      BY <1>4, <3>2 DEF DeactivateTenant, TypeOK
  <2> QED
    BY <1>4, <2>1, <2>2, <2>3, TenantCallStep DEF DeactivateTenant
<1> QED
  BY <1>1, <1>2, <1>3, <1>4 DEF PublishNext

(* A lost publication: what its room and tenant were owed is on record.    *)
LEMMA LoseStep ==
    ASSUME TypeOK, TypeOK', SerialInv, NEW q \in Reqs, Alone(q), LosePublication(q)
    PROVE  SerialInv'
<1>1. /\ \A a \in Reqs : DOMAIN pub'[a] = {} /\ txn'[a] = None
      /\ UNCHANGED <<room, propertyDeleted, tenant, lease>>
  BY DEF LosePublication, TypeOK, Alone, Free
<1>2. \A c : c \in lost' <=> c \in lost \/ Owed(c)
  <2>1. \A c : Owed(c) <=> \E i \in DOMAIN pub[q] : pub[q][i] = c
    BY OwedBy
  <2> QED
    BY <2>1 DEF LosePublication
<1>3. PublicationOrder' /\ ReadsAreCurrent'
  BY <1>1 DEF PublicationOrder, ReadsAreCurrent
<1>4. \A c : ~Owed(c)'
  BY <1>1 DEF Owed
<1>5. ASSUME NEW x \in Rooms PROVE Occupancy(x)'
  <2>0. Occupy(x)' = Occupy(x) /\ Release(x)' = Release(x)
    BY DEF Occupy, Release
  <2>1. CASE Occupy(x) \in lost'
    BY <2>0, <2>1 DEF Occupancy
  <2>2. CASE Occupy(x) \notin lost'
    <3>1. Occupy(x) \notin lost /\ ~Owed(Occupy(x))
      BY <1>2, <2>2
    <3>2. OpenLeasesIn(x)' = OpenLeasesIn(x) /\ Lockable(x)' = Lockable(x)
      BY <1>1 DEF OpenLeasesIn, Lockable
    <3>3. ~Owed(Occupy(x))' /\ ~Owed(Release(x))'
      BY <1>1 DEF Owed
    <3>4. Due(x)' = room[x].status
      BY <1>1, <3>3 DEF Due
    <3>5. CASE Owed(Release(x))
      <4>1. Due(x) = "vacant" /\ Release(x) \in lost'
        BY <1>2, <3>1, <3>5 DEF Due
      <4> QED
        BY <1>1, <2>0, <3>1, <3>2, <4>1 DEF SerialInv, Occupancy
    <3>6. CASE ~Owed(Release(x))
      <4>1. Due(x) = room[x].status
        BY <3>1, <3>6 DEF Due
      <4>2. Release(x) \in lost => Release(x) \in lost'
        BY <1>2
      <4> QED
        BY <1>1, <2>0, <3>1, <3>2, <3>4, <4>1, <4>2 DEF SerialInv, Occupancy
    <3> QED
      BY <3>5, <3>6
  <2> QED
    BY <2>1, <2>2
<1>6. TenantFollowsLeases'
  <2>1. \A t : OpenLeasesOf(t)' = OpenLeasesOf(t)
    BY <1>1 DEF OpenLeasesOf
  <2> QED
    BY <1>1, <1>2, <2>1, TenantsKept DEF SerialInv
<1> QED
  BY <1>3, <1>5, <1>6 DEF SerialInv

LEMMA SlotStep ==
    ASSUME TypeOK, TypeOK', SerialInv, NEW q \in Reqs, Alone(q),
           \/ LeaseNext(q) \/ PublishNext(q) \/ RoomNext(q) \/ RepairNext(q)
           \/ LosePublication(q)
    PROVE  SerialInv'
<1>1. CASE LeaseNext(q)
  BY <1>1, CreateLeaseStep, EndLeaseStep, ReplaceLeaseStep, MarkLeaseExpiredStep
     DEF LeaseNext, TerminateLease, FinalizeCheckout, ForceTerminateLease
<1> QED
  BY <1>1, PublishStep, RoomStep, RepairStep, LoseStep

LEMMA SerialKept ==
    ASSUME SerialInv, UNCHANGED vars
    PROVE  SerialInv'
<1>1. PublicationOrder' /\ ReadsAreCurrent' /\ TenantFollowsLeases'
  BY DEF vars, SerialInv, PublicationOrder, ReadsAreCurrent, TenantFollowsLeases, OpenLeasesOf,
         Owed, Activate
<1>2. \A x \in Rooms : Due(x)' = Due(x)
  BY DEF vars, Due, Owed, Occupy, Release
<1>3. \A x \in Rooms : Occupancy(x)'
  BY <1>2, OccupancyKept DEF vars, SerialInv
<1> QED
  BY <1>1, <1>3 DEF SerialInv

LEMMA SerialInit == Init => SerialInv
<1> SUFFICES ASSUME Init PROVE SerialInv
  OBVIOUS
<1>1. \A l \in Leases : lease[l].status \notin Terminable
  BY DEF Init, Absent, Terminable
<1>2. /\ \A x \in Rooms : OpenLeasesIn(x) = {}
      /\ \A t : OpenLeasesOf(t) = {}
  BY <1>1 DEF OpenLeasesIn, OpenLeasesOf
<1>3. \A c : ~Owed(c)
  BY DEF Init, Owed
<1>4. PublicationOrder /\ ReadsAreCurrent
  BY DEF Init, PublicationOrder, ReadsAreCurrent
<1> QED
  BY <1>2, <1>3, <1>4 DEF Init, SerialInv, Occupancy, Due, TenantFollowsLeases

(***************************************************************************)
(* What the invariant gives.                                               *)
(***************************************************************************)

LEMMA SerialRules ==
    SerialInv => /\ TenantFollowsLeases /\ OneOpenLeasePerRoom
                 /\ RoomFollowsLeases /\ LeasedRoomIsLive
<1> SUFFICES ASSUME SerialInv
             PROVE  OneOpenLeasePerRoom /\ RoomFollowsLeases /\ LeasedRoomIsLive
  BY DEF SerialInv
<1>1. OneOpenLeasePerRoom /\ LeasedRoomIsLive
  BY DEF SerialInv, Occupancy, OneOpenLeasePerRoom, LeasedRoomIsLive
<1>2. ASSUME NEW r \in Rooms, ~room[r].deleted,
             \A call \in {Occupy(r), Release(r)} : ~Owed(call) /\ call \notin lost
      PROVE  room[r].status = "occupied" <=> OpenLeasesIn(r) # {}
  BY <1>2 DEF SerialInv, Occupancy, Due
<1> QED
  BY <1>1, <1>2 DEF RoomFollowsLeases

(* Only the request that takes a step begins, goes on with or ends         *)
(* something by it.                                                        *)
LEMMA OthersWait ==
    ASSUME TypeOK, NEW q \in Reqs,
           \/ LeaseNext(q) \/ PublishNext(q) \/ RoomNext(q) \/ RepairNext(q)
           \/ LosePublication(q)
    PROVE  \A a \in Reqs \ {q} : UNCHANGED <<txn[a], pub[a]>>
<1>1. CASE LeaseNext(q)
  BY <1>1 DEF TypeOK, LeaseNext, CreateLease, TerminateLease, FinalizeCheckout, ForceTerminateLease,
              EndLease, MarkLeaseExpired, ReplaceLease
<1>2. CASE PublishNext(q)
  BY <1>2 DEF TypeOK, PublishNext, OccupyRoom, ReleaseRoom, ActivateTenant, ReadOpenLeases,
              DeactivateTenant, Done
<1>3. CASE RoomNext(q)
  BY <1>3 DEF TypeOK, RoomNext, ReadRoomForMaintenance, ReadRoomForDeletion, ReadOccupiedRooms,
              ReadUnlocked, SetRoomMaintenance, DeleteRoom, DeleteProperty, Rollback, Writing
<1>4. CASE RepairNext(q)
  BY <1>4 DEF TypeOK, RepairNext, ReadRoomForRepair, ReadUnlocked, CreateRepair, AssignRepair,
              ProgressRepair, CompleteRepair, CancelRepair, Advance, DeleteRepair, Writing
<1>5. CASE LosePublication(q)
  BY <1>5 DEF TypeOK, LosePublication
<1> QED
  BY <1>1, <1>2, <1>3, <1>4, <1>5

(* Unless it overlaps with another, a request that takes a step is alone.  *)
LEMMA AloneUnlessOverlap ==
    ASSUME TypeOK, ~Overlap, \A a, b \in Busy : a = b, NEW q \in Reqs,
           \/ LeaseNext(q) \/ PublishNext(q) \/ RoomNext(q) \/ RepairNext(q)
           \/ LosePublication(q)
    PROVE  Alone(q)
<1>1. \A a \in Reqs \ {q} : UNCHANGED <<txn[a], pub[a]>>
  BY OthersWait
<1>2. CASE Busy = {}
  BY <1>2 DEF Alone, Busy
<1>3. CASE Busy # {}
  <2>1. PICK a \in Busy : ~UNCHANGED <<txn[a], pub[a]>>
    BY <1>3 DEF Overlap
  <2>2. a = q
    BY <1>1, <2>1 DEF Busy
  <2> QED
    BY <2>1, <2>2 DEF Alone, Busy
<1> QED
  BY <1>2, <1>3

LEMMA OverlapStep == TypeOK /\ TypeOK' /\ OverlapInv /\ [HistoryNext]_<<vars, overlapped>> => OverlapInv'
<1> SUFFICES ASSUME TypeOK, TypeOK', OverlapInv, [HistoryNext]_<<vars, overlapped>>, ~overlapped'
             PROVE  SerialInv' /\ \A a, b \in Busy' : a = b
  BY DEF OverlapInv
<1>1. CASE UNCHANGED <<vars, overlapped>>
  <2>1. SerialInv /\ (\A a, b \in Busy : a = b) /\ UNCHANGED vars
    BY <1>1 DEF OverlapInv
  <2>2. Busy' = Busy
    BY <2>1 DEF vars, Busy, Free
  <2> QED
    BY <2>1, <2>2, SerialKept
<1>2. CASE HistoryNext
  <2>1. Next /\ ~Overlap /\ ~overlapped
    BY <1>2 DEF HistoryNext
  <2>2. SerialInv /\ \A a, b \in Busy : a = b
    BY <2>1 DEF OverlapInv
  <2>3. PICK q \in Reqs : \/ LeaseNext(q) \/ PublishNext(q) \/ RoomNext(q) \/ RepairNext(q)
                          \/ LosePublication(q)
    BY <2>1, LossyAssumption DEF Next
  <2>4. \A a \in Reqs \ {q} : UNCHANGED <<txn[a], pub[a]>>
    BY <2>3, OthersWait
  <2>6. Alone(q)
    BY <2>1, <2>2, <2>3, AloneUnlessOverlap
  <2>7. \A a \in Reqs \ {q} : Free(a)'
    BY <2>4, <2>6 DEF Alone, Free
  <2>8. Busy' \subseteq {q}
    BY <2>7 DEF Busy
  <2>9. SerialInv'
    BY <2>2, <2>3, <2>6, SlotStep
  <2> QED
    BY <2>8, <2>9
<1> QED
  BY <1>1, <1>2

LEMMA OverlapsInvariant == HistorySpec => [](TypeOK /\ OverlapInv)
<1>1. HistorySpec => Spec
  <2>1. HistoryInit => Init
    BY DEF HistoryInit
  <2>2. [HistoryNext]_<<vars, overlapped>> => [Next]_vars
    BY DEF HistoryNext
  <2> QED
    BY <2>1, <2>2, PTL DEF HistorySpec, Spec
<1>2. HistoryInit => OverlapInv
  <2> SUFFICES ASSUME HistoryInit PROVE SerialInv /\ \A a, b \in Busy : a = b
    BY DEF OverlapInv
  <2>1. \A a \in Reqs : Free(a)
    BY DEF HistoryInit, Init, Free
  <2> QED
    BY <2>1, SerialInit DEF HistoryInit, Busy
<1> QED
  BY <1>1, <1>2, OverlapStep, TypeCorrect, PTL DEF HistorySpec

(* As long as no two requests have overlapped, whatever calls were lost:   *)
(* tenants and rooms follow the leases, no room is let twice, and no let   *)
(* room is deleted, except for the rooms and tenants whose own call was    *)
(* lost.                                                                   *)
THEOREM OccupiedUnlessOverlapped == HistorySpec => []OccupancyUnlessOverlapped
<1>1. OverlapInv => OccupancyUnlessOverlapped
  BY SerialRules DEF OverlapInv, OccupancyUnlessOverlapped
<1> QED
  BY <1>1, OverlapsInvariant, PTL

(***************************************************************************)
(* Tenancy, room by room: what a step does to the holder of one room.      *)
(***************************************************************************)

(* The holder of a room whose occupancy call was not lost, case by case.   *)
LEMMA HolderCases ==
    ASSUME TypeOK, SerialInv, NEW r \in Rooms, Occupy(r) \notin lost
    PROVE  /\ ~Lockable(r) => Holder(r) = "removed"
           /\ \A l \in Leases :
                 lease[l].status \in Terminable /\ lease[l].room = r
                    => Holder(r) = lease[l].tenant /\ Holder(r) \in Tenants
           /\ Lockable(r) /\ OpenLeasesIn(r) = {} =>
                 Holder(r) = IF room[r].status = "maintenance" THEN "maintenance" ELSE "vacant"
<1>1. ASSUME NEW l \in Leases, lease[l].status \in Terminable, lease[l].room = r
      PROVE  Holder(r) = lease[l].tenant /\ Holder(r) \in Tenants
  <2>1. l \in OpenLeasesIn(r) /\ Lockable(r)
    BY <1>1 DEF OpenLeasesIn, SerialInv, Occupancy
  <2>2. (CHOOSE k \in OpenLeasesIn(r) : TRUE) = l
    BY <2>1 DEF SerialInv, Occupancy
  <2>3. lease[l].tenant \in Tenants
    BY <1>1, LeaseRowOfOpen DEF LeaseRow
  <2> QED
    BY <2>1, <2>2, <2>3 DEF Holder
<1> QED
  BY <1>1 DEF Holder

(* A room nobody leases is not held by a tenant.                           *)
LEMMA NotHeld ==
    ASSUME TypeOK, SerialInv, NEW r \in Rooms, Occupy(r) \notin lost, OpenLeasesIn(r) = {}
    PROVE  Holder(r) \notin Tenants
BY HolderCases, TenantAssumption

Held(x) == Promised(x)!Next \/ UNCHANGED Holder(x)

(* What Tenancy lets happen to one room.                                   *)
LEMMA Passes ==
    ASSUME NEW x \in Rooms,
           \/ Holder(x) = "vacant" /\ Holder(x)' \in Tenants \cup {"maintenance"}
           \/ Holder(x) \in Tenants \cup {"maintenance"} /\ Holder(x)' = "vacant"
           \/ Holder(x) \notin Tenants /\ Holder(x)' = "removed"
    PROVE  Held(x)
<1> DEFINE holder == [y \in {x} |-> Holder(y)]
<1>1. /\ holder[x] = Holder(x)
      /\ \A h : Holder(x)' = h => holder' = [holder EXCEPT ![x] = h]
  OBVIOUS
<1>2. ASSUME NEW t \in Tenants, Holder(x) = "vacant", Holder(x)' = t
      PROVE  Held(x)
  <2>1. Promised(x)!Let(x, t)
    BY <1>1, <1>2 DEF Promised!Let
  <2> QED
    BY <2>1 DEF Held, Promised!Next
<1>3. CASE Holder(x) = "vacant" /\ Holder(x)' = "maintenance"
  <2>1. Promised(x)!StartMaintenance(x)
    BY <1>1, <1>3 DEF Promised!StartMaintenance
  <2> QED
    BY <2>1 DEF Held, Promised!Next
<1>4. CASE Holder(x) \in Tenants /\ Holder(x)' = "vacant"
  <2>1. Promised(x)!EndTenancy(x)
    BY <1>1, <1>4 DEF Promised!EndTenancy
  <2> QED
    BY <2>1 DEF Held, Promised!Next
<1>5. CASE Holder(x) = "maintenance" /\ Holder(x)' = "vacant"
  <2>1. Promised(x)!EndMaintenance(x)
    BY <1>1, <1>5 DEF Promised!EndMaintenance
  <2> QED
    BY <2>1 DEF Held, Promised!Next
<1>6. CASE Holder(x) \notin Tenants /\ Holder(x)' = "removed"
  <2>1. Promised(x)!Remove({x})
    BY <1>6 DEF Promised!Remove
  <2> QED
    BY <2>1 DEF Held, Promised!Next
<1> QED
  BY <1>2, <1>3, <1>4, <1>5, <1>6

(* A step that leaves alone what Holder looks at leaves the holder alone.  *)
LEMMA HolderKept ==
    ASSUME NEW x \in Rooms,
           Lockable(x)' <=> Lockable(x),
           OpenLeasesIn(x)' = OpenLeasesIn(x),
           \A k \in OpenLeasesIn(x) : lease'[k].tenant = lease[k].tenant,
           OpenLeasesIn(x) = {} =>
              (room'[x].status = "maintenance" <=> room[x].status = "maintenance")
    PROVE  Holder(x)' = Holder(x)
<1>1. CASE OpenLeasesIn(x) = {}
  BY <1>1 DEF Holder
<1>2. CASE OpenLeasesIn(x) # {}
  <2> DEFINE k == CHOOSE l \in OpenLeasesIn(x) : TRUE
  <2>1. k \in OpenLeasesIn(x)
    BY <1>2
  <2>2. lease'[k].tenant = lease[k].tenant
    BY <2>1
  <2> QED
    BY <1>2, <2>2 DEF Holder
<1> QED
  BY <1>1, <1>2

(* A step that sets a room vacant or occupied ends its maintenance, or     *)
(* changes nothing that Holder sees.                                       *)
LEMMA StatusMade ==
    ASSUME TypeOK, NEW x \in Rooms, UNCHANGED <<lease, propertyDeleted>>,
           NEW r \in Rooms, NEW s \in {"vacant", "occupied"},
           room' = [room EXCEPT ![r].status = s]
    PROVE  Held(x)
<1>1. /\ Lockable(x)' <=> Lockable(x)
      /\ OpenLeasesIn(x)' = OpenLeasesIn(x)
      /\ x # r => room'[x] = room[x]
      /\ x = r => room'[x].status = s
  BY DEF TypeOK, Lockable, OpenLeasesIn
<1>2. CASE x = r /\ Lockable(x) /\ OpenLeasesIn(x) = {} /\ room[x].status = "maintenance"
  <2>1. Holder(x) = "maintenance" /\ Holder(x)' = "vacant"
    BY <1>1, <1>2 DEF Holder
  <2> QED
    BY <2>1, Passes
<1>3. CASE ~Lockable(x)
  BY <1>1, <1>3 DEF Holder, Held
<1>4. CASE x # r \/ OpenLeasesIn(x) # {} \/ room[x].status # "maintenance"
  BY <1>1, <1>4, HolderKept DEF Held
<1> QED
  BY <1>2, <1>3, <1>4

(* CreateLease is Let: the room it finds vacant is held by nobody.          *)
LEMMA CreateLeaseHeld ==
    ASSUME TypeOK, SerialInv, NEW q \in Reqs, Alone(q), NEW l \in Leases,
           NEW t \in Tenants, NEW r \in Rooms, CreateLease(q, l, t, r),
           NEW x \in Rooms, Occupy(x) \notin lost
    PROVE  Held(x)
<1>1. /\ lease'[l] = [status |-> "active", tenant |-> t, room |-> r]
      /\ \A k \in Leases : k # l => lease'[k] = lease[k]
      /\ lease[l].status = "absent"
      /\ pub[q] = <<>>
  BY DEF CreateLease, TypeOK, Absent, Free
<1>2. CASE x = r
  <2>1. OpenLeasesIn(r) = {}
    BY <1>1, <1>2, NotOccupiedNotLet DEF CreateLease
  <2>2. OpenLeasesIn(r)' = {l}
    BY <1>1, <2>1 DEF OpenLeasesIn, Terminable
  <2>3. Holder(r) = "vacant" /\ Holder(r)' = t
    BY <1>1, <2>1, <2>2 DEF CreateLease, Holder, Lockable
  <2> QED
    BY <1>2, <2>3, Passes
<1>3. CASE x # r
  <2>1. OpenLeasesIn(x)' = OpenLeasesIn(x) /\ l \notin OpenLeasesIn(x)
    BY <1>1, <1>3 DEF OpenLeasesIn, Terminable
  <2>2. \A k \in OpenLeasesIn(x) : k \in Leases
    BY DEF OpenLeasesIn
  <2> QED
    BY <1>1, <2>1, <2>2, HolderKept DEF CreateLease, Lockable, Held
<1> QED
  BY <1>2, <1>3

(* Ending a lease is EndTenancy.                                            *)
LEMMA EndLeaseHeld ==
    ASSUME TypeOK, SerialInv, NEW q \in Reqs, Alone(q), NEW l \in Leases, NEW s,
           s \in {"terminated", "force_terminated"}, EndLease(q, l, s),
           NEW x \in Rooms, Occupy(x) \notin lost
    PROVE  Held(x)
<1>1. lease[l] \in LeaseRow
  BY LeaseRowOfOpen DEF EndLease, LeaseRow
<1>2. /\ lease'[l] = [lease[l] EXCEPT !.status = s]
      /\ \A k \in Leases : k # l => lease'[k] = lease[k]
  BY DEF EndLease, TypeOK
<1>3. /\ lease'[l].status = s /\ s \notin Terminable
      /\ lease[l].status \in Terminable
  BY <1>1, <1>2 DEF EndLease, LeaseRow, Terminable
<1>4. CASE lease[l].room = x
  <2>1. l \in OpenLeasesIn(x) /\ Lockable(x) /\ OpenLeasesIn(x) = {l}
    BY <1>3, <1>4 DEF OpenLeasesIn, SerialInv, Occupancy
  <2>2. OpenLeasesIn(x)' = {}
    BY <1>2, <1>3, <2>1 DEF OpenLeasesIn
  <2>3. Due(x) = room[x].status
    BY AllFree DEF EndLease
  <2>4. room[x].status = "occupied"
    BY <2>1, <2>3 DEF SerialInv, Occupancy, Lockable
  <2>5. Holder(x) \in Tenants
    BY <1>3, <1>4, HolderCases
  <2>6. Holder(x)' = "vacant"
    BY <2>1, <2>2, <2>4 DEF Holder, EndLease, Lockable
  <2> QED
    BY <2>5, <2>6, Passes
<1>5. CASE lease[l].room # x
  <2>1. OpenLeasesIn(x)' = OpenLeasesIn(x) /\ l \notin OpenLeasesIn(x)
    BY <1>2, <1>3, <1>5 DEF OpenLeasesIn
  <2>2. \A k \in OpenLeasesIn(x) : k \in Leases
    BY DEF OpenLeasesIn
  <2> QED
    BY <1>2, <2>1, <2>2, HolderKept DEF EndLease, Lockable, Held
<1> QED
  BY <1>4, <1>5

(* The successor has the tenant and the room of the lease it replaces.     *)
LEMMA ReplaceLeaseHeld ==
    ASSUME TypeOK, SerialInv, NEW q \in Reqs, NEW l \in Leases, NEW m \in Leases,
           ReplaceLease(q, l, m), NEW x \in Rooms, Occupy(x) \notin lost
    PROVE  Held(x)
<1>1. lease[l] \in LeaseRow /\ lease[l].status = "active"
  BY LeaseRowOfOpen DEF ReplaceLease, LeaseRow, Terminable
<1>2. l # m /\ lease[m].status = "absent"
  BY <1>1 DEF ReplaceLease, Absent
<1>3. /\ lease'[l] = [lease[l] EXCEPT !.status = "terminated"]
      /\ lease'[m] = lease[l]
      /\ \A k \in Leases : k # l /\ k # m => lease'[k] = lease[k]
  BY <1>2 DEF ReplaceLease, TypeOK
<1>4. lease'[l].status = "terminated"
  BY <1>1, <1>3 DEF LeaseRow
<1>5. CASE lease[l].room = x
  <2>1. OpenLeasesIn(x) = {l}
    BY <1>1, <1>5 DEF OpenLeasesIn, SerialInv, Occupancy, Terminable
  <2>2. m \in OpenLeasesIn(x)' /\ l \notin OpenLeasesIn(x)'
    BY <1>1, <1>3, <1>4, <1>5 DEF OpenLeasesIn, Terminable
  <2>3. \A k \in Leases : k # l /\ k # m => k \notin OpenLeasesIn(x)'
    BY <1>3, <2>1 DEF OpenLeasesIn
  <2>4. OpenLeasesIn(x)' \subseteq Leases
    BY DEF OpenLeasesIn
  <2>5. OpenLeasesIn(x)' = {m}
    BY <2>2, <2>3, <2>4
  <2> QED
    BY <1>3, <2>1, <2>5 DEF Holder, ReplaceLease, Lockable, Held
<1>6. CASE lease[l].room # x
  <2>1. /\ OpenLeasesIn(x)' = OpenLeasesIn(x)
        /\ l \notin OpenLeasesIn(x) /\ m \notin OpenLeasesIn(x)
    BY <1>2, <1>3, <1>4, <1>6 DEF OpenLeasesIn, Terminable
  <2>2. \A k \in OpenLeasesIn(x) : k \in Leases
    BY DEF OpenLeasesIn
  <2> QED
    BY <1>3, <2>1, <2>2, HolderKept DEF ReplaceLease, Lockable, Held
<1> QED
  BY <1>5, <1>6

(* Expiry is a stutter of Tenancy: the tenant keeps the room.               *)
LEMMA MarkLeaseExpiredHeld ==
    ASSUME TypeOK, NEW q \in Reqs, NEW l \in Leases, MarkLeaseExpired(q, l), NEW x \in Rooms
    PROVE  Held(x)
<1>1. lease[l] \in LeaseRow /\ lease[l].status = "active"
  BY LeaseRowOfOpen DEF MarkLeaseExpired, Terminable
<1>2. /\ lease'[l].status = "expired" /\ lease'[l].room = lease[l].room
      /\ lease'[l].tenant = lease[l].tenant
      /\ \A k \in Leases : k # l => lease'[k] = lease[k]
  BY <1>1 DEF MarkLeaseExpired, TypeOK, LeaseRow
<1>3. OpenLeasesIn(x)' = OpenLeasesIn(x)
  BY <1>1, <1>2 DEF OpenLeasesIn, Terminable
<1>4. \A k \in OpenLeasesIn(x) : lease'[k].tenant = lease[k].tenant
  BY <1>2 DEF OpenLeasesIn
<1> QED
  BY <1>3, <1>4, HolderKept DEF MarkLeaseExpired, Lockable, Held

(* Steps that write neither rooms, nor properties, nor leases.             *)
LEMMA NobodyMoves ==
    ASSUME UNCHANGED <<room, propertyDeleted, lease>>, NEW x \in Rooms
    PROVE  Held(x)
BY HolderKept DEF Lockable, OpenLeasesIn, Held

(* The subscriber calls set a room occupied or vacant, or look at tenants.  *)
LEMMA PublishHeld ==
    ASSUME TypeOK, NEW q \in Reqs, PublishNext(q), NEW x \in Rooms
    PROVE  Held(x)
<1>1. ASSUME NEW s \in {"vacant", "occupied"}, pub[q] # <<>>,
             Head(pub[q]).do \in {"OccupyRoom", "ReleaseRoom"},
             room' = SetRoomStatus(Head(pub[q]).on, s), UNCHANGED <<propertyDeleted, lease>>
      PROVE  Held(x)
  <2>1. Head(pub[q]) \in Call
    BY <1>1 DEF TypeOK
  <2>2. Head(pub[q]).on \in Rooms
    BY <1>1, <2>1, CallTarget
  <2> QED
    BY <1>1, <2>2, NobodyMoves, StatusMade DEF SetRoomStatus
<1> QED
  BY <1>1, NobodyMoves
     DEF PublishNext, OccupyRoom, ReleaseRoom, Next1, ActivateTenant, ReadOpenLeases,
         DeactivateTenant

(* Maintenance is StartMaintenance, the deletions are Remove.               *)
LEMMA RoomHeld ==
    ASSUME TypeOK, SerialInv, NEW q \in Reqs, Alone(q), RoomNext(q),
           NEW x \in Rooms, Occupy(x) \notin lost
    PROVE  Held(x)
<1>1. ASSUME NEW op, Writing(q, op), op # "DeactivateTenant"
      PROVE  pub[q] = <<>>
  BY <1>1 DEF Writing, SerialInv, ReadsAreCurrent
<1>2. ASSUME NEW p \in Repairs, SetRoomMaintenance(q, p)
      PROVE  Held(x)
  <2>1. /\ txn[q].on \in Rooms /\ ~room[txn[q].on].deleted
        /\ room[txn[q].on].status = "vacant"
    BY <1>2 DEF SetRoomMaintenance, Writing, SerialInv, ReadsAreCurrent, TypeOK, Transaction
  <2>2. PICK r \in Rooms : r = txn[q].on
    BY <2>1
  <2>3. /\ room' = [room EXCEPT ![r].status = "maintenance"]
        /\ UNCHANGED <<propertyDeleted, lease>>
    BY <1>2, <2>2 DEF SetRoomMaintenance, SetRoomStatus
  <2>4. /\ Lockable(x)' <=> Lockable(x)
        /\ OpenLeasesIn(x)' = OpenLeasesIn(x)
        /\ x # r => room'[x] = room[x]
        /\ x = r => room'[x].status = "maintenance"
    BY <2>3 DEF TypeOK, Lockable, OpenLeasesIn
  <2>5. CASE x # r
    BY <2>3, <2>4, <2>5, HolderKept DEF Held
  <2>6. CASE x = r /\ Lockable(x)
    <3>1. OpenLeasesIn(x) = {}
      BY <1>1, <1>2, <2>1, <2>2, <2>6, NotOccupiedNotLet DEF SetRoomMaintenance
    <3>2. Holder(x) = "vacant" /\ Holder(x)' = "maintenance"
      BY <2>1, <2>2, <2>4, <2>6, <3>1 DEF Holder
    <3> QED
      BY <3>2, Passes
  <2>7. CASE ~Lockable(x)
    BY <2>4, <2>7 DEF Holder, Held
  <2> QED
    BY <2>5, <2>6, <2>7
<1>3. ASSUME OpenLeasesIn(x) = {}, ~Lockable(x)'
      PROVE  Held(x)
  <2>1. Holder(x) \notin Tenants /\ Holder(x)' = "removed"
    BY <1>3, NotHeld DEF Holder
  <2> QED
    BY <2>1, Passes
<1>4. CASE DeleteRoom(q)
  <2>1. /\ pub[q] = <<>>
        /\ txn[q].on \in Rooms /\ room[txn[q].on].status = "vacant"
    BY <1>1, <1>4 DEF DeleteRoom, Writing, SerialInv, ReadsAreCurrent, TypeOK, Transaction
  <2>2. CASE x = txn[q].on
    <3>1. OpenLeasesIn(x) = {}
      BY <2>1, <2>2, NotOccupiedNotLet
    <3>2. ~Lockable(x)'
      BY <1>4, <2>1, <2>2 DEF DeleteRoom, TypeOK, Lockable
    <3> QED
      BY <1>3, <3>1, <3>2
  <2>3. CASE x # txn[q].on
    BY <1>4, <2>1, <2>3, HolderKept DEF DeleteRoom, TypeOK, Lockable, OpenLeasesIn, Held
  <2> QED
    BY <2>2, <2>3
<1>5. CASE DeleteProperty(q)
  <2>1. /\ txn[q].on \in Properties /\ pub[q] = <<>>
        /\ \A r \in Rooms : PropertyOf[r] = txn[q].on /\ ~room[r].deleted
                               => room[r].status # "occupied"
    BY <1>1, <1>5
       DEF DeleteProperty, Writing, SerialInv, ReadsAreCurrent, TypeOK, Transaction
  <2>2. CASE PropertyOf[x] = txn[q].on
    <3>1. OpenLeasesIn(x) = {}
      BY <2>1, <2>2, NotOccupiedNotLet DEF SerialInv, Occupancy, Lockable
    <3>2. ~Lockable(x)'
      BY <1>5, <2>1, <2>2 DEF DeleteProperty, TypeOK, Lockable
    <3> QED
      BY <1>3, <3>1, <3>2
  <2>3. CASE PropertyOf[x] # txn[q].on
    <3>1. /\ Lockable(x)' <=> Lockable(x)
          /\ UNCHANGED <<lease, room>>
      BY <1>5, <2>1, <2>3, PropertyOfAssumption DEF DeleteProperty, TypeOK, Lockable
    <3> QED
      BY <3>1, HolderKept DEF OpenLeasesIn, Held
  <2> QED
    BY <2>2, <2>3
<1> QED
  BY <1>2, <1>4, <1>5, NobodyMoves
     DEF RoomNext, ReadRoomForMaintenance, ReadRoomForDeletion, ReadOccupiedRooms, ReadUnlocked,
         Rollback

(* The repair workflow is EndMaintenance or a stutter.                      *)
LEMMA RepairHeld ==
    ASSUME TypeOK, NEW q \in Reqs, RepairNext(q), NEW x \in Rooms
    PROVE  Held(x)
<1>1. ASSUME NEW p \in Repairs, Live(p), RestoreRoomVacantIfNoActiveRepairs(p),
             UNCHANGED <<propertyDeleted, lease>>
      PROVE  Held(x)
  <2>1. repair[p].room \in Rooms
    BY <1>1, RepairRowOfLive DEF Live, RepairRow
  <2>2. room' = room \/ room' = [room EXCEPT ![repair[p].room].status = "vacant"]
    BY <1>1 DEF RestoreRoomVacantIfNoActiveRepairs, SetRoomStatus
  <2> QED
    BY <1>1, <2>1, <2>2, NobodyMoves, StatusMade
<1> QED
  BY <1>1, NobodyMoves
     DEF RepairNext, ReadRoomForRepair, ReadUnlocked, CreateRepair, AssignRepair, ProgressRepair,
         CompleteRepair, CancelRepair, DeleteRepair, Advance

LEMMA SlotHeld ==
    ASSUME TypeOK, SerialInv, NEW q \in Reqs, Alone(q),
           \/ LeaseNext(q) \/ PublishNext(q) \/ RoomNext(q) \/ RepairNext(q)
           \/ LosePublication(q),
           NEW x \in Rooms, Occupy(x) \notin lost
    PROVE  Held(x)
<1>1. CASE LeaseNext(q)
  BY <1>1, CreateLeaseHeld, EndLeaseHeld, ReplaceLeaseHeld, MarkLeaseExpiredHeld
     DEF LeaseNext, TerminateLease, FinalizeCheckout, ForceTerminateLease
<1>2. CASE LosePublication(q)
  BY <1>2, NobodyMoves DEF LosePublication
<1> QED
  BY <1>1, <1>2, PublishHeld, RoomHeld, RepairHeld

(* The calls that were lost stay lost.                                     *)
LEMMA LossIsFinal ==
    ASSUME NEW q \in Reqs,
           \/ LeaseNext(q) \/ PublishNext(q) \/ RoomNext(q) \/ RepairNext(q)
           \/ LosePublication(q)
    PROVE  lost \subseteq lost'
BY DEF LeaseNext, CreateLease, TerminateLease, FinalizeCheckout, ForceTerminateLease,
       EndLease, MarkLeaseExpired, ReplaceLease, PublishNext, OccupyRoom, ReleaseRoom,
       ActivateTenant, ReadOpenLeases, DeactivateTenant, LosePublication, RoomNext,
       ReadRoomForMaintenance, ReadRoomForDeletion, ReadOccupiedRooms, ReadUnlocked,
       SetRoomMaintenance, DeleteRoom, DeleteProperty, Rollback, RepairNext, ReadRoomForRepair,
       CreateRepair, AssignRepair, ProgressRepair, CompleteRepair, CancelRepair, Advance,
       DeleteRepair

(* Whatever calls were lost, and with any number of request slots: as long *)
(* as no two requests have overlapped, every room whose own occupancy call *)
(* was not lost is let, put into maintenance and removed only when nobody  *)
(* holds it, and goes back to nobody when its lease ends.                  *)
THEOREM TenancyKept == HistorySpec => TenancyUnlessOverlapped
<1>1. TypeOK /\ OverlapInv /\ [HistoryNext]_<<vars, overlapped>>
        => [\A r \in Rooms :
               \/ overlapped' \/ Occupy(r) \in lost'
               \/ Promised(r)!Next \/ UNCHANGED Holder(r)]_<<vars, overlapped>>
  <2> SUFFICES ASSUME TypeOK, OverlapInv, HistoryNext, ~overlapped',
                      NEW x \in Rooms, Occupy(x) \notin lost'
               PROVE  Held(x)
    BY DEF Held
  <2>1. Next /\ ~Overlap /\ SerialInv /\ \A a, b \in Busy : a = b
    BY DEF HistoryNext, OverlapInv
  <2>2. PICK q \in Reqs : \/ LeaseNext(q) \/ PublishNext(q) \/ RoomNext(q) \/ RepairNext(q)
                          \/ LosePublication(q)
    BY <2>1, LossyAssumption DEF Next
  <2>3. Alone(q)
    BY <2>1, <2>2, AloneUnlessOverlap
  <2>4. Occupy(x) \notin lost
    BY <2>2, LossIsFinal
  <2> QED
    BY <2>1, <2>2, <2>3, <2>4, SlotHeld
<1> QED
  BY <1>1, OverlapsInvariant, PTL DEF TenancyUnlessOverlapped, HistorySpec
=============================================================================
