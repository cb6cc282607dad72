---------------------------- MODULE RoomOverlaps ----------------------------
(* RoomLeasing with a record of whether requests have overlapped: what the *)
(* occupancy rules owe to requests that come one at a time, lost calls or  *)
(* not, and what holds for any interleaving.                               *)
EXTENDS RoomLeasing

VARIABLE overlapped   \* a request did something while another was in progress

Busy == {q \in Reqs : ~Free(q)}

HistoryInit == Init /\ overlapped = FALSE

(* A request begins while another is in progress. *)
Overlap == Busy # {} /\ \A q \in Busy : UNCHANGED <<txn[q], pub[q]>>

HistoryNext == Next /\ overlapped' = (overlapped \/ Overlap)
HistorySpec == HistoryInit /\ [][HistoryNext]_<<vars, overlapped>>

(* Unless requests have overlapped, and whatever subscriber call was lost: *)
(* the tenant's status follows the leases, no room has two open leases     *)
(* (two overlapping creations can let it twice), the room's status follows *)
(* its lease, and a let room is never deleted.                             *)
OccupancyUnlessOverlapped ==
    \/ overlapped
    \/ /\ TenantFollowsLeases
       /\ OneOpenLeasePerRoom
       /\ RoomFollowsLeases
       /\ LeasedRoomIsLive

(* Tenancy for the one room r.                                             *)
Promised(r) == INSTANCE Tenancy WITH
    Rooms <- {r}, holder <- [x \in {r} |-> Holder(x)],
    Vacant <- "vacant", Maintenance <- "maintenance", Removed <- "removed"

(* Unless requests have overlapped, each room changes hands as Tenancy     *)
(* says, whatever other calls were lost: no second tenant while a lease is *)
(* open, no maintenance and no deletion under a tenant, and an ended lease *)
(* leaves the room to nobody.  Only a room whose own occupancy call was    *)
(* lost goes its own way, as it looks vacant under its lease.              *)
TenancyUnlessOverlapped ==
    [][\A r \in Rooms :
          \/ overlapped' \/ Occupy(r) \in lost'
          \/ Promised(r)!Next \/ UNCHANGED Holder(r)]_<<vars, overlapped>>

(* The inductive invariant behind both: as long as none has overlapped, at *)
(* most one request is in progress.                                        *)
OverlapInv == overlapped \/ (SerialInv /\ \A a, b \in Busy : a = b)
=============================================================================
