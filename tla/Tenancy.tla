------------------------------ MODULE Tenancy ------------------------------
(***************************************************************************)
(* What the room and lease operations promise together, one value per      *)
(* room: who holds it.  A room that nobody holds can be let to a tenant,   *)
(* put into maintenance or removed; a let room goes back only when its     *)
(* lease ends, and is never let to a second tenant, put into maintenance   *)
(* or removed in between.  RoomLeasing implements this when requests are   *)
(* served one after the other and no publication is lost, and keeps it for *)
(* each room as long as no requests have overlapped and the room's own     *)
(* occupation was not lost (TenancyUnlessOverlapped of RoomOverlaps).      *)
(***************************************************************************)
CONSTANTS Rooms, Tenants, Vacant, Maintenance, Removed

VARIABLE holder   \* holder[r] \in Tenants \cup {Vacant, Maintenance, Removed}

Init == holder = [r \in Rooms |-> Vacant]

Let(r, t) == holder[r] = Vacant /\ holder' = [holder EXCEPT ![r] = t]

EndTenancy(r) == holder[r] \in Tenants /\ holder' = [holder EXCEPT ![r] = Vacant]

StartMaintenance(r) ==
    holder[r] = Vacant /\ holder' = [holder EXCEPT ![r] = Maintenance]

EndMaintenance(r) ==
    holder[r] = Maintenance /\ holder' = [holder EXCEPT ![r] = Vacant]

(* One room, or all the rooms of a property: those in maintenance may go   *)
(* with their property, a let room never does.                             *)
Remove(S) ==
    /\ \A r \in S : holder[r] \notin Tenants
    /\ holder' = [r \in Rooms |-> IF r \in S THEN Removed ELSE holder[r]]

Next ==
    \/ \E r \in Rooms :
          \/ \E t \in Tenants : Let(r, t)
          \/ EndTenancy(r) \/ StartMaintenance(r) \/ EndMaintenance(r)
    \/ \E S \in SUBSET Rooms : Remove(S)

Spec == Init /\ [][Next]_holder
=============================================================================
