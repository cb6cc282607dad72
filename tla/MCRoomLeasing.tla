--------------------------- MODULE MCRoomLeasing ---------------------------
(* Model values for RoomLeasing: every room lies in one property.          *)
EXTENDS RoomLeasing, TLC

CONSTANT p1
MCPropertyOf == [r \in Rooms |-> p1]
MCSymmetry == Permutations(Rooms) \cup Permutations(Tenants) \cup Permutations(Leases)
                  \cup Permutations(Repairs) \cup Permutations(Reqs)
=============================================================================
