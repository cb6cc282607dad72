--------------------------- MODULE MCLegacyImport ---------------------------
(* A small export: a room with an expired and a running lease that share a *)
(* tenant and overlap the month of reading d1; and a room whose record is  *)
(* invalid, with a schedule of that room.  Months are three days long.     *)
EXTENDS LegacyImport, TLC

CONSTANTS o1, e1, r1, r2, n1, n2, d1, s1

MCOwnerOf == e1 :> o1
MCEstateOf == [x \in {r1, r2, s1} |-> e1]
MCRoomOf == [x \in {n1, n2, d1, s1} |-> IF x = s1 THEN r2 ELSE r1]
MCLinkedTenants == n1 :> {1} @@ n2 :> {1, 2}
MCStartDate == n1 :> 1 @@ n2 :> 2
MCEndDate == n1 :> 2 @@ n2 :> 6
MCMonthStart == d1 :> 1
MCMonthEnd == d1 :> 3

(* Bounds: once the application serves, commands run one at a time.  On    *)
(* rooms opened in order there is one unlocked read at a time, and only    *)
(* the stages that meet the application; on others there are commands, and *)
(* no leases or unlocked reads of the application's own.                   *)
Commands == {j \in Jobs : job[j] # None}
MCBounds ==
    /\ opened # "no" => Cardinality(Commands) <= 1
    /\ opened = "in_order" =>
           /\ Cardinality(seen) <= 1
           /\ \A j \in Commands : job[j].stage \in {"room_status", "bills"}
    /\ opened = "early" => seen = {} /\ owed = {} /\ ended = {}

MCSymmetry == Permutations(Jobs)
=============================================================================
