--------------------------- MODULE MCMeterReadings ---------------------------
(* Leases that start on the last days of a month and on a leap day, that   *)
(* run over a short February and over new year, with every cadence, and    *)
(* short ones whose meter is read.                                         *)
EXTENDS MeterReadings

CONSTANTS q1, q2

MCReqs == {q1, q2}
MCReadings == 1..2
MCRents == {1, 2}

Lease(first, last, rentCadence, powerCadence) ==
    [start |-> first, end |-> last, rentCadence |-> rentCadence, powerCadence |-> powerCadence,
     meter |-> 1, amount |-> 1, status |-> "active"]

Starts == {Date(0, 31), Date(1, 29), Date(2, 30), Date(10, 1), Date(11, 15)}
Ends == {Date(15, 14), Date(16, 30), Date(25, 28)}

MCLeases ==
    {Lease(s, e, rc, pc) : s \in Starts, e \in Ends, rc \in Cadences, pc \in {"monthly", "bimonthly"}}
    \cup {Lease(Date(0, 31), Date(2, 30), "quarterly", "monthly")}

MCLastDays == {Date(1, 28), Date(2, 30)}
MCDays == {Date(0, 31), Date(1, 28), Date(1, 29), Date(2, 30), Date(13, 28), Date(14, 30)}
=============================================================================
