------------------------- MODULE MCLeaseSettlement -------------------------
(* LeaseSettlement with its history, and symmetry.                         *)
EXTENDS LeaseSettlementRaces, TLC

MCSymmetry == Permutations(Leases) \cup Permutations(Reqs)
=============================================================================
