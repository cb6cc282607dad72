-------------------------- MODULE MCLedgerReports --------------------------
(* Symmetry for LedgerReports.                                             *)
EXTENDS LedgerReports, TLC

MCSymmetry == Permutations(Postings) \cup Permutations(Reqs)
=============================================================================
