--------------------------- MODULE MCUserAccounts ---------------------------
EXTENDS UserAccounts, TLC
MCSymmetry == Permutations(Reqs) \cup Permutations(Uids \ {FounderUid})
=============================================================================
