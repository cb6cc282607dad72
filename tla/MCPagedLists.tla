--------------------------- MODULE MCPagedLists ---------------------------
(* Walks of lists of a few rows in two properties, which are symmetric.    *)
EXTENDS PagedListHistories, TLC

MCSymmetry == Permutations(Properties)
===========================================================================
