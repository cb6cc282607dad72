--------------------------- MODULE MCRecordEdits ---------------------------
(* RecordEditHistories with symmetric values and requests.                 *)
EXTENDS RecordEditHistories, TLC

MCSymmetry == Permutations(Reqs) \cup Permutations(Values)
=============================================================================
