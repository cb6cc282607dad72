------------------------- MODULE PagedListHistories -------------------------
(* What happened to the list while it was walked, and what a caller may    *)
(* count on when nothing of the kind did.                                  *)
EXTENDS PagedLists

VARIABLES
    stayed,   \* rows in the list, at the same key, ever since the walk began
    shrunk,   \* a row before the current position left the list, or moved back
    grown,    \* a row joined the list, or moved, before the current position
    cut,      \* a page ended between rows its ORDER BY does not order
    steady    \* the list itself has not changed

history == <<stayed, shrunk, grown, cut, steady>>

(* The rows read by the pages answered so far; a row with at most that     *)
(* many rows surely before it may stand among them.                        *)
Read == (walk.page - 1) * Limit
Ahead(r, rows) == Cardinality({s \in rows : row[s].key > row[r].key}) < Read
AheadAfter(r, rows) == Cardinality({s \in rows : row'[s].key > row'[r].key}) < Read

(* The lists whose ORDER BY names no unique column. *)
Unordered == {"leases", "tenants", "rooms", "bills"}
EndsInTie == \E r, s \in Listed(filter) :
    /\ list \in Unordered /\ row[r].key = row[s].key /\ r # s
    /\ LET before == Cardinality({q \in Listed(filter) : row[q].key > row[r].key})
           upto   == Cardinality({q \in Listed(filter) : row[q].key >= row[r].key})
       IN  before < Read + Limit /\ Read + Limit < upto

HistoryInit == WalkInit /\ stayed = Listed(filter) /\ shrunk = FALSE /\ grown = FALSE
                        /\ cut = FALSE /\ steady = TRUE

HistoryNext ==
    /\ WalkNext
    /\ LET before == Listed(filter)
           after  == Listed(filter)'
           kept   == {r \in before \cap after : row'[r].key = row[r].key}
       IN  /\ stayed' = stayed \cap kept
           /\ steady' = (steady /\ kept = before /\ kept = after)
           /\ shrunk' = (shrunk \/ \E r \in before \ kept :
                            Ahead(r, before) /\ (r \in after => row'[r].key < row[r].key))
           /\ grown' = (grown \/ \E r \in after \ kept : AheadAfter(r, after))
    /\ cut' = (cut \/ (shown' # shown /\ EndsInTie))

HistorySpec == HistoryInit /\ [][HistoryNext]_<<listVars, history>>

(* A finished walk has shown every row that was in the list, in its place, *)
(* from beginning to end, whatever else was added or moved meanwhile.  Two *)
(* things make a walk skip rows all the same: a row before the position    *)
(* leaves or moves back, so that the rest moves up, and a page ends inside *)
(* rows that the ORDER BY of leases, tenants, rooms and bills leaves in    *)
(* any order.                                                              *)
NothingSkipped == walk.phase = "done" /\ ~shrunk /\ ~cut => \A r \in stayed : shown[r] > 0

(* No such row is shown twice, unless a row joined or moved in front of    *)
(* the position, or a page ended inside rows without an order.             *)
NothingTwice == ~grown /\ ~cut => \A r \in stayed : shown[r] <= 1

(* The total that comes with the last page, counted by a statement of its  *)
(* own, is the number of rows the caller was shown, when the list did not  *)
(* change: also for tenants, whose rows are joined with their leases.      *)
TotalCounted == walk.phase = "done" /\ steady =>
                    walk.total = SumFunction(shown)

(* A walk from the first page to the last shows every row once and counts  *)
(* them, except where rows move across the position or have no order.      *)
WalkComplete == WalkTypeOK /\ NothingSkipped /\ NothingTwice /\ TotalCounted
===========================================================================
