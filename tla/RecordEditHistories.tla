------------------------ MODULE RecordEditHistories ------------------------
(* RecordEdits with the histories its properties need: what the saved      *)
(* requests have asked for, and what was saved behind a request's back.    *)
EXTENDS RecordEdits

VARIABLES
    latest,      \* the columns as the saved requests asked for them, in order
    behind,      \* behind[q]: columns changed by others since q read the row
    overtaken,   \* requests that had read the row when another one was saved
    undone       \* columns of a room that an unguarded write has set back

histories == <<latest, behind, overtaken, undone>>

Running(q) == txn[q] # None /\ txn[q].op # "answered"
Saves(q) == /\ txn'[q] # txn[q] /\ txn'[q] # None
            /\ txn'[q].op = "answered" /\ txn'[q].saved
Changed == {f \in Fields : row'.value[f] # row.value[f]}

(* Columns of a room that q's write may set back: those it was not asked   *)
(* for and others changed since it read them; and on the way into          *)
(* maintenance, the columns that SetRoomMaintenance leaves out.            *)
MaySetBack(q) ==
    IF kind # "room" THEN {}
    ELSE (behind[q] \ DOMAIN txn[q].ask)
         \cup (IF txn[q].op = "maintain" THEN {"detail"} ELSE {})

Saved(q) ==
    /\ latest' = Edited(latest, txn'[q].ask)
    /\ undone' = (undone \ DOMAIN txn'[q].ask) \cup MaySetBack(q)
    /\ overtaken' = overtaken \cup {p \in Reqs \ {q} : Running(p)}
    /\ behind' = [p \in Reqs |-> IF p # q /\ Running(p) THEN behind[p] \cup Changed
                                 ELSE behind[p]]

NothingSaved ==
    /\ UNCHANGED <<latest, undone>>
    /\ overtaken' = {p \in overtaken : txn'[p] # None}
    /\ behind' = [p \in Reqs |-> IF txn'[p] = None THEN {} ELSE behind[p]]

HistoryInit ==
    /\ Init /\ latest = row.value
    /\ behind = [q \in Reqs |-> {}] /\ overtaken = {} /\ undone = {}

HistoryStep ==
    \/ \E q \in Reqs : Saves(q) /\ Saved(q)
    \/ ~(\E q \in Reqs : Saves(q)) /\ NothingSaved

HistoryNext == Next /\ HistoryStep

HistorySpec == HistoryInit /\ [][HistoryNext]_<<vars, histories>>

(* A saved change stays in the record until a later request asks for that  *)
(* column: no request writes back an older value of a column it was not    *)
(* asked to change, whatever it read and whoever was saved in between.     *)
(* Only a room's columns can be set back, by the writes that carry no      *)
(* version, and only those undone names.                                   *)
SavedChangesStand ==
    \A f \in Fields : row.value[f] = latest[f] \/ f \in undone

(* A request that read the record is refused only when another one was     *)
(* saved after that: what leases, payments and repairs write to the same   *)
(* row never costs a user their edit.                                      *)
RefusedOnlyIfOvertaken ==
    \A q \in Reqs : txn[q] # None /\ txn[q].op = "answered" /\ ~txn[q].saved
                        => q \in overtaken

(* An edit that is accepted stands, and one that is refused had been       *)
(* overtaken.                                                              *)
EditsHonoured == TypeOK /\ SavedChangesStand /\ RefusedOnlyIfOvertaken
=============================================================================
