------------------------ MODULE LeaseSettlementRaces ------------------------
(* LeaseSettlement with the history that its one race needs.               *)
EXTENDS LeaseSettlement

VARIABLE overtaken   \* a bill was locked behind the back of a rent change

(* A payment or the overdue job commits a rent bill between the two halves *)
(* of an UpdateLease that has not seen it locked.                          *)
Overtakes(q) ==
    /\ txn[q] # None /\ txn'[q] = txn[q]
    /\ \E b \in Bills : /\ b.kind = "rent" /\ b.period >= txn[q].from
                        /\ bill[txn[q].lease][b] \in Pending
                        /\ bill'[txn[q].lease][b] \notin Pending

HistoryInit == Init /\ overtaken = FALSE
HistoryNext == Next /\ overtaken' = (overtaken \/ \E q \in Reqs : Overtakes(q))
HistorySpec == HistoryInit /\ [][HistoryNext]_<<vars, overtaken>>

(* One period of a lease has at most one bill of a kind that is not        *)
(* voided, unless a bill was locked between the look of UpdateLease for    *)
(* locked bills and its new ones: nothing else bills a period twice.       *)
PeriodBilledOnceUnlessOvertaken == overtaken \/ PeriodBilledOnce

(* What UpdateLease has seen is still so: no rent bill from the period of  *)
(* the change on is paid, overdue or written off.                          *)
LooksAreCurrent ==
    \A q \in Reqs :
        txn[q] # None =>
            \A b \in Bills :
                b.kind = "rent" /\ b.period >= txn[q].from =>
                    bill[txn[q].lease][b] \in Pending \cup {"voided", "absent"}

(* The inductive invariant behind it, together with SettlementInv.         *)
RaceInv == overtaken \/ (PeriodBilledOnce /\ LooksAreCurrent)
=============================================================================
