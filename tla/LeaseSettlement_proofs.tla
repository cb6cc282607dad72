----------------------- MODULE LeaseSettlement_proofs -----------------------
(* Proofs about LeaseSettlement, for every choice of its constants.        *)
EXTENDS LeaseSettlementRaces, TLAPS

(***************************************************************************)
(* Type correctness, together with the lease locks: the rent change of a   *)
(* locked lease stays below its bound only because nobody else changes it. *)
(***************************************************************************)
TypeAndLocks == TypeOK /\ LocksHeld

(* The row of a lease that exists is a full row.                           *)
LEMMA RowOfExisting ==
    ASSUME TypeOK, NEW l \in Leases, lease[l].status # "absent"
    PROVE  lease[l] \in Lease
BY DEF TypeOK, Lease

LEMMA NewLeaseType ==
    ASSUME NEW f \in Periods, NEW e \in Periods
    PROVE  NewLease(f, e) \in Lease
BY NAssumption DEF NewLease, Lease, Periods, Terminable

LEMMA SeedsType ==
    ASSUME NEW f, NEW e
    PROVE  Seeds(f, e) \in [Bills -> BillStatus \cup {"absent"}]
BY DEF Seeds, BillStatus

LEMMA SetBillsType ==
    ASSUME TypeOK, NEW l \in Leases, NEW S, NEW s \in BillStatus, SetBills(l, S, s)
    PROVE  bill' \in [Leases -> [Bills -> BillStatus \cup {"absent"}]]
BY DEF TypeOK, SetBills

LEMMA PostSettlementType ==
    ASSUME TypeOK, NEW l \in Leases, NEW refund \in Nat, NEW d \in Nat, NEW e \in Nat,
           NEW rent \in Nat, e <= d, PostSettlement(l, refund, d, e, rent)
    PROVE  posted' \in [Leases -> Posted]
BY DEF TypeOK, PostSettlement, Posted

LEMMA SettledRowType ==
    ASSUME TypeOK, NEW l \in Leases, lease[l].status # "absent",
           NEW s \in Terminable \cup {"terminated", "force_terminated"},
           NEW refund \in 0..Deposit, NEW d \in 0..Deposit, SettledRow(l, s, refund, d)
    PROVE  lease' \in [Leases -> Lease \cup {[status |-> "absent"]}]
<1>1. lease[l] \in Lease
  BY RowOfExisting
<1> QED
  BY <1>1 DEF TypeOK, SettledRow, Lease, Terminable

(* An operation that has the lock of l, opens no rent change and touches   *)
(* no other row but that of an absent lease m leaves the locks as they are. *)
LEMMA OthersKeepLocks ==
    ASSUME TypeAndLocks, NEW l \in Leases, NEW m \in Leases, Unlocked(l),
           lease[m].status = "absent" \/ m = l, UNCHANGED txn,
           \A k \in Leases \ {l, m} : lease'[k] = lease[k]
    PROVE  LocksHeld'
<1> SUFFICES ASSUME NEW q \in Reqs, txn'[q] # None
             PROVE  /\ lease'[txn'[q].lease].status = "active"
                    /\ lease'[txn'[q].lease].changes < MaxChanges
                    /\ \A r \in Reqs : txn'[r] # None /\ txn'[r].lease = txn'[q].lease => r = q
  BY DEF LocksHeld
<1>1. txn[q] # None /\ txn[q].lease \in Leases
  BY DEF TypeAndLocks, TypeOK
<1>2. txn[q].lease # l /\ txn[q].lease # m
  BY <1>1 DEF Unlocked, TypeAndLocks, LocksHeld
<1>3. lease'[txn[q].lease] = lease[txn[q].lease]
  BY <1>1, <1>2
<1> QED
  BY <1>1, <1>3 DEF TypeAndLocks, LocksHeld

(* Operations on bills and the clock change no lease and no lock.          *)
LEMMA SameLocks ==
    ASSUME LocksHeld, UNCHANGED <<lease, txn>>
    PROVE  LocksHeld'
BY DEF LocksHeld

LEMMA TypeAndLocksStep == TypeAndLocks /\ [Next]_vars => TypeAndLocks'
<1> SUFFICES ASSUME TypeAndLocks, [Next]_vars PROVE TypeAndLocks'
  OBVIOUS
<1> USE NAssumption
<1>a. TypeOK /\ LocksHeld
  BY DEF TypeAndLocks
<1>1. ASSUME NEW l \in Leases, NEW e \in Periods, CreateLease(l, e)
      PROVE  TypeAndLocks'
  <2>1. TypeOK'
    BY <1>1, <1>a, NewLeaseType, SeedsType DEF CreateLease, TypeOK, Periods
  <2>2. LocksHeld'
    <3> SUFFICES \A q \in Reqs : txn[q] = None
      BY <1>1 DEF CreateLease, LocksHeld
    <3> QED
      BY <1>1, <1>a DEF CreateLease, LocksHeld, TypeOK
  <2> QED
    BY <2>1, <2>2 DEF TypeAndLocks
<1>2. ASSUME NEW l \in Leases, NEW d \in 0..Deposit, UpdateDeposit(l, d)
      PROVE  TypeAndLocks'
  <2>1. /\ lease[l].status \in Terminable \cup {"terminated", "force_terminated"}
        /\ Deposit - d \in 0..Deposit /\ Deposit - d \in Nat /\ d \in Nat
    BY <1>2, <1>a, RowOfExisting DEF UpdateDeposit, Lease
  <2>2. lease' \in [Leases -> Lease \cup {[status |-> "absent"]}]
    BY <1>2, <1>a, <2>1, SettledRowType DEF UpdateDeposit
  <2>3. posted' \in [Leases -> Posted]
    BY <1>2, <1>a, <2>1, PostSettlementType DEF UpdateDeposit
  <2>4. LocksHeld'
    BY <1>2, <1>a, OthersKeepLocks DEF UpdateDeposit, SettledRow, TypeOK
  <2> QED
    BY <1>2, <1>a, <2>2, <2>3, <2>4 DEF UpdateDeposit, TypeOK, TypeAndLocks
<1>3. ASSUME NEW l \in Leases, NEW d \in 0..Deposit, TerminateLease(l, d)
      PROVE  TypeAndLocks'
  <2>1. lease[l].status # "absent" /\ Deposit - d \in 0..Deposit /\ Deposit - d \in Nat /\ d \in Nat
    BY <1>3 DEF TerminateLease, Terminable
  <2>2. lease' \in [Leases -> Lease \cup {[status |-> "absent"]}]
    BY <1>3, <1>a, <2>1, SettledRowType DEF TerminateLease
  <2>3. posted' \in [Leases -> Posted]
    BY <1>3, <1>a, <2>1, PostSettlementType DEF TerminateLease
  <2>4. LocksHeld'
    BY <1>3, <1>a, OthersKeepLocks DEF TerminateLease, SettledRow, TypeOK
  <2> QED
    BY <1>3, <1>a, <2>2, <2>3, <2>4 DEF TerminateLease, TypeOK, TypeAndLocks
<1>4. ASSUME NEW l \in Leases, NEW fee \in 0..Deposit, NEW e \in 0..Deposit, NEW rent \in 0..1,
             FinalizeCheckout(l, fee, e, rent)
      PROVE  TypeAndLocks'
  <2>1. /\ lease[l].status # "absent" /\ Deposit - (fee + e) \in 0..Deposit
        /\ Deposit - (fee + e) \in Nat /\ fee + e \in Nat /\ e \in Nat /\ rent \in Nat
        /\ e <= fee + e /\ fee + e \in 0..Deposit
    BY <1>4 DEF FinalizeCheckout, Terminable, ChargesCovered
  <2>2. lease' \in [Leases -> Lease \cup {[status |-> "absent"]}]
    BY <1>4, <1>a, <2>1, SettledRowType DEF FinalizeCheckout
  <2>3. posted' \in [Leases -> Posted]
    BY <1>4, <1>a, <2>1, PostSettlementType DEF FinalizeCheckout
  <2>4. bill' \in [Leases -> [Bills -> BillStatus \cup {"absent"}]]
    BY <1>4, <1>a, SetBillsType DEF FinalizeCheckout, BillStatus
  <2>5. received' \in [Leases -> [Bills -> Nat]]
    BY <1>4, <1>a DEF FinalizeCheckout, TypeOK
  <2>6. LocksHeld'
    BY <1>4, <1>a, OthersKeepLocks DEF FinalizeCheckout, SettledRow, TypeOK
  <2> QED
    BY <1>4, <1>a, <2>2, <2>3, <2>4, <2>5, <2>6 DEF FinalizeCheckout, TypeOK, TypeAndLocks
<1>5. ASSUME NEW l \in Leases, NEW handling, ForceTerminateLease(l, handling)
      PROVE  TypeAndLocks'
  <2>1. lease[l] \in Lease
    BY <1>5, <1>a, RowOfExisting DEF ForceTerminateLease, Terminable
  <2>2. lease' \in [Leases -> Lease \cup {[status |-> "absent"]}]
    <3>1. /\ [lease[l] EXCEPT !.status = "force_terminated"] \in Lease
          /\ [lease[l] EXCEPT !.status = "force_terminated", !.deposit = "written_off"] \in Lease
      BY <2>1 DEF Lease
    <3>2. \/ lease' = [lease EXCEPT ![l] = [lease[l] EXCEPT !.status = "force_terminated"]]
          \/ lease' = [lease EXCEPT ![l] = [lease[l] EXCEPT !.status = "force_terminated",
                                                          !.deposit = "written_off"]]
      BY <1>5, <1>a, <2>1 DEF ForceTerminateLease, TypeOK, Lease
    <3> QED
      BY <1>a, <3>1, <3>2 DEF TypeOK
  <2>3. posted' \in [Leases -> Posted]
    <3>1. CASE handling = "write_off"
      <4>1. PostSettlement(l, 0, Deposit, 0, 0)
        BY <1>5, <3>1 DEF ForceTerminateLease, PostDepositWriteOff
      <4> QED
        BY <1>a, <4>1, PostSettlementType
    <3>2. CASE handling # "write_off"
      BY <1>5, <1>a, <3>2 DEF ForceTerminateLease, TypeOK
    <3> QED
      BY <3>1, <3>2
  <2>4. bill' \in [Leases -> [Bills -> BillStatus \cup {"absent"}]]
    BY <1>5, <1>a, SetBillsType DEF ForceTerminateLease, WriteOffBills, BillStatus
  <2>5. LocksHeld'
    BY <1>5, <1>a, OthersKeepLocks DEF ForceTerminateLease, TypeOK
  <2> QED
    BY <1>5, <1>a, <2>2, <2>3, <2>4, <2>5 DEF ForceTerminateLease, TypeOK, TypeAndLocks
<1>6. ASSUME NEW l \in Leases, NEW m \in Leases, NEW e \in Periods, NEW p \in Periods,
             ReplaceLease(l, m, p, e)
      PROVE  TypeAndLocks'
  <2>1. lease[l] \in Lease /\ p - 1 \in 0..N
    BY <1>6, <1>a, RowOfExisting DEF ReplaceLease, Periods
  <2>2. lease' \in [Leases -> Lease \cup {[status |-> "absent"]}]
    BY <1>6, <1>a, <2>1, NewLeaseType DEF ReplaceLease, TypeOK, Lease
  <2>3. bill' \in [Leases -> [Bills -> BillStatus \cup {"absent"}]]
    BY <1>6, <1>a, SeedsType DEF ReplaceLease, VoidBillsOverlappingOrAfter, TypeOK, BillStatus
  <2>4. LocksHeld'
    BY <1>6, <1>a, OthersKeepLocks DEF ReplaceLease, TypeOK
  <2> QED
    BY <1>6, <1>a, <2>2, <2>3, <2>4 DEF ReplaceLease, TypeOK, TypeAndLocks
<1>7. ASSUME NEW l \in Leases, MarkLeaseExpired(l)
      PROVE  TypeAndLocks'
  <2>1. lease[l] \in Lease
    BY <1>7, <1>a, RowOfExisting DEF MarkLeaseExpired
  <2>2. lease' \in [Leases -> Lease \cup {[status |-> "absent"]}]
    BY <1>7, <1>a, <2>1 DEF MarkLeaseExpired, TypeOK, Lease, Terminable
  <2>3. LocksHeld'
    BY <1>7, <1>a, OthersKeepLocks DEF MarkLeaseExpired, TypeOK
  <2> QED
    BY <1>7, <1>a, <2>2, <2>3 DEF MarkLeaseExpired, TypeOK, TypeAndLocks
<1>8. ASSUME NEW l \in Leases, NEW b \in Bills, BillNext(l)
      PROVE  TypeAndLocks'
  <2>1. bill' \in [Leases -> [Bills -> BillStatus \cup {"absent"}]]
    BY <1>8, <1>a, SetBillsType DEF BillNext, RecordMeter, RecordPayment, MarkBillOverdue, BillStatus
  <2>2. received' \in [Leases -> [Bills -> Nat]]
    BY <1>8, <1>a DEF BillNext, RecordMeter, RecordPayment, MarkBillOverdue, TypeOK
  <2>3. UNCHANGED <<now, lease, posted, txn>>
    BY <1>8 DEF BillNext, RecordMeter, RecordPayment, MarkBillOverdue
  <2> QED
    BY <1>a, <2>1, <2>2, <2>3, SameLocks DEF TypeOK, TypeAndLocks
<1>9. ASSUME NEW q \in Reqs, NEW l \in Leases, ReadLockedBills(q, l)
      PROVE  TypeAndLocks'
  <2>1. lease[l] \in Lease /\ NextPayment(l) \in Nat
    BY <1>9, <1>a, RowOfExisting DEF ReadLockedBills, NextPayment, TypeOK, Lease, Periods
  <2>2. TypeOK'
    BY <1>9, <1>a, <2>1 DEF ReadLockedBills, TypeOK
  <2>3. LocksHeld'
    BY <1>9, <1>a, NoneAssumption, <2>1 DEF ReadLockedBills, LocksHeld, Unlocked, TypeOK
  <2> QED
    BY <2>2, <2>3 DEF TypeAndLocks
<1>10. ASSUME NEW q \in Reqs, UpdateLease(q)
       PROVE  TypeAndLocks'
  <2>1. PICK l \in Leases : txn[q].lease = l
    BY <1>10, <1>a DEF UpdateLease, TypeOK
  <2>2. lease[l] \in Lease /\ lease[l].changes + 1 \in 0..MaxChanges
    BY <1>10, <1>a, <2>1, RowOfExisting DEF UpdateLease, LocksHeld, Lease
  <2>3. lease' = [lease EXCEPT ![l].changes = @ + 1]
    BY <1>10, <2>1 DEF UpdateLease, UpdateLeaseConditions
  <2>4. lease' \in [Leases -> Lease \cup {[status |-> "absent"]}]
    BY <1>a, <2>2, <2>3 DEF TypeOK, Lease
  <2>5. bill' \in [Leases -> [Bills -> BillStatus \cup {"absent"}]]
    <3>1. Regenerated(l, txn[q].from) \in [Bills -> BillStatus \cup {"absent"}]
      BY <1>a DEF Regenerated, VoidAndCreate, TypeOK, BillStatus
    <3>2. bill' = [bill EXCEPT ![l] = Regenerated(l, txn[q].from)] \/ bill' = bill
      BY <1>10, <2>1 DEF UpdateLease
    <3> QED
      BY <1>a, <3>1, <3>2 DEF TypeOK
  <2>6. TypeOK'
    BY <1>10, <1>a, <2>4, <2>5 DEF UpdateLease, TypeOK
  <2>7. LocksHeld'
    <3> SUFFICES ASSUME NEW r \in Reqs, txn'[r] # None
                 PROVE  /\ lease'[txn'[r].lease].status = "active"
                        /\ lease'[txn'[r].lease].changes < MaxChanges
                        /\ \A s \in Reqs : txn'[s] # None /\ txn'[s].lease = txn'[r].lease => s = r
      BY DEF LocksHeld
    <3>1. r # q /\ txn'[r] = txn[r] /\ \A s \in Reqs : txn'[s] # None => txn'[s] = txn[s]
      BY <1>10, <1>a DEF UpdateLease, TypeOK
    <3>2. txn[r].lease \in Leases /\ txn[r].lease # l
      BY <1>10, <1>a, <2>1, <3>1 DEF UpdateLease, LocksHeld, TypeOK
    <3>3. lease'[txn[r].lease] = lease[txn[r].lease]
      BY <1>a, <2>3, <3>2 DEF TypeOK
    <3> QED
      BY <1>a, <3>1, <3>3 DEF LocksHeld
  <2> QED
    BY <2>6, <2>7 DEF TypeAndLocks
<1>11. ASSUME NEW q \in Reqs, Rollback(q)
       PROVE  TypeAndLocks'
  <2>1. TypeOK'
    BY <1>11, <1>a DEF Rollback, TypeOK
  <2>2. LocksHeld'
    BY <1>11, <1>a DEF Rollback, LocksHeld, TypeOK
  <2> QED
    BY <2>1, <2>2 DEF TypeAndLocks
<1>12. CASE Tick
  BY <1>12, <1>a, SameLocks DEF Tick, TypeOK, TypeAndLocks
<1>13. CASE UNCHANGED vars
  BY <1>13, <1>a, SameLocks DEF vars, TypeOK, TypeAndLocks
<1>14. CASE Next
  <2>1. CASE \E l \in Leases : LeaseNext(l)
    BY <2>1, <1>1, <1>2, <1>3, <1>4, <1>5, <1>6, <1>7 DEF LeaseNext
  <2>2. CASE \E l \in Leases : BillNext(l)
    BY <2>2, <1>8 DEF BillNext
  <2>3. CASE \E q \in Reqs : RentNext(q)
    BY <2>3, <1>9, <1>10, <1>11 DEF RentNext
  <2> QED
    BY <1>14, <2>1, <2>2, <2>3, <1>12 DEF Next
<1> QED
  BY <1>13, <1>14

LEMMA TypeAndLocksInvariant == Spec => []TypeAndLocks
<1>1. Init => TypeAndLocks
  BY NAssumption DEF Init, TypeAndLocks, TypeOK, LocksHeld, Posted
<1> QED
  BY <1>1, TypeAndLocksStep, PTL DEF Spec

(* No operation stores anything but well-formed rows, bills, entries and   *)
(* rent changes.                                                           *)
THEOREM TypeCorrect == Spec => []TypeOK
<1>1. TypeAndLocks => TypeOK
  BY DEF TypeAndLocks
<1> QED
  BY <1>1, TypeAndLocksInvariant, PTL

(***************************************************************************)
(* The settlement invariant, lease by lease: what holds of one lease's row *)
(* r, the status s and the payments c of its bills, and its entries p.     *)
(* These are constant operators, applied below to the state before and     *)
(* after a step.                                                           *)
(***************************************************************************)
RowsGood(r, s, p) ==
    IF r.status = "absent"
    THEN /\ \A b \in Bills : s[b] = "absent"
         /\ p.refund = 0 /\ p.deduction = 0 /\ p.electricity = 0
    ELSE /\ \A b \in Bills : s[b] # "absent" => b.gen <= r.changes
         /\ r.deposit = "written_off" => r.status = "force_terminated"

DepositGood(r, p) ==
    r.status # "absent" =>
        /\ p.refund = r.refund
        /\ p.deduction + p.electricity =
               r.deduction + (IF r.deposit = "written_off" THEN Deposit ELSE 0)
        /\ r.deposit = "held" => r.refund + r.deduction = 0
        /\ r.deposit = "settled" => r.refund + r.deduction = Deposit

BillsGood(r, s, c, p) ==
    \A b \in Bills :
        /\ c[b] <= 1
        /\ c[b] = 1 => s[b] = "paid"
        /\ s[b] = "paid" /\ c[b] = 0 =>
               b.kind = "electricity" /\ r.status = "terminated" /\ p.electricity = 0

EndedGood(r, s) ==
    /\ r.status \in {"terminated", "force_terminated"} =>
           \A b \in Bills : s[b] \notin Settled \cup {"absent"} =>
               r.replaced /\ s[b] = "overdue" /\ b.period > r.last
    /\ r.status = "terminated" => r.replaced \/ r.deposit = "settled"

Billed(s, k, q) ==
    \E b \in Bills : b.kind = k /\ b.period = q /\ s[b] \notin {"absent", "voided"}

CoveredGood(r, s) ==
    r.status \in Terminable =>
        \A q \in r.first..r.last : Billed(s, "rent", q) /\ Billed(s, "electricity", q)

PendingGood(s) ==
    \A b, c \in Bills :
        b.kind = c.kind /\ b.period = c.period /\ s[b] \in Pending /\ s[c] \in Pending => b = c

Good(r, s, c, p) ==
    /\ RowsGood(r, s, p)
    /\ DepositGood(r, p)
    /\ BillsGood(r, s, c, p)
    /\ EndedGood(r, s)
    /\ CoveredGood(r, s)
    /\ PendingGood(s)

GoodLease(l) == Good(lease[l], bill[l], received[l], posted[l])
IInv == TypeAndLocks /\ \A l \in Leases : GoodLease(l)

(* IInv is the invariant that the runs check.                              *)
LEMMA IInvIsSettlementInv == IInv <=> SettlementInv
<1>1. ASSUME NEW l \in Leases
      PROVE  Unpaid(l) = {b \in Bills : bill[l][b] \notin Settled \cup {"absent"}}
  BY DEF Unpaid
<1>2. ASSUME NEW l \in Leases, NEW k, NEW q
      PROVE  Billed(bill[l], k, q) <=> Live(l, k, q) # {}
  BY DEF Billed, Live
<1>3. RowsMatchBills <=> \A l \in Leases : RowsGood(lease[l], bill[l], posted[l])
  BY DEF RowsMatchBills, RowsGood
<1>4. DepositAgreesWithLedger <=> \A l \in Leases : DepositGood(lease[l], posted[l])
  BY DEF DepositAgreesWithLedger, DepositGood
<1>5. BillAgreesWithLedger
          <=> \A l \in Leases : BillsGood(lease[l], bill[l], received[l], posted[l])
  BY DEF BillAgreesWithLedger, BillsGood
<1>6. EndedLeaseSettled <=> \A l \in Leases : EndedGood(lease[l], bill[l])
  BY <1>1 DEF EndedLeaseSettled, EndedGood
<1>7. OpenLeaseFullyBilled <=> \A l \in Leases : CoveredGood(lease[l], bill[l])
  BY <1>2 DEF OpenLeaseFullyBilled, CoveredGood
<1>8. OnePendingBillPerPeriod <=> \A l \in Leases : PendingGood(bill[l])
  BY DEF OnePendingBillPerPeriod, PendingGood
<1> QED
  BY <1>3, <1>4, <1>5, <1>6, <1>7, <1>8
     DEF IInv, SettlementInv, TypeAndLocks, GoodLease, Good

(* A step that changes nothing of lease k keeps it good.                   *)
LEMMA UnchangedGood ==
    ASSUME IInv, NEW k \in Leases, lease'[k] = lease[k], bill'[k] = bill[k],
           received'[k] = received[k], posted'[k] = posted[k]
    PROVE  GoodLease(k)'
BY DEF IInv, GoodLease

(* A lease is created with one pending bill of each kind for each of its   *)
(* periods, whether it is a first lease or a successor.                    *)
LEMMA NewLeaseGood ==
    ASSUME IInv, NEW l \in Leases, NEW f \in Periods, NEW e \in Periods,
           lease[l].status = "absent",
           lease'[l] = NewLease(f, e), bill'[l] = Seeds(f, e),
           received'[l] = received[l], posted'[l] = posted[l]
    PROVE  GoodLease(l)'
<1> USE NAssumption
<1>1. GoodLease(l) /\ received[l] \in [Bills -> Nat]
  BY DEF IInv, TypeAndLocks, TypeOK
<1>2. /\ \A b \in Bills : bill[l][b] = "absent" /\ received[l][b] = 0
      /\ posted[l].refund = 0 /\ posted[l].deduction = 0 /\ posted[l].electricity = 0
  BY <1>1 DEF GoodLease, Good, RowsGood, BillsGood
<1>3. RowsGood(NewLease(f, e), Seeds(f, e), posted[l])
  BY DEF RowsGood, NewLease, Seeds, Bills
<1>4. DepositGood(NewLease(f, e), posted[l])
  BY <1>2 DEF DepositGood, NewLease
<1>5. BillsGood(NewLease(f, e), Seeds(f, e), received[l], posted[l])
  BY <1>2 DEF BillsGood, Seeds
<1>6. EndedGood(NewLease(f, e), Seeds(f, e))
  BY DEF EndedGood, NewLease
<1>7. CoveredGood(NewLease(f, e), Seeds(f, e))
  <2> SUFFICES ASSUME NEW q \in f..e, NEW k \in {"rent", "electricity"}
               PROVE  Billed(Seeds(f, e), k, q)
    BY DEF CoveredGood, NewLease
  <2>1. [kind |-> k, period |-> q, gen |-> 0] \in Bills
    BY DEF Bills, Periods
  <2> QED
    BY <2>1 DEF Billed, Seeds
<1>8. PendingGood(Seeds(f, e))
  BY DEF PendingGood, Seeds, Pending, Bills
<1> QED
  BY <1>3, <1>4, <1>5, <1>6, <1>7, <1>8 DEF GoodLease, Good

LEMMA ZeroSum ==
    ASSUME NEW a \in Nat, NEW b \in Nat, a + b = 0
    PROVE  a = 0 /\ b = 0
OBVIOUS

(* A held deposit has posted nothing.                                      *)
LEMMA HeldPostedNothing ==
    ASSUME NEW r \in Lease, NEW p \in Posted, r.deposit = "held", DepositGood(r, p)
    PROVE  p.refund = 0 /\ p.deduction = 0 /\ p.electricity = 0
<1>1. r.refund \in Nat /\ r.deduction \in Nat /\ r.status # "absent"
  BY NAssumption DEF Lease, Terminable
<1>2. p.refund \in Nat /\ p.deduction \in Nat /\ p.electricity \in Nat
  BY DEF Posted
<1>3. /\ r.refund + r.deduction = 0 /\ p.refund = r.refund
      /\ p.deduction + p.electricity = r.deduction + 0
  BY <1>1 DEF DepositGood
<1>4. r.refund = 0 /\ r.deduction = 0
  BY <1>1, <1>3, ZeroSum
<1>5. p.deduction + p.electricity = 0
  BY <1>3, <1>4
<1> QED
  BY <1>2, <1>3, <1>4, <1>5, ZeroSum

(* Settling a held deposit, for a lease that stays as it is or ends with   *)
(* all its bills settled: refund, deduction and entries add up.            *)
LEMMA SettledGood ==
    ASSUME IInv, NEW l \in Leases, lease[l] \in Lease, lease[l].deposit = "held",
           NEW s, s = lease[l].status \/ (s = "terminated" /\ Unpaid(l) = {}),
           NEW d \in 0..Deposit,
           SettledRow(l, s, Deposit - d, d), PostSettlement(l, Deposit - d, d, 0, 0),
           bill'[l] = bill[l], received'[l] = received[l]
    PROVE  GoodLease(l)'
<1> USE NAssumption
<1>1. GoodLease(l) /\ posted[l] \in Posted /\ bill[l] \in [Bills -> BillStatus \cup {"absent"}]
  BY DEF IInv, TypeAndLocks, TypeOK
<1>2. lease'[l] = [lease[l] EXCEPT !.status = s, !.deposit = "settled",
                                   !.refund = Deposit - d, !.deduction = d]
  BY DEF SettledRow, IInv, TypeAndLocks, TypeOK, Lease
<1>3. /\ posted'[l].refund = posted[l].refund + (Deposit - d)
      /\ posted'[l].deduction = posted[l].deduction + d
      /\ posted'[l].electricity = posted[l].electricity
  BY <1>1 DEF PostSettlement, IInv, TypeAndLocks, TypeOK, Posted
<1>4. lease[l].status # "absent" /\ s # "absent"
  BY DEF Lease, Terminable
<1>5. RowsGood(lease'[l], bill'[l], posted'[l])
  BY <1>1, <1>2, <1>4 DEF RowsGood, GoodLease, Good, Lease
<1>6. DepositGood(lease'[l], posted'[l])
  <2>1. DepositGood(lease[l], posted[l]) /\ lease[l].refund \in Nat /\ lease[l].deduction \in Nat
    BY <1>1 DEF GoodLease, Good, Lease
  <2>2. /\ posted[l].refund = 0 /\ posted[l].deduction = 0 /\ posted[l].electricity = 0
    BY <1>1, <2>1, HeldPostedNothing
  <2>3. /\ lease'[l].refund = Deposit - d /\ lease'[l].deduction = d
        /\ lease'[l].deposit = "settled"
    BY <1>2 DEF Lease
  <2> QED
    BY <1>3, <2>2, <2>3 DEF DepositGood
<1>7. BillsGood(lease'[l], bill'[l], received'[l], posted'[l])
  BY <1>1, <1>2, <1>3 DEF BillsGood, GoodLease, Good, Lease, Posted
<1>8. EndedGood(lease'[l], bill'[l])
  BY <1>1, <1>2 DEF EndedGood, GoodLease, Good, Lease, Unpaid
<1>9. CoveredGood(lease'[l], bill'[l])
  BY <1>1, <1>2 DEF CoveredGood, GoodLease, Good, Lease, Terminable
<1>10. PendingGood(bill'[l])
  BY <1>1 DEF GoodLease, Good
<1> QED
  BY <1>5, <1>6, <1>7, <1>8, <1>9, <1>10 DEF GoodLease, Good

(* A checkout: the last electricity bill, if it waited for its reading, is *)
(* paid from the deposit, and counted under electricity only.              *)
LEMMA CheckoutGood ==
    ASSUME IInv, NEW l \in Leases, NEW fee \in 0..Deposit, NEW e \in 0..Deposit,
           NEW rent \in 0..1, FinalizeCheckout(l, fee, e, rent)
    PROVE  GoodLease(l)'
<1> USE NAssumption
<1>1. /\ GoodLease(l) /\ posted[l] \in Posted /\ received[l] \in [Bills -> Nat]
      /\ bill[l] \in [Bills -> BillStatus \cup {"absent"}] /\ lease[l] \in Lease
  BY RowOfExisting DEF IInv, TypeAndLocks, TypeOK, FinalizeCheckout, Terminable
<1>2. /\ lease[l].deposit = "held" /\ fee + e <= Deposit
      /\ lease'[l] = [lease[l] EXCEPT !.status = "terminated", !.deposit = "settled",
                                      !.refund = Deposit - (fee + e), !.deduction = fee + e]
  BY DEF FinalizeCheckout, ChargesCovered, SettledRow, IInv, TypeAndLocks, TypeOK
<1>3. /\ posted'[l].refund = posted[l].refund + (Deposit - (fee + e))
      /\ posted'[l].deduction = posted[l].deduction + (fee + e) - e
      /\ posted'[l].electricity = posted[l].electricity + e
  BY <1>1 DEF FinalizeCheckout, PostSettlement, IInv, TypeAndLocks, TypeOK, Posted
<1>4. \A b \in Bills :
         /\ bill[l][b] \in Settled \cup {"absent", "pending_meter"}
         /\ bill'[l][b] = IF bill[l][b] = "pending_meter" THEN "paid" ELSE bill[l][b]
         /\ bill[l][b] = "pending_meter" => b.kind = "electricity"
  BY <1>1 DEF FinalizeCheckout, SetBills, Unpaid, Settled, IInv, TypeAndLocks, TypeOK
<1>5. \A b \in Bills :
         received'[l][b] = IF bill[l][b] = "pending_meter" /\ e > 0
                           THEN received[l][b] + 1 ELSE received[l][b]
  BY <1>1 DEF FinalizeCheckout, Unpaid, Settled, IInv, TypeAndLocks, TypeOK
<1>6. /\ posted[l].refund = 0 /\ posted[l].deduction = 0 /\ posted[l].electricity = 0
  <2>1. DepositGood(lease[l], posted[l]) /\ lease[l].refund \in Nat /\ lease[l].deduction \in Nat
    BY <1>1 DEF GoodLease, Good, Lease
  <2> QED
    BY <1>1, <1>2, <2>1, HeldPostedNothing
<1>7. RowsGood(lease'[l], bill'[l], posted'[l])
  BY <1>1, <1>2, <1>4 DEF RowsGood, GoodLease, Good, Lease, Terminable
<1>8. DepositGood(lease'[l], posted'[l])
  <2>1. /\ lease'[l].refund = Deposit - (fee + e) /\ lease'[l].deduction = fee + e
        /\ lease'[l].deposit = "settled"
    BY <1>1, <1>2 DEF Lease
  <2> QED
    BY <1>2, <1>3, <1>6, <2>1 DEF DepositGood
<1>9. BillsGood(lease'[l], bill'[l], received'[l], posted'[l])
  <2>1. lease'[l].status = "terminated" /\ lease[l].status # "terminated"
    BY <1>1, <1>2 DEF Lease, FinalizeCheckout, Terminable
  <2>2. BillsGood(lease[l], bill[l], received[l], posted[l])
    BY <1>1 DEF GoodLease, Good
  <2> SUFFICES ASSUME NEW b \in Bills
               PROVE  /\ received'[l][b] <= 1
                      /\ received'[l][b] = 1 => bill'[l][b] = "paid"
                      /\ bill'[l][b] = "paid" /\ received'[l][b] = 0 =>
                             /\ b.kind = "electricity" /\ lease'[l].status = "terminated"
                             /\ posted'[l].electricity = 0
    BY DEF BillsGood
  <2>3. received[l][b] \in Nat
    BY <1>1
  <2>4. CASE bill[l][b] = "pending_meter"
    BY <1>3, <1>4, <1>5, <1>6, <2>1, <2>2, <2>3, <2>4 DEF BillsGood
  <2>5. CASE bill[l][b] # "pending_meter"
    BY <1>4, <1>5, <2>1, <2>2, <2>3, <2>5 DEF BillsGood
  <2> QED
    BY <2>4, <2>5
<1>10. EndedGood(lease'[l], bill'[l])
  BY <1>1, <1>2, <1>4 DEF EndedGood, Lease, Settled
<1>11. CoveredGood(lease'[l], bill'[l])
  BY <1>1, <1>2 DEF CoveredGood, Lease, Terminable
<1>12. PendingGood(bill'[l])
  BY <1>4 DEF PendingGood, Pending, Settled
<1> QED
  BY <1>7, <1>8, <1>9, <1>10, <1>11, <1>12 DEF GoodLease, Good

(* A forced termination writes off every unpaid bill; the deposit is       *)
(* confiscated or stays as it is.                                          *)
LEMMA ForceGood ==
    ASSUME IInv, NEW l \in Leases, NEW handling, ForceTerminateLease(l, handling)
    PROVE  GoodLease(l)'
<1> USE NAssumption
<1>1. /\ GoodLease(l) /\ posted[l] \in Posted
      /\ bill[l] \in [Bills -> BillStatus \cup {"absent"}] /\ lease[l] \in Lease
      /\ lease[l].status \in Terminable /\ received'[l] = received[l]
  BY RowOfExisting DEF IInv, TypeAndLocks, TypeOK, ForceTerminateLease, Terminable
<1>2. /\ lease'[l].status = "force_terminated" /\ lease'[l].changes = lease[l].changes
      /\ lease'[l].refund = lease[l].refund /\ lease'[l].deduction = lease[l].deduction
      /\ posted'[l].refund = posted[l].refund /\ posted'[l].electricity = posted[l].electricity
      /\ \/ /\ lease'[l].deposit = "written_off"
            /\ posted'[l].deduction = posted[l].deduction + Deposit
         \/ /\ lease'[l].deposit = lease[l].deposit
            /\ posted'[l].deduction = posted[l].deduction
  BY <1>1 DEF ForceTerminateLease, PostDepositWriteOff, PostSettlement, IInv, TypeAndLocks, TypeOK, Posted, Lease
<1>3. \A b \in Bills :
         bill'[l][b] = IF bill[l][b] \in Settled \cup {"absent"} THEN bill[l][b] ELSE "written_off"
  BY <1>1 DEF ForceTerminateLease, WriteOffBills, SetBills, Unpaid, IInv, TypeAndLocks, TypeOK
<1>4. lease[l].deposit # "written_off" /\ lease[l].status # "terminated" /\ lease[l].status # "absent"
  BY <1>1 DEF GoodLease, Good, RowsGood, Terminable
<1>5. RowsGood(lease'[l], bill'[l], posted'[l])
  BY <1>1, <1>2, <1>3, <1>4 DEF RowsGood, GoodLease, Good, Settled
<1>6. DepositGood(lease'[l], posted'[l])
  <2>1. /\ posted[l].deduction \in Nat /\ posted[l].electricity \in Nat
        /\ lease[l].refund \in Nat /\ lease[l].deduction \in Nat
    BY <1>1 DEF Posted, Lease
  <2>2. /\ posted[l].refund = lease[l].refund
        /\ posted[l].deduction + posted[l].electricity = lease[l].deduction + 0
        /\ lease[l].deposit = "held" => lease[l].refund + lease[l].deduction = 0
        /\ lease[l].deposit = "settled" => lease[l].refund + lease[l].deduction = Deposit
    BY <1>1, <1>4 DEF GoodLease, Good, DepositGood
  <2>3. CASE /\ lease'[l].deposit = "written_off"
             /\ posted'[l].deduction = posted[l].deduction + Deposit
    BY <1>2, <2>1, <2>2, <2>3 DEF DepositGood
  <2>4. CASE /\ lease'[l].deposit = lease[l].deposit
             /\ posted'[l].deduction = posted[l].deduction
    BY <1>2, <1>4, <2>1, <2>2, <2>4 DEF DepositGood
  <2> QED
    BY <1>2, <2>3, <2>4
<1>7. BillsGood(lease'[l], bill'[l], received'[l], posted'[l])
  BY <1>1, <1>3, <1>4 DEF BillsGood, GoodLease, Good, Settled
<1>8. EndedGood(lease'[l], bill'[l])
  BY <1>2, <1>3 DEF EndedGood, Settled
<1>9. CoveredGood(lease'[l], bill'[l])
  BY <1>2 DEF CoveredGood, Terminable
<1>10. PendingGood(bill'[l])
  BY <1>3 DEF PendingGood, Pending, Settled
<1> QED
  BY <1>5, <1>6, <1>7, <1>8, <1>9, <1>10 DEF GoodLease, Good

(* The predecessor of a replacement: what was pending from the boundary on *)
(* is voided, what lies before it is paid.                                 *)
LEMMA PredecessorGood ==
    ASSUME IInv, NEW l \in Leases, NEW m \in Leases, NEW e \in Periods, NEW p \in Periods,
           ReplaceLease(l, m, p, e)
    PROVE  GoodLease(l)'
<1> USE NAssumption
<1>1. /\ GoodLease(l) /\ lease[l] \in Lease /\ l # m
      /\ bill[l] \in [Bills -> BillStatus \cup {"absent"}]
      /\ received'[l] = received[l] /\ posted'[l] = posted[l]
  BY RowOfExisting DEF IInv, TypeAndLocks, TypeOK, ReplaceLease
<1>2. /\ lease'[l] = [lease[l] EXCEPT !.status = "terminated", !.replaced = TRUE, !.last = p - 1]
      /\ lease[l].status = "active" /\ lease[l].deposit = "held"
  BY <1>1 DEF ReplaceLease, IInv, TypeAndLocks, TypeOK
<1>3. \A b \in Bills :
         bill'[l][b] = IF b.period >= p /\ bill[l][b] \in Pending THEN "voided" ELSE bill[l][b]
  BY <1>1 DEF ReplaceLease, VoidBillsOverlappingOrAfter, IInv, TypeAndLocks, TypeOK
<1>4. \A b \in Bills : b.period < p => bill[l][b] \in {"paid", "absent"}
  BY DEF ReplaceLease, Replaceable
<1>5. \A b \in Bills : b.period \in Nat
  BY DEF Bills, Periods
<1>6. RowsGood(lease'[l], bill'[l], posted'[l])
  BY <1>1, <1>2, <1>3 DEF RowsGood, GoodLease, Good, Lease, Pending
<1>7. DepositGood(lease'[l], posted'[l])
  BY <1>1, <1>2 DEF DepositGood, GoodLease, Good, Lease
<1>8. BillsGood(lease'[l], bill'[l], received'[l], posted'[l])
  BY <1>1, <1>2, <1>3 DEF BillsGood, GoodLease, Good, Lease, Pending
<1>9. EndedGood(lease'[l], bill'[l])
  <2>1. lease'[l].replaced /\ lease'[l].last = p - 1
    BY <1>1, <1>2 DEF Lease
  <2>2. ASSUME NEW b \in Bills, bill'[l][b] \notin Settled \cup {"absent"}
        PROVE  bill'[l][b] = "overdue" /\ b.period > p - 1
    <3>1. b.period >= p
      BY <1>3, <1>4, <1>5, <2>2 DEF Settled, Periods
    <3>2. bill[l][b] \in BillStatus \cup {"absent"}
      BY <1>1
    <3> QED
      BY <1>3, <1>5, <2>2, <3>1, <3>2 DEF Settled, BillStatus, Pending, Periods
  <2> QED
    BY <2>1, <2>2 DEF EndedGood
<1>10. CoveredGood(lease'[l], bill'[l])
  BY <1>1, <1>2 DEF CoveredGood, Lease, Terminable
<1>11. PendingGood(bill'[l])
  BY <1>1, <1>3 DEF PendingGood, GoodLease, Good, Pending
<1> QED
  BY <1>6, <1>7, <1>8, <1>9, <1>10, <1>11 DEF GoodLease, Good

(* A rent change: the pending rent bills from the next payment date on are *)
(* voided, and bills of a new generation cover the rest of the lease.      *)
LEMMA RentChangeGood ==
    ASSUME IInv, NEW q \in Reqs, NEW l \in Leases, UpdateLease(q), txn[q].lease = l
    PROVE  GoodLease(l)'
<1> USE NAssumption
<1> DEFINE g == lease[l].changes + 1
<1>1. /\ GoodLease(l) /\ lease[l].status = "active" /\ lease[l].changes < MaxChanges
      /\ bill[l] \in [Bills -> BillStatus \cup {"absent"}]
      /\ received'[l] = received[l] /\ posted'[l] = posted[l]
  BY DEF IInv, TypeAndLocks, TypeOK, UpdateLease, LocksHeld
<1>2. lease[l] \in Lease
  BY <1>1, RowOfExisting DEF IInv, TypeAndLocks
<1>3. lease'[l] = [lease[l] EXCEPT !.changes = g]
  BY <1>1, <1>2 DEF UpdateLease, UpdateLeaseConditions, IInv, TypeAndLocks, TypeOK
<1>4. PICK p \in Nat : p = txn[q].from
  BY DEF UpdateLease, IInv, TypeAndLocks, TypeOK
<1>5. \/ bill'[l] = bill[l]
      \/ /\ p <= lease[l].last
         /\ bill'[l] = Regenerated(l, p)
  BY <1>1, <1>4 DEF UpdateLease, IInv, TypeAndLocks, TypeOK
<1>6. /\ lease'[l].status = "active" /\ lease'[l].deposit = lease[l].deposit
      /\ lease'[l].changes = g /\ lease'[l].refund = lease[l].refund
      /\ lease'[l].deduction = lease[l].deduction /\ lease'[l].first = lease[l].first
      /\ lease'[l].last = lease[l].last
  BY <1>1, <1>2, <1>3 DEF Lease
<1>7. /\ lease[l].changes \in Nat /\ g \in 0..MaxChanges /\ lease[l].first \in Periods
      /\ lease[l].last \in 0..N
  BY <1>1, <1>2 DEF Lease
<1>8. DepositGood(lease'[l], posted'[l])
  BY <1>1, <1>6 DEF DepositGood, GoodLease, Good
<1>9. EndedGood(lease'[l], bill'[l])
  BY <1>6 DEF EndedGood
<1>10. CASE bill'[l] = bill[l]
  <2>1. RowsGood(lease'[l], bill'[l], posted'[l])
    BY <1>1, <1>6, <1>7, <1>10 DEF RowsGood, GoodLease, Good, Bills
  <2>2. BillsGood(lease'[l], bill'[l], received'[l], posted'[l])
    BY <1>1, <1>6, <1>10 DEF BillsGood, GoodLease, Good
  <2>3. CoveredGood(lease'[l], bill'[l])
    BY <1>1, <1>6, <1>10 DEF CoveredGood, GoodLease, Good
  <2>4. PendingGood(bill'[l])
    BY <1>1, <1>10 DEF GoodLease, Good
  <2> QED
    BY <1>8, <1>9, <2>1, <2>2, <2>3, <2>4 DEF GoodLease, Good
<1>11. CASE p <= lease[l].last /\ bill'[l] = Regenerated(l, p)
  <2>1. \A b \in Bills :
           bill'[l][b] = IF b.kind = "rent" /\ b.period >= p /\ bill[l][b] \in Pending
                         THEN "voided"
                         ELSE IF b.kind = "rent" /\ b.period \in p..lease[l].last /\ b.gen = g
                         THEN "pending_payment"
                         ELSE bill[l][b]
    BY <1>11 DEF Regenerated, VoidAndCreate
  <2>2. \A b \in Bills : b.gen = g => bill[l][b] = "absent"
    BY <1>1, <1>7 DEF GoodLease, Good, RowsGood, Bills
  <2>3. \A b \in Bills : b.period \in Nat /\ b.gen \in Nat /\ b.kind \in {"rent", "electricity"}
    BY DEF Bills, Periods
  <2>4. RowsGood(lease'[l], bill'[l], posted'[l])
    BY <1>1, <1>6, <1>7, <2>1, <2>3 DEF RowsGood, GoodLease, Good, Pending
  <2>5. BillsGood(lease'[l], bill'[l], received'[l], posted'[l])
    BY <1>1, <1>6, <2>1, <2>2 DEF BillsGood, GoodLease, Good, Pending
  <2>6. CoveredGood(lease'[l], bill'[l])
    <3> SUFFICES ASSUME NEW x \in lease[l].first..lease[l].last
                 PROVE  Billed(bill'[l], "rent", x) /\ Billed(bill'[l], "electricity", x)
      BY <1>6 DEF CoveredGood
    <3>1. Billed(bill[l], "rent", x) /\ Billed(bill[l], "electricity", x)
      BY <1>1 DEF GoodLease, Good, CoveredGood, Terminable
    <3>2. Billed(bill'[l], "electricity", x)
      BY <2>1, <3>1 DEF Billed
    <3>3. CASE x < p
      BY <1>4, <1>7, <2>1, <2>3, <3>1, <3>3 DEF Billed
    <3>4. CASE x >= p
      <4>1. [kind |-> "rent", period |-> x, gen |-> g] \in Bills
        BY <1>7 DEF Bills, Periods
      <4>2. x \in p..lease[l].last
        BY <1>4, <1>7, <3>4 DEF Periods
      <4>3. bill'[l][[kind |-> "rent", period |-> x, gen |-> g]] = "pending_payment"
        BY <2>1, <2>2, <4>1, <4>2 DEF Pending
      <4> QED
        BY <3>2, <4>1, <4>3 DEF Billed
    <3> QED
      BY <1>4, <1>7, <3>2, <3>3, <3>4 DEF Periods
  <2>7. PendingGood(bill'[l])
    <3> SUFFICES ASSUME NEW b \in Bills, NEW c \in Bills, b.kind = c.kind, b.period = c.period,
                        bill'[l][b] \in Pending, bill'[l][c] \in Pending
                 PROVE  b = c
      BY DEF PendingGood
    <3>1. PendingGood(bill[l])
      BY <1>1 DEF GoodLease, Good
    <3>2. CASE b.kind = "rent" /\ b.period >= p
      <4>1. b.gen = g /\ c.gen = g
        BY <2>1, <3>2 DEF Pending
      <4> QED
        BY <4>1 DEF Bills
    <3>3. CASE ~(b.kind = "rent" /\ b.period >= p)
      <4>1. bill'[l][b] = bill[l][b] /\ bill'[l][c] = bill[l][c]
        BY <1>4, <1>7, <2>1, <2>3, <3>3
      <4> QED
        BY <3>1, <4>1 DEF PendingGood
    <3> QED
      BY <3>2, <3>3
  <2> QED
    BY <1>8, <1>9, <2>4, <2>5, <2>6, <2>7 DEF GoodLease, Good
<1> QED
  BY <1>5, <1>10, <1>11

(* Recording a meter, a payment or an overdue bill moves one bill that is  *)
(* not settled; of an ended lease only an overdue bill can still be paid.  *)
LEMMA BillStepGood ==
    ASSUME IInv, NEW l \in Leases, BillNext(l)
    PROVE  GoodLease(l)'
<1> USE NAssumption
<1>1. /\ GoodLease(l) /\ lease'[l] = lease[l] /\ posted'[l] = posted[l]
      /\ bill[l] \in [Bills -> BillStatus \cup {"absent"}] /\ received[l] \in [Bills -> Nat]
  BY DEF IInv, TypeAndLocks, TypeOK, BillNext, RecordMeter, RecordPayment, MarkBillOverdue
<1>2. PICK b \in Bills : RecordMeter(l, b) \/ RecordPayment(l, b) \/ MarkBillOverdue(l, b)
  BY DEF BillNext
<1>3. \A c \in Bills : c # b => bill'[l][c] = bill[l][c] /\ received'[l][c] = received[l][c]
  BY <1>1, <1>2 DEF RecordMeter, RecordPayment, MarkBillOverdue, SetBills, IInv, TypeAndLocks, TypeOK
<1>4. \/ /\ bill[l][b] = "pending_meter" /\ bill'[l][b] = "pending_payment"
         /\ received'[l][b] = received[l][b]
      \/ /\ bill[l][b] \in Payable /\ bill'[l][b] = "paid"
         /\ received'[l][b] = received[l][b] + 1
      \/ /\ bill[l][b] = "pending_payment" /\ bill'[l][b] = "overdue"
         /\ received'[l][b] = received[l][b]
  BY <1>1, <1>2 DEF RecordMeter, RecordPayment, MarkBillOverdue, SetBills, IInv, TypeAndLocks, TypeOK
<1>5. bill[l][b] \notin {"absent", "paid", "voided", "written_off"}
  BY <1>4 DEF Payable
<1>6. RowsGood(lease'[l], bill'[l], posted'[l])
  BY <1>1, <1>3, <1>5 DEF RowsGood, GoodLease, Good
<1>7. DepositGood(lease'[l], posted'[l])
  BY <1>1 DEF GoodLease, Good
<1>8. BillsGood(lease'[l], bill'[l], received'[l], posted'[l])
  <2>1. BillsGood(lease[l], bill[l], received[l], posted[l])
    BY <1>1 DEF GoodLease, Good
  <2>2. received[l][b] = 0
    BY <1>1, <1>5, <2>1 DEF BillsGood
  <2> QED
    BY <1>1, <1>3, <1>4, <2>1, <2>2 DEF BillsGood
<1>9. EndedGood(lease'[l], bill'[l])
  BY <1>1, <1>3, <1>4 DEF EndedGood, GoodLease, Good, Settled
<1>10. CoveredGood(lease'[l], bill'[l])
  <2> SUFFICES ASSUME NEW k, NEW x, Billed(bill[l], k, x)
               PROVE  Billed(bill'[l], k, x)
    BY <1>1 DEF CoveredGood, GoodLease, Good
  <2> QED
    BY <1>3, <1>4 DEF Billed
<1>11. PendingGood(bill'[l])
  BY <1>1, <1>3, <1>4, <1>5 DEF PendingGood, GoodLease, Good, Pending, Payable
<1> QED
  BY <1>6, <1>7, <1>8, <1>9, <1>10, <1>11 DEF GoodLease, Good

LEMMA ExpiredGood ==
    ASSUME IInv, NEW l \in Leases, MarkLeaseExpired(l)
    PROVE  GoodLease(l)'
<1>1. /\ GoodLease(l) /\ lease[l] \in Lease /\ lease[l].status = "active"
      /\ lease'[l] = [lease[l] EXCEPT !.status = "expired"]
      /\ bill'[l] = bill[l] /\ received'[l] = received[l] /\ posted'[l] = posted[l]
  BY RowOfExisting DEF IInv, TypeAndLocks, TypeOK, MarkLeaseExpired
<1>2. /\ lease'[l].status = "expired" /\ lease'[l].deposit = lease[l].deposit
      /\ lease'[l].changes = lease[l].changes /\ lease'[l].refund = lease[l].refund
      /\ lease'[l].deduction = lease[l].deduction /\ lease'[l].first = lease[l].first
      /\ lease'[l].last = lease[l].last
  BY <1>1 DEF Lease
<1> QED
  BY <1>1, <1>2 DEF GoodLease, Good, RowsGood, DepositGood, BillsGood, EndedGood, CoveredGood,
                    Terminable

(***************************************************************************)
(* The invariant is inductive.                                             *)
(***************************************************************************)
LEMMA IInvStep == IInv /\ [Next]_vars => IInv'
<1> SUFFICES ASSUME IInv, [Next]_vars PROVE IInv'
  OBVIOUS
<1> SUFFICES ASSUME NEW k \in Leases PROVE GoodLease(k)'
  BY TypeAndLocksStep DEF IInv
<1>a. /\ lease \in [Leases -> Lease \cup {[status |-> "absent"]}]
      /\ bill \in [Leases -> [Bills -> BillStatus \cup {"absent"}]]
      /\ received \in [Leases -> [Bills -> Nat]] /\ posted \in [Leases -> Posted]
  BY DEF IInv, TypeAndLocks, TypeOK
<1>1. ASSUME NEW l \in Leases, NEW e \in Periods, CreateLease(l, e)
      PROVE  GoodLease(k)'
  <2>1. CASE k = l
    BY <1>1, <1>a, <2>1, NewLeaseGood, NAssumption DEF CreateLease, Periods
  <2>2. CASE k # l
    BY <1>1, <1>a, <2>2, UnchangedGood DEF CreateLease
  <2> QED
    BY <2>1, <2>2
<1>2. ASSUME NEW l \in Leases, NEW d \in 0..Deposit, UpdateDeposit(l, d) \/ TerminateLease(l, d)
      PROVE  GoodLease(k)'
  <2>1. CASE k = l
    <3>1. lease[l].status # "absent" /\ lease[l].deposit = "held"
      BY <1>2 DEF UpdateDeposit, TerminateLease, SettledRow, Terminable
    <3>2. lease[l] \in Lease
      BY <3>1, RowOfExisting DEF IInv, TypeAndLocks
    <3> QED
      BY <1>2, <1>a, <2>1, <3>1, <3>2, SettledGood DEF UpdateDeposit, TerminateLease
  <2>2. CASE k # l
    BY <1>2, <1>a, <2>2, UnchangedGood DEF UpdateDeposit, TerminateLease, SettledRow, PostSettlement
  <2> QED
    BY <2>1, <2>2
<1>3. ASSUME NEW l \in Leases, NEW fee \in 0..Deposit, NEW e \in 0..Deposit, NEW rent \in 0..1,
             FinalizeCheckout(l, fee, e, rent)
      PROVE  GoodLease(k)'
  <2>1. CASE k # l
    BY <1>3, <1>a, <2>1, UnchangedGood DEF FinalizeCheckout, SettledRow, PostSettlement, SetBills
  <2> QED
    BY <1>3, <2>1, CheckoutGood
<1>4. ASSUME NEW l \in Leases, NEW handling, ForceTerminateLease(l, handling)
      PROVE  GoodLease(k)'
  <2>1. CASE k # l
    BY <1>4, <1>a, <2>1, UnchangedGood
       DEF ForceTerminateLease, PostDepositWriteOff, PostSettlement, SetBills, WriteOffBills
  <2> QED
    BY <1>4, <2>1, ForceGood
<1>5. ASSUME NEW l \in Leases, NEW m \in Leases, NEW e \in Periods, NEW p \in Periods,
             ReplaceLease(l, m, p, e)
      PROVE  GoodLease(k)'
  <2>1. CASE k = m
    BY <1>5, <1>a, <2>1, NewLeaseGood DEF ReplaceLease
  <2>2. CASE k \notin {l, m}
    BY <1>5, <1>a, <2>2, UnchangedGood DEF ReplaceLease
  <2> QED
    BY <1>5, <2>1, <2>2, PredecessorGood
<1>6. ASSUME NEW l \in Leases, MarkLeaseExpired(l)
      PROVE  GoodLease(k)'
  <2>1. CASE k # l
    BY <1>6, <1>a, <2>1, UnchangedGood DEF MarkLeaseExpired
  <2> QED
    BY <1>6, <2>1, ExpiredGood
<1>7. ASSUME NEW l \in Leases, BillNext(l)
      PROVE  GoodLease(k)'
  <2>1. CASE k # l
    BY <1>7, <1>a, <2>1, UnchangedGood
       DEF BillNext, RecordMeter, RecordPayment, MarkBillOverdue, SetBills
  <2> QED
    BY <1>7, <2>1, BillStepGood
<1>8. ASSUME NEW q \in Reqs, UpdateLease(q)
      PROVE  GoodLease(k)'
  <2>1. PICK l \in Leases : txn[q].lease = l
    BY <1>8 DEF UpdateLease, IInv, TypeAndLocks, TypeOK
  <2>2. CASE k # l
    BY <1>8, <1>a, <2>1, <2>2, UnchangedGood DEF UpdateLease, UpdateLeaseConditions
  <2> QED
    BY <1>8, <2>1, <2>2, RentChangeGood
<1>9. CASE UNCHANGED <<lease, bill, received, posted>>
  BY <1>9, UnchangedGood
<1>10. CASE Next
  <2>1. CASE \E l \in Leases : LeaseNext(l)
    BY <2>1, <1>1, <1>2, <1>3, <1>4, <1>5, <1>6 DEF LeaseNext
  <2>2. CASE \E q \in Reqs : RentNext(q)
    BY <2>2, <1>8, <1>9 DEF RentNext, ReadLockedBills, Rollback
  <2> QED
    BY <1>10, <2>1, <2>2, <1>7, <1>9 DEF Next, Tick
<1> QED
  BY <1>9, <1>10 DEF vars

LEMMA IInvInvariant == Spec => []IInv
<1>1. Init => IInv
  <2> SUFFICES ASSUME Init PROVE IInv
    OBVIOUS
  <2>1. TypeAndLocks
    BY NAssumption DEF Init, TypeAndLocks, TypeOK, LocksHeld, Posted
  <2> QED
    BY <2>1 DEF Init, IInv, GoodLease, Good, RowsGood, DepositGood, BillsGood, EndedGood,
                CoveredGood, PendingGood, Terminable, Pending, Settled
<1> QED
  BY <1>1, IInvStep, PTL DEF Spec

(* Under any interleaving of requests and jobs: deposits, bills and the    *)
(* ledger agree, an ended lease is settled, an open one is fully billed    *)
(* and has one pending bill per period.                                    *)
THEOREM SettlementInvariant == Spec => []SettlementInv
BY IInvInvariant, IInvIsSettlementInv, PTL

(* Refunds, transfers and deductions in the ledger are what the lease's    *)
(* deposit says was done with it.                                          *)
THEOREM DepositBooked == Spec => []DepositAgreesWithLedger
<1>1. SettlementInv => DepositAgreesWithLedger
  BY DEF SettlementInv
<1> QED
  BY <1>1, SettlementInvariant, PTL

(* A bill is received at most once, and then it is paid.                   *)
THEOREM PaymentsBooked == Spec => []BillAgreesWithLedger
<1>1. SettlementInv => BillAgreesWithLedger
  BY DEF SettlementInv
<1> QED
  BY <1>1, SettlementInvariant, PTL

(* A lease that has ended leaves no unpaid bill, except the overdue ones   *)
(* that a replacement leaves behind; ended normally, its deposit is done.  *)
THEOREM EndedSettled == Spec => []EndedLeaseSettled
<1>1. SettlementInv => EndedLeaseSettled
  BY DEF SettlementInv
<1> QED
  BY <1>1, SettlementInvariant, PTL

(* Every period of an open lease is billed, for rent and for electricity.  *)
THEOREM OpenBilled == Spec => []OpenLeaseFullyBilled
<1>1. SettlementInv => OpenLeaseFullyBilled
  BY DEF SettlementInv
<1> QED
  BY <1>1, SettlementInvariant, PTL

(***************************************************************************)
(* No step writes a settled bill again.                                    *)
(***************************************************************************)
LEMMA SettledStep ==
    ASSUME IInv, [Next]_vars, NEW k \in Leases, NEW b \in Bills, bill[k][b] \in Settled
    PROVE  bill'[k][b] = bill[k][b]
<1>a. /\ bill \in [Leases -> [Bills -> BillStatus \cup {"absent"}]]
      /\ bill[k][b] \notin Pending \cup Payable \cup {"absent"}
  BY DEF IInv, TypeAndLocks, TypeOK, Settled, Pending, Payable
<1>b. lease[k].status # "absent" /\ b.gen <= lease[k].changes
  BY <1>a DEF IInv, GoodLease, Good, RowsGood
<1>1. ASSUME NEW l \in Leases, NEW e \in Periods, CreateLease(l, e)
      PROVE  bill'[k][b] = bill[k][b]
  BY <1>1, <1>b DEF CreateLease
<1>2. ASSUME NEW l \in Leases, NEW S, NEW s, SetBills(l, S, s), S \cap {b} = {} \/ l # k
      PROVE  bill'[k][b] = bill[k][b]
  BY <1>2, <1>a DEF SetBills
<1>3. ASSUME NEW l \in Leases, NEW fee \in 0..Deposit, NEW e \in 0..Deposit, NEW rent \in 0..1,
             FinalizeCheckout(l, fee, e, rent)
      PROVE  bill'[k][b] = bill[k][b]
  <2> DEFINE M == {c \in Unpaid(l) : bill[l][c] = "pending_meter"}
  <2>1. SetBills(l, M, "paid")
    BY <1>3 DEF FinalizeCheckout
  <2>2. M \cap {b} = {} \/ l # k
    BY DEF Unpaid
  <2> HIDE DEF M
  <2> QED
    BY <2>1, <2>2, <1>2
<1>4. ASSUME NEW l \in Leases, NEW handling, ForceTerminateLease(l, handling)
      PROVE  bill'[k][b] = bill[k][b]
  <2>1. SetBills(l, Unpaid(l), "written_off") /\ (Unpaid(l) \cap {b} = {} \/ l # k)
    BY <1>4 DEF ForceTerminateLease, WriteOffBills, Unpaid
  <2> QED
    BY <2>1, <1>2
<1>5. ASSUME NEW l \in Leases, NEW m \in Leases, NEW e \in Periods, NEW p \in Periods,
             ReplaceLease(l, m, p, e)
      PROVE  bill'[k][b] = bill[k][b]
  <2>1. k # m
    BY <1>5, <1>b DEF ReplaceLease
  <2> QED
    BY <1>5, <2>1, <1>a DEF ReplaceLease, VoidBillsOverlappingOrAfter
<1>6. ASSUME NEW l \in Leases, BillNext(l)
      PROVE  bill'[k][b] = bill[k][b]
  <2>1. PICK c \in Bills : RecordMeter(l, c) \/ RecordPayment(l, c) \/ MarkBillOverdue(l, c)
    BY <1>6 DEF BillNext
  <2>2. bill[l][c] \in Pending \cup Payable
    BY <2>1 DEF RecordMeter, RecordPayment, MarkBillOverdue, Pending, Payable
  <2>3. {c} \cap {b} = {} \/ l # k
    BY <2>2, <1>a
  <2> QED
    BY <2>1, <2>3, <1>2 DEF RecordMeter, RecordPayment, MarkBillOverdue
<1>7. ASSUME NEW q \in Reqs, UpdateLease(q)
      PROVE  bill'[k][b] = bill[k][b]
  <2>1. PICK l \in Leases : txn[q].lease = l
    BY <1>7 DEF UpdateLease, IInv, TypeAndLocks, TypeOK
  <2>2. CASE bill' = [bill EXCEPT ![l] = Regenerated(l, txn[q].from)] /\ k = l
    <3>1. b.gen # lease[l].changes + 1
      <4>1. lease[l] \in Lease /\ lease[l].changes \in Nat /\ b.gen \in Nat
        BY <1>b, <2>2, RowOfExisting, NAssumption DEF IInv, TypeAndLocks, Lease, Bills
      <4> QED
        BY <4>1, <1>b, <2>2
    <3> QED
      BY <2>2, <3>1, <1>a DEF Regenerated, VoidAndCreate
  <2> QED
    BY <1>7, <2>1, <2>2, <1>a DEF UpdateLease
<1>8. CASE UNCHANGED bill
  BY <1>8
<1>9. CASE \E l \in Leases : LeaseNext(l)
  BY <1>9, <1>1, <1>3, <1>4, <1>5, <1>8
     DEF LeaseNext, UpdateDeposit, TerminateLease, MarkLeaseExpired
<1>10. CASE \E q \in Reqs : RentNext(q)
  BY <1>10, <1>7, <1>8 DEF RentNext, ReadLockedBills, Rollback
<1> QED
  BY <1>6, <1>8, <1>9, <1>10 DEF Next, Tick, vars

(* A paid, voided or written off bill is never written again, whatever     *)
(* payments, overdue marks, rent changes and terminations interleave.      *)
THEOREM SettledFinal == Spec => SettledBillsFinal
<1>1. IInv /\ [Next]_vars =>
          [\A l \in Leases : \A b \in Bills :
              bill[l][b] \in Settled => bill'[l][b] = bill[l][b]]_bill
  BY SettledStep
<1> QED
  BY <1>1, IInvInvariant, PTL DEF Spec, SettledBillsFinal

(***************************************************************************)
(* A period is billed once, unless a bill is locked between the two halves *)
(* of a rent change.                                                       *)
(***************************************************************************)
Standing(l) == {b \in Bills : bill[l][b] \notin {"absent", "voided"}}
Twins(b, c) == b.kind = c.kind /\ b.period = c.period

LEMMA OnceByTwins ==
    PeriodBilledOnce <=> \A l \in Leases : \A b, c \in Standing(l) : Twins(b, c) => b = c
<1>1. \A b \in Bills : b.kind \in {"rent", "electricity"} /\ b.period \in Periods
  BY DEF Bills
<1> QED
  BY <1>1 DEF PeriodBilledOnce, Live, Standing, Twins

LEMMA OnceByTwinsNext ==
    ASSUME (\A l \in Leases : \A b, c \in Standing(l) : Twins(b, c) => b = c)'
    PROVE  PeriodBilledOnce'
BY DEF PeriodBilledOnce, Live, Standing, Twins

(* The first bills of a lease are one of each kind for each period.        *)
LEMMA SeedsOnce ==
    ASSUME NEW l \in Leases, NEW f, NEW e, bill'[l] = Seeds(f, e)
    PROVE  \A b, c \in Standing(l)' : Twins(b, c) => b = c
<1>1. \A b \in Standing(l)' : b \in Bills /\ b.gen = 0
  BY DEF Standing, Seeds
<1>2. \A b, c \in Bills : b.gen = c.gen /\ Twins(b, c) => b = c
  BY DEF Bills, Twins
<1> QED
  BY <1>1, <1>2

(* A rent change that finds every later bill as it has seen it replaces    *)
(* each pending one by one of its own.                                     *)
LEMMA ChangeOnce ==
    ASSUME TypeOK, NEW l \in Leases, NEW p \in Nat,
           \A b, c \in Standing(l) : Twins(b, c) => b = c,
           \A b \in Bills : b.kind = "rent" /\ b.period >= p =>
                               bill[l][b] \in Pending \cup {"voided", "absent"},
           bill'[l] = Regenerated(l, p)
    PROVE  \A b, c \in Standing(l)' : Twins(b, c) => b = c
<1> DEFINE New(b) == b.kind = "rent" /\ b.period >= p
<1>1. ASSUME NEW b \in Standing(l)', New(b) PROVE b.gen = lease[l].changes + 1
  BY <1>1 DEF Standing, Regenerated, VoidAndCreate
<1>2. ASSUME NEW b \in Standing(l)', ~New(b) PROVE b \in Standing(l)
  <2>1. b \in Bills /\ b.period \in Nat
    BY DEF Standing, Bills, Periods
  <2>2. bill'[l][b] = bill[l][b]
    BY <1>2, <2>1 DEF Regenerated, VoidAndCreate
  <2> QED
    BY <2>1, <2>2 DEF Standing
<1>3. \A b, c \in Bills : b.gen = c.gen /\ Twins(b, c) => b = c
  BY DEF Bills, Twins
<1>4. ASSUME NEW b \in Standing(l)', NEW c \in Standing(l)', Twins(b, c) PROVE b = c
  <2>1. b \in Bills /\ c \in Bills /\ (New(b) <=> New(c))
    BY <1>4 DEF Standing, Twins
  <2> HIDE DEF New
  <2> QED
    BY <1>1, <1>2, <1>3, <1>4, <2>1
<1> QED
  BY <1>4

(* Bills only leave the standing ones, and rent changes see what they saw. *)
LEMMA RaceKept ==
    ASSUME TypeOK, PeriodBilledOnce, LooksAreCurrent,
           \A l \in Leases : Standing(l)' \subseteq Standing(l),
           \A q \in Reqs : txn'[q] # None =>
               /\ txn'[q] = txn[q]
               /\ bill'[txn[q].lease] = bill[txn[q].lease]
    PROVE  PeriodBilledOnce' /\ LooksAreCurrent'
<1>1. PeriodBilledOnce'
  <2>1. \A l \in Leases : \A b, c \in Standing(l)' : Twins(b, c) => b = c
    BY OnceByTwins
  <2>2. (\A l \in Leases : \A b, c \in Standing(l) : Twins(b, c) => b = c)'
    BY <2>1 DEF Twins
  <2> QED
    BY <2>2, OnceByTwinsNext
<1>2. ASSUME NEW q \in Reqs, txn'[q] # None,
             NEW b \in Bills, b.kind = "rent", b.period >= txn'[q].from
      PROVE  bill'[txn'[q].lease][b] \in Pending \cup {"voided", "absent"}
  <2>1. txn'[q] = txn[q] /\ bill'[txn[q].lease] = bill[txn[q].lease]
    BY <1>2
  <2> QED
    BY <1>2, <2>1 DEF LooksAreCurrent
<1> QED
  BY <1>1, <1>2 DEF LooksAreCurrent

(* With the lock of a lease, its bills change behind nobody's back.        *)
LEMMA LockedApart ==
    ASSUME TypeOK, LocksHeld, NEW l \in Leases, NEW m \in Leases, Unlocked(l),
           m = l \/ lease[m].status = "absent", UNCHANGED txn,
           \A k \in Leases \ {l, m} : bill'[k] = bill[k]
    PROVE  \A q \in Reqs : txn'[q] # None =>
               txn'[q] = txn[q] /\ bill'[txn[q].lease] = bill[txn[q].lease]
<1> SUFFICES ASSUME NEW q \in Reqs, txn[q] # None PROVE bill'[txn[q].lease] = bill[txn[q].lease]
  OBVIOUS
<1>1. txn[q].lease \in Leases /\ txn[q].lease # l /\ txn[q].lease # m
  BY DEF TypeOK, Unlocked, LocksHeld
<1> QED
  BY <1>1

LEMMA RaceStep ==
    ASSUME TypeOK, LocksHeld, PeriodBilledOnce, LooksAreCurrent, [Next]_vars,
           \A q \in Reqs : ~Overtakes(q)
    PROVE  PeriodBilledOnce' /\ LooksAreCurrent'
<1>a. bill \in [Leases -> [Bills -> BillStatus \cup {"absent"}]]
      /\ \A q \in Reqs : txn[q] # None => txn[q].lease \in Leases /\ txn[q].from \in Nat
  BY DEF TypeOK
<1>b. ASSUME NEW l \in Leases, NEW S, NEW s, SetBills(l, S, s), S \subseteq Standing(l)
      PROVE  /\ \A k \in Leases : Standing(k)' \subseteq Standing(k)
             /\ \A k \in Leases \ {l} : bill'[k] = bill[k]
  BY <1>a, <1>b DEF SetBills, Standing
<1>c. ASSUME NEW l \in Leases, NEW S, NEW s, SetBills(l, S, s), S \subseteq Standing(l),
             Unlocked(l), UNCHANGED txn
      PROVE  PeriodBilledOnce' /\ LooksAreCurrent'
  <2>1. \A q \in Reqs : txn'[q] # None =>
             txn'[q] = txn[q] /\ bill'[txn[q].lease] = bill[txn[q].lease]
    BY <1>b, <1>c, LockedApart
  <2> QED
    BY <1>b, <1>c, <2>1, RaceKept
<1>d. ASSUME UNCHANGED <<bill, txn>> PROVE PeriodBilledOnce' /\ LooksAreCurrent'
  BY <1>d DEF PeriodBilledOnce, Live, LooksAreCurrent
<1>e. ASSUME NEW l \in Leases, NEW b \in Bills, NEW s, SetBills(l, {b}, s), s \notin Pending,
             bill[l][b] \in Payable, UNCHANGED txn
      PROVE  PeriodBilledOnce' /\ LooksAreCurrent'
  <2>1. {b} \subseteq Standing(l)
    BY <1>e DEF Standing, Payable
  <2>2. (\A k \in Leases : \A c, d \in Standing(k) : Twins(c, d) => c = d)'
    BY <1>b, <1>e, <2>1, OnceByTwins DEF Twins
  <2>3. PeriodBilledOnce'
    BY <2>2, OnceByTwinsNext
  <2>4. ASSUME NEW q \in Reqs, txn[q] # None,
               NEW c \in Bills, c.kind = "rent", c.period >= txn[q].from
        PROVE  bill'[txn[q].lease][c] \in Pending \cup {"voided", "absent"}
    <3> DEFINE k == txn[q].lease
    <3>1. k \in Leases /\ bill[k][c] \in Pending \cup {"voided", "absent"}
      BY <1>a, <2>4 DEF LooksAreCurrent
    <3>2. CASE k = l /\ c = b
      <4>1. bill[k][c] \in Pending
        BY <1>e, <3>1, <3>2 DEF Payable
      <4>2. bill'[k][c] = s
        BY <1>a, <1>e, <3>2 DEF SetBills
      <4>3. Overtakes(q)
        BY <1>e, <2>4, <4>1, <4>2 DEF Overtakes
      <4> QED
        BY <4>3
    <3>3. CASE ~(k = l /\ c = b)
      <4>1. bill'[k][c] = bill[k][c]
        BY <1>a, <1>e, <3>1, <3>3 DEF SetBills
      <4> QED
        BY <3>1, <4>1
    <3> QED
      BY <3>2, <3>3
  <2>5. LooksAreCurrent'
    BY <1>e, <2>4 DEF LooksAreCurrent
  <2> QED
    BY <2>3, <2>5
<1>f. \A l \in Leases : Unpaid(l) \subseteq Standing(l)
  BY DEF Unpaid, Standing, Settled
<1>1. ASSUME NEW l \in Leases, NEW e \in Periods, CreateLease(l, e)
      PROVE  PeriodBilledOnce' /\ LooksAreCurrent'
  <2>1. bill'[l] = Seeds(1, e) /\ \A k \in Leases \ {l} : bill'[k] = bill[k]
    BY <1>1, <1>a DEF CreateLease
  <2>2. \A q \in Reqs : txn'[q] = None
    BY <1>1, <1>a DEF CreateLease, LocksHeld
  <2>3. \A k \in Leases \ {l} : \A b, c \in Standing(k)' : Twins(b, c) => b = c
    BY <2>1, OnceByTwins DEF Standing
  <2>4. (\A k \in Leases : \A b, c \in Standing(k) : Twins(b, c) => b = c)'
    BY <2>1, <2>3, SeedsOnce DEF Twins
  <2>5. PeriodBilledOnce'
    BY <2>4, OnceByTwinsNext
  <2> QED
    BY <2>2, <2>5 DEF LooksAreCurrent
<1>2. ASSUME NEW l \in Leases, NEW d \in 0..Deposit, UpdateDeposit(l, d) \/ TerminateLease(l, d)
      PROVE  PeriodBilledOnce' /\ LooksAreCurrent'
  BY <1>2, <1>d DEF UpdateDeposit, TerminateLease
<1>3. ASSUME NEW l \in Leases, NEW fee, NEW e, NEW rent, FinalizeCheckout(l, fee, e, rent)
      PROVE  PeriodBilledOnce' /\ LooksAreCurrent'
  <2>1. PICK S : S \subseteq Unpaid(l) /\ SetBills(l, S, "paid")
    BY <1>3 DEF FinalizeCheckout
  <2> QED
    BY <1>3, <1>c, <1>f, <2>1 DEF FinalizeCheckout
<1>4. ASSUME NEW l \in Leases, NEW handling, ForceTerminateLease(l, handling)
      PROVE  PeriodBilledOnce' /\ LooksAreCurrent'
  BY <1>4, <1>c, <1>f DEF ForceTerminateLease, WriteOffBills
<1>5. ASSUME NEW l \in Leases, NEW m \in Leases, NEW e \in Periods, NEW p \in Periods,
             ReplaceLease(l, m, p, e)
      PROVE  PeriodBilledOnce' /\ LooksAreCurrent'
  <2>1. /\ l # m /\ bill'[l] = VoidBillsOverlappingOrAfter(l, p) /\ bill'[m] = Seeds(p, e)
        /\ \A k \in Leases \ {l, m} : bill'[k] = bill[k]
    BY <1>5, <1>a DEF ReplaceLease
  <2>2. \A k \in Leases \ {m} : Standing(k)' \subseteq Standing(k)
    BY <2>1 DEF Standing, VoidBillsOverlappingOrAfter
  <2>3. (\A k \in Leases : \A b, c \in Standing(k) : Twins(b, c) => b = c)'
    BY <2>1, <2>2, SeedsOnce, OnceByTwins DEF Twins
  <2>4. PeriodBilledOnce'
    BY <2>3, OnceByTwinsNext
  <2>5. \A q \in Reqs : txn'[q] # None =>
             txn'[q] = txn[q] /\ bill'[txn[q].lease] = bill[txn[q].lease]
    BY <1>5, <2>1, LockedApart DEF ReplaceLease
  <2>6. LooksAreCurrent'
    <3> SUFFICES ASSUME NEW q \in Reqs, txn'[q] # None,
                        NEW b \in Bills, b.kind = "rent", b.period >= txn'[q].from
                 PROVE  bill'[txn'[q].lease][b] \in Pending \cup {"voided", "absent"}
      BY DEF LooksAreCurrent
    <3>1. txn'[q] = txn[q] /\ bill'[txn[q].lease] = bill[txn[q].lease]
      BY <2>5
    <3> QED
      BY <3>1 DEF LooksAreCurrent
  <2> QED
    BY <2>4, <2>6
<1>6. ASSUME NEW l \in Leases, MarkLeaseExpired(l)
      PROVE  PeriodBilledOnce' /\ LooksAreCurrent'
  BY <1>6, <1>d DEF MarkLeaseExpired
<1>7. ASSUME NEW l \in Leases, NEW b \in Bills, RecordMeter(l, b)
      PROVE  PeriodBilledOnce' /\ LooksAreCurrent'
  <2>1. {b} \subseteq Standing(l)
    BY <1>7 DEF RecordMeter, Standing
  <2> QED
    BY <1>7, <1>c, <2>1 DEF RecordMeter
<1>8. ASSUME NEW l \in Leases, NEW b \in Bills, RecordPayment(l, b) \/ MarkBillOverdue(l, b)
      PROVE  PeriodBilledOnce' /\ LooksAreCurrent'
  BY <1>8, <1>e DEF RecordPayment, MarkBillOverdue, Payable, Pending
<1>9. ASSUME NEW q \in Reqs, NEW l \in Leases, ReadLockedBills(q, l)
      PROVE  PeriodBilledOnce' /\ LooksAreCurrent'
  <2>1. PICK p : p = NextPayment(l) /\ txn' = [txn EXCEPT ![q] = [lease |-> l, from |-> p]]
    BY <1>9 DEF ReadLockedBills
  <2>2. \A b \in Bills : b.kind = "rent" /\ b.period >= p =>
                            bill[l][b] \in Pending \cup {"voided", "absent"}
    BY <1>9, <2>1 DEF ReadLockedBills, LockedBills
  <2>3. txn'[q] = [lease |-> l, from |-> p] /\ \A r \in Reqs \ {q} : txn'[r] = txn[r]
    BY <2>1 DEF TypeOK
  <2>4. bill' = bill
    BY <1>9 DEF ReadLockedBills
  <2>5. LooksAreCurrent'
    BY <2>2, <2>3, <2>4 DEF LooksAreCurrent
  <2> QED
    BY <2>4, <2>5 DEF PeriodBilledOnce, Live
<1>10. ASSUME NEW q \in Reqs, UpdateLease(q)
       PROVE  PeriodBilledOnce' /\ LooksAreCurrent'
  <2>1. PICK l \in Leases, p \in Nat : txn[q].lease = l /\ txn[q].from = p /\ txn[q] # None
    BY <1>10, <1>a DEF UpdateLease
  <2>2. /\ txn'[q] = None /\ \A r \in Reqs \ {q} : txn'[r] = txn[r]
        /\ \/ bill' = bill
           \/ bill' = [bill EXCEPT ![l] = Regenerated(l, p)]
    BY <1>10, <2>1 DEF UpdateLease, TypeOK
  <2>3. \A b \in Bills : b.kind = "rent" /\ b.period >= p =>
                            bill[l][b] \in Pending \cup {"voided", "absent"}
    BY <2>1 DEF LooksAreCurrent
  <2>4. \A k \in Leases \ {l} : bill'[k] = bill[k]
    BY <1>a, <2>2
  <2>5. \A k \in Leases : \A b, c \in Standing(k) : Twins(b, c) => b = c
    BY OnceByTwins
  <2>6. \A b, c \in Standing(l)' : Twins(b, c) => b = c
    <3>1. CASE bill' = bill
      BY <2>5, <3>1 DEF Standing
    <3>2. CASE bill' = [bill EXCEPT ![l] = Regenerated(l, p)]
      BY <1>a, <2>3, <2>5, <3>2, ChangeOnce
    <3> QED
      BY <2>2, <3>1, <3>2
  <2>7. (\A k \in Leases : \A b, c \in Standing(k) : Twins(b, c) => b = c)'
    BY <2>4, <2>5, <2>6 DEF Standing, Twins
  <2>8. PeriodBilledOnce'
    BY <2>7, OnceByTwinsNext
  <2>9. ASSUME NEW r \in Reqs, txn'[r] # None
        PROVE  txn'[r] = txn[r] /\ bill'[txn[r].lease] = bill[txn[r].lease]
    <3>1. r # q /\ txn[r] # None
      BY <2>2, <2>9
    <3>2. txn[r].lease # l /\ txn[r].lease \in Leases
      BY <1>a, <2>1, <3>1 DEF LocksHeld
    <3> QED
      BY <2>2, <2>4, <3>1, <3>2
  <2>10. LooksAreCurrent'
    <3> SUFFICES ASSUME NEW r \in Reqs, txn'[r] # None,
                        NEW b \in Bills, b.kind = "rent", b.period >= txn'[r].from
                 PROVE  bill'[txn'[r].lease][b] \in Pending \cup {"voided", "absent"}
      BY DEF LooksAreCurrent
    <3>1. txn'[r] = txn[r] /\ bill'[txn[r].lease] = bill[txn[r].lease]
      BY <2>9
    <3> QED
      BY <3>1 DEF LooksAreCurrent
  <2> QED
    BY <2>8, <2>10
<1>11. ASSUME NEW q \in Reqs, Rollback(q)
       PROVE  PeriodBilledOnce' /\ LooksAreCurrent'
  <2>1. bill' = bill /\ txn'[q] = None /\ \A r \in Reqs \ {q} : txn'[r] = txn[r]
    BY <1>11 DEF Rollback, TypeOK
  <2> QED
    BY <2>1 DEF LooksAreCurrent, PeriodBilledOnce, Live
<1>12. CASE Tick \/ UNCHANGED vars
  BY <1>12, <1>d DEF Tick, vars
<1>13. CASE \E l \in Leases : LeaseNext(l) \/ BillNext(l)
  BY <1>13, <1>1, <1>2, <1>3, <1>4, <1>5, <1>6, <1>7, <1>8 DEF LeaseNext, BillNext
<1>14. CASE \E q \in Reqs : RentNext(q)
  BY <1>14, <1>9, <1>10, <1>11 DEF RentNext
<1> QED
  BY <1>12, <1>13, <1>14 DEF Next

(* A period of a lease has one bill of a kind that is not voided, in any   *)
(* interleaving of requests and jobs and over any number of rent changes,  *)
(* unless a payment or the overdue job has locked a bill between the two   *)
(* halves of a rent change.                                                *)
THEOREM BilledOnce == HistorySpec => []PeriodBilledOnceUnlessOvertaken
<1>1. HistorySpec => Spec
  <2>1. HistoryInit => Init
    BY DEF HistoryInit
  <2>2. [HistoryNext]_<<vars, overtaken>> => [Next]_vars
    BY DEF HistoryNext
  <2> QED
    BY <2>1, <2>2, PTL DEF HistorySpec, Spec
<1>2. HistoryInit => RaceInv
  BY DEF HistoryInit, Init, RaceInv, PeriodBilledOnce, Live, LooksAreCurrent
<1>3. SettlementInv /\ RaceInv /\ [HistoryNext]_<<vars, overtaken>> => RaceInv'
  <2> SUFFICES ASSUME SettlementInv, RaceInv, [HistoryNext]_<<vars, overtaken>>, ~overtaken'
               PROVE  PeriodBilledOnce' /\ LooksAreCurrent'
    BY DEF RaceInv
  <2>1. TypeOK /\ LocksHeld /\ [Next]_vars
    BY DEF SettlementInv, HistoryNext
  <2>2. ~overtaken /\ \A q \in Reqs : ~Overtakes(q)
    <3>1. CASE HistoryNext
      BY <3>1 DEF HistoryNext
    <3>2. CASE UNCHANGED <<vars, overtaken>>
      BY <3>2 DEF vars, Overtakes
    <3> QED
      BY <3>1, <3>2
  <2> QED
    BY <2>1, <2>2, RaceStep DEF RaceInv
<1>4. RaceInv => PeriodBilledOnceUnlessOvertaken
  BY DEF RaceInv, PeriodBilledOnceUnlessOvertaken
<1> QED
  BY <1>1, <1>2, <1>3, <1>4, SettlementInvariant, PTL DEF HistorySpec
=============================================================================
