--------------------------- MODULE LeaseSettlement ---------------------------
(***************************************************************************)
(* The money of a lease: the bills generated with it, its deposit, and the *)
(* accounting entries that payments and settlements post in the same       *)
(* transaction.                                                            *)
(*                                                                         *)
(* Time is counted in billing periods: now = p lies inside period p, 0 is  *)
(* before the first and N + 1 after the last.  Rent and electricity have   *)
(* the same cadence here, and every period is complete.                    *)
(*                                                                         *)
(* Every operation on a lease first locks its row, and all but one then    *)
(* lock every bill they read, so they are atomic.  The exception is        *)
(* UpdateLease: it looks for locked bills in a plain SELECT, and voids the *)
(* pending ones in a later statement; a payment or the overdue job needs   *)
(* only the bill's lock and may commit in between.  txn[q] is the lease    *)
(* that request q has locked meanwhile.                                    *)
(***************************************************************************)
EXTENDS Naturals

CONSTANTS
    Leases,      \* lease ids: a first lease and its successors (a bound)
    N,           \* number of billing periods (a bound)
    Deposit,     \* leases.deposit_amount
    MaxChanges,  \* rent changes of one lease (a bound)
    Reqs,        \* slots of concurrent requests and jobs
    None         \* "no UpdateLease is open in this slot"

Periods == 1..N
(* A bill: gen is the rent change that created it, 0 for the first bills.  *)
Bills == [kind : {"rent", "electricity"}, period : Periods, gen : 0..MaxChanges]

ASSUME NAssumption == N \in Nat /\ MaxChanges \in Nat /\ Deposit \in Nat
ASSUME NoneAssumption == None \notin [lease : Leases, from : Nat]

VARIABLES
    now,       \* the current period
    lease,     \* lease[l]: the row; status "absent" before it is inserted
    bill,      \* bill[l][b]: status of the bill; "absent" before it is inserted
    received,  \* received[l][b]: payments of b in the ledger
    posted,    \* posted[l]: sums of the entries that settlements posted for l
    txn        \* txn[q]: the lease q has locked to change its rent, and from when

vars == <<now, lease, bill, received, posted, txn>>

-----------------------------------------------------------------------------
BillStatus == {"pending_payment", "pending_meter", "paid", "overdue", "voided", "written_off"}
Pending == {"pending_payment", "pending_meter"}
Payable == {"pending_payment", "overdue"}
(* The statuses unpaidBillIDs passes over.                                 *)
Settled == {"paid", "voided", "written_off"}
Terminable == {"active", "expired"}

Unpaid(l) == {b \in Bills : bill[l][b] \notin Settled \cup {"absent"}}

(* A row of leases.  replaced: termination_reason says "lease replacement" *)
(* and last is end_date, in periods, which only open and replaced leases   *)
(* need.                                                                   *)
Lease ==
    [status : Terminable \cup {"terminated", "force_terminated"},
     replaced : BOOLEAN, first : Periods, last : 0..N, changes : 0..MaxChanges,
     deposit : {"held", "settled", "written_off"},
     refund : 0..Deposit, deduction : 0..Deposit]

NewLease(f, e) ==
    [status |-> "active", replaced |-> FALSE, first |-> f, last |-> e, changes |-> 0,
     deposit |-> "held", refund |-> 0, deduction |-> 0]

Posted == [refund : Nat, deduction : Nat, electricity : Nat, rentRefund : Nat]

TypeOK ==
    /\ now \in 0..(N + 1)
    /\ lease \in [Leases -> Lease \cup {[status |-> "absent"]}]
    /\ bill \in [Leases -> [Bills -> BillStatus \cup {"absent"}]]
    /\ received \in [Leases -> [Bills -> Nat]]
    /\ posted \in [Leases -> Posted]
    /\ txn \in [Reqs -> [lease : Leases, from : Nat] \cup {None}]

Init ==
    /\ now = 0
    /\ lease = [l \in Leases |-> [status |-> "absent"]]
    /\ bill = [l \in Leases |-> [b \in Bills |-> "absent"]]
    /\ received = [l \in Leases |-> [b \in Bills |-> 0]]
    /\ posted = [l \in Leases |->
                    [refund |-> 0, deduction |-> 0, electricity |-> 0, rentRefund |-> 0]]
    /\ txn = [q \in Reqs |-> None]

-----------------------------------------------------------------------------
(* A request can be served, and the row of lease l can be locked.          *)
Slot == \E q \in Reqs : txn[q] = None
Unlocked(l) == Slot /\ \A q \in Reqs : txn[q] # None => txn[q].lease # l

(* buildBillSeeds: one bill of each kind for each period of f..e.          *)
Seeds(f, e) ==
    [b \in Bills |->
        IF b.gen = 0 /\ b.period \in f..e
        THEN IF b.kind = "rent" THEN "pending_payment" ELSE "pending_meter"
        ELSE "absent"]

SetBills(l, S, s) ==
    bill' = [bill EXCEPT ![l] = [b \in Bills |-> IF b \in S THEN s ELSE bill[l][b]]]

(* SettleDeposit, then recordDepositAccountingEntries for what is not      *)
(* posted under another title; e of the deduction is electricity.          *)
(* Mutation: the electricity is part of the deduction entry as well.       *)
PostSettlementTwice(l, refund, deduction, e, rent) ==
    posted' = [posted EXCEPT ![l] =
        [refund |-> @.refund + refund, deduction |-> @.deduction + deduction,
         electricity |-> @.electricity + e, rentRefund |-> @.rentRefund + rent]]

PostSettlement(l, refund, deduction, e, rent) ==
    posted' = [posted EXCEPT ![l] =
        [refund |-> @.refund + refund, deduction |-> @.deduction + deduction - e,
         electricity |-> @.electricity + e, rentRefund |-> @.rentRefund + rent]]

SettledRow(l, s, refund, deduction) ==
    /\ lease[l].deposit = "held"
    /\ lease' = [lease EXCEPT ![l].status = s, ![l].deposit = "settled",
                              ![l].refund = refund, ![l].deduction = deduction]

-----------------------------------------------------------------------------
(* Leases.                                                                 *)

(* The first lease of the chain; other leases of the database share        *)
(* nothing with it.                                                        *)
CreateLease(l, e) ==
    /\ Slot /\ \A m \in Leases : lease[m].status = "absent"
    /\ lease' = [lease EXCEPT ![l] = NewLease(1, e)]
    /\ bill' = [bill EXCEPT ![l] = Seeds(1, e)]
    /\ UNCHANGED <<now, received, posted, txn>>

(* NextRentPaymentDateAfter: strictly after today.                         *)
NextPayment(l) == IF now < lease[l].first THEN lease[l].first ELSE now + 1

(* Mutation: the bills locked by a payment are not looked for.             *)
LockedBillsNone(l, p) == {}
LockedBills(l, p) ==
    {b \in Bills : /\ b.kind = "rent" /\ b.period >= p
                   /\ bill[l][b] \notin Pending \cup {"voided", "absent"}}

(* UpdateLease, first half: lock the lease, look for locked bills.         *)
ReadLockedBills(q, l) ==
    /\ txn[q] = None /\ Unlocked(l)
    /\ lease[l].status = "active" /\ lease[l].changes < MaxChanges
    /\ LockedBills(l, NextPayment(l)) = {}
    /\ txn' = [txn EXCEPT ![q] = [lease |-> l, from |-> NextPayment(l)]]
    /\ UNCHANGED <<now, lease, bill, received, posted>>

(* Void the pending rent bills from v on, and create new ones from p to    *)
(* the end of the lease.                                                   *)
VoidAndCreate(l, v, p) ==
    [b \in Bills |->
        IF b.kind = "rent" /\ b.period >= v /\ bill[l][b] \in Pending
        THEN "voided"
        ELSE IF b.kind = "rent" /\ b.period \in p..lease[l].last /\ b.gen = lease[l].changes + 1
        THEN "pending_payment"
        ELSE bill[l][b]]

(* Mutation: an off-by-one in one of the two dates.                        *)
RegeneratedLateCreate(l, p) == VoidAndCreate(l, p, p + 1)
Regenerated(l, p) == VoidAndCreate(l, p, p)

(* The new rent; every change bumps the version.                           *)
UpdateLeaseConditions(l) == lease' = [lease EXCEPT ![l].changes = @ + 1]

(* UpdateLease, second half.                                               *)
UpdateLease(q) ==
    /\ txn[q] # None
    /\ LET l == txn[q].lease
           p == txn[q].from
       IN  /\ UpdateLeaseConditions(l)
           /\ IF p <= lease[l].last
              THEN bill' = [bill EXCEPT ![l] = Regenerated(l, p)]
              ELSE UNCHANGED bill
    /\ txn' = [txn EXCEPT ![q] = None]
    /\ UNCHANGED <<now, received, posted>>

Rollback(q) ==
    /\ txn[q] # None
    /\ txn' = [txn EXCEPT ![q] = None]
    /\ UNCHANGED <<now, lease, bill, received, posted>>

(* The deposit can be settled whatever the status of the lease.            *)
UpdateDeposit(l, deduction) ==
    /\ Unlocked(l) /\ lease[l].status # "absent"
    /\ SettledRow(l, lease[l].status, Deposit - deduction, deduction)
    /\ PostSettlement(l, Deposit - deduction, deduction, 0, 0)
    /\ UNCHANGED <<now, bill, received, txn>>

TerminateLease(l, deduction) ==
    /\ Unlocked(l) /\ lease[l].status \in Terminable
    /\ Unpaid(l) = {}
    /\ SettledRow(l, "terminated", Deposit - deduction, deduction)
    /\ PostSettlement(l, Deposit - deduction, deduction, 0, 0)
    /\ UNCHANGED <<now, bill, received, txn>>

ChargesCovered(charges) == charges <= Deposit

(* The preview token is the lease's version, every bill's version and all  *)
(* amounts, compared under the locks: finalizing is atomic.  The last      *)
(* electricity bill may still wait for the meter reading that the checkout *)
(* brings, when it ends with the checkout; its amount e is deducted from   *)
(* the deposit and posted as electricity.                                  *)
FinalizeCheckout(l, fee, e, rent) ==
    LET meters == {b \in Unpaid(l) : bill[l][b] = "pending_meter"}
    IN  /\ Unlocked(l) /\ lease[l].status \in Terminable
        /\ Unpaid(l) = meters /\ \A b, c \in meters : b = c /\ b.kind = "electricity"
        /\ ChargesCovered(fee + e)
        /\ SettledRow(l, "terminated", Deposit - (fee + e), fee + e)
        /\ PostSettlement(l, Deposit - (fee + e), fee + e, e, rent)
        /\ SetBills(l, meters, "paid")
        /\ received' = [received EXCEPT ![l] =
               [b \in Bills |-> IF b \in meters /\ e > 0 THEN @[b] + 1 ELSE @[b]]]
        /\ UNCHANGED <<now, txn>>

(* Mutations: an overdue bill is forgotten; a paid one is written off too. *)
WriteOffPending(l) == SetBills(l, {b \in Bills : bill[l][b] \in Pending}, "written_off")
WriteOffAll(l) == SetBills(l, {b \in Bills : bill[l][b] # "absent"}, "written_off")
WriteOffBills(l) == SetBills(l, Unpaid(l), "written_off")

PostDepositWriteOff(l) == PostSettlement(l, 0, Deposit, 0, 0)

(* All unpaid bills are written off and the force termination completed in *)
(* the same transaction.  write_off confiscates the whole deposit whatever *)
(* its status was.                                                         *)
ForceTerminateLease(l, handling) ==
    /\ Unlocked(l) /\ lease[l].status \in Terminable
    /\ WriteOffBills(l)
    /\ IF handling = "write_off"
       THEN /\ lease' = [lease EXCEPT ![l].status = "force_terminated", ![l].deposit = "written_off"]
            /\ PostDepositWriteOff(l)
       ELSE /\ lease' = [lease EXCEPT ![l].status = "force_terminated"]
            /\ UNCHANGED posted
    /\ UNCHANGED <<now, received, txn>>

(* A rent and an electricity bill end right before period p, and all bills *)
(* up to there are paid (a voided one is not).                             *)
Replaceable(l, p) ==
    /\ \A k \in {"rent", "electricity"} :
           \E b \in Bills : b.kind = k /\ b.period + 1 = p /\ bill[l][b] # "absent"
    /\ \A b \in Bills : b.period < p => bill[l][b] \in {"paid", "absent"}

(* An overdue or paid bill stays.                                          *)
VoidBillsOverlappingOrAfter(l, p) ==
    [b \in Bills |-> IF b.period >= p /\ bill[l][b] \in Pending THEN "voided" ELSE bill[l][b]]

(* The predecessor ends before p, and keeps its held deposit.              *)
ReplaceLease(l, m, p, e) ==
    /\ Unlocked(l) /\ lease[l].status = "active" /\ lease[m].status = "absent"
    /\ lease[l].deposit = "held"
    /\ Replaceable(l, p) /\ p <= e
    /\ lease' = [lease EXCEPT ![l].status = "terminated", ![l].replaced = TRUE,
                              ![l].last = p - 1, ![m] = NewLease(p, e)]
    /\ bill' = [bill EXCEPT
           ![l] = VoidBillsOverlappingOrAfter(l, p),
           ![m] = Seeds(p, e)]
    /\ UNCHANGED <<now, received, posted, txn>>

-----------------------------------------------------------------------------
(* Bills: only the bill's row is locked, except that recording a meter     *)
(* also locks the lease to find the previous reading.                      *)

RecordMeter(l, b) ==
    /\ Unlocked(l) /\ b.kind = "electricity" /\ bill[l][b] = "pending_meter"
    /\ SetBills(l, {b}, "pending_payment")
    /\ UNCHANGED <<now, lease, received, posted, txn>>

(* Mutation: a bill that is already paid can be paid.                      *)
RecordPaymentAgain(l, b) ==
    /\ Slot /\ bill[l][b] \in Payable \cup {"paid"}
    /\ SetBills(l, {b}, "paid")
    /\ received' = [received EXCEPT ![l][b] = @ + 1]
    /\ UNCHANGED <<now, lease, posted, txn>>

RecordPayment(l, b) ==
    /\ Slot /\ bill[l][b] \in Payable
    /\ SetBills(l, {b}, "paid")
    /\ received' = [received EXCEPT ![l][b] = @ + 1]
    /\ UNCHANGED <<now, lease, posted, txn>>

(* A bill is due on the first day of its period, and the update compares   *)
(* the status and the version that the scan has read.                      *)
MarkBillOverdue(l, b) ==
    /\ Slot /\ bill[l][b] = "pending_payment" /\ b.period <= now
    /\ SetBills(l, {b}, "overdue")
    /\ UNCHANGED <<now, lease, received, posted, txn>>

MarkLeaseExpired(l) ==
    /\ Unlocked(l) /\ lease[l].status = "active" /\ lease[l].last < now
    /\ lease' = [lease EXCEPT ![l].status = "expired"]
    /\ UNCHANGED <<now, bill, received, posted, txn>>

Tick == now <= N /\ now' = now + 1 /\ UNCHANGED <<lease, bill, received, posted, txn>>

-----------------------------------------------------------------------------
LeaseNext(l) ==
    \/ \E e \in Periods : CreateLease(l, e)
    \/ \E d \in 0..Deposit : UpdateDeposit(l, d) \/ TerminateLease(l, d)
    \/ \E fee, e \in 0..Deposit, rent \in 0..1 : FinalizeCheckout(l, fee, e, rent)
    \/ \E handling \in {"write_off", "keep_held"} : ForceTerminateLease(l, handling)
    \/ \E m \in Leases, e \in Periods, p \in Periods : ReplaceLease(l, m, p, e)
    \/ MarkLeaseExpired(l)

BillNext(l) ==
    \E b \in Bills : RecordMeter(l, b) \/ RecordPayment(l, b) \/ MarkBillOverdue(l, b)

RentNext(q) ==
    \/ \E l \in Leases : ReadLockedBills(q, l)
    \/ UpdateLease(q) \/ Rollback(q)

Next ==
    \/ \E l \in Leases : LeaseNext(l) \/ BillNext(l)
    \/ \E q \in Reqs : RentNext(q)
    \/ Tick

Spec == Init /\ [][Next]_vars

-----------------------------------------------------------------------------
(* Properties.                                                             *)

Live(l, k, p) ==
    {b \in Bills : b.kind = k /\ b.period = p /\ bill[l][b] \notin {"absent", "voided"}}

(* The deposit fields of a lease and the ledger agree (DR-S02): a held     *)
(* deposit has posted nothing; a settled one its refund, and its deduction *)
(* with the electricity taken from it counted once; a written off one the  *)
(* whole deposit, on top of an earlier settlement if there was one.        *)
DepositAgreesWithLedger ==
    \A l \in Leases :
        lease[l].status # "absent" =>
            LET owed == IF lease[l].deposit = "written_off" THEN Deposit ELSE 0
            IN  /\ posted[l].refund = lease[l].refund
                /\ posted[l].deduction + posted[l].electricity = lease[l].deduction + owed
                /\ lease[l].deposit = "held" => lease[l].refund + lease[l].deduction = 0
                /\ lease[l].deposit = "settled" => lease[l].refund + lease[l].deduction = Deposit

(* A bill is received at most once (DR-B02), only when it is paid, and a   *)
(* paid bill was received, unless a checkout settled it for nothing.       *)
BillAgreesWithLedger ==
    \A l \in Leases : \A b \in Bills :
        /\ received[l][b] <= 1
        /\ received[l][b] = 1 => bill[l][b] = "paid"
        /\ bill[l][b] = "paid" /\ received[l][b] = 0 =>
               b.kind = "electricity" /\ lease[l].status = "terminated" /\ posted[l].electricity = 0

(* A lease that has ended keeps no unpaid bill (DR-L04), except that a     *)
(* replaced one may keep overdue bills of the periods it gave up; and a    *)
(* lease that ended normally has settled its deposit.                      *)
EndedLeaseSettled ==
    \A l \in Leases :
        /\ lease[l].status \in {"terminated", "force_terminated"} =>
               \A b \in Unpaid(l) :
                   lease[l].replaced /\ bill[l][b] = "overdue" /\ b.period > lease[l].last
        /\ lease[l].status = "terminated" => lease[l].replaced \/ lease[l].deposit = "settled"

(* Every period of an open lease is billed, for rent and for electricity:  *)
(* changing the rent voids no period that it does not bill again.          *)
OpenLeaseFullyBilled ==
    \A l \in Leases :
        lease[l].status \in Terminable =>
            \A p \in lease[l].first..lease[l].last :
                Live(l, "rent", p) # {} /\ Live(l, "electricity", p) # {}

(* One period of a lease has at most one bill of a kind that is neither    *)
(* voided, nor paid, nor overdue.                                          *)
OnePendingBillPerPeriod ==
    \A l \in Leases : \A b, c \in Bills :
        /\ b.kind = c.kind /\ b.period = c.period
        /\ bill[l][b] \in Pending /\ bill[l][c] \in Pending
        => b = c

(* One period of a lease has at most one bill of a kind that is not        *)
(* voided: a rent change is refused once a bill of its periods is locked   *)
(* by a payment or is overdue.                                             *)
PeriodBilledOnce ==
    \A l \in Leases : \A k \in {"rent", "electricity"}, p \in Periods :
        \A b, c \in Live(l, k, p) : b = c

(* A paid, voided or written off bill stays so: no race of payments,       *)
(* overdue marks, rent changes and terminations writes it again.           *)
SettledBillsFinal ==
    [][\A l \in Leases : \A b \in Bills :
           bill[l][b] \in Settled => bill'[l][b] = bill[l][b]]_bill

-----------------------------------------------------------------------------
(* The inductive invariant behind the properties, for any number of        *)
(* concurrent requests.                                                    *)

(* A lease that does not exist has no bill and no entry; a bill belongs to *)
(* a rent change that has happened; only a force termination writes the    *)
(* deposit off.                                                            *)
RowsMatchBills ==
    \A l \in Leases :
        IF lease[l].status = "absent"
        THEN /\ \A b \in Bills : bill[l][b] = "absent"
             /\ posted[l].refund = 0 /\ posted[l].deduction = 0 /\ posted[l].electricity = 0
        ELSE /\ \A b \in Bills : bill[l][b] # "absent" => b.gen <= lease[l].changes
             /\ lease[l].deposit = "written_off" => lease[l].status = "force_terminated"

(* A lease locked for a rent change stays as it was read, and one request  *)
(* holds the lock.                                                         *)
LocksHeld ==
    \A q \in Reqs :
        txn[q] # None =>
            /\ lease[txn[q].lease].status = "active"
            /\ lease[txn[q].lease].changes < MaxChanges
            /\ \A r \in Reqs : txn[r] # None /\ txn[r].lease = txn[q].lease => r = q

(* The conjunction of all of the above that survives any interleaving.     *)
SettlementInv ==
    /\ TypeOK
    /\ RowsMatchBills
    /\ LocksHeld
    /\ DepositAgreesWithLedger
    /\ BillAgreesWithLedger
    /\ EndedLeaseSettled
    /\ OpenLeaseFullyBilled
    /\ OnePendingBillPerPeriod
=============================================================================
