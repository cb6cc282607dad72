---------------------------- MODULE MeterReadings ----------------------------
(***************************************************************************)
(* The bills of one lease by date, and the electricity meter behind them.  *)
(*                                                                         *)
(* Recording a reading locks the bill first and then, in the statement     *)
(* that looks up the previous reading, the lease: the statement's snapshot *)
(* is taken before it waits for the lock (READ COMMITTED), and the lease's *)
(* row is not changed by the reading it waits for, so that the value is    *)
(* not looked up again.  Checkout and forced termination lock the lease    *)
(* first and then all its bills.  The two orders can meet in a deadlock,   *)
(* which the database ends by aborting one of the two.                     *)
(*                                                                         *)
(* Rent payments are in LeaseSettlement: here a checkout may find the rent *)
(* settled, and a change of the rent no paid bill in its way.              *)
(***************************************************************************)
EXTENDS BillingPeriods, FiniteSets, FiniteSetsExt, Functions

CONSTANTS
    Leases,     \* the leases a run may be about (a sample)
    MaxMetered, \* the meter is read of leases with so many electricity bills (a bound)
    Days,       \* days the rent is changed on (a sample)
    LastDays,   \* days a termination gives as the last one of the lease (a sample)
    Readings,   \* readings of the meter (a bound)
    Rents,      \* rents of a lease (a bound)
    Reqs,       \* slots of concurrent requests
    None

VARIABLES
    lease,   \* the row of the lease
    rent,    \* its rent bills that are not voided, in the order of their periods
    power,   \* its electricity bills, in the order of their periods
    final,   \* the electricity that a checkout settled without a bill, or None
    call,    \* call[q]: the open transaction of request q, or None
    mixed    \* history: a reading was recorded out of turn, see OutOfTurn

vars == <<lease, rent, power, final, call, mixed>>

Settlements == {"checkout", "terminate", "force"}

-----------------------------------------------------------------------------
Cadences == DOMAIN RentCadenceMonths
LeaseRow == [start : Dates, end : Dates, rentCadence : Cadences,
             powerCadence : {"monthly", "bimonthly"}, meter : Readings, amount : Rents,
             status : {"active", "ended"}]

(* The leases are running ones between real dates (ErrInvalidDateRange);   *)
(* the meter shows numbers.                                                *)
ASSUME LeasesAssumption ==
    \A l \in Leases : /\ l \in LeaseRow /\ l.status = "active"
                      /\ Real(l.start) /\ Real(l.end) /\ ~After(l.start, l.end)
ASSUME ValuesAssumption == Readings \subseteq Int /\ \A d \in Days \cup LastDays : Real(d)
ASSUME NoneAssumption ==
    /\ None \notin Readings
    /\ None \notin [bill : SUBSET Nat, reading : Readings, previous : Readings]
    /\ None \notin [reading : Readings, previous : Readings]

Period == [start : Dates, end : Dates, due : Dates]

Pending == [status : {"pending_meter"}, reading : {None}, previous : {None}]
Recorded == [status : {"pending_payment", "paid"}, reading : Readings, previous : Readings]
Waived == [status : {"written_off"}, reading : Readings \cup {None}, previous : Readings \cup {None}]
Meters == Pending \cup Recorded \cup Waived

(* The electricity line of a settlement, and what its token is a digest of. *)
Lines == [bill : SUBSET DOMAIN power, reading : Readings, previous : Readings] \cup {None}
Tokens == [lease : LeaseRow, power : Seq(Meters), day : Dates, value : Readings \cup {None}, line : Lines]

RecordCalls == [op : {"record"}, bill : DOMAIN power, value : Readings,
                stage : {"called", "bill", "read", "lease"},
                previous : Readings \cup {None}, stale : BOOLEAN]
TerminationCalls == [op : {"terminate", "force"}, day : Dates, value : {None},
                     stage : {"called", "lease", "bills"}]
CheckoutCalls == [op : {"checkout"}, day : Dates, value : Readings \cup {None},
                  stage : {"called", "lease", "bills"}, shown : Lines, token : Tokens]

TypeOK ==
    /\ lease \in LeaseRow
    /\ \A i \in DOMAIN rent : rent[i].period \in Period /\ rent[i].amount \in Rents
    /\ \A i \in DOMAIN power : /\ power[i].period \in Period
                               /\ power[i].meter \in Meters
    /\ final \in [reading : Readings, previous : Readings] \cup {None}
    /\ call \in [Reqs -> RecordCalls \cup TerminationCalls \cup CheckoutCalls \cup {None}]
    /\ mixed \in BOOLEAN

(* CreateLease inserts the lease and all its bills in one transaction.     *)
RentBills(periods, amount) ==
    [i \in DOMAIN periods |-> [period |-> periods[i], amount |-> amount]]
PowerBills(periods) ==
    [i \in DOMAIN periods |->
        [period |-> periods[i],
         meter |-> [status |-> "pending_meter", reading |-> None, previous |-> None]]]

Init ==
    /\ lease \in Leases
    /\ rent = RentBills(BuildRentBillingPeriods(lease.start, lease.end, lease.rentCadence), lease.amount)
    /\ power = PowerBills(BuildBillingPeriods(lease.start, lease.end, lease.powerCadence))
    /\ final = None
    /\ call = [q \in Reqs |-> None]
    /\ mixed = FALSE

-----------------------------------------------------------------------------
(* Row locks, held until the transaction ends.                             *)
Open(q) == call[q] # None
At(q, op, stage) == Open(q) /\ call[q].op = op /\ call[q].stage = stage
AtSettlement(q, stage) == \E op \in Settlements : At(q, op, stage)

HoldsLease(q) == At(q, "record", "lease") \/ AtSettlement(q, "lease") \/ AtSettlement(q, "bills")
HoldsBill(q, i) ==
    \/ AtSettlement(q, "bills")
    \/ Open(q) /\ call[q].op = "record" /\ call[q].stage # "called" /\ call[q].bill = i

LeaseFree(q) == \A r \in Reqs \ {q} : ~HoldsLease(r)
BillFree(q, i) == \A r \in Reqs \ {q} : ~HoldsBill(r, i)

(* q has locked a bill and waits for the lease; r has locked the lease and *)
(* waits for the bills.                                                    *)
Deadlocked(q, r) == At(q, "record", "read") /\ AtSettlement(r, "lease")

-----------------------------------------------------------------------------
(* What a transaction reads.                                               *)

IsMetered(i) == power[i].meter.reading # None
Metered == {i \in DOMAIN power : IsMetered(i)}

(* The latest reading of a bill that ends before the date, or the reading  *)
(* the lease started with.  Mutation: the first such bill.                 *)
OldestReading(start) ==
    LET before == {i \in Metered : After(start, power[i].period.end)}
    IN  IF before = {} THEN lease.meter ELSE power[Min(before)].meter.reading

PreviousReading(start) ==
    LET before == {i \in Metered : After(start, power[i].period.end)}
    IN  IF before = {} THEN lease.meter ELSE power[Max(before)].meter.reading

WithStatus(s) == {i \in DOMAIN power : power[i].meter.status = s}

(* The one pending bill, when a final reading is given on its last day.    *)
ResolvableBill(c) ==
    IF c.value # None /\ Cardinality(WithStatus("pending_meter")) = 1
    THEN {i \in WithStatus("pending_meter") : power[i].period.end = c.day}
    ELSE {}

SourceStart(c) ==
    IF ResolvableBill(c) = {} THEN DayAfter(c.day)
    ELSE power[CHOOSE i \in ResolvableBill(c) : TRUE].period.start

Blocked(c) ==
    \/ lease.status = "ended" \/ After(lease.start, c.day)
    \/ WithStatus("pending_payment") # {}
    \/ WithStatus("pending_meter") # ResolvableBill(c)

(* calculateCheckoutElectricity refuses a reading below the previous one.  *)
TooLow(c) == c.value # None /\ c.value < PreviousReading(SourceStart(c))

(* The electricity line: none without a reading, or without a bill and use. *)
ElectricityLine(c) ==
    IF c.value = None \/ (ResolvableBill(c) = {} /\ c.value = PreviousReading(SourceStart(c)))
    THEN None
    ELSE [bill |-> ResolvableBill(c), reading |-> c.value,
          previous |-> PreviousReading(SourceStart(c))]

(* A digest of the versions of the lease and of its bills, of what the     *)
(* client has asked for, and of the lines: here all of them.  Mutation:    *)
(* only the lease and the request are in it.                               *)
TokenOfLease(c) ==
    [lease |-> lease, power |-> <<>>, day |-> c.day, value |-> c.value, line |-> None]
CheckoutSettlementToken(c) ==
    [lease |-> lease, power |-> [i \in DOMAIN power |-> power[i].meter],
     day |-> c.day, value |-> c.value, line |-> ElectricityLine(c)]

-----------------------------------------------------------------------------
(* Changes of the rent: the lease is locked first and everything committed *)
(* at once; the bills due from the next payment on are voided and built    *)
(* again with the new rent.                                                *)
DueBefore(next) ==
    LET first[n \in 0..Len(rent)] ==
            IF n = 0 THEN <<>>
            ELSE IF After(next, rent[n].period.due) THEN Append(first[n - 1], rent[n])
            ELSE first[n - 1]
    IN  first[Len(rent)]

ChangeRent(day, amount) ==
    LET next == NextRentPaymentDateAfter(lease.start, day, lease.rentCadence)
        built == BuildRentBillingPeriodsFromAnchor(next, lease.end, lease.rentCadence, lease.start.day)
    IN  /\ \A q \in Reqs : ~HoldsLease(q)
        /\ lease.status = "active" /\ amount # lease.amount
        /\ lease' = [lease EXCEPT !.amount = amount]
        /\ rent' = IF After(next, lease.end) THEN rent ELSE DueBefore(next) \o RentBills(built, amount)
        /\ UNCHANGED <<power, final, call, mixed>>

-----------------------------------------------------------------------------
(* Requests.                                                               *)

Request(q, c) ==
    /\ ~Open(q) /\ Len(power) <= MaxMetered
    /\ call' = [call EXCEPT ![q] = c]
    /\ UNCHANGED <<lease, rent, power, final, mixed>>

CallRecordMeter(q, i, v) ==
    Request(q, [op |-> "record", bill |-> i, value |-> v, stage |-> "called",
                previous |-> None, stale |-> FALSE])

(* TerminateLease and ForceTerminateLease.                                 *)
CallTermination(q, op, day) ==
    Request(q, [op |-> op, day |-> day, value |-> None, stage |-> "called"])

(* PreviewCheckoutSettlement locks what the checkout will lock and commits *)
(* nothing; the client sends the token of what it was shown with the call  *)
(* that finalizes it.                                                      *)
PreviewCheckout(q, day, v) ==
    LET c == [day |-> day, value |-> v]
    IN  /\ LeaseFree(q) /\ \A i \in DOMAIN power : BillFree(q, i)
        /\ ~Blocked(c) /\ ~TooLow(c)
        /\ Request(q, [op |-> "checkout", day |-> day, value |-> v, stage |-> "called",
                       shown |-> ElectricityLine(c), token |-> CheckoutSettlementToken(c)])

Advance(q, stage) ==
    /\ call' = [call EXCEPT ![q].stage = stage]
    /\ UNCHANGED <<lease, rent, power, final, mixed>>

(* RecordMeter, statement by statement.                                    *)
FindBillByIDForUpdate(q) ==
    /\ At(q, "record", "called") /\ BillFree(q, call[q].bill)
    /\ Advance(q, "bill")

FindPreviousReading(q) ==
    /\ At(q, "record", "bill")
    /\ call' = [call EXCEPT ![q].stage = "read",
                    ![q].previous = PreviousReading(power[call[q].bill].period.start)]
    /\ UNCHANGED <<lease, rent, power, final, mixed>>

LockLease(q) == At(q, "record", "read") /\ LeaseFree(q) /\ Advance(q, "lease")

(* The reading is recorded out of turn: a later one is there already, or   *)
(* another one was recorded since the previous reading was looked up.      *)
OutOfTurn(q) ==
    call[q].stale \/ \E j \in Metered : j > call[q].bill

(* History: what the other requests have looked up is now out of date.     *)
Closed(q) ==
    [r \in Reqs |->
        IF r = q THEN None
        ELSE IF At(r, "record", "read") \/ At(r, "record", "lease")
             THEN [call[r] EXCEPT !.stale = TRUE]
             ELSE call[r]]

UpdateMeter(c) == [status |-> "pending_payment", reading |-> c.value, previous |-> c.previous]

RecordMeter(q) ==
    /\ At(q, "record", "lease")
    /\ power[call[q].bill].meter.status = "pending_meter"
    /\ call[q].value >= call[q].previous
    /\ power' = [power EXCEPT ![call[q].bill].meter = UpdateMeter(call[q])]
    /\ mixed' = (mixed \/ OutOfTurn(q))
    /\ call' = Closed(q)
    /\ UNCHANGED <<lease, rent, final>>

(* FinalizeCheckout, TerminateLease and ForceTerminateLease.               *)
LockLeaseFirst(q) == AtSettlement(q, "called") /\ LeaseFree(q) /\ Advance(q, "lease")

ListBillsForUpdate(q) ==
    /\ AtSettlement(q, "lease") /\ (call[q].op = "force" => lease.status = "active")
    /\ \A i \in DOMAIN power : BillFree(q, i)
    /\ Advance(q, "bills")

EndLease(day) == lease' = [lease EXCEPT !.status = "ended", !.end = day]

(* SettleCheckoutElectricityBill: the last bill takes the final reading.   *)
SettledBill(line) == [status |-> "paid", reading |-> line.reading, previous |-> line.previous]

(* The last bill is settled, or the usage since it is charged without one. *)
FinalizeCheckout(q) ==
    LET line == ElectricityLine(call[q])
    IN  /\ At(q, "checkout", "bills") /\ ~Blocked(call[q]) /\ ~TooLow(call[q])
        /\ CheckoutSettlementToken(call[q]) = call[q].token
        /\ EndLease(call[q].day)
        /\ power' = [i \in DOMAIN power |->
               IF line # None /\ i \in line.bill
               THEN [power[i] EXCEPT !.meter = SettledBill(line)]
               ELSE power[i]]
        /\ final' = IF line # None /\ line.bill = {}
                    THEN [reading |-> line.reading, previous |-> line.previous]
                    ELSE None
        /\ mixed' = (mixed \/ \E i \in Metered :
                                 ~After(SourceStart(call[q]), power[i].period.end))
        /\ call' = Closed(q)
        /\ UNCHANGED rent

(* A lease without an unpaid bill, whose deposit the caller settles.       *)
TerminateLease(q) ==
    /\ At(q, "terminate", "bills") /\ lease.status = "active"
    /\ WithStatus("pending_payment") \cup WithStatus("pending_meter") = {}
    /\ EndLease(call[q].day)
    /\ call' = Closed(q)
    /\ UNCHANGED <<rent, power, final, mixed>>

ForceTerminateLease(q) ==
    /\ At(q, "force", "bills")
    /\ EndLease(call[q].day)
    /\ power' = [i \in DOMAIN power |->
           IF power[i].meter.status = "paid" THEN power[i]
           ELSE [power[i] EXCEPT !.meter.status = "written_off"]]
    /\ call' = Closed(q)
    /\ UNCHANGED <<rent, final, mixed>>

(* The handler answers with an error and its transaction is rolled back.   *)
RecordRefused(q) ==
    /\ At(q, "record", "lease")
    /\ \/ power[call[q].bill].meter.status # "pending_meter"
       \/ call[q].value < call[q].previous

CheckoutRefused(q) ==
    /\ At(q, "checkout", "bills")
    /\ \/ Blocked(call[q]) \/ TooLow(call[q])
       \/ CheckoutSettlementToken(call[q]) # call[q].token

TerminationRefused(q) ==
    \/ /\ At(q, "terminate", "bills")
       /\ lease.status # "active" \/ WithStatus("pending_payment") \cup WithStatus("pending_meter") # {}
    \/ At(q, "force", "lease") /\ lease.status # "active"

(* Mutation: the error path for a reading below the previous one is lost   *)
(* and the transaction stays open.                                         *)
RefusedUnlessLower(q) ==
    \/ At(q, "record", "lease") /\ power[call[q].bill].meter.status # "pending_meter"
    \/ CheckoutRefused(q) \/ TerminationRefused(q)
Refused(q) == RecordRefused(q) \/ CheckoutRefused(q) \/ TerminationRefused(q)

(* Any statement of an open transaction may also fail.                     *)
Rollback(q) ==
    /\ Open(q)
    /\ call' = [call EXCEPT ![q] = None]
    /\ UNCHANGED <<lease, rent, power, final, mixed>>

RecordPayment(i) ==
    /\ \A q \in Reqs : ~HoldsBill(q, i)
    /\ power[i].meter.status = "pending_payment"
    /\ power' = [power EXCEPT ![i].meter.status = "paid"]
    /\ UNCHANGED <<lease, rent, final, call, mixed>>

-----------------------------------------------------------------------------
(* What the lists of meters answer; one statement each.                    *)

(* A bill that waits for its reading, with the reading before it.          *)
ListPendingMeters ==
    {[bill |-> i, previous |-> PreviousReading(power[i].period.start)] :
        i \in WithStatus("pending_meter")}

HistoryRow(i) ==
    [bill |-> i, previous |-> power[i].meter.previous, reading |-> power[i].meter.reading]

ListPropertyMeterHistory ==
    {HistoryRow(i) : i \in {j \in DOMAIN power :
        /\ power[j].meter.previous # None /\ power[j].meter.reading # None
        /\ power[j].meter.status \in {"pending_payment", "paid"}}}

ListRoomMeterHistory ==
    {HistoryRow(i) : i \in {j \in DOMAIN power :
        power[j].meter.reading # None /\ power[j].meter.status # "written_off"}}

-----------------------------------------------------------------------------
Step(q) ==
    \/ FindBillByIDForUpdate(q) \/ FindPreviousReading(q) \/ LockLease(q) \/ RecordMeter(q)
    \/ LockLeaseFirst(q) \/ ListBillsForUpdate(q) \/ FinalizeCheckout(q) \/ TerminateLease(q)
    \/ ForceTerminateLease(q)
    \/ Refused(q) /\ Rollback(q)

DetectDeadlock(q) ==
    /\ \E r \in Reqs : Deadlocked(q, r) \/ Deadlocked(r, q)
    /\ Rollback(q)

Next ==
    \/ \E day \in Days, amount \in Rents : ChangeRent(day, amount)
    \/ \E q \in Reqs :
          \/ \E i \in DOMAIN power, v \in Readings : CallRecordMeter(q, i, v)
          \/ \E day \in LastDays :
                \/ \E op \in {"terminate", "force"} : CallTermination(q, op, day)
                \/ \E v \in Readings \cup {None} : PreviewCheckout(q, day, v)
          \/ Step(q) \/ Rollback(q)
    \/ \E i \in DOMAIN power : RecordPayment(i)

(* PostgreSQL serves the waiters of a row one after the other, so that a   *)
(* transaction whose next statement is possible again and again executes   *)
(* it, and it ends a deadlock by aborting one of its transactions.         *)
Fairness ==
    \A q \in Reqs : SF_vars(Step(q)) /\ WF_vars(\E r \in Reqs : DetectDeadlock(r))

Spec == Init /\ [][Next]_vars /\ Fairness

-----------------------------------------------------------------------------
(* Properties.                                                             *)

(* The bills cut the time from first to last into periods without a gap or *)
(* an overlap.                                                             *)
Tiles(bills, first, last) ==
    /\ bills # <<>> /\ bills[1].period.start = first /\ bills[Len(bills)].period.end = last
    /\ \A i \in DOMAIN bills : ~After(bills[i].period.start, bills[i].period.end)
    /\ \A i \in 1..(Len(bills) - 1) : bills[i + 1].period.start = DayAfter(bills[i].period.end)

(* Every day of a running lease is on one rent bill and on one electricity *)
(* bill, whatever day of the month the lease starts on, and also after its *)
(* rent was changed: buildAnchoredPeriods and NextRentPaymentDateAfter     *)
(* agree about where the periods start.                                    *)
EveryDayBilledOnce ==
    lease.status = "active" => Tiles(rent, lease.start, lease.end) /\ Tiles(power, lease.start, lease.end)

(* The days on which a period may start, counted from the first day of the *)
(* lease and not from the period before.                                   *)
Boundary(d, step) ==
    /\ d.month > lease.start.month /\ (d.month - lease.start.month) % step = 0
    /\ d = ClampedMonthDate(d.month, lease.start.day)
PowerBoundary(d) ==
    IF lease.powerCadence = "monthly" THEN Boundary(d, 1)
    ELSE d.month > lease.start.month /\ d.month % 2 = 0 /\ d.day = 1

(* A short month never moves the payment day for good, and a lease can be  *)
(* replaced behind a bill (isCompleteBoundaryBill) exactly when the bill   *)
(* ends where a period ends by the calendar, and not where the lease does. *)
AnchorKept ==
    /\ \A i \in DOMAIN rent :
          CompleteRent(lease.start, lease.rentCadence, rent[i].period)
          <=> Boundary(DayAfter(rent[i].period.end), RentCadenceMonths[lease.rentCadence])
    /\ \A i \in DOMAIN power :
          CompletePower(lease.start, lease.powerCadence, power[i].period)
          <=> PowerBoundary(DayAfter(power[i].period.end))

(* The periods of a lease cover it without gap or overlap, on boundaries   *)
(* counted from its first day.                                             *)
PeriodsTileLease == EveryDayBilledOnce /\ AnchorKept

Usage(m) == m.reading - m.previous
UsageBilled ==
    SumFunction([i \in Metered |-> Usage(power[i].meter)])
    + (IF final = None THEN 0 ELSE Usage(final))

LastReading ==
    IF final # None THEN final.reading
    ELSE IF Metered = {} THEN lease.meter ELSE power[Max(Metered)].meter.reading

(* What the bills and the checkout charge is what the meter has counted    *)
(* since the start of the lease: RecordMeter and calculateCheckoutElectricity *)
(* leave no usage out and charge none twice, unless the readings were      *)
(* recorded out of turn.                                                   *)
UsageBilledOnce == mixed \/ UsageBilled = LastReading - lease.meter

(* A checkout settles the electricity that its preview has shown, however  *)
(* many readings, payments and rent changes commit in between: otherwise   *)
(* its token does not match.                                               *)
SettledAsShown ==
    [][\A q \in Reqs :
           At(q, "checkout", "bills") /\ lease.status = "active" /\ lease'.status = "ended"
           => ElectricityLine(call[q]) = call[q].shown]_vars

(* The two histories, which select by different columns, show the same     *)
(* bills; a bill of a running lease is in them or among the pending ones,  *)
(* and in no two; and the reading that a pending one is listed with is the *)
(* last one of the history before it.                                      *)
MeterListsAgree ==
    /\ ListRoomMeterHistory = ListPropertyMeterHistory
    /\ lease.status = "active" =>
           LET read == {r.bill : r \in ListRoomMeterHistory}
               pending == {r.bill : r \in ListPendingMeters}
           IN  read \cup pending = DOMAIN power /\ read \cap pending = {}
    /\ \A p \in ListPendingMeters :
           LET before == {r \in ListRoomMeterHistory : r.bill < p.bill}
           IN  lease.status = "active" /\ before # {} =>
                   \E r \in before : r.reading = p.previous /\ \A s \in before : s.bill <= r.bill

(* What the meter has counted is charged once, and what is charged or      *)
(* still to be read is what the lists of meters show.                      *)
UsageAccounted == TypeOK /\ UsageBilledOnce /\ MeterListsAgree

(* Every request is answered and its transaction ended, although readings  *)
(* and terminations lock the same rows in opposite orders.                 *)
RequestsAnswered == \A q \in Reqs : Open(q) ~> ~Open(q)
=============================================================================
