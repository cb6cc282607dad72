---------------------------- MODULE BillingPeriods ----------------------------
(***************************************************************************)
(* The calendar of a lease: how its first and last day and its cadence are *)
(* cut into billing periods.  A date is a month, counted from January 2024,*)
(* and a day; time.Date's normalisation of month 13 and 0 is then addition *)
(* of months.  Leap years follow the four-year rule, right until 2099.     *)
(***************************************************************************)
EXTENDS Integers, Sequences

Date(m, d) == [month |-> m, day |-> d]
Dates == [month : Nat, day : 1..31]

LastDay(m) ==
    CASE m % 48 = 1                   -> 29
      [] m % 12 = 1 /\ m % 48 # 1     -> 28
      [] m % 12 \in {3, 5, 8, 10}     -> 30
      [] OTHER                        -> 31

(* A day of the calendar; time.Date makes no other.                        *)
Real(d) == d \in Dates /\ d.day <= LastDay(d.month)

After(a, b) == a.month > b.month \/ (a.month = b.month /\ a.day > b.day)
Earlier(a, b) == IF After(a, b) THEN b ELSE a

DayAfter(a) == IF a.day < LastDay(a.month) THEN Date(a.month, a.day + 1) ELSE Date(a.month + 1, 1)
DayBefore(a) == IF a.day > 1 THEN Date(a.month, a.day - 1) ELSE Date(a.month - 1, LastDay(a.month - 1))

ClampedMonthDate(m, day) == Date(m, IF day > LastDay(m) THEN LastDay(m) ELSE day)

-----------------------------------------------------------------------------
(* The loop the three builders share: a period runs up to the day before   *)
(* the next one starts, and the last one is cut at the end of the lease.   *)
(* nextStart and due say when the next period starts and this one is due.  *)
PeriodsFrom(first, end, nextStart, due) ==
    LET from[s \in Dates] ==
            IF After(s, end) THEN <<>>
            ELSE LET next == nextStart[s]
                 IN  <<[start |-> s, end |-> Earlier(DayBefore(next), end), due |-> due[s]]>> \o from[next]
    IN  from[first]

BuildAnchoredPeriods(first, end, step, anchor) ==
    PeriodsFrom(first, end, [s \in Dates |-> ClampedMonthDate(s.month + step, anchor)], [s \in Dates |-> s])

BuildMonthlyPeriods(first, end, anchor) ==
    PeriodsFrom(first, end, [s \in Dates |-> ClampedMonthDate(s.month + 1, anchor)],
                            [s \in Dates |-> ClampedMonthDate(s.month, anchor)])

(* Two calendar months each, January and February, March and April, ...;   *)
(* the first month of a window has an even index.                          *)
WindowAfter[s \in Dates] == Date(s.month - (s.month % 2) + 2, 1)

BuildNaturalBimonthlyPeriods(first, end, anchor) ==
    PeriodsFrom(first, end, WindowAfter, [s \in Dates |-> ClampedMonthDate(s.month, anchor)])

-----------------------------------------------------------------------------
RentCadenceMonths == [monthly |-> 1, quarterly |-> 3, semiannual |-> 6, annual |-> 12]

BuildRentBillingPeriodsFromAnchor(first, end, cadence, anchor) ==
    BuildAnchoredPeriods(first, end, RentCadenceMonths[cadence], anchor)

BuildRentBillingPeriods(first, end, cadence) ==
    BuildRentBillingPeriodsFromAnchor(first, end, cadence, first.day)

(* The electricity bills.                                                  *)
BuildBillingPeriods(first, end, cadence) ==
    IF cadence = "monthly" THEN BuildMonthlyPeriods(first, end, first.day)
    ELSE BuildNaturalBimonthlyPeriods(first, end, first.day)

(* Mutation: the candidate keeps the day a short month has clamped.        *)
NextPaymentDrifting(first, operation, cadence) ==
    LET from[c \in Dates] ==
            IF After(c, operation) THEN c
            ELSE from[ClampedMonthDate(c.month + RentCadenceMonths[cadence], c.day)]
    IN  from[first]

NextRentPaymentDateAfter(first, operation, cadence) ==
    LET from[c \in Dates] ==
            IF After(c, operation) THEN c
            ELSE from[ClampedMonthDate(c.month + RentCadenceMonths[cadence], first.day)]
    IN  from[first]

(* isCompleteBoundaryBill builds two years of periods from the bill's own  *)
(* start, with the lease's anchor, and compares the first of them; bimonthly *)
(* windows do not depend on an anchor.                                     *)
FirstPeriod(periods) == Head(periods).end

CompleteRent(first, cadence, bill) ==
    bill.end = FirstPeriod(BuildRentBillingPeriodsFromAnchor(
        bill.start, ClampedMonthDate(bill.start.month + 24, bill.start.day), cadence, first.day))

CompletePower(first, cadence, bill) ==
    LET end == ClampedMonthDate(bill.start.month + 24, bill.start.day)
    IN  bill.end = FirstPeriod(IF cadence = "monthly"
                               THEN BuildMonthlyPeriods(bill.start, end, first.day)
                               ELSE BuildBillingPeriods(bill.start, end, cadence))
=============================================================================
