------------------------- MODULE MeterReadings_proofs -------------------------
(***************************************************************************)
(* Proofs about MeterReadings, for every lease, calendar day, set of       *)
(* readings and set of requests: the periods of a lease tile it on         *)
(* boundaries counted from its first day (PeriodsTileLease), what the      *)
(* meter has counted is charged once (UsageAccounted), and a checkout      *)
(* settles what its preview has shown (SettledAsShown).                    *)
(* The second part is about PagedLists and its histories, which the same   *)
(* lemmas about finite sets and sums serve: a finished walk is complete    *)
(* (WalkComplete), and what is listed can be opened (ListedIsReachable).   *)
(***************************************************************************)
EXTENDS MeterReadings, PagedListHistories, FiniteSetTheorems, NaturalsInduction, SequenceTheorems, TLAPS

-----------------------------------------------------------------------------
(* Smallest and largest elements.                                          *)

LEMMA SmallestOf ==
    ASSUME NEW S \in SUBSET Nat, S # {}
    PROVE  \E x \in S : \A y \in S : x <= y
<1>1. PICK x \in S : \A y \in S : ~(<<y, x>> \in OpToRel(<, Nat))
  BY NatLessThanWellFounded, WFMin
<1>2. \A y \in S : ~(y < x)
  BY <1>1 DEF OpToRel
<1> QED
  BY <1>2

LEMMA MaxIs ==
    ASSUME NEW n \in Nat, NEW S \in SUBSET (1..n), S # {}
    PROVE  Max(S) \in S /\ \A y \in S : Max(S) >= y
<1> DEFINE T == {n - x : x \in S}
<1>1. PICK w \in S : TRUE
  OBVIOUS
<1>2. T \in SUBSET Nat /\ n - w \in T
  BY <1>1
<1> HIDE DEF T
<1>3. PICK t \in T : \A u \in T : t <= u
  BY <1>2, SmallestOf
<1>4. PICK x \in S : t = n - x
  BY DEF T
<1>5. \A y \in S : n - y \in T /\ y \in Int
  BY DEF T
<1>6. \A y \in S : x >= y
  BY <1>3, <1>4, <1>5
<1> QED
  BY <1>6 DEF Max

-----------------------------------------------------------------------------
(* Days of the calendar.                                                   *)

LEMMA LastDayIs == ASSUME NEW m \in Int PROVE LastDay(m) \in 28..31
  BY DEF LastDay

LEMMA DatesAre ==
    /\ \A d \in Dates : d.month \in Nat /\ d.day \in 1..31
    /\ \A d, e \in Dates : d.month = e.month /\ d.day = e.day => d = e
  BY DEF Dates, Date

LEMMA DateIs ==
    ASSUME NEW m \in Nat, NEW d \in 1..31
    PROVE  Date(m, d) \in Dates /\ Date(m, d).month = m /\ Date(m, d).day = d
  BY DEF Dates, Date

LEMMA RealIs ==
    ASSUME NEW d, Real(d)
    PROVE  /\ d \in Dates /\ d.month \in Nat /\ d.day \in 1..31 /\ d.day <= LastDay(d.month)
           /\ LastDay(d.month) \in 28..31 /\ LastDay(d.month + 1) \in 28..31
           /\ LastDay(d.month - 1) \in 28..31
<1>1. d \in Dates /\ d.day <= LastDay(d.month)
  BY DEF Real
<1>2. d.month \in Nat /\ d.day \in 1..31
  BY <1>1, DatesAre
<1> QED
  BY <1>1, <1>2, LastDayIs

LEMMA ClampedIs ==
    ASSUME NEW m \in Nat, NEW day \in 1..31
    PROVE  /\ Real(ClampedMonthDate(m, day)) /\ ClampedMonthDate(m, day) \in Dates
           /\ ClampedMonthDate(m, day).month = m
<1>1. LastDay(m) \in 28..31
  BY LastDayIs
<1>2. PICK d \in 1..31 : ClampedMonthDate(m, day) = Date(m, d) /\ d <= LastDay(m)
  BY <1>1 DEF ClampedMonthDate
<1>3. Date(m, d) \in Dates /\ Date(m, d).month = m /\ Date(m, d).day = d
  BY DateIs
<1> QED
  BY <1>2, <1>3 DEF Real

LEMMA ClampedSelf ==
    ASSUME NEW d, Real(d)
    PROVE  ClampedMonthDate(d.month, d.day) = d
<1>1. d \in Dates /\ d.month \in Nat /\ d.day \in 1..31 /\ d.day <= LastDay(d.month)
      /\ LastDay(d.month) \in 28..31
  BY RealIs
<1>2. ClampedMonthDate(d.month, d.day) = Date(d.month, d.day)
  BY <1>1 DEF ClampedMonthDate
<1> QED
  BY <1>1, <1>2 DEF Date, Dates

LEMMA DayBeforeIs ==
    ASSUME NEW d, Real(d), d.month > 0
    PROVE  /\ Real(DayBefore(d)) /\ DayBefore(d) \in Dates /\ DayAfter(DayBefore(d)) = d
           /\ After(d, DayBefore(d))
<1>0. d \in Dates /\ d.month \in Nat /\ d.day \in 1..31 /\ d.day <= LastDay(d.month)
      /\ LastDay(d.month) \in 28..31 /\ LastDay(d.month - 1) \in 28..31
  BY RealIs
<1>1. CASE d.day > 1
  <2>1. DayBefore(d) = Date(d.month, d.day - 1)
    BY <1>1 DEF DayBefore
  <2>2. DayBefore(d).month = d.month /\ DayBefore(d).day = d.day - 1 /\ DayBefore(d) \in Dates
    BY <1>0, <1>1, <2>1 DEF Date, Dates
  <2>3. DayAfter(DayBefore(d)) = Date(d.month, d.day)
    BY <1>0, <2>2 DEF DayAfter
  <2>4. DayAfter(DayBefore(d)) = d
    BY <1>0, <2>3 DEF Date, Dates
  <2>5. Real(DayBefore(d))
    BY <1>0, <2>2 DEF Real
  <2>6. After(d, DayBefore(d))
    BY <1>0, <2>2 DEF After
  <2> QED
    BY <2>2, <2>4, <2>5, <2>6
<1>2. CASE d.day = 1
  <2>1. DayBefore(d) = Date(d.month - 1, LastDay(d.month - 1))
    BY <1>2 DEF DayBefore
  <2>0. d.month - 1 \in Nat /\ LastDay(d.month - 1) \in 1..31
    BY <1>0
  <2>2. DayBefore(d).month = d.month - 1 /\ DayBefore(d).day = LastDay(d.month - 1) /\ DayBefore(d) \in Dates
    BY <2>0, <2>1 DEF Date, Dates
  <2>3. DayAfter(DayBefore(d)) = Date(d.month, d.day)
    BY <1>0, <1>2, <2>2 DEF DayAfter
  <2>4. DayAfter(DayBefore(d)) = d
    BY <1>0, <2>3 DEF Date, Dates
  <2>5. Real(DayBefore(d))
    BY <1>0, <2>2 DEF Real
  <2>6. After(d, DayBefore(d))
    BY <1>0, <2>2 DEF After
  <2> QED
    BY <2>2, <2>4, <2>5, <2>6
<1> QED
  BY <1>0, <1>1, <1>2

LEMMA DayAfterIs ==
    ASSUME NEW d, Real(d)
    PROVE  /\ Real(DayAfter(d)) /\ DayAfter(d) \in Dates /\ DayAfter(d).month >= d.month
           /\ IF d.day < LastDay(d.month)
              THEN DayAfter(d).month = d.month /\ DayAfter(d).day = d.day + 1
              ELSE DayAfter(d).month = d.month + 1 /\ DayAfter(d).day = 1
<1>1. d \in Dates /\ d.month \in Nat /\ d.day \in 1..31 /\ LastDay(d.month) \in 28..31
      /\ LastDay(d.month + 1) \in 28..31
  BY RealIs
<1>2. CASE d.day < LastDay(d.month)
  <2>0. DayAfter(d) = Date(d.month, d.day + 1)
    BY <1>2 DEF DayAfter
  <2>1. DayAfter(d).month = d.month /\ DayAfter(d).day = d.day + 1 /\ DayAfter(d) \in Dates
    BY <1>1, <1>2, <2>0 DEF Date, Dates
  <2> QED
    BY <1>1, <1>2, <2>1 DEF Real
<1>3. CASE ~(d.day < LastDay(d.month))
  <2>0. DayAfter(d) = Date(d.month + 1, 1)
    BY <1>3 DEF DayAfter
  <2>1. DayAfter(d).month = d.month + 1 /\ DayAfter(d).day = 1 /\ DayAfter(d) \in Dates
    BY <1>1, <2>0 DEF Date, Dates
  <2> QED
    BY <1>1, <1>3, <2>1 DEF Real
<1> QED
  BY <1>2, <1>3

LEMMA AfterIs ==
    /\ \A a, b \in Dates : After(a, b) => ~After(b, a) /\ a # b
    /\ \A a, b, c \in Dates : After(a, b) /\ ~After(c, b) => After(a, c)
    /\ \A a, b, c \in Dates : ~After(b, a) /\ After(b, c) => After(a, c)
    /\ \A a, b \in Dates : a.month > b.month => After(a, b)
    /\ \A a, b \in Dates : ~After(a, b) => a.month <= b.month
  BY DEF Dates, After

LEMMA AfterTotal ==
    ASSUME NEW a \in Dates, NEW b \in Dates, ~After(a, b), ~After(b, a)
    PROVE  a = b
<1>0. a.month \in Nat /\ a.day \in 1..31 /\ b.month \in Nat /\ b.day \in 1..31
  BY DatesAre
<1>1. a.month = b.month /\ a.day = b.day
  BY <1>0 DEF After
<1> QED
  BY <1>1, DatesAre

(* No day lies between a day and the one after it.                         *)
LEMMA NextDay ==
    ASSUME NEW a, NEW b, Real(a), Real(b)
    PROVE  After(DayAfter(a), b) <=> ~After(b, a)
<1>1. a \in Dates /\ a.month \in Nat /\ a.day \in 1..31 /\ a.day <= LastDay(a.month)
      /\ b \in Dates /\ b.month \in Nat /\ b.day \in 1..31 /\ b.day <= LastDay(b.month)
      /\ LastDay(a.month) \in 28..31
  BY RealIs
<1>2. CASE a.day < LastDay(a.month)
  <2>1. DayAfter(a).month = a.month /\ DayAfter(a).day = a.day + 1
    BY <1>2, DayAfterIs
  <2> QED
    BY <1>1, <2>1 DEF After
<1>3. CASE a.day = LastDay(a.month)
  <2>1. DayAfter(a).month = a.month + 1 /\ DayAfter(a).day = 1
    BY <1>1, <1>3, DayAfterIs
  <2>2. b.month = a.month => b.day <= a.day
    BY <1>1, <1>3
  <2> QED
    BY <1>1, <2>1, <2>2 DEF After
<1> QED
  BY <1>1, <1>2, <1>3

LEMMA EarlierIs ==
    ASSUME NEW a, NEW b, Real(a), Real(b)
    PROVE  /\ Real(Earlier(a, b)) /\ Earlier(a, b) \in Dates
           /\ ~After(a, b) => Earlier(a, b) = a
           /\ After(a, b) => Earlier(a, b) = b
  BY DEF Earlier, Real

LEMMA LatestOf ==
    ASSUME NEW B \in SUBSET Dates, B # {}, NEW m \in Nat, \A b \in B : b.month <= m
    PROVE  \E b \in B : \A c \in B : c.month <= b.month
<1> DEFINE T == {m - b.month : b \in B}
<1>1. \A b \in B : b.month \in Nat /\ m - b.month \in Nat
  BY DatesAre
<1>2. PICK w \in B : TRUE
  OBVIOUS
<1>3. T \in SUBSET Nat /\ m - w.month \in T
  BY <1>1, <1>2
<1> HIDE DEF T
<1>4. PICK t \in T : \A u \in T : t <= u
  BY <1>3, SmallestOf
<1>5. PICK b \in B : t = m - b.month
  BY DEF T
<1>6. \A c \in B : m - c.month \in T
  BY DEF T
<1>7. \A c \in B : c.month <= b.month
  BY <1>1, <1>4, <1>5, <1>6
<1> QED
  BY <1>7

-----------------------------------------------------------------------------
(* The loop of the builders.                                               *)

PeriodAt(s, end, nx, due) ==
    [start |-> s, end |-> Earlier(DayBefore(nx[s]), end), due |-> due[s]]

Periods(D, g, end, nx, due) ==
    g = [s \in D |-> IF After(s, end) THEN <<>> ELSE <<PeriodAt(s, end, nx, due)>> \o g[nx[s]]]

(* A later month is nearer to the end, so that the loop comes to an end    *)
(* from every day.                                                         *)
LEMMA PeriodsExist ==
    ASSUME NEW end \in Dates, NEW nx \in [Dates -> Dates],
           \A s \in Dates : nx[s].month > s.month, NEW due
    PROVE  \E g : Periods(Dates, g, end, nx, due)
<1> DEFINE D(n) == {s \in Dates : s.month + n > end.month}
           Has(n) == \E g : Periods(D(n), g, end, nx, due)
<1>0. end.month \in Nat /\ \A s \in Dates : s.month \in Nat /\ nx[s] \in Dates /\ nx[s].month \in Nat
  BY DatesAre
<1>1. Has(0)
  <2> DEFINE g == [s \in D(0) |-> <<>>]
  <2>1. \A s \in D(0) : After(s, end)
    BY <1>0, AfterIs
  <2>2. g = [s \in D(0) |-> IF After(s, end) THEN <<>> ELSE <<PeriodAt(s, end, nx, due)>> \o g[nx[s]]]
    BY <2>1
  <2> QED
    BY <2>2 DEF Periods
<1>2. ASSUME NEW n \in Nat, Has(n) PROVE Has(n + 1)
  <2>1. PICK g : Periods(D(n), g, end, nx, due)
    BY <1>2
  <2> DEFINE next(s) == IF After(s, end) THEN <<>> ELSE <<PeriodAt(s, end, nx, due)>> \o g[nx[s]]
             h == [s \in D(n + 1) |-> next(s)]
  <2>2. \A s \in D(n + 1) : nx[s] \in D(n)
    BY <1>0
  <2>3. \A s \in D(n) : s \in D(n + 1)
    BY <1>0
  <2>4. \A s \in D(n) : g[s] = next(s)
    BY <2>1 DEF Periods
  <2>5. \A s \in D(n) : h[s] = next(s)
    BY <2>3
  <2>6. ASSUME NEW s \in D(n + 1) PROVE h[nx[s]] = g[nx[s]]
    <3>1. nx[s] \in D(n)
      BY <2>2
    <3> HIDE DEF h, next, D
    <3> QED
      BY <3>1, <2>4, <2>5
  <2>7. h = [s \in D(n + 1) |-> IF After(s, end) THEN <<>> ELSE <<PeriodAt(s, end, nx, due)>> \o h[nx[s]]]
    BY <2>6
  <2> QED
    BY <2>7 DEF Periods
<1> HIDE DEF Has
<1>3. \A n \in Nat : Has(n)
  <2> SUFFICES ASSUME NEW m \in Nat, ~Has(m) PROVE FALSE
    OBVIOUS
  <2> DEFINE B == {n \in Nat : ~Has(n)}
  <2>1. PICK n \in B : \A k \in B : n <= k
    <3>1. m \in B /\ B \in SUBSET Nat
      OBVIOUS
    <3> HIDE DEF B
    <3> QED
      BY <3>1, SmallestOf
  <2>2. n # 0 /\ n - 1 \in Nat
    BY <1>1
  <2>3. Has(n - 1)
    BY <2>1, <2>2
  <2>4. Has(n - 1 + 1)
    BY <1>2, <2>2, <2>3
  <2> QED
    BY <2>1, <2>4
<1>4. Has(end.month + 1)
  BY <1>0, <1>3
<1>5. D(end.month + 1) = Dates
  BY <1>0
<1> QED
  BY <1>4, <1>5 DEF Has

LEMMA PeriodsFromIs ==
    ASSUME NEW end \in Dates, NEW nx \in [Dates -> Dates],
           \A s \in Dates : nx[s].month > s.month, NEW due, NEW s \in Dates
    PROVE  PeriodsFrom(s, end, nx, due)
             = IF After(s, end) THEN <<>>
               ELSE <<PeriodAt(s, end, nx, due)>> \o PeriodsFrom(nx[s], end, nx, due)
<1> DEFINE g == CHOOSE g : Periods(Dates, g, end, nx, due)
<1>1. Periods(Dates, g, end, nx, due)
  BY PeriodsExist
<1>2. \A t \in Dates : PeriodsFrom(t, end, nx, due) = g[t]
  BY DEF PeriodsFrom, Periods, PeriodAt
<1> HIDE DEF g
<1>3. g[s] = IF After(s, end) THEN <<>> ELSE <<PeriodAt(s, end, nx, due)>> \o g[nx[s]]
  BY <1>1 DEF Periods
<1> QED
  BY <1>2, <1>3

-----------------------------------------------------------------------------
(* The periods of a lease as a chain: each one starts where the calendar   *)
(* says that the one before it ends, and the last one where none fits      *)
(* behind it.  n is how many there are and p[i] is the i-th.               *)
Chain(n, p, s, end, nx, due) ==
    /\ n \in Nat
    /\ After(s, end) => n = 0
    /\ \A i \in 1..n : /\ Real(p[i].start) /\ ~After(p[i].start, end)
                       /\ p[i] = PeriodAt(p[i].start, end, nx, due)
    /\ \A i \in 1..(n - 1) : p[i + 1].start = nx[p[i].start]
    /\ ~After(s, end) => n >= 1 /\ p[1].start = s /\ After(nx[p[n].start], end)

(* nx gives the next start of a period.                                    *)
Steps(nx) ==
    /\ nx \in [Dates -> Dates]
    /\ \A s \in Dates : Real(nx[s])
    /\ \A s \in Dates : nx[s].month > s.month

LEMMA ChainAdd ==
    ASSUME NEW end, Real(end), NEW nx, Steps(nx), NEW due, NEW s, Real(s), ~After(s, end),
           NEW ps \in Seq(Period), Chain(Len(ps), ps, nx[s], end, nx, due),
           PeriodAt(s, end, nx, due) \in Period
    PROVE  LET qs == <<PeriodAt(s, end, nx, due)>> \o ps
           IN  qs \in Seq(Period) /\ Chain(Len(qs), qs, s, end, nx, due)
<1> DEFINE x == PeriodAt(s, end, nx, due)
           qs == <<x>> \o ps
<1>1. x.start = s
  BY DEF PeriodAt
<1> HIDE DEF x
<1>2. x \in Period
  BY DEF x
<1>3. /\ qs \in Seq(Period) /\ Len(ps) \in Nat /\ Len(qs) = Len(ps) + 1 /\ qs[1] = x
      /\ \A i \in 2..Len(qs) : qs[i] = ps[i - 1]
  BY <1>2
<1> HIDE DEF qs
<1>4. \A i \in 1..Len(qs) : /\ Real(qs[i].start) /\ ~After(qs[i].start, end)
                            /\ qs[i] = PeriodAt(qs[i].start, end, nx, due)
  <2> TAKE i \in 1..Len(qs)
  <2>1. CASE i = 1
    BY <1>1, <1>3, <2>1 DEF x
  <2>2. CASE i > 1
    <3>1. i - 1 \in 1..Len(ps) /\ qs[i] = ps[i - 1]
      BY <1>3, <2>2
    <3> QED
      BY <3>1 DEF Chain
  <2> QED
    BY <2>1, <2>2
<1>5. s \in Dates /\ nx[s] \in Dates
  BY DEF Real, Steps
<1>6. CASE After(nx[s], end)
  <2>1. Len(ps) = 0
    BY <1>6 DEF Chain
  <2> QED
    BY <1>1, <1>3, <1>4, <1>6, <2>1 DEF Chain, qs, x
<1>7. CASE ~After(nx[s], end)
  <2>1. Len(ps) >= 1 /\ ps[1].start = nx[s] /\ After(nx[ps[Len(ps)].start], end)
    BY <1>7 DEF Chain
  <2>2. qs[Len(qs)] = ps[Len(ps)]
    BY <1>3, <2>1
  <2>3. ASSUME NEW i \in 1..(Len(qs) - 1) PROVE qs[i + 1].start = nx[qs[i].start]
    <3>0. i + 1 \in 2..Len(qs) /\ qs[i + 1] = ps[i]
      BY <1>3
    <3>1. CASE i = 1
      BY <1>1, <1>3, <2>1, <3>0, <3>1
    <3>2. CASE i > 1
      <4>1. i - 1 \in 1..(Len(ps) - 1) /\ i - 1 + 1 = i /\ i \in 2..Len(qs)
        BY <1>3, <3>2
      <4>2. ps[i - 1 + 1].start = nx[ps[i - 1].start]
        BY <4>1 DEF Chain
      <4> QED
        BY <1>3, <3>0, <4>1, <4>2
    <3> QED
      BY <3>1, <3>2
  <2>4. Len(qs) \in Nat /\ Len(qs) >= 1 /\ qs[1].start = s /\ After(nx[qs[Len(qs)].start], end)
    BY <1>1, <1>3, <2>1, <2>2
  <2>5. Chain(Len(qs), qs, s, end, nx, due)
    BY <1>4, <2>3, <2>4 DEF Chain
  <2> QED
    BY <1>3, <2>5 DEF qs, x
<1> QED
  BY <1>6, <1>7

LEMMA PeriodAtIs ==
    ASSUME NEW end, Real(end), NEW nx, Steps(nx), NEW due \in [Dates -> Dates], NEW s, Real(s)
    PROVE  /\ PeriodAt(s, end, nx, due) \in Period
           /\ Real(nx[s]) /\ Real(DayBefore(nx[s])) /\ DayAfter(DayBefore(nx[s])) = nx[s]
           /\ After(nx[s], DayBefore(nx[s]))
<1>1. s \in Dates /\ nx[s] \in Dates /\ Real(nx[s]) /\ nx[s].month > s.month /\ due[s] \in Dates
  BY DEF Real, Steps
<1>2. nx[s].month > 0
  BY <1>1, DatesAre
<1>3. /\ Real(DayBefore(nx[s])) /\ DayAfter(DayBefore(nx[s])) = nx[s]
      /\ After(nx[s], DayBefore(nx[s]))
  BY <1>1, <1>2, DayBeforeIs
<1>4. Earlier(DayBefore(nx[s]), end) \in Dates
  BY <1>3, EarlierIs
<1> QED
  BY <1>1, <1>3, <1>4 DEF PeriodAt, Period

(* What the loop builds is a chain.                                        *)
LEMMA PeriodsAreChain ==
    ASSUME NEW end, Real(end), NEW nx, Steps(nx), NEW due \in [Dates -> Dates], NEW first, Real(first)
    PROVE  LET ps == PeriodsFrom(first, end, nx, due)
           IN  ps \in Seq(Period) /\ Chain(Len(ps), ps, first, end, nx, due)
<1> DEFINE ps(s) == PeriodsFrom(s, end, nx, due)
           Good(s) == ps(s) \in Seq(Period) /\ Chain(Len(ps(s)), ps(s), s, end, nx, due)
           B == {s \in Dates : Real(s) /\ ~Good(s)}
<1>0. end \in Dates /\ end.month \in Nat /\ nx \in [Dates -> Dates]
      /\ \A s \in Dates : nx[s].month > s.month
  BY RealIs DEF Steps
<1>1. \A s \in Dates : ps(s) = IF After(s, end) THEN <<>>
                               ELSE <<PeriodAt(s, end, nx, due)>> \o ps(nx[s])
  BY <1>0, PeriodsFromIs
<1> HIDE DEF ps
<1>2. ASSUME NEW s \in Dates, Real(s), After(s, end) PROVE Good(s)
  <2>1. ps(s) = <<>>
    BY <1>1, <1>2
  <2>2. ps(s) \in Seq(Period) /\ Len(ps(s)) = 0
    BY <2>1
  <2> QED
    BY <1>2, <2>2 DEF Chain
<1>3. ASSUME NEW s \in Dates, Real(s), ~After(s, end), Good(nx[s]) PROVE Good(s)
  <2>1. PeriodAt(s, end, nx, due) \in Period
    BY <1>3, PeriodAtIs
  <2>2. ps(s) = <<PeriodAt(s, end, nx, due)>> \o ps(nx[s])
    BY <1>1, <1>3
  <2> QED
    BY <1>3, <2>1, <2>2, ChainAdd
<1> HIDE DEF Good
<1>4. \A s \in Dates : Real(s) => Good(s)
  <2> SUFFICES ASSUME B # {} PROVE FALSE
    OBVIOUS
  <2>1. B \in SUBSET Dates /\ \A b \in B : b.month <= end.month
    BY <1>0, <1>2, AfterIs
  <2> HIDE DEF B
  <2>2. PICK b \in B : \A c \in B : c.month <= b.month
    BY <1>0, <2>1, LatestOf
  <2> USE DEF B
  <2>3. b \in Dates /\ Real(b) /\ ~Good(b) /\ ~After(b, end)
    BY <1>2
  <2>4. nx[b] \in Dates /\ Real(nx[b]) /\ nx[b].month > b.month /\ b.month \in Nat /\ nx[b].month \in Nat
    BY <2>3, DatesAre DEF Steps
  <2>5. nx[b] \notin B
    BY <2>2, <2>4
  <2>6. Good(nx[b])
    BY <2>4, <2>5
  <2> QED
    BY <1>3, <2>3, <2>6
<1>5. Good(first)
  BY <1>4 DEF Real
<1> QED
  BY <1>5 DEF Good, ps

LEMMA ChainOrder ==
    ASSUME NEW n, NEW p, NEW s, NEW end, NEW nx, NEW due, Chain(n, p, s, end, nx, due), Steps(nx),
           NEW i \in 1..n, NEW j \in 1..n, i < j
    PROVE  p[i].start.month < p[j].start.month
<1>0. n \in Nat /\ \A k \in 1..n : p[k].start \in Dates /\ p[k].start.month \in Nat
  <2>1. n \in Nat /\ \A k \in 1..n : p[k].start \in Dates
    BY DEF Chain, Real
  <2> QED
    BY <2>1, DatesAre
<1>1. ASSUME NEW k \in 1..n, k + 1 \in 1..n
      PROVE  p[k].start.month < p[k + 1].start.month
  <2>1. k \in 1..(n - 1)
    BY <1>0, <1>1
  <2>2. p[k + 1].start = nx[p[k].start]
    BY <2>1 DEF Chain
  <2> QED
    BY <1>0, <2>2 DEF Steps
<1> DEFINE B == {d \in Nat : i + d + 1 \in 1..n /\ ~(p[i].start.month < p[i + d + 1].start.month)}
<1>2. B = {}
  <2> SUFFICES ASSUME B # {} PROVE FALSE
    OBVIOUS
  <2>0. B \in SUBSET Nat
    OBVIOUS
  <2> HIDE DEF B
  <2>1. PICK d \in B : \A e \in B : d <= e
    BY <2>0, SmallestOf
  <2> USE DEF B
  <2>2. CASE d = 0
    BY <1>1, <2>1, <2>2
  <2>3. CASE d # 0
    <3>1. d - 1 \in Nat /\ i + (d - 1) + 1 = i + d /\ i + d \in 1..n /\ i + d + 1 \in 1..n
      BY <1>0, <2>0, <2>3
    <3>2. d - 1 \notin B
      BY <2>1, <3>1
    <3>3. p[i].start.month < p[i + d].start.month
      BY <3>1, <3>2
    <3>4. p[i + d].start.month < p[i + d + 1].start.month
      BY <1>1, <3>1
    <3>5. p[i].start.month < p[i + d + 1].start.month
      BY <1>0, <3>1, <3>3, <3>4
    <3> QED
      BY <3>5
  <2> QED
    BY <2>2, <2>3
<1>3. j - i - 1 \in Nat /\ i + (j - i - 1) + 1 = j
  BY <1>0
<1>4. j - i - 1 \notin B
  BY <1>2
<1> QED
  BY <1>3, <1>4

(* Where the periods of a chain end.                                       *)
LEMMA ChainEnds ==
    ASSUME NEW n, NEW p, NEW s, NEW end, NEW nx, NEW due \in [Dates -> Dates],
           Chain(n, p, s, end, nx, due), Steps(nx), Real(s), Real(end), NEW i \in 1..n
    PROVE  /\ p[i].start \in Dates /\ p[i].end \in Dates /\ Real(p[i].end)
           /\ ~After(p[i].start, p[i].end)
           /\ i < n => p[i + 1].start = DayAfter(p[i].end)
           /\ i = n => p[i].end = end
           /\ \/ p[i].end = DayBefore(nx[p[i].start])
              \/ p[i].end = end /\ After(nx[p[i].start], end)
<1> DEFINE a == p[i].start
           b == DayBefore(nx[a])
<1>0. n \in Nat /\ Real(a) /\ ~After(a, end) /\ p[i] = PeriodAt(a, end, nx, due)
      /\ a \in Dates /\ end \in Dates /\ nx[a] \in Dates /\ nx[a].month > a.month
      /\ a.month \in Nat /\ nx[a].month \in Nat
  <2>1. n \in Nat /\ Real(a) /\ ~After(a, end) /\ p[i] = PeriodAt(a, end, nx, due)
    BY DEF Chain
  <2> HIDE DEF a
  <2>2. a \in Dates /\ end \in Dates
    BY <2>1 DEF Real
  <2>3. nx[a] \in Dates /\ nx[a].month > a.month
    BY <2>2 DEF Steps
  <2> QED
    BY <2>1, <2>2, <2>3, DatesAre
<1>1. Real(nx[a]) /\ Real(b) /\ DayAfter(b) = nx[a] /\ After(nx[a], b) /\ b \in Dates
  BY <1>0, PeriodAtIs DEF Real
<1>2. p[i].end = Earlier(b, end)
  BY <1>0 DEF PeriodAt
<1>3. ~After(a, b)
  <2>1. After(nx[a], a)
    BY <1>0, AfterIs
  <2> QED
    BY <1>0, <1>1, <2>1, NextDay
<1>4. i < n => After(end, b)
  <2> SUFFICES ASSUME i < n PROVE After(end, b)
    OBVIOUS
  <2>1. i \in 1..(n - 1) /\ i + 1 \in 1..n
    BY <1>0
  <2>2. ~After(nx[a], end)
    BY <2>1 DEF Chain
  <2> QED
    BY <1>0, <1>1, <2>2, AfterIs
<1>5. i = n => After(nx[a], end)
  <2> SUFFICES ASSUME i = n PROVE After(nx[a], end)
    OBVIOUS
  <2> QED
    BY <1>0 DEF Chain
<1>6. After(nx[a], end) <=> ~After(end, b)
  BY <1>1, NextDay
<1>7. i < n => p[i + 1].start = nx[a]
  <2> SUFFICES ASSUME i < n PROVE p[i + 1].start = nx[a]
    OBVIOUS
  <2>1. i \in 1..(n - 1)
    BY <1>0
  <2> QED
    BY <2>1 DEF Chain
<1> HIDE DEF a, b
<1>8. CASE After(nx[a], end)
  <2>1. ~After(end, b)
    BY <1>6, <1>8
  <2>2. p[i].end = end
    BY <1>0, <1>1, <1>2, <2>1, AfterTotal, EarlierIs
  <2>3. ~(i < n)
    BY <1>4, <2>1
  <2> QED
    BY <1>0, <1>8, <2>2, <2>3 DEF a
<1>9. CASE ~After(nx[a], end)
  <2>1. After(end, b) /\ ~After(b, end)
    BY <1>0, <1>1, <1>6, <1>9, AfterIs
  <2>2. p[i].end = b
    BY <1>1, <1>2, <2>1, EarlierIs
  <2>3. i # n
    BY <1>5, <1>9
  <2>4. i < n => p[i + 1].start = DayAfter(p[i].end)
    BY <1>1, <1>7, <2>2
  <2>5. p[i].start \in Dates /\ p[i].end \in Dates /\ Real(p[i].end) /\ ~After(p[i].start, p[i].end)
    BY <1>0, <1>1, <1>3, <2>2 DEF a
  <2>6. p[i].end = DayBefore(nx[p[i].start])
    BY <2>2 DEF a, b
  <2> QED
    BY <2>3, <2>4, <2>5, <2>6
<1> QED
  BY <1>8, <1>9

(* Of two periods the one that ends before the other starts has the        *)
(* smaller index.                                                          *)
LEMMA ChainBefore ==
    ASSUME NEW n, NEW p, NEW s, NEW end, NEW nx, NEW due \in [Dates -> Dates],
           Chain(n, p, s, end, nx, due), Steps(nx), Real(s), Real(end),
           NEW i \in 1..n, NEW j \in 1..n
    PROVE  After(p[j].start, p[i].end) <=> i < j
<1>0. /\ n \in Nat
      /\ p[i].start \in Dates /\ p[i].end \in Dates /\ Real(p[i].end) /\ ~After(p[i].start, p[i].end)
      /\ p[j].start \in Dates /\ Real(p[j].start)
  BY ChainEnds DEF Chain
<1>1. CASE i < j
  <2>1. i < n /\ i + 1 \in 1..n
    BY <1>0, <1>1
  <2>2. p[i + 1].start = DayAfter(p[i].end) /\ p[i + 1].start \in Dates
    BY <2>1, ChainEnds
  <2>3. ~After(p[i].end, p[i].end)
    BY <1>0, AfterIs
  <2>4. After(p[i + 1].start, p[i].end)
    BY <1>0, <2>2, <2>3, NextDay
  <2>5. CASE j = i + 1
    BY <1>1, <2>4, <2>5
  <2>6. CASE i + 1 < j
    <3>1. p[i + 1].start.month < p[j].start.month
      BY <2>1, <2>6, ChainOrder
    <3>2. p[i + 1].start.month \in Nat /\ p[j].start.month \in Nat
      BY <1>0, <2>2, DatesAre
    <3>3. After(p[j].start, p[i + 1].start)
      BY <1>0, <2>2, <3>1, <3>2, AfterIs
    <3>4. ~After(p[i + 1].start, p[j].start)
      BY <1>0, <2>2, <3>3, AfterIs
    <3> QED
      BY <1>0, <1>1, <2>2, <2>4, <3>4, AfterIs
  <2> QED
    BY <1>0, <1>1, <2>5, <2>6
<1>2. CASE j <= i
  <2>1. ~After(p[j].start, p[i].start)
    <3>1. CASE j = i
      BY <1>0, <3>1, AfterIs
    <3>2. CASE j < i
      <4>1. p[j].start.month < p[i].start.month
        BY <3>2, ChainOrder
      <4>2. p[i].start.month \in Nat /\ p[j].start.month \in Nat
        BY <1>0, DatesAre
      <4> QED
        BY <1>0, <4>1, <4>2, AfterIs
    <3> QED
      BY <1>0, <1>2, <3>1, <3>2
  <2>2. ~After(p[j].start, p[i].end)
    BY <1>0, <2>1, AfterIs
  <2> QED
    BY <1>0, <1>2, <2>2
<1> QED
  BY <1>0, <1>1, <1>2

(* A chain whose tail is built again from the start of a period.           *)
LEMMA ChainSplice ==
    ASSUME NEW n, NEW p, NEW s, NEW end, NEW nx, NEW due, Chain(n, p, s, end, nx, due),
           NEW j \in 1..n, NEW m, NEW q, Chain(m, q, p[j].start, end, nx, due),
           NEW r, \A i \in 1..(j - 1) : r[i] = p[i], \A i \in 1..m : r[j - 1 + i] = q[i]
    PROVE  Chain(j - 1 + m, r, s, end, nx, due)
<1>0. n \in Nat /\ ~After(p[j].start, end) /\ ~After(s, end)
  <2>1. n \in Nat /\ ~After(p[j].start, end)
    BY DEF Chain
  <2> QED
    BY <2>1 DEF Chain
<1>1. m \in Nat /\ m >= 1 /\ q[1].start = p[j].start /\ After(nx[q[m].start], end)
  BY <1>0 DEF Chain
<1>2. j \in Nat /\ j - 1 + m \in Nat /\ j - 1 + m >= 1
  BY <1>0, <1>1
<1>3. ASSUME NEW i \in 1..(j - 1 + m)
      PROVE  Real(r[i].start) /\ ~After(r[i].start, end) /\ r[i] = PeriodAt(r[i].start, end, nx, due)
  <2>1. CASE i < j
    <3>1. i \in 1..(j - 1) /\ i \in 1..n
      BY <1>0, <1>2, <2>1
    <3> QED
      BY <3>1 DEF Chain
  <2>2. CASE i >= j
    <3>1. i - j + 1 \in 1..m /\ j - 1 + (i - j + 1) = i
      BY <1>1, <1>2, <2>2
    <3>2. r[i] = q[i - j + 1]
      BY <3>1
    <3> QED
      BY <3>1, <3>2 DEF Chain
  <2> QED
    BY <1>2, <2>1, <2>2
<1>4. ASSUME NEW i \in 1..(j - 1 + m - 1) PROVE r[i + 1].start = nx[r[i].start]
  <2>1. CASE i + 1 < j
    <3>1. i \in 1..(j - 1) /\ i + 1 \in 1..(j - 1) /\ i \in 1..(n - 1)
      BY <1>0, <1>2, <2>1
    <3> QED
      BY <3>1 DEF Chain
  <2>2. CASE i + 1 = j
    <3>1. i \in 1..(j - 1) /\ i \in 1..(n - 1) /\ 1 \in 1..m /\ j - 1 + 1 = i + 1
      BY <1>0, <1>1, <1>2, <2>2
    <3>2. r[i + 1] = q[1]
      BY <3>1
    <3>3. p[i + 1].start = nx[p[i].start]
      BY <3>1 DEF Chain
    <3> QED
      BY <1>1, <2>2, <3>1, <3>2, <3>3
  <2>3. CASE i >= j
    <3>1. /\ i - j + 1 \in 1..m /\ j - 1 + (i - j + 1) = i /\ i - j + 1 \in 1..(m - 1)
          /\ i - j + 2 \in 1..m /\ j - 1 + (i - j + 2) = i + 1 /\ (i - j + 1) + 1 = i - j + 2
      BY <1>1, <1>2, <2>3
    <3>2. r[i] = q[i - j + 1] /\ r[i + 1] = q[i - j + 2]
      BY <3>1
    <3>3. q[(i - j + 1) + 1].start = nx[q[i - j + 1].start]
      BY <3>1 DEF Chain
    <3> QED
      BY <3>1, <3>2, <3>3
  <2> QED
    BY <1>2, <2>1, <2>2, <2>3
<1>5. r[1].start = s
  <2>1. p[1].start = s
    BY <1>0 DEF Chain
  <2>2. CASE j = 1
    BY <1>1, <2>1, <2>2
  <2>3. CASE j > 1
    <3>1. 1 \in 1..(j - 1)
      BY <1>2, <2>3
    <3> QED
      BY <2>1, <3>1
  <2> QED
    BY <1>2, <2>2, <2>3
<1>6. After(nx[r[j - 1 + m].start], end)
  <2>1. m \in 1..m
    BY <1>1
  <2> QED
    BY <1>1, <2>1
<1> QED
  BY <1>0, <1>2, <1>3, <1>4, <1>5, <1>6 DEF Chain

-----------------------------------------------------------------------------
(* The cadences of rent and electricity.                                   *)

NextAnchored(step, anchor) == [s \in Dates |-> ClampedMonthDate(s.month + step, anchor)]
AtStart == [s \in Dates |-> s]
AtAnchor(anchor) == [s \in Dates |-> ClampedMonthDate(s.month, anchor)]

LEMMA AnchoredSteps ==
    ASSUME NEW step \in Nat \ {0}, NEW anchor \in 1..31
    PROVE  Steps(NextAnchored(step, anchor))
<1>1. ASSUME NEW s \in Dates
      PROVE  LET c == ClampedMonthDate(s.month + step, anchor)
             IN  Real(c) /\ c \in Dates /\ c.month > s.month
  <2>1. s.month \in Nat /\ s.month + step \in Nat /\ s.month + step > s.month
    BY DatesAre
  <2> QED
    BY <2>1, ClampedIs
<1> QED
  BY <1>1 DEF Steps, NextAnchored

LEMMA WindowSteps == Steps(WindowAfter)
<1>1. ASSUME NEW s \in Dates
      PROVE  /\ WindowAfter[s] \in Dates /\ Real(WindowAfter[s]) /\ WindowAfter[s].month > s.month
             /\ WindowAfter[s].month = s.month - (s.month % 2) + 2
  <2>1. s.month \in Nat
    BY DatesAre
  <2>2. s.month - (s.month % 2) + 2 \in Nat /\ s.month - (s.month % 2) + 2 > s.month
    BY <2>1
  <2>3. WindowAfter[s] = Date(s.month - (s.month % 2) + 2, 1)
    BY DEF WindowAfter
  <2>4. LastDay(s.month - (s.month % 2) + 2) \in 28..31
    BY <2>2, LastDayIs
  <2>5. /\ WindowAfter[s] \in Dates /\ WindowAfter[s].day = 1
        /\ WindowAfter[s].month = s.month - (s.month % 2) + 2
    BY <2>2, <2>3 DEF Date, Dates
  <2> QED
    BY <2>2, <2>4, <2>5 DEF Real
<1>2. WindowAfter \in [Dates -> Dates]
  <2>1. WindowAfter = [s \in Dates |-> WindowAfter[s]]
    BY DEF WindowAfter
  <2> QED
    BY <1>1, <2>1
<1> QED
  BY <1>1, <1>2 DEF Steps

LEMMA DueTypes ==
    /\ AtStart \in [Dates -> Dates]
    /\ \A anchor \in 1..31 : AtAnchor(anchor) \in [Dates -> Dates]
<1>1. ASSUME NEW anchor \in 1..31, NEW s \in Dates PROVE ClampedMonthDate(s.month, anchor) \in Dates
  BY DatesAre, ClampedIs
<1> QED
  BY <1>1 DEF AtStart, AtAnchor

LEMMA CadencesAre ==
    /\ Cadences = {"monthly", "quarterly", "semiannual", "annual"}
    /\ \A c \in Cadences : RentCadenceMonths[c] \in {1, 3, 6, 12}
  BY DEF Cadences, RentCadenceMonths

-----------------------------------------------------------------------------
(* The next payment behind a change of the rent.                           *)

Payments(g, day, nx) == g = [c \in Dates |-> IF After(c, day) THEN c ELSE g[nx[c]]]

(* The loop comes to an end: the first start behind the day is one step    *)
(* behind the last period that starts until then.                          *)
LEMMA PaymentsExist ==
    ASSUME NEW day, Real(day), NEW nx, Steps(nx)
    PROVE  \E g : Payments(g, day, nx)
<1> DEFINE ps(c) == PeriodsFrom(c, day, nx, AtStart)
           h(c) == IF After(c, day) THEN c ELSE nx[ps(c)[Len(ps(c))].start]
           g == [c \in Dates |-> IF After(c, day) THEN c ELSE h(nx[c])]
<1>0. day \in Dates /\ nx \in [Dates -> Dates] /\ AtStart \in [Dates -> Dates]
  BY DueTypes DEF Steps, Real
<1>1. ASSUME NEW c, Real(c), ~After(c, day) PROVE h(c) = h(nx[c])
  <2>0. c \in Dates /\ nx[c] \in Dates /\ Real(nx[c])
    BY <1>1 DEF Real, Steps
  <2>1. ps(c) = <<PeriodAt(c, day, nx, AtStart)>> \o ps(nx[c])
    BY <1>0, <1>1, <2>0, PeriodsFromIs DEF Steps
  <2>2. ps(nx[c]) \in Seq(Period) /\ Chain(Len(ps(nx[c])), ps(nx[c]), nx[c], day, nx, AtStart)
    BY <1>0, <2>0, PeriodsAreChain
  <2>3. PeriodAt(c, day, nx, AtStart) \in Period /\ PeriodAt(c, day, nx, AtStart).start = c
    BY <1>0, <1>1, PeriodAtIs DEF PeriodAt
  <2> HIDE DEF ps
  <2>4. Len(ps(c)) = Len(ps(nx[c])) + 1 /\ ps(c)[1].start = c /\ Len(ps(nx[c])) \in Nat
        /\ \A i \in 2..Len(ps(c)) : ps(c)[i] = ps(nx[c])[i - 1]
    BY <2>1, <2>2, <2>3
  <2>5. CASE After(nx[c], day)
    <3>1. Len(ps(nx[c])) = 0
      BY <2>2, <2>5 DEF Chain
    <3> QED
      BY <1>1, <2>4, <2>5, <3>1
  <2>6. CASE ~After(nx[c], day)
    <3>1. Len(ps(nx[c])) >= 1
      BY <2>2, <2>6 DEF Chain
    <3>2. ps(c)[Len(ps(c))] = ps(nx[c])[Len(ps(nx[c]))]
      BY <2>4, <3>1
    <3> QED
      BY <1>1, <2>6, <3>2
  <2> QED
    BY <2>5, <2>6
<1> HIDE DEF h
<1>2. ASSUME NEW c \in Dates PROVE g[nx[c]] = h(nx[c])
  <2>0. nx[c] \in Dates /\ Real(nx[c])
    BY DEF Steps
  <2>1. CASE After(nx[c], day)
    BY <2>0, <2>1 DEF h
  <2>2. CASE ~After(nx[c], day)
    BY <1>1, <2>0, <2>2
  <2> QED
    BY <2>1, <2>2
<1>3. g = [c \in Dates |-> IF After(c, day) THEN c ELSE g[nx[c]]]
  BY <1>2
<1> QED
  BY <1>3 DEF Payments

(* A change of the rent takes effect at the start of a period, or after    *)
(* the last one.                                                           *)
LEMMA PaymentOnStart ==
    ASSUME NEW day, Real(day), NEW nx, Steps(nx), NEW g, Payments(g, day, nx),
           NEW n, NEW p, NEW s, NEW end, NEW due \in [Dates -> Dates],
           Chain(n, p, s, end, nx, due), Real(s), Real(end), ~After(s, end), ~After(g[s], end)
    PROVE  \E j \in 1..n : p[j].start = g[s]
<1>0. /\ day \in Dates /\ day.month \in Nat /\ end \in Dates /\ s \in Dates
      /\ nx \in [Dates -> Dates] /\ n \in Nat /\ n >= 1 /\ p[1].start = s /\ After(nx[p[n].start], end)
      /\ \A i \in 1..n : p[i].start \in Dates /\ ~After(p[i].start, end)
      /\ \A i \in 1..(n - 1) : p[i + 1].start = nx[p[i].start]
      /\ \A c \in Dates : nx[c] \in Dates
  BY RealIs DEF Chain, Steps, Real
<1>1. \A c \in Dates : g[c] = IF After(c, day) THEN c ELSE g[nx[c]]
  BY DEF Payments
<1>2. \A c \in Dates : g[c] \in Dates /\ ~After(c, g[c])
  <2> DEFINE B == {c \in Dates : ~(g[c] \in Dates /\ ~After(c, g[c]))}
  <2> SUFFICES ASSUME B # {} PROVE FALSE
    OBVIOUS
  <2>1. B \in SUBSET Dates /\ \A c \in B : ~After(c, day)
    BY <1>1, AfterIs
  <2>2. \A c \in B : c.month <= day.month
    BY <1>0, <2>1, AfterIs
  <2> HIDE DEF B
  <2>3. PICK b \in B : \A c \in B : c.month <= b.month
    BY <1>0, <2>1, <2>2, LatestOf
  <2>4. b \in Dates /\ ~After(b, day) /\ nx[b] \in Dates /\ nx[b].month > b.month
    BY <1>0, <2>1, <2>3 DEF Steps
  <2>5. b.month \in Nat /\ nx[b].month \in Nat
    BY <2>4, DatesAre
  <2>6. nx[b] \notin B
    BY <2>3, <2>4, <2>5
  <2>7. g[nx[b]] \in Dates /\ ~After(nx[b], g[nx[b]])
    BY <2>4, <2>6 DEF B
  <2>8. g[b] = g[nx[b]] /\ After(nx[b], b)
    BY <1>1, <2>4, <2>5, AfterIs
  <2>9. ~After(b, g[b])
    BY <2>4, <2>7, <2>8, AfterIs
  <2> QED
    BY <2>3, <2>7, <2>8, <2>9 DEF B
<1> DEFINE Hit(i) == After(g[p[i].start], end) \/ \E j \in 1..n : p[j].start = g[p[i].start]
           L == {n - i : i \in {k \in 1..n : ~Hit(k)}}
<1>3. \A i \in 1..n : Hit(i)
  <2> SUFFICES ASSUME NEW k \in 1..n, ~Hit(k) PROVE FALSE
    OBVIOUS
  <2>1. L \in SUBSET Nat /\ n - k \in L
    BY <1>0
  <2> HIDE DEF L
  <2>2. PICK l \in L : \A m \in L : l <= m
    BY <2>1, SmallestOf
  <2>3. PICK i \in 1..n : ~Hit(i) /\ l = n - i
    BY DEF L
  <2>4. i + 1 \notin {m \in 1..n : ~Hit(m)}
    <3> SUFFICES ASSUME i + 1 \in 1..n, ~Hit(i + 1) PROVE FALSE
      OBVIOUS
    <3>1. n - (i + 1) \in L
      BY DEF L
    <3> QED
      BY <1>0, <2>2, <2>3, <3>1
  <2>5. p[i].start \in Dates /\ nx[p[i].start] \in Dates
    BY <1>0
  <2>6. ~After(p[i].start, day)
    BY <1>1, <2>3, <2>5
  <2>7. g[p[i].start] = g[nx[p[i].start]]
    BY <1>1, <2>5, <2>6
  <2>8. CASE i < n
    <3>1. i \in 1..(n - 1) /\ i + 1 \in 1..n
      BY <1>0, <2>8
    <3>2. g[p[i].start] = g[p[i + 1].start] /\ Hit(i + 1)
      BY <1>0, <2>4, <2>7, <3>1
    <3> QED
      BY <2>3, <3>2
  <2>9. CASE i = n
    <3>1. After(nx[p[i].start], end)
      BY <1>0, <2>9
    <3>2. g[nx[p[i].start]] \in Dates /\ ~After(nx[p[i].start], g[nx[p[i].start]])
      BY <1>2, <2>5
    <3>3. After(g[nx[p[i].start]], end)
      BY <1>0, <2>5, <3>1, <3>2, AfterIs
    <3> QED
      BY <2>3, <2>7, <3>3
  <2> QED
    BY <1>0, <2>8, <2>9
<1>4. 1 \in 1..n
  BY <1>0
<1> QED
  BY <1>0, <1>3, <1>4

LEMMA NextPaymentIs ==
    ASSUME NEW first, Real(first), NEW day, Real(day), NEW cadence \in Cadences
    PROVE  \E g : /\ Payments(g, day, NextAnchored(RentCadenceMonths[cadence], first.day))
                  /\ NextRentPaymentDateAfter(first, day, cadence) = g[first]
<1> DEFINE step == RentCadenceMonths[cadence]
           nx == NextAnchored(step, first.day)
           g == CHOOSE g : Payments(g, day, nx)
<1>1. step \in Nat \ {0} /\ first.day \in 1..31
  BY CadencesAre, RealIs
<1>2. Payments(g, day, nx)
  BY <1>1, AnchoredSteps, PaymentsExist
<1> HIDE DEF step
<1>3. \A h : Payments(h, day, nx) <=> h = [c \in Dates |-> IF After(c, day) THEN c
                                             ELSE h[ClampedMonthDate(c.month + step, first.day)]]
  BY DEF Payments, NextAnchored
<1>4. NextRentPaymentDateAfter(first, day, cadence)
        = (CHOOSE h : h = [c \in Dates |-> IF After(c, day) THEN c
                               ELSE h[ClampedMonthDate(c.month + step, first.day)]])[first]
  BY DEF NextRentPaymentDateAfter, step
<1>5. NextRentPaymentDateAfter(first, day, cadence) = g[first]
  BY <1>3, <1>4
<1> QED
  BY <1>2, <1>5 DEF step

-----------------------------------------------------------------------------
(* The day behind a period is a boundary exactly when the period is whole. *)

LEMMA StepsOfGrid ==
    ASSUME NEW step \in {1, 3, 6, 12}, NEW a \in Nat, a % step = 0, NEW b \in Nat
    PROVE  /\ (a + step) % step = 0
           /\ b % step = 0 /\ a <= b /\ b <= a + step => b = a \/ b = a + step
<1>1. CASE step = 1
  BY <1>1
<1>2. CASE step = 3
  BY <1>2
<1>3. CASE step = 6
  BY <1>3
<1>4. CASE step = 12
  BY <1>4
<1> QED
  BY <1>1, <1>2, <1>3, <1>4

OnGrid(d, s, step) ==
    /\ d \in Dates /\ d.month >= s.month /\ (d.month - s.month) % step = 0
    /\ d = ClampedMonthDate(d.month, s.day)

LEMMA ChainOnGrid ==
    ASSUME NEW n, NEW p, NEW s, NEW end, NEW step \in {1, 3, 6, 12}, NEW due, Real(s),
           Chain(n, p, s, end, NextAnchored(step, s.day), due), NEW i \in 1..n
    PROVE  OnGrid(p[i].start, s, step)
<1> DEFINE nx == NextAnchored(step, s.day)
           B == {k \in 1..n : ~OnGrid(p[k].start, s, step)}
<1>0. /\ n \in Nat /\ s \in Dates /\ s.month \in Nat /\ s.day \in 1..31
      /\ (n >= 1 => p[1].start = s)
      /\ \A k \in 1..n : p[k].start \in Dates
      /\ \A k \in 1..(n - 1) : p[k + 1].start = nx[p[k].start]
  BY RealIs DEF Chain, Real
<1>1. OnGrid(s, s, step)
  <2>1. (s.month - s.month) % step = 0
    BY <1>0
  <2> QED
    BY <1>0, <2>1, ClampedSelf DEF OnGrid
<1>2. ASSUME NEW k \in 1..(n - 1), OnGrid(p[k].start, s, step) PROVE OnGrid(p[k + 1].start, s, step)
  <2> DEFINE a == p[k].start.month - s.month
  <2>1. p[k].start \in Dates /\ p[k].start.month \in Nat /\ a \in Nat /\ a % step = 0
    BY <1>0, <1>2, DatesAre DEF OnGrid
  <2>2. p[k + 1].start = ClampedMonthDate(p[k].start.month + step, s.day)
    BY <1>0, <2>1 DEF NextAnchored
  <2>3. p[k].start.month + step \in Nat
    BY <2>1
  <2>4. p[k + 1].start \in Dates /\ p[k + 1].start.month = p[k].start.month + step
    BY <1>0, <2>2, <2>3, ClampedIs
  <2>5. (a + step) % step = 0
    BY <2>1, StepsOfGrid
  <2>6. p[k + 1].start.month - s.month = a + step /\ p[k + 1].start.month >= s.month
    BY <1>0, <2>1, <2>4
  <2> HIDE DEF a
  <2> QED
    BY <2>2, <2>4, <2>5, <2>6 DEF OnGrid
<1>3. B = {}
  <2> SUFFICES ASSUME B # {} PROVE FALSE
    OBVIOUS
  <2>1. B \in SUBSET Nat
    BY <1>0
  <2> HIDE DEF B
  <2>2. PICK k \in B : \A m \in B : k <= m
    BY <2>1, SmallestOf
  <2> USE DEF B
  <2>3. CASE k = 1
    BY <1>0, <1>1, <2>3
  <2>4. CASE k # 1
    <3>1. k - 1 \in 1..(n - 1) /\ k - 1 + 1 = k /\ k - 1 \in 1..n
      BY <1>0, <2>4
    <3>2. k - 1 \notin B
      BY <2>2, <3>1
    <3>3. OnGrid(p[k - 1].start, s, step)
      BY <3>1, <3>2
    <3>4. OnGrid(p[k - 1 + 1].start, s, step)
      BY <1>2, <3>1, <3>3
    <3> QED
      BY <3>1, <3>4
  <2> QED
    BY <2>3, <2>4
<1> QED
  BY <1>3

(* A period that the end of the lease has cut stops between two starts.    *)
LEMMA CutInside ==
    ASSUME NEW n, NEW p, NEW s, NEW end, NEW nx, NEW due \in [Dates -> Dates],
           Chain(n, p, s, end, nx, due), Steps(nx), Real(s), Real(end), NEW i \in 1..n,
           p[i].end # DayBefore(nx[p[i].start])
    PROVE  LET d == DayAfter(p[i].end)
           IN  Real(d) /\ d \in Dates /\ After(d, p[i].start) /\ After(nx[p[i].start], d)
<1> DEFINE a == p[i].start
           b == DayBefore(nx[a])
           d == DayAfter(end)
<1>1. /\ a \in Dates /\ Real(a) /\ ~After(a, end) /\ p[i].end = end /\ After(nx[a], end)
      /\ end \in Dates /\ Real(b) /\ b \in Dates /\ DayAfter(b) = nx[a] /\ After(nx[a], b)
      /\ nx[a] \in Dates
  <2>1. Real(a) /\ ~After(a, end)
    BY DEF Chain
  <2>2. p[i].end = end /\ After(nx[a], end)
    BY ChainEnds
  <2>3. Real(b) /\ DayAfter(b) = nx[a] /\ After(nx[a], b) /\ Real(nx[a])
    BY <2>1, PeriodAtIs
  <2> QED
    BY <2>1, <2>2, <2>3 DEF Real
<1>2. Real(d) /\ d \in Dates
  BY DayAfterIs
<1>3. After(d, a)
  BY <1>1, NextDay
<1>4. ~After(end, b)
  BY <1>1, NextDay
<1>5. After(b, end)
  BY <1>1, <1>4, AfterTotal
<1>6. ~After(d, b)
  BY <1>1, <1>5, NextDay
<1>7. After(nx[a], d)
  BY <1>1, <1>2, <1>6, AfterIs
<1> QED
  BY <1>1, <1>2, <1>3, <1>7

AnchoredDay(d, s, step) ==
    d.month > s.month /\ (d.month - s.month) % step = 0 /\ d = ClampedMonthDate(d.month, s.day)

LEMMA AnchoredBoundary ==
    ASSUME NEW n, NEW p, NEW s, NEW end, NEW step \in {1, 3, 6, 12}, NEW due \in [Dates -> Dates],
           Real(s), Real(end), Chain(n, p, s, end, NextAnchored(step, s.day), due), NEW i \in 1..n
    PROVE  p[i].end = DayBefore(NextAnchored(step, s.day)[p[i].start])
           <=> AnchoredDay(DayAfter(p[i].end), s, step)
<1> DEFINE nx == NextAnchored(step, s.day)
           a == p[i].start
           d == DayAfter(p[i].end)
           k == a.month - s.month
<1>0. s.month \in Nat /\ s.day \in 1..31 /\ step \in Nat \ {0}
  BY RealIs
<1>1. Steps(nx) /\ Real(a) /\ a \in Dates
  BY <1>0, AnchoredSteps DEF Chain, Real
<1>2. OnGrid(a, s, step)
  BY ChainOnGrid
<1>3. a.month \in Nat /\ k \in Nat /\ k % step = 0 /\ a = ClampedMonthDate(a.month, s.day) /\ a.month >= s.month
  BY <1>0, <1>1, <1>2, DatesAre DEF OnGrid
<1>4. nx[a] = ClampedMonthDate(a.month + step, s.day) /\ nx[a].month = a.month + step
  <2>1. nx[a] = ClampedMonthDate(a.month + step, s.day) /\ a.month + step \in Nat
    BY <1>0, <1>1, <1>3 DEF NextAnchored
  <2> QED
    BY <1>0, <2>1, ClampedIs
<1>5. CASE p[i].end = DayBefore(nx[a])
  <2>1. d = nx[a]
    BY <1>1, <1>5, PeriodAtIs
  <2>2. (k + step) % step = 0
    BY <1>3, StepsOfGrid
  <2>3. d.month - s.month = k + step /\ d.month > s.month
    BY <1>0, <1>3, <1>4, <2>1
  <2> HIDE DEF d, k, nx
  <2>4. (d.month - s.month) % step = 0 /\ d = ClampedMonthDate(d.month, s.day)
    BY <1>4, <2>1, <2>2, <2>3
  <2> QED
    BY <1>5, <2>3, <2>4 DEF d, nx, AnchoredDay
<1>6. CASE p[i].end # DayBefore(nx[a])
  <2>1. d \in Dates /\ After(d, a) /\ After(nx[a], d)
    BY <1>1, <1>6, CutInside
  <2>2. d.month \in Nat /\ nx[a] \in Dates
    BY <1>1, <2>1, DatesAre DEF Steps
  <2> SUFFICES ASSUME d.month > s.month, (d.month - s.month) % step = 0, d = ClampedMonthDate(d.month, s.day)
               PROVE  FALSE
    BY <1>6 DEF AnchoredDay
  <2> HIDE DEF d, nx, a
  <2>3. a.month <= d.month /\ d.month <= a.month + step
    <3>1. a.month <= d.month
      BY <1>1, <2>1, AfterIs
    <3>2. d.month <= nx[a].month
      BY <2>1, <2>2, AfterIs
    <3> QED
      BY <1>4, <3>1, <3>2
  <2>4. d.month - s.month \in Nat /\ k <= d.month - s.month /\ d.month - s.month <= k + step
    BY <1>0, <1>3, <2>2, <2>3
  <2>5. d.month - s.month = k \/ d.month - s.month = k + step
    BY <1>3, <2>4, StepsOfGrid
  <2>6. d.month = a.month \/ d.month = a.month + step
    BY <1>0, <1>3, <2>2, <2>5
  <2>7. d = a \/ d = nx[a]
    BY <1>3, <1>4, <2>6
  <2> QED
    BY <1>1, <2>1, <2>2, <2>7, AfterIs
<1> QED
  BY <1>5, <1>6

LEMMA WindowBoundary ==
    ASSUME NEW n, NEW p, NEW s, NEW end, NEW due \in [Dates -> Dates],
           Real(s), Real(end), Chain(n, p, s, end, WindowAfter, due), NEW i \in 1..n
    PROVE  LET d == DayAfter(p[i].end)
           IN  p[i].end = DayBefore(WindowAfter[p[i].start])
               <=> d.month > s.month /\ d.month % 2 = 0 /\ d.day = 1
<1> DEFINE a == p[i].start
           w == WindowAfter[a]
           d == DayAfter(p[i].end)
<1>1. s.month \in Nat /\ s \in Dates /\ Real(a) /\ a \in Dates /\ a.month \in Nat /\ a.day \in 1..31
      /\ Steps(WindowAfter) /\ n \in Nat /\ ~After(s, end) /\ p[1].start = s
  <2>1. Real(a) /\ n \in Nat /\ ~After(s, end)
    BY DEF Chain
  <2>2. p[1].start = s
    BY <2>1 DEF Chain
  <2> HIDE DEF a
  <2> QED
    BY <2>1, <2>2, RealIs, WindowSteps
<1>2. a.month >= s.month
  <2>1. CASE i = 1
    BY <1>1, <2>1
  <2>2. CASE i > 1
    <3>1. 1 \in 1..n
      BY <1>1
    <3> QED
      BY <1>1, <2>2, <3>1, ChainOrder
  <2> QED
    BY <1>1, <2>1, <2>2
<1>3. /\ w \in Dates /\ w.day = 1 /\ w.month = a.month - (a.month % 2) + 2
      /\ w.month % 2 = 0 /\ w.month > a.month /\ w.month \in Nat
  <2>1. w = Date(a.month - (a.month % 2) + 2, 1)
    BY <1>1 DEF WindowAfter
  <2>2. /\ a.month - (a.month % 2) + 2 \in Nat /\ a.month - (a.month % 2) + 2 > a.month
        /\ (a.month - (a.month % 2) + 2) % 2 = 0
    BY <1>1
  <2> QED
    BY <2>1, <2>2 DEF Date, Dates
<1>4. CASE p[i].end = DayBefore(w)
  <2>1. d = w
    BY <1>1, <1>4, PeriodAtIs
  <2> HIDE DEF a, d, w
  <2>2. d.month > s.month /\ d.month % 2 = 0 /\ d.day = 1
    BY <1>1, <1>2, <1>3, <2>1
  <2> QED
    BY <1>4, <2>2 DEF a, d, w
<1>5. CASE p[i].end # DayBefore(w)
  <2>1. d \in Dates /\ After(d, a) /\ After(w, d)
    BY <1>1, <1>5, CutInside
  <2> SUFFICES ASSUME d.month > s.month, d.month % 2 = 0, d.day = 1 PROVE FALSE
    BY <1>5
  <2> HIDE DEF a, d, w
  <2>2. d.month \in Nat
    BY <2>1, DatesAre
  <2>3. d.month < w.month
    BY <1>3, <2>1, <2>2 DEF After
  <2>4. d.month <= a.month - (a.month % 2)
    BY <1>1, <1>3, <2>2, <2>3
  <2>5. d.month <= a.month
    BY <1>1, <2>2, <2>4
  <2> QED
    BY <1>1, <2>1, <2>2, <2>5 DEF After
<1> QED
  BY <1>4, <1>5

(* isCompleteBoundaryBill looks two years ahead, which no period spans.    *)
LEMMA FirstPeriodIs ==
    ASSUME NEW s, Real(s), NEW nx, Steps(nx), NEW due \in [Dates -> Dates],
           nx[s].month <= s.month + 12
    PROVE  FirstPeriod(PeriodsFrom(s, ClampedMonthDate(s.month + 24, s.day), nx, due)) = DayBefore(nx[s])
<1> DEFINE end == ClampedMonthDate(s.month + 24, s.day)
           ps == PeriodsFrom(s, end, nx, due)
           b == DayBefore(nx[s])
<1>1. s \in Dates /\ s.month \in Nat /\ s.day \in 1..31 /\ s.month + 24 \in Nat
  BY RealIs
<1>2. Real(end) /\ end \in Dates /\ end.month = s.month + 24
  BY <1>1, ClampedIs
<1> HIDE DEF end
<1>3. ~After(s, end)
  BY <1>1, <1>2 DEF After
<1>4. ps \in Seq(Period) /\ Chain(Len(ps), ps, s, end, nx, due)
  BY <1>2, PeriodsAreChain
<1> HIDE DEF ps
<1>5. Len(ps) >= 1 /\ ps[1].start = s /\ ps[1] = PeriodAt(ps[1].start, end, nx, due)
  <2>1. Len(ps) >= 1 /\ ps[1].start = s
    BY <1>3, <1>4 DEF Chain
  <2>2. 1 \in 1..Len(ps)
    BY <1>4, <2>1
  <2> QED
    BY <1>4, <2>1, <2>2 DEF Chain
<1>6. Head(ps).end = Earlier(b, end)
  <2>1. Head(ps) = ps[1]
    BY <1>4, <1>5
  <2> QED
    BY <1>5, <2>1 DEF PeriodAt
<1>7. Real(nx[s]) /\ Real(b) /\ After(nx[s], b) /\ nx[s] \in Dates /\ b \in Dates
  BY <1>2, PeriodAtIs DEF Real
<1>8. ~After(b, end)
  <2>1. nx[s].month \in Nat
    BY <1>7, DatesAre
  <2>2. After(end, nx[s])
    BY <1>1, <1>2, <1>7, <2>1, AfterIs
  <2>3. ~After(nx[s], end)
    BY <1>2, <1>7, <2>2, AfterIs
  <2>4. ~After(b, nx[s])
    BY <1>7, AfterIs
  <2> QED
    BY <1>2, <1>7, <2>2, <2>4, AfterIs
<1>9. Earlier(b, end) = b
  BY <1>2, <1>7, <1>8, EarlierIs
<1> QED
  BY <1>6, <1>9 DEF FirstPeriod, ps, end

-----------------------------------------------------------------------------
(* The bills that a change of the rent leaves as they are.                 *)
LEMMA DueBeforeIs ==
    ASSUME NEW R, rent \in Seq(R), NEW next, NEW j \in 1..Len(rent),
           \A i \in 1..Len(rent) : After(next, rent[i].period.due) <=> i < j
    PROVE  DueBefore(next) = SubSeq(rent, 1, j - 1)
<1> DEFINE D == 0..Len(rent)
           Is(f) == f = [n \in D |-> IF n = 0 THEN <<>>
                                     ELSE IF After(next, rent[n].period.due)
                                          THEN Append(f[n - 1], rent[n])
                                          ELSE f[n - 1]]
           up(n) == SubSeq(rent, 1, IF n < j THEN n ELSE j - 1)
           f == CHOOSE f : Is(f)
<1>0. Len(rent) \in Nat /\ j \in Nat \ {0} /\ j <= Len(rent)
  OBVIOUS
<1>1. up(0) = <<>>
  BY <1>0, SubSeqEmpty
<1>2. ASSUME NEW n \in D, n # 0
      PROVE  up(n) = IF After(next, rent[n].period.due) THEN Append(up(n - 1), rent[n]) ELSE up(n - 1)
  <2>0. n \in 1..Len(rent) /\ n - 1 \in D /\ n - 1 \in Nat
    BY <1>0, <1>2
  <2>1. CASE n < j
    <3>1. SubSeq(rent, 1, n) = SubSeq(rent, 1, n - 1) \o <<rent[n]>>
      BY <1>0, <2>0, SubSeqRecursiveSecond
    <3>2. SubSeq(rent, 1, n - 1) \in Seq(R) /\ rent[n] \in R
      BY <1>0, <2>0, SubSeqProperties
    <3>3. SubSeq(rent, 1, n - 1) \o <<rent[n]>> = Append(SubSeq(rent, 1, n - 1), rent[n])
      BY <3>2
    <3>4. n - 1 < j
      BY <1>0, <2>0, <2>1
    <3> QED
      BY <2>0, <2>1, <3>1, <3>3, <3>4
  <2>2. CASE n = j
    BY <1>0, <2>0, <2>2
  <2>3. CASE n > j
    <3>1. ~(n - 1 < j) /\ ~(n < j)
      BY <1>0, <2>0, <2>3
    <3> QED
      BY <2>0, <3>1
  <2> QED
    BY <1>0, <2>0, <2>1, <2>2, <2>3
<1>3. \E h : Is(h)
  <2> DEFINE h == [n \in D |-> up(n)]
  <2> HIDE DEF up
  <2>1. ASSUME NEW n \in D
        PROVE  up(n) = IF n = 0 THEN <<>>
                       ELSE IF After(next, rent[n].period.due) THEN Append(h[n - 1], rent[n]) ELSE h[n - 1]
    <3>1. CASE n = 0
      BY <1>1, <3>1
    <3>2. CASE n # 0
      <4>1. n - 1 \in D
        BY <1>0, <3>2
      <4>2. h[n - 1] = up(n - 1)
        BY <4>1
      <4> QED
        BY <1>2, <3>2, <4>2
    <3> QED
      BY <3>1, <3>2
  <2>2. Is(h)
    BY <2>1
  <2> QED
    BY <2>2
<1>4. Is(f)
  BY <1>3
<1>5. DueBefore(next) = f[Len(rent)]
  BY DEF DueBefore
<1> HIDE DEF f
<1>6. \A n \in D : f[n] = up(n)
  <2> DEFINE B == {n \in D : f[n] # up(n)}
  <2> HIDE DEF up
  <2> SUFFICES ASSUME B # {} PROVE FALSE
    OBVIOUS
  <2>1. B \in SUBSET Nat
    BY <1>0
  <2> HIDE DEF B
  <2>2. PICK n \in B : \A m \in B : n <= m
    BY <2>1, SmallestOf
  <2> USE DEF B
  <2>3. CASE n = 0
    BY <1>0, <1>1, <1>4, <2>3
  <2>4. CASE n # 0
    <3>1. n - 1 \in D /\ n - 1 < n
      BY <1>0, <2>4
    <3>2. f[n - 1] = up(n - 1)
      BY <2>1, <2>2, <3>1
    <3>3. f[n] = IF After(next, rent[n].period.due) THEN Append(f[n - 1], rent[n]) ELSE f[n - 1]
      BY <1>4, <2>4
    <3> QED
      BY <1>2, <2>4, <3>2, <3>3
  <2> QED
    BY <2>3, <2>4
<1>7. f[Len(rent)] = up(Len(rent))
  BY <1>0, <1>6
<1> QED
  BY <1>0, <1>5, <1>7

-----------------------------------------------------------------------------
(* Sums over finite sets.                                                  *)

LEMMA SmallestSet ==
    ASSUME NEW S, IsFiniteSet(S), NEW B \in SUBSET SUBSET S, B # {}
    PROVE  \E b \in B : \A c \in B : Cardinality(b) <= Cardinality(c)
<1>1. \A b \in B : Cardinality(b) \in Nat
  BY FS_Subset, FS_CardinalityType
<1> DEFINE T == {Cardinality(b) : b \in B}
<1>2. PICK w \in B : TRUE
  OBVIOUS
<1>3. T \in SUBSET Nat /\ Cardinality(w) \in T
  BY <1>1, <1>2
<1> HIDE DEF T
<1>4. PICK t \in T : \A u \in T : t <= u
  BY <1>3, SmallestOf
<1>5. PICK b \in B : t = Cardinality(b)
  BY DEF T
<1>6. \A c \in B : Cardinality(c) \in T
  BY DEF T
<1> QED
  BY <1>4, <1>5, <1>6

LEMMA SmallerSet ==
    ASSUME NEW S, IsFiniteSet(S), NEW s \in SUBSET S, NEW x \in s
    PROVE  /\ s \ {x} \in SUBSET S /\ Cardinality(s) \in Nat /\ Cardinality(s \ {x}) \in Nat
           /\ Cardinality(s \ {x}) = Cardinality(s) - 1
<1>1. IsFiniteSet(s) /\ IsFiniteSet(s \ {x})
  BY FS_Subset
<1>2. Cardinality(s \ {x}) = Cardinality(s) - 1
  BY <1>1, FS_RemoveElement
<1> QED
  BY <1>1, <1>2, FS_CardinalityType

Some(s) == CHOOSE x \in s : TRUE
Adds(D, f, it) == it = [s \in D |-> IF s = {} THEN 0 ELSE f[Some(s)] + it[s \ {Some(s)}]]
Totals(S, f, it) == Adds(SUBSET S, f, it)

LEMMA SumsExist ==
    ASSUME NEW S, IsFiniteSet(S), NEW f
    PROVE  \E it : Totals(S, f, it)
<1> DEFINE D(n) == {s \in SUBSET S : Cardinality(s) <= n}
           Has(n) == \E it : Adds(D(n), f, it)
<1>0. \A s \in SUBSET S : /\ Cardinality(s) \in Nat /\ (Cardinality(s) = 0 <=> s = {})
                          /\ Cardinality(s) <= Cardinality(S)
  BY FS_Subset, FS_CardinalityType, FS_EmptySet
<1>1. Has(0)
  <2> DEFINE it == [s \in D(0) |-> 0]
  <2>1. \A s \in D(0) : s = {}
    BY <1>0
  <2>2. it = [s \in D(0) |-> IF s = {} THEN 0 ELSE f[Some(s)] + it[s \ {Some(s)}]]
    BY <2>1
  <2> QED
    BY <2>2 DEF Adds
<1>2. ASSUME NEW n \in Nat, Has(n) PROVE Has(n + 1)
  <2>1. PICK it : Adds(D(n), f, it)
    BY <1>2
  <2> DEFINE sum(s) == IF s = {} THEN 0 ELSE f[Some(s)] + it[s \ {Some(s)}]
             jt == [s \in D(n + 1) |-> sum(s)]
  <2>2. ASSUME NEW s \in D(n + 1), s # {} PROVE s \ {Some(s)} \in D(n)
    <3>1. Some(s) \in s
      BY <2>2 DEF Some
    <3> HIDE DEF D
    <3>2. s \in SUBSET S /\ Cardinality(s) <= n + 1
      BY DEF D
    <3>3. s \ {Some(s)} \in SUBSET S /\ Cardinality(s) \in Nat
          /\ Cardinality(s \ {Some(s)}) = Cardinality(s) - 1
      BY <3>1, <3>2, SmallerSet
    <3>4. Cardinality(s \ {Some(s)}) <= n
      BY <3>2, <3>3
    <3> QED
      BY <3>3, <3>4 DEF D
  <2>3. \A s \in D(n) : s \in D(n + 1)
    BY <1>0
  <2>4. \A s \in D(n) : it[s] = sum(s)
    BY <2>1 DEF Adds
  <2>5. \A s \in D(n) : jt[s] = sum(s)
    BY <2>3
  <2>6. ASSUME NEW s \in D(n + 1), s # {} PROVE jt[s \ {Some(s)}] = it[s \ {Some(s)}]
    <3>1. s \ {Some(s)} \in D(n)
      BY <2>2, <2>6
    <3> HIDE DEF jt, sum, D
    <3> QED
      BY <3>1, <2>4, <2>5
  <2>7. jt = [s \in D(n + 1) |-> IF s = {} THEN 0 ELSE f[Some(s)] + jt[s \ {Some(s)}]]
    BY <2>6
  <2> QED
    BY <2>7 DEF Adds
<1> HIDE DEF Has
<1>3. \A n \in Nat : Has(n)
  <2> SUFFICES ASSUME NEW m \in Nat, ~Has(m) PROVE FALSE
    OBVIOUS
  <2> DEFINE B == {n \in Nat : ~Has(n)}
  <2>1. PICK n \in B : \A k \in B : n <= k
    <3>1. m \in B /\ B \in SUBSET Nat
      OBVIOUS
    <3> HIDE DEF B
    <3> QED
      BY <3>1, SmallestOf
  <2>2. n # 0 /\ n - 1 \in Nat
    BY <1>1
  <2>3. Has(n - 1)
    BY <2>1, <2>2
  <2>4. Has(n - 1 + 1)
    BY <1>2, <2>2, <2>3
  <2> QED
    BY <2>1, <2>4
<1>4. Cardinality(S) \in Nat /\ D(Cardinality(S)) = SUBSET S
  BY <1>0
<1> HIDE DEF D
<1>5. Has(Cardinality(S))
  BY <1>3, <1>4
<1> QED
  BY <1>4, <1>5 DEF Has, Totals

(* The order in which the elements are added does not matter.              *)
LEMMA SumSplit ==
    ASSUME NEW S, IsFiniteSet(S), NEW f \in [S -> Int], NEW it, Totals(S, f, it)
    PROVE  \A s \in SUBSET S : it[s] \in Int /\ \A x \in s : it[s] = f[x] + it[s \ {x}]
<1> DEFINE Good(s) == it[s] \in Int /\ \A x \in s : it[s] = f[x] + it[s \ {x}]
           B == {s \in SUBSET S : ~Good(s)}
<1>0. \A s \in SUBSET S : it[s] = IF s = {} THEN 0 ELSE f[Some(s)] + it[s \ {Some(s)}]
  BY DEF Totals, Adds
<1> SUFFICES ASSUME B # {} PROVE FALSE
  OBVIOUS
<1>1. B \in SUBSET SUBSET S
  OBVIOUS
<1> HIDE DEF B
<1>2. PICK s \in B : \A t \in B : Cardinality(s) <= Cardinality(t)
  BY <1>1, SmallestSet
<1>3. s \in SUBSET S /\ ~Good(s)
  BY DEF B
<1>4. \A x \in s : Good(s \ {x})
  <2> SUFFICES ASSUME NEW x \in s PROVE Good(s \ {x})
    OBVIOUS
  <2>1. /\ s \ {x} \in SUBSET S /\ Cardinality(s) \in Nat /\ Cardinality(s \ {x}) \in Nat
        /\ Cardinality(s \ {x}) = Cardinality(s) - 1
    BY <1>3, SmallerSet
  <2>2. s \ {x} \notin B
    BY <1>2, <2>1
  <2> QED
    BY <2>1, <2>2 DEF B
<1>5. s # {}
  <2> SUFFICES ASSUME s = {} PROVE FALSE
    OBVIOUS
  <2>1. it[s] = 0
    BY <1>0, <1>3
  <2>2. Good(s)
    BY <2>1
  <2> QED
    BY <1>3, <2>2
<1>6. Some(s) \in s
  BY <1>5 DEF Some
<1>7. it[s] = f[Some(s)] + it[s \ {Some(s)}] /\ f[Some(s)] \in Int /\ it[s \ {Some(s)}] \in Int
  BY <1>0, <1>3, <1>4, <1>5, <1>6
<1>8. ASSUME NEW x \in s PROVE it[s] = f[x] + it[s \ {x}]
  <2>1. CASE x = Some(s)
    BY <1>7, <2>1
  <2>2. CASE x # Some(s)
    <3> DEFINE y == Some(s)
               r == (s \ {x}) \ {y}
    <3>0. y \in s \ {x} /\ x \in s \ {y} /\ (s \ {y}) \ {x} = r
      BY <1>6, <2>2
    <3>1. it[s \ {y}] = f[x] + it[r]
      BY <1>4, <1>6, <3>0
    <3>2. it[s \ {x}] = f[y] + it[r]
      BY <1>4, <3>0
    <3>3. f[x] \in Int /\ f[y] \in Int /\ it[s \ {y}] \in Int /\ it[s \ {x}] \in Int
      BY <1>3, <1>4, <1>6
    <3>4. it[r] \in Int
      <4>1. r \in SUBSET S
        BY <1>3
      <4>2. Cardinality(r) < Cardinality(s)
        <5>1. s \ {x} \in SUBSET S /\ Cardinality(s) \in Nat /\ Cardinality(s \ {x}) = Cardinality(s) - 1
          BY <1>3, SmallerSet
        <5>2. Cardinality(r) = Cardinality(s \ {x}) - 1
          BY <3>0, <5>1, SmallerSet
        <5> QED
          BY <5>1, <5>2
      <4>3. r \notin B
        <5>1. Cardinality(s) \in Nat /\ Cardinality(r) \in Nat
          BY <1>3, <4>1, FS_Subset, FS_CardinalityType
        <5> QED
          BY <1>2, <4>2, <5>1
      <4> QED
        BY <4>1, <4>3 DEF B
    <3> HIDE DEF y, r
    <3>5. it[s] = f[y] + it[s \ {y}]
      BY <1>7 DEF y
    <3> QED
      BY <3>1, <3>2, <3>3, <3>4, <3>5
  <2> QED
    BY <2>1, <2>2
<1>9. it[s] \in Int
  BY <1>7
<1> QED
  BY <1>3, <1>8, <1>9

LEMMA SumSame ==
    ASSUME NEW T, IsFiniteSet(T), NEW S \in SUBSET T, NEW f \in [T -> Int], NEW g \in [S -> Int],
           \A x \in S : f[x] = g[x],
           NEW it, Totals(T, f, it), NEW jt, Totals(S, g, jt)
    PROVE  \A s \in SUBSET S : it[s] = jt[s]
<1> DEFINE B == {s \in SUBSET S : it[s] # jt[s]}
<1> SUFFICES ASSUME B # {} PROVE FALSE
  OBVIOUS
<1>0. /\ \A s \in SUBSET S : it[s] = IF s = {} THEN 0 ELSE f[Some(s)] + it[s \ {Some(s)}]
      /\ \A s \in SUBSET S : jt[s] = IF s = {} THEN 0 ELSE g[Some(s)] + jt[s \ {Some(s)}]
  BY DEF Totals, Adds
<1>1. B \in SUBSET SUBSET S /\ IsFiniteSet(S)
  BY FS_Subset
<1> HIDE DEF B
<1>2. PICK s \in B : \A t \in B : Cardinality(s) <= Cardinality(t)
  BY <1>1, SmallestSet
<1>3. s \in SUBSET S /\ it[s] # jt[s]
  BY DEF B
<1>4. s # {}
  BY <1>0, <1>3
<1>5. Some(s) \in s
  BY <1>4 DEF Some
<1>6. /\ s \ {Some(s)} \in SUBSET S /\ Cardinality(s) \in Nat /\ Cardinality(s \ {Some(s)}) \in Nat
      /\ Cardinality(s \ {Some(s)}) = Cardinality(s) - 1
  BY <1>1, <1>3, <1>5, SmallerSet
<1>7. s \ {Some(s)} \notin B
  BY <1>2, <1>6
<1>8. it[s \ {Some(s)}] = jt[s \ {Some(s)}]
  BY <1>6, <1>7 DEF B
<1> QED
  BY <1>0, <1>3, <1>4, <1>5, <1>8

LEMMA SumIs ==
    ASSUME NEW S, IsFiniteSet(S), NEW f \in [S -> Int]
    PROVE  \E it : Totals(S, f, it) /\ SumFunction(f) = it[S]
<1> DEFINE it == CHOOSE it : Totals(S, f, it)
<1>1. Totals(S, f, it)
  BY SumsExist
<1>2. DOMAIN f = S
  OBVIOUS
<1>3. SumFunction(f) = it[S]
  BY <1>2 DEF SumFunction, SumFunctionOnSet, FoldFunctionOnSet, MapThenFoldSet, Totals, Adds, Some
<1> QED
  BY <1>1, <1>3

LEMMA SumOfNone == ASSUME NEW f \in [{} -> Int] PROVE SumFunction(f) = 0
<1>1. PICK it : Totals({}, f, it) /\ SumFunction(f) = it[{}]
  BY SumIs, FS_EmptySet
<1> QED
  BY <1>1 DEF Totals, Adds

LEMMA SumOfMore ==
    ASSUME NEW S, IsFiniteSet(S), NEW T, NEW x \in T, x \notin S, T = S \cup {x},
           NEW f \in [T -> Int], NEW g \in [S -> Int], \A y \in S : f[y] = g[y]
    PROVE  SumFunction(f) = f[x] + SumFunction(g)
<1>0. IsFiniteSet(T)
  BY FS_AddElement
<1>1. S \in SUBSET T /\ T \in SUBSET T /\ x \in T /\ T \ {x} = S
  OBVIOUS
<1>3. f \in [T -> Int]
  OBVIOUS
<1>4. PICK it : Totals(T, f, it) /\ SumFunction(f) = it[T]
  BY <1>0, <1>3, SumIs
<1>5. PICK jt : Totals(S, g, jt) /\ SumFunction(g) = jt[S]
  BY SumIs
<1>6. \A s \in SUBSET T : it[s] \in Int /\ \A y \in s : it[s] = f[y] + it[s \ {y}]
  BY <1>0, <1>3, <1>4, SumSplit
<1>7. it[T] = f[x] + it[S]
  BY <1>1, <1>6
<1>8. \A s \in SUBSET S : it[s] = jt[s]
  <2>1. \A y \in S : f[y] = g[y]
    OBVIOUS
  <2> QED
    BY <1>0, <1>1, <1>3, <1>4, <1>5, <2>1, SumSame
<1>9. it[S] = jt[S]
  BY <1>8
<1> QED
  BY <1>4, <1>5, <1>7, <1>9

-----------------------------------------------------------------------------
(* Types.                                                                  *)

RentRow == [period : Period, amount : Rents]
PowerRow == [period : Period, meter : Meters]
Calls == RecordCalls \cup TerminationCalls \cup CheckoutCalls \cup {None}

(* A bill with a reading has the one before it, too, and so has a request  *)
(* that has looked it up.                                                  *)
LookedUp(c) == c # None /\ c.op = "record" /\ c.stage \in {"read", "lease"}

TypeInv ==
    /\ lease \in LeaseRow /\ Real(lease.start)
    /\ rent \in Seq(RentRow)
    /\ power \in Seq(PowerRow)
    /\ \A i \in DOMAIN power : IsMetered(i) => power[i].meter.previous \in Readings
    /\ final \in [reading : Readings, previous : Readings] \cup {None}
    /\ call \in [Reqs -> Calls]
    /\ \A q \in Reqs : LookedUp(call[q]) => call[q].previous \in Readings
    /\ mixed \in BOOLEAN

LEMMA TypesImplied == ASSUME TypeInv PROVE TypeOK
<1>1. \A i \in DOMAIN rent : rent[i] \in RentRow
  BY DEF TypeInv
<1>2. \A i \in DOMAIN power : power[i] \in PowerRow
  BY DEF TypeInv
<1> QED
  BY <1>1, <1>2 DEF TypeInv, TypeOK, RentRow, PowerRow, Calls

LEMMA MetersAre ==
    ASSUME TypeInv
    PROVE  /\ Len(power) \in Nat /\ DOMAIN power = 1..Len(power) /\ Metered \in SUBSET (1..Len(power))
           /\ \A i \in DOMAIN power : /\ power[i] \in PowerRow /\ power[i].period \in Period
                                      /\ power[i].meter \in Meters
           /\ \A i \in Metered : /\ power[i].meter.reading \in Readings
                                 /\ power[i].meter.previous \in Readings
                                 /\ power[i].meter.status # "pending_meter"
<1>1. Len(power) \in Nat /\ DOMAIN power = 1..Len(power) /\ \A i \in DOMAIN power : power[i] \in PowerRow
  BY DEF TypeInv
<1>2. \A i \in DOMAIN power : power[i].period \in Period /\ power[i].meter \in Meters
  BY <1>1 DEF PowerRow
<1>3. \A i \in Metered : i \in DOMAIN power /\ IsMetered(i) /\ power[i].meter.reading # None
  BY DEF Metered, IsMetered
<1>4. \A i \in Metered : /\ power[i].meter.reading \in Readings /\ power[i].meter.previous \in Readings
                         /\ power[i].meter.status # "pending_meter"
  BY <1>2, <1>3 DEF TypeInv, Meters, Pending, Recorded, Waived
<1> QED
  BY <1>1, <1>2, <1>3, <1>4

LEMMA PreviousTyped ==
    ASSUME TypeInv, NEW start PROVE PreviousReading(start) \in Readings
<1> DEFINE before == {i \in Metered : After(start, power[i].period.end)}
<1>1. before \in SUBSET (1..Len(power)) /\ Len(power) \in Nat
  BY MetersAre
<1>2. PreviousReading(start) = IF before = {} THEN lease.meter ELSE power[Max(before)].meter.reading
  BY DEF PreviousReading
<1>3. before # {} => Max(before) \in before
  <2> HIDE DEF before
  <2> QED
    BY <1>1, MaxIs
<1>4. before # {} => power[Max(before)].meter.reading \in Readings
  BY <1>3, MetersAre
<1>5. lease.meter \in Readings
  BY DEF TypeInv, LeaseRow
<1> QED
  BY <1>2, <1>4, <1>5

LEMMA LineTyped ==
    ASSUME TypeInv, NEW c, c.value \in Readings \cup {None}
    PROVE  /\ ElectricityLine(c) \in Lines /\ ResolvableBill(c) \in SUBSET DOMAIN power
           /\ CheckoutSettlementToken(c).line = ElectricityLine(c)
           /\ c.day \in Dates => CheckoutSettlementToken(c) \in Tokens
<1>1. ResolvableBill(c) \in SUBSET DOMAIN power
  BY DEF ResolvableBill, WithStatus
<1>2. PreviousReading(SourceStart(c)) \in Readings
  BY PreviousTyped
<1>3. ElectricityLine(c) \in Lines
  <2> DEFINE rb == ResolvableBill(c)
             pr == PreviousReading(SourceStart(c))
  <2>1. ElectricityLine(c) = IF c.value = None \/ (rb = {} /\ c.value = pr) THEN None
                             ELSE [bill |-> rb, reading |-> c.value, previous |-> pr]
    BY DEF ElectricityLine
  <2>2. rb \in SUBSET DOMAIN power /\ pr \in Readings
    BY <1>1, <1>2
  <2> HIDE DEF rb, pr
  <2> QED
    BY <2>1, <2>2 DEF Lines
<1>4. CheckoutSettlementToken(c).line = ElectricityLine(c)
  BY DEF CheckoutSettlementToken
<1>5. ASSUME c.day \in Dates PROVE CheckoutSettlementToken(c) \in Tokens
  <2> DEFINE ms == [i \in DOMAIN power |-> power[i].meter]
  <2>1. \A i \in DOMAIN power : power[i].meter \in Meters
    BY MetersAre
  <2>2. Len(power) \in Nat /\ DOMAIN power = 1..Len(power)
    BY MetersAre
  <2>3. ms \in Seq(Meters)
    BY <2>1, <2>2
  <2>4. CheckoutSettlementToken(c)
          = [lease |-> lease, power |-> ms, day |-> c.day, value |-> c.value, line |-> ElectricityLine(c)]
    BY DEF CheckoutSettlementToken
  <2>5. lease \in LeaseRow
    BY DEF TypeInv
  <2> HIDE DEF ms
  <2> QED
    BY <1>3, <1>5, <2>3, <2>4, <2>5 DEF Tokens
<1> QED
  BY <1>1, <1>3, <1>4, <1>5

(* Which transaction a request has open.                                   *)
LEMMA CallsAre ==
    ASSUME TypeInv, NEW q \in Reqs
    PROVE  /\ Open(q) /\ call[q].op = "record" => call[q] \in RecordCalls
           /\ Open(q) /\ call[q].op \in {"terminate", "force"} => call[q] \in TerminationCalls
           /\ Open(q) /\ call[q].op = "checkout" => call[q] \in CheckoutCalls
           /\ AtSettlement(q, "called") \/ AtSettlement(q, "lease") \/ AtSettlement(q, "bills") =>
                  call[q] \in TerminationCalls \cup CheckoutCalls
<1>1. call[q] \in Calls
  BY DEF TypeInv
<1>2. \A c \in RecordCalls : c.op = "record"
  BY DEF RecordCalls
<1>3. \A c \in TerminationCalls : c.op \in {"terminate", "force"}
  BY DEF TerminationCalls
<1>4. \A c \in CheckoutCalls : c.op = "checkout"
  BY DEF CheckoutCalls
<1>5. Open(q) => call[q] \in RecordCalls \cup TerminationCalls \cup CheckoutCalls
  BY <1>1 DEF Open, Calls
<1>6. ASSUME NEW stage, AtSettlement(q, stage) PROVE Open(q) /\ call[q].op \in {"checkout", "terminate", "force"}
  BY <1>6 DEF AtSettlement, At, Settlements
<1> QED
  BY <1>2, <1>3, <1>4, <1>5, <1>6

LEMMA SettlementStage ==
    ASSUME NEW c \in TerminationCalls \cup CheckoutCalls, NEW s \in {"called", "lease", "bills"}
    PROVE  /\ [c EXCEPT !.stage = s] \in TerminationCalls \cup CheckoutCalls
           /\ [c EXCEPT !.stage = s].op = c.op /\ c.op # "record"
<1>1. CASE c \in TerminationCalls
  BY <1>1 DEF TerminationCalls
<1>2. CASE c \in CheckoutCalls
  BY <1>2 DEF CheckoutCalls
<1> QED
  BY <1>1, <1>2

LEMMA CallsStay ==
    ASSUME DOMAIN power' = DOMAIN power PROVE Calls' = Calls
  BY DEF Calls, RecordCalls, TerminationCalls, CheckoutCalls, Tokens, Lines

(* A step that only moves one transaction on.                              *)
Moves(q, c) ==
    call' = [call EXCEPT ![q] = c] /\ UNCHANGED <<lease, rent, power, final, mixed>>

LEMMA MovesTyped ==
    ASSUME TypeInv, NEW q \in Reqs, NEW c \in Calls, Moves(q, c), LookedUp(c) => c.previous \in Readings
    PROVE  TypeInv'
<1>1. UNCHANGED <<lease, rent, power, final, mixed>> /\ call' = [call EXCEPT ![q] = c]
  BY DEF Moves
<1>2. Calls' = Calls
  BY <1>1, CallsStay
<1>3. call' \in [Reqs -> Calls']
  BY <1>1, <1>2 DEF TypeInv
<1>4. \A r \in Reqs : LookedUp(call'[r]) => call'[r].previous \in Readings
  BY <1>1 DEF TypeInv
<1> QED
  BY <1>1, <1>3, <1>4 DEF TypeInv, IsMetered, LookedUp

(* A transaction that commits makes what others have looked up stale.      *)
LEMMA ClosedTyped ==
    ASSUME TypeInv, NEW q \in Reqs
    PROVE  /\ Closed(q) \in [Reqs -> Calls] /\ Closed(q)[q] = None
           /\ \A r \in Reqs : LookedUp(Closed(q)[r]) =>
                  LookedUp(call[r]) /\ Closed(q)[r].previous = call[r].previous
                  /\ Closed(q)[r].stale = TRUE
           /\ \A r \in Reqs : r # q /\ ~LookedUp(call[r]) => Closed(q)[r] = call[r]
           /\ \A r \in Reqs : r # q /\ LookedUp(call[r]) =>
                  /\ Closed(q)[r] \in RecordCalls /\ Closed(q)[r].op = "record"
                  /\ Closed(q)[r].stage = call[r].stage /\ Closed(q)[r].bill = call[r].bill
<1>1. ASSUME NEW r \in Reqs
      PROVE  LookedUp(call[r]) <=> At(r, "record", "read") \/ At(r, "record", "lease")
  BY DEF LookedUp, At, Open
<1>2. ASSUME NEW r \in Reqs, LookedUp(call[r])
      PROVE  LET c == [call[r] EXCEPT !.stale = TRUE]
             IN  /\ c \in RecordCalls /\ c.op = "record" /\ c.stage = call[r].stage /\ c.bill = call[r].bill
                 /\ c.previous = call[r].previous /\ c.stale = TRUE
  <2>1. call[r] \in RecordCalls
    BY <1>2, CallsAre DEF LookedUp, Open
  <2> QED
    BY <2>1 DEF RecordCalls
<1>3. \A r \in Reqs : Closed(q)[r] = IF r = q THEN None
                                     ELSE IF LookedUp(call[r]) THEN [call[r] EXCEPT !.stale = TRUE] ELSE call[r]
  BY <1>1 DEF Closed
<1>4. ~LookedUp(None)
  BY DEF LookedUp
<1>5. \A r \in Reqs : Closed(q)[r] \in Calls
  BY <1>2, <1>3 DEF TypeInv, Calls
<1>6. Closed(q) \in [Reqs -> Calls]
  BY <1>5 DEF Closed
<1>7. ASSUME NEW r \in Reqs
      PROVE  /\ LookedUp(Closed(q)[r]) =>
                  LookedUp(call[r]) /\ Closed(q)[r].previous = call[r].previous
                  /\ Closed(q)[r].stale = TRUE
             /\ r # q /\ ~LookedUp(call[r]) => Closed(q)[r] = call[r]
             /\ r # q /\ LookedUp(call[r]) =>
                  /\ Closed(q)[r] \in RecordCalls /\ Closed(q)[r].op = "record"
                  /\ Closed(q)[r].stage = call[r].stage /\ Closed(q)[r].bill = call[r].bill
  <2>1. CASE r = q
    BY <1>3, <1>4, <2>1
  <2>2. CASE r # q /\ LookedUp(call[r])
    BY <1>2, <1>3, <2>2
  <2>3. CASE r # q /\ ~LookedUp(call[r])
    BY <1>3, <2>3
  <2> QED
    BY <2>1, <2>2, <2>3
<1> QED
  BY <1>3, <1>6, <1>7

-----------------------------------------------------------------------------
(* The periods of the bills.                                               *)

PeriodOf(bills) == [i \in 1..Len(bills) |-> bills[i].period]
RentNext == NextAnchored(RentCadenceMonths[lease.rentCadence], lease.start.day)
PowerNext == IF lease.powerCadence = "monthly" THEN NextAnchored(1, lease.start.day) ELSE WindowAfter

(* Both lists of bills are chains up to the day that the lease was made    *)
(* for, which is its end while it runs.                                    *)
ChainsTo(end) ==
    /\ Real(end) /\ ~After(lease.start, end) /\ (lease.status = "active" => lease.end = end)
    /\ Chain(Len(rent), PeriodOf(rent), lease.start, end, RentNext, AtStart)
    /\ Chain(Len(power), PeriodOf(power), lease.start, end, PowerNext, AtAnchor(lease.start.day))

PeriodsInv == \E end \in Dates : ChainsTo(end)

LEMMA LeaseIs ==
    ASSUME TypeInv
    PROVE  /\ lease \in LeaseRow /\ lease.start \in Dates /\ lease.start.day \in 1..31 /\ Real(lease.start)
           /\ lease.rentCadence \in Cadences /\ RentCadenceMonths[lease.rentCadence] \in {1, 3, 6, 12}
           /\ lease.powerCadence \in {"monthly", "bimonthly"} /\ lease.status \in {"active", "ended"}
           /\ Steps(RentNext) /\ Steps(PowerNext)
           /\ AtStart \in [Dates -> Dates] /\ AtAnchor(lease.start.day) \in [Dates -> Dates]
<1>1. lease \in LeaseRow /\ Real(lease.start)
  BY DEF TypeInv
<1>2. lease.start \in Dates /\ lease.start.day \in 1..31
  BY <1>1, RealIs
<1>3. /\ lease.rentCadence \in Cadences /\ lease.powerCadence \in {"monthly", "bimonthly"}
      /\ lease.status \in {"active", "ended"}
  BY <1>1 DEF LeaseRow
<1>4. RentCadenceMonths[lease.rentCadence] \in {1, 3, 6, 12}
  BY <1>3, CadencesAre
<1>5. RentCadenceMonths[lease.rentCadence] \in Nat \ {0} /\ 1 \in Nat \ {0}
  BY <1>4
<1>6. Steps(RentNext)
  BY <1>2, <1>5, AnchoredSteps DEF RentNext
<1>7. Steps(PowerNext)
  BY <1>2, <1>5, AnchoredSteps, WindowSteps DEF PowerNext
<1> QED
  BY <1>1, <1>2, <1>3, <1>4, <1>6, <1>7, DueTypes

LEMMA ChainTiles ==
    ASSUME NEW bills, NEW s, NEW end, NEW nx, NEW due \in [Dates -> Dates], NEW R, bills \in Seq(R),
           Chain(Len(bills), PeriodOf(bills), s, end, nx, due), Steps(nx), Real(s), Real(end), ~After(s, end)
    PROVE  Tiles(bills, s, end)
<1> DEFINE n == Len(bills)
           p == PeriodOf(bills)
<1>1. n \in Nat /\ DOMAIN bills = 1..n
  OBVIOUS
<1>2. n >= 1 /\ p[1].start = s
  BY DEF Chain
<1>3. \A i \in 1..n : p[i] = bills[i].period
  BY DEF PeriodOf
<1>4. \A i \in 1..n : /\ ~After(p[i].start, p[i].end)
                      /\ i < n => p[i + 1].start = DayAfter(p[i].end)
                      /\ i = n => p[i].end = end
  BY ChainEnds
<1> HIDE DEF p
<1>5. bills # <<>> /\ 1 \in 1..n /\ n \in 1..n
  BY <1>1, <1>2
<1>6. bills[1].period.start = s /\ bills[n].period.end = end
  BY <1>2, <1>3, <1>4, <1>5
<1>7. \A i \in DOMAIN bills : ~After(bills[i].period.start, bills[i].period.end)
  BY <1>1, <1>3, <1>4
<1>8. ASSUME NEW i \in 1..(n - 1) PROVE bills[i + 1].period.start = DayAfter(bills[i].period.end)
  <2>1. i \in 1..n /\ i + 1 \in 1..n /\ i < n
    BY <1>1
  <2> QED
    BY <1>3, <1>4, <2>1
<1> QED
  BY <1>5, <1>6, <1>7, <1>8 DEF Tiles

LEMMA BuildersAre ==
    /\ \A first, end, cadence, anchor :
          BuildRentBillingPeriodsFromAnchor(first, end, cadence, anchor)
            = PeriodsFrom(first, end, NextAnchored(RentCadenceMonths[cadence], anchor), AtStart)
    /\ \A first, end, anchor :
          BuildMonthlyPeriods(first, end, anchor)
            = PeriodsFrom(first, end, NextAnchored(1, anchor), AtAnchor(anchor))
    /\ \A first, end, anchor :
          BuildNaturalBimonthlyPeriods(first, end, anchor)
            = PeriodsFrom(first, end, WindowAfter, AtAnchor(anchor))
  BY DEF BuildRentBillingPeriodsFromAnchor, BuildAnchoredPeriods, BuildMonthlyPeriods,
         BuildNaturalBimonthlyPeriods, NextAnchored, AtStart, AtAnchor

LEMMA RentWhole ==
    ASSUME TypeInv, NEW end, ChainsTo(end), NEW i \in DOMAIN rent
    PROVE  CompleteRent(lease.start, lease.rentCadence, rent[i].period)
           <=> Boundary(DayAfter(rent[i].period.end), RentCadenceMonths[lease.rentCadence])
<1> DEFINE step == RentCadenceMonths[lease.rentCadence]
           b == rent[i].period
           nx == NextAnchored(step, lease.start.day)
<1>1. step \in {1, 3, 6, 12} /\ Steps(nx) /\ Real(lease.start) /\ AtStart \in [Dates -> Dates]
  BY LeaseIs DEF RentNext
<1>2. Chain(Len(rent), PeriodOf(rent), lease.start, end, nx, AtStart) /\ Real(end)
  BY DEF ChainsTo, RentNext
<1>3. i \in 1..Len(rent) /\ PeriodOf(rent)[i] = b
  BY DEF TypeInv, PeriodOf
<1> HIDE DEF nx, b, step
<1>4. Real(b.start) /\ b.start \in Dates /\ b.start.month \in Nat
  <2>1. Real(b.start)
    BY <1>2, <1>3 DEF Chain
  <2> QED
    BY <2>1, RealIs
<1>5. nx[b.start].month <= b.start.month + 12
  <2>1. b.start.month + step \in Nat /\ b.start.month + step <= b.start.month + 12 /\ lease.start.day \in 1..31
    BY <1>1, <1>4, LeaseIs
  <2>2. nx[b.start] = ClampedMonthDate(b.start.month + step, lease.start.day)
    BY <1>4 DEF nx, NextAnchored
  <2> QED
    BY <2>1, <2>2, ClampedIs
<1>6. CompleteRent(lease.start, lease.rentCadence, b) <=> b.end = DayBefore(nx[b.start])
  <2>1. FirstPeriod(PeriodsFrom(b.start, ClampedMonthDate(b.start.month + 24, b.start.day), nx, AtStart))
          = DayBefore(nx[b.start])
    BY <1>1, <1>4, <1>5, FirstPeriodIs
  <2> QED
    BY <2>1, BuildersAre DEF CompleteRent, nx, step
<1>7. b.end = DayBefore(nx[b.start])
      <=> AnchoredDay(DayAfter(b.end), lease.start, step)
  <2> DEFINE p == PeriodOf(rent)
             n == Len(rent)
  <2>1. i \in 1..n /\ Chain(n, p, lease.start, end, NextAnchored(step, lease.start.day), AtStart)
    BY <1>2, <1>3 DEF nx
  <2> HIDE DEF p, n
  <2>2. p[i].end = DayBefore(NextAnchored(step, lease.start.day)[p[i].start])
        <=> AnchoredDay(DayAfter(p[i].end), lease.start, step)
    BY <1>1, <1>2, <2>1, AnchoredBoundary
  <2> QED
    BY <1>3, <2>2 DEF nx, p
<1> QED
  BY <1>6, <1>7 DEF Boundary, AnchoredDay, b, step

LEMMA PowerWhole ==
    ASSUME TypeInv, NEW end, ChainsTo(end), NEW i \in DOMAIN power
    PROVE  CompletePower(lease.start, lease.powerCadence, power[i].period)
           <=> PowerBoundary(DayAfter(power[i].period.end))
<1> DEFINE b == power[i].period
           due == AtAnchor(lease.start.day)
           p == PeriodOf(power)
           n == Len(power)
           ahead == ClampedMonthDate(b.start.month + 24, b.start.day)
<1>1. /\ Steps(PowerNext) /\ Real(lease.start) /\ due \in [Dates -> Dates]
      /\ lease.powerCadence \in {"monthly", "bimonthly"} /\ lease.start.day \in 1..31
  BY LeaseIs
<1>2. Chain(n, p, lease.start, end, PowerNext, due) /\ Real(end)
  BY DEF ChainsTo
<1>3. i \in 1..n /\ p[i] = b
  BY DEF TypeInv, PeriodOf
<1> HIDE DEF b, p, n, due
<1>4. Real(b.start) /\ b.start \in Dates /\ b.start.month \in Nat
  <2>1. Real(b.start)
    BY <1>2, <1>3 DEF Chain
  <2> QED
    BY <2>1, RealIs
<1>5. CASE lease.powerCadence = "monthly"
  <2> DEFINE nx == NextAnchored(1, lease.start.day)
  <2>1. PowerNext = nx /\ Steps(nx)
    BY <1>1, <1>5 DEF PowerNext
  <2>2. nx[b.start].month <= b.start.month + 12
    <3>1. nx[b.start] = ClampedMonthDate(b.start.month + 1, lease.start.day) /\ b.start.month + 1 \in Nat
      BY <1>4 DEF NextAnchored
    <3>2. nx[b.start].month = b.start.month + 1
      BY <1>1, <3>1, ClampedIs
    <3> QED
      BY <1>4, <3>2
  <2>3. FirstPeriod(PeriodsFrom(b.start, ahead, nx, due)) = DayBefore(nx[b.start])
    BY <1>1, <1>4, <2>1, <2>2, FirstPeriodIs
  <2>4. CompletePower(lease.start, lease.powerCadence, b) <=> b.end = DayBefore(nx[b.start])
    BY <1>5, <2>3, BuildersAre DEF CompletePower, due
  <2> HIDE DEF nx
  <2>5. p[i].end = DayBefore(NextAnchored(1, lease.start.day)[p[i].start])
        <=> AnchoredDay(DayAfter(p[i].end), lease.start, 1)
    <3>1. Chain(n, p, lease.start, end, NextAnchored(1, lease.start.day), due) /\ 1 \in {1, 3, 6, 12}
      BY <1>2, <2>1 DEF nx
    <3> QED
      BY <1>1, <1>2, <1>3, <3>1, AnchoredBoundary
  <2> QED
    BY <1>3, <1>5, <2>4, <2>5 DEF PowerBoundary, Boundary, AnchoredDay, b, nx
<1>6. CASE lease.powerCadence # "monthly"
  <2>1. PowerNext = WindowAfter /\ Steps(WindowAfter)
    BY <1>1, <1>6 DEF PowerNext
  <2>2. WindowAfter[b.start].month <= b.start.month + 12
    <3>1. WindowAfter[b.start] = Date(b.start.month - (b.start.month % 2) + 2, 1)
      BY <1>4 DEF WindowAfter
    <3>2. WindowAfter[b.start].month = b.start.month - (b.start.month % 2) + 2
      BY <3>1 DEF Date
    <3> QED
      BY <1>4, <3>2
  <2>3. FirstPeriod(PeriodsFrom(b.start, ahead, WindowAfter, AtAnchor(b.start.day)))
          = DayBefore(WindowAfter[b.start])
    <3>1. AtAnchor(b.start.day) \in [Dates -> Dates]
      BY <1>4, RealIs, DueTypes
    <3> QED
      BY <1>4, <2>1, <2>2, <3>1, FirstPeriodIs
  <2>4. CompletePower(lease.start, lease.powerCadence, b) <=> b.end = DayBefore(WindowAfter[b.start])
    BY <1>6, <2>3, BuildersAre DEF CompletePower, BuildBillingPeriods
  <2>5. p[i].end = DayBefore(WindowAfter[p[i].start])
        <=> LET d == DayAfter(p[i].end)
            IN  d.month > lease.start.month /\ d.month % 2 = 0 /\ d.day = 1
    <3>1. Chain(n, p, lease.start, end, WindowAfter, due)
      BY <1>2, <2>1
    <3> QED
      BY <1>1, <1>2, <1>3, <3>1, WindowBoundary
  <2> QED
    BY <1>3, <1>6, <2>4, <2>5 DEF PowerBoundary, b
<1> QED
  BY <1>5, <1>6

LEMMA PeriodsTile == ASSUME TypeInv, PeriodsInv PROVE PeriodsTileLease
<1>1. PICK end \in Dates : ChainsTo(end)
  BY DEF PeriodsInv
<1>2. rent \in Seq(RentRow) /\ power \in Seq(PowerRow)
  BY DEF TypeInv
<1>3. Tiles(rent, lease.start, end) /\ Tiles(power, lease.start, end)
  <2>1. Tiles(rent, lease.start, end)
    BY <1>1, <1>2, LeaseIs, ChainTiles DEF ChainsTo
  <2>2. Tiles(power, lease.start, end)
    BY <1>1, <1>2, LeaseIs, ChainTiles DEF ChainsTo
  <2> QED
    BY <2>1, <2>2
<1>4. EveryDayBilledOnce
  BY <1>1, <1>3 DEF EveryDayBilledOnce, ChainsTo
<1>5. AnchorKept
  BY <1>1, RentWhole, PowerWhole DEF AnchorKept
<1> QED
  BY <1>4, <1>5 DEF PeriodsTileLease

-----------------------------------------------------------------------------
(* The steps that commit something.                                        *)

(* A step that writes readings and statuses, m[i] of bill i, and perhaps   *)
(* ends the lease.                                                         *)
Writes(m) ==
    /\ power' \in Seq(PowerRow) /\ DOMAIN power' = DOMAIN power /\ Len(power') = Len(power)
    /\ \A i \in DOMAIN power : power'[i].period = power[i].period /\ power'[i].meter = m[i]
    /\ rent' = rent
    /\ lease' \in LeaseRow /\ (lease'.status = "active" => lease' = lease)
    /\ lease'.start = lease.start /\ lease'.meter = lease.meter
    /\ lease'.rentCadence = lease.rentCadence /\ lease'.powerCadence = lease.powerCadence

LEMMA Rewritten ==
    ASSUME TypeInv, NEW m, \A i \in DOMAIN power : m[i] \in Meters,
           power' = [i \in DOMAIN power |-> [power[i] EXCEPT !.meter = m[i]]]
    PROVE  /\ power' \in Seq(PowerRow) /\ DOMAIN power' = DOMAIN power /\ Len(power') = Len(power)
           /\ \A i \in DOMAIN power : power'[i].period = power[i].period /\ power'[i].meter = m[i]
<1>1. /\ Len(power) \in Nat /\ DOMAIN power = 1..Len(power)
      /\ \A i \in DOMAIN power : power[i] \in PowerRow
  BY MetersAre
<1>2. \A i \in DOMAIN power :
          LET b == [power[i] EXCEPT !.meter = m[i]]
          IN  b \in PowerRow /\ b.period = power[i].period /\ b.meter = m[i]
  BY <1>1 DEF PowerRow
<1>3. power' = [i \in 1..Len(power) |-> [power[i] EXCEPT !.meter = m[i]]]
  BY <1>1
<1>4. power' \in Seq(PowerRow) /\ DOMAIN power' = DOMAIN power /\ Len(power') = Len(power)
  BY <1>1, <1>2, <1>3
<1>5. \A i \in DOMAIN power : power'[i] = [power[i] EXCEPT !.meter = m[i]]
  BY <1>1, <1>3
<1> QED
  BY <1>2, <1>4, <1>5

LEMMA SameMeter ==
    ASSUME TypeInv, NEW i \in DOMAIN power
    PROVE  [power[i] EXCEPT !.meter = power[i].meter] = power[i]
<1>1. power[i] \in PowerRow
  BY MetersAre
<1> QED
  BY <1>1 DEF PowerRow

MeterNow == [i \in DOMAIN power |-> power[i].meter]

RecordedAs(q) ==
    [i \in DOMAIN power |-> IF i = call[q].bill THEN UpdateMeter(call[q]) ELSE power[i].meter]

SettledAs(line) ==
    [i \in DOMAIN power |-> IF line # None /\ i \in line.bill THEN SettledBill(line) ELSE power[i].meter]

WaivedAs ==
    [i \in DOMAIN power |-> IF power[i].meter.status = "paid" THEN power[i].meter
                            ELSE [power[i].meter EXCEPT !.status = "written_off"]]

PaidAs(j) ==
    [i \in DOMAIN power |-> IF i = j THEN [power[i].meter EXCEPT !.status = "paid"] ELSE power[i].meter]

LEMMA RecordingIs ==
    ASSUME TypeInv, NEW q \in Reqs, RecordMeter(q)
    PROVE  /\ Writes(RecordedAs(q)) /\ lease' = lease /\ final' = final
           /\ LookedUp(call[q]) /\ call[q].bill \in DOMAIN power
           /\ call[q].value \in Readings /\ call[q].previous \in Readings
           /\ UpdateMeter(call[q]) \in Meters
<1>1. LookedUp(call[q]) /\ call[q] \in RecordCalls
  BY CallsAre DEF RecordMeter, At, LookedUp, Open
<1>2. call[q].bill \in DOMAIN power /\ call[q].value \in Readings /\ call[q].previous \in Readings
  BY <1>1 DEF RecordCalls, TypeInv
<1>3. UpdateMeter(call[q]) \in Meters
  BY <1>2 DEF UpdateMeter, Meters, Recorded
<1>4. \A i \in DOMAIN power : RecordedAs(q)[i] \in Meters
  BY <1>3, MetersAre DEF RecordedAs
<1>5. power' = [i \in DOMAIN power |-> [power[i] EXCEPT !.meter = RecordedAs(q)[i]]]
  <2>1. power' = [power EXCEPT ![call[q].bill] = [power[call[q].bill] EXCEPT !.meter = UpdateMeter(call[q])]]
    BY DEF RecordMeter
  <2>2. power' = [i \in DOMAIN power |-> IF i = call[q].bill
                     THEN [power[i] EXCEPT !.meter = UpdateMeter(call[q])] ELSE power[i]]
    BY <2>1, MetersAre
  <2>3. \A i \in DOMAIN power :
            [power[i] EXCEPT !.meter = RecordedAs(q)[i]]
              = IF i = call[q].bill THEN [power[i] EXCEPT !.meter = UpdateMeter(call[q])] ELSE power[i]
    BY SameMeter DEF RecordedAs
  <2> QED
    BY <2>2, <2>3
<1>6. lease' = lease /\ rent' = rent /\ final' = final /\ lease \in LeaseRow
  BY DEF RecordMeter, TypeInv
<1>7. Writes(RecordedAs(q))
  BY <1>4, <1>5, <1>6, Rewritten DEF Writes
<1> QED
  BY <1>1, <1>2, <1>3, <1>6, <1>7

LEMMA EndingIs ==
    ASSUME TypeInv, NEW day \in Dates, EndLease(day)
    PROVE  /\ lease' \in LeaseRow /\ lease'.status = "ended"
           /\ lease'.start = lease.start /\ lease'.meter = lease.meter
           /\ lease'.rentCadence = lease.rentCadence /\ lease'.powerCadence = lease.powerCadence
<1>1. lease \in LeaseRow
  BY DEF TypeInv
<1> QED
  BY <1>1 DEF EndLease, LeaseRow

LEMMA CheckoutIs ==
    ASSUME TypeInv, NEW q \in Reqs, FinalizeCheckout(q)
    PROVE  LET line == ElectricityLine(call[q])
           IN  /\ Writes(SettledAs(line)) /\ lease'.status = "ended" /\ call[q] \in CheckoutCalls
               /\ line \in Lines /\ (line # None => SettledBill(line) \in Meters)
<1> DEFINE line == ElectricityLine(call[q])
<1>1. call[q] \in CheckoutCalls
  BY CallsAre DEF FinalizeCheckout, At
<1>2. call[q].day \in Dates /\ call[q].value \in Readings \cup {None}
  BY <1>1 DEF CheckoutCalls
<1>3. line \in Lines
  BY <1>2, LineTyped
<1>4. line # None => SettledBill(line) \in Meters
  BY <1>3 DEF SettledBill, Meters, Recorded, Lines
<1>5. \A i \in DOMAIN power : SettledAs(line)[i] \in Meters
  BY <1>4, MetersAre DEF SettledAs
<1>6. /\ power' = [i \in DOMAIN power |->
               IF line # None /\ i \in line.bill THEN [power[i] EXCEPT !.meter = SettledBill(line)] ELSE power[i]]
      /\ EndLease(call[q].day) /\ rent' = rent
  BY DEF FinalizeCheckout
<1> HIDE DEF line
<1>7. power' = [i \in DOMAIN power |-> [power[i] EXCEPT !.meter = SettledAs(line)[i]]]
  <2>1. \A i \in DOMAIN power :
            [power[i] EXCEPT !.meter = SettledAs(line)[i]]
              = IF line # None /\ i \in line.bill THEN [power[i] EXCEPT !.meter = SettledBill(line)] ELSE power[i]
    BY SameMeter DEF SettledAs
  <2> QED
    BY <1>6, <2>1
<1>8. Writes(SettledAs(line)) /\ lease'.status = "ended"
  BY <1>2, <1>5, <1>6, <1>7, Rewritten, EndingIs DEF Writes
<1> QED
  BY <1>1, <1>3, <1>4, <1>8 DEF line

LEMMA TerminationIs ==
    ASSUME TypeInv, NEW q \in Reqs, TerminateLease(q)
    PROVE  Writes(MeterNow) /\ lease'.status = "ended" /\ power' = power
<1>1. call[q] \in TerminationCalls
  BY CallsAre DEF TerminateLease, At
<1>2. call[q].day \in Dates /\ EndLease(call[q].day) /\ power' = power /\ rent' = rent
  BY <1>1 DEF TerminationCalls, TerminateLease
<1>3. power \in Seq(PowerRow) /\ \A i \in DOMAIN power : MeterNow[i] = power[i].meter
  BY DEF TypeInv, MeterNow
<1> QED
  BY <1>2, <1>3, EndingIs DEF Writes

LEMMA ForceIs ==
    ASSUME TypeInv, NEW q \in Reqs, ForceTerminateLease(q)
    PROVE  /\ Writes(WaivedAs) /\ lease'.status = "ended"
           /\ \A i \in DOMAIN power : /\ WaivedAs[i] \in Meters
                                      /\ WaivedAs[i].reading = power[i].meter.reading
                                      /\ WaivedAs[i].previous = power[i].meter.previous
                                      /\ WaivedAs[i].status \in {"paid", "written_off"}
<1>1. call[q] \in TerminationCalls
  BY CallsAre DEF ForceTerminateLease, At
<1>2. call[q].day \in Dates /\ EndLease(call[q].day) /\ rent' = rent
  BY <1>1 DEF TerminationCalls, ForceTerminateLease
<1>3. ASSUME NEW m \in Meters
      PROVE  LET w == [m EXCEPT !.status = "written_off"]
             IN  /\ w \in Meters /\ w.reading = m.reading /\ w.previous = m.previous
                 /\ w.status = "written_off"
  <2>1. CASE m \in Pending
    BY <2>1 DEF Meters, Pending, Waived
  <2>2. CASE m \in Recorded
    BY <2>2 DEF Meters, Recorded, Waived
  <2>3. CASE m \in Waived
    BY <2>3 DEF Meters, Waived
  <2> QED
    BY <2>1, <2>2, <2>3 DEF Meters
<1>4. \A i \in DOMAIN power : power[i].meter \in Meters
  BY MetersAre
<1>5. ASSUME NEW i \in DOMAIN power
      PROVE  /\ WaivedAs[i] \in Meters
             /\ WaivedAs[i].reading = power[i].meter.reading
             /\ WaivedAs[i].previous = power[i].meter.previous
             /\ WaivedAs[i].status \in {"paid", "written_off"}
  <2>1. CASE power[i].meter.status = "paid"
    BY <1>4, <2>1 DEF WaivedAs
  <2>2. CASE power[i].meter.status # "paid"
    <3>1. WaivedAs[i] = [power[i].meter EXCEPT !.status = "written_off"]
      BY <2>2 DEF WaivedAs
    <3>2. power[i].meter \in Meters
      BY <1>4
    <3> QED
      BY <1>3, <3>1, <3>2
  <2> QED
    BY <2>1, <2>2
<1>6. power' = [i \in DOMAIN power |-> [power[i] EXCEPT !.meter = WaivedAs[i]]]
  <2>1. ASSUME NEW i \in DOMAIN power
        PROVE  [power[i] EXCEPT !.meter = WaivedAs[i]]
                 = IF power[i].meter.status = "paid" THEN power[i]
                   ELSE [power[i] EXCEPT !.meter.status = "written_off"]
    BY SameMeter DEF WaivedAs
  <2> QED
    BY <2>1 DEF ForceTerminateLease
<1>7. Writes(WaivedAs) /\ lease'.status = "ended"
  BY <1>2, <1>5, <1>6, Rewritten, EndingIs DEF Writes
<1> QED
  BY <1>5, <1>7

LEMMA PaymentIs ==
    ASSUME TypeInv, NEW j \in DOMAIN power, RecordPayment(j)
    PROVE  /\ Writes(PaidAs(j)) /\ lease' = lease /\ final' = final /\ mixed' = mixed /\ call' = call
           /\ power[j].meter.status = "pending_payment"
           /\ \A i \in DOMAIN power : /\ PaidAs(j)[i] \in Meters
                                      /\ PaidAs(j)[i].reading = power[i].meter.reading
                                      /\ PaidAs(j)[i].previous = power[i].meter.previous
                                      /\ i # j => PaidAs(j)[i] = power[i].meter
           /\ PaidAs(j)[j].status = "paid"
<1>1. \A i \in DOMAIN power : power[i].meter \in Meters
  BY MetersAre
<1>2. power[j].meter.status = "pending_payment" /\ power[j].meter \in Recorded
  BY <1>1 DEF RecordPayment, Meters, Pending, Recorded, Waived
<1>3. LET w == [power[j].meter EXCEPT !.status = "paid"]
      IN  /\ w \in Meters /\ w.reading = power[j].meter.reading /\ w.previous = power[j].meter.previous
          /\ w.status = "paid"
  BY <1>2 DEF Meters, Recorded
<1>4. \A i \in DOMAIN power : /\ PaidAs(j)[i] \in Meters
                              /\ PaidAs(j)[i].reading = power[i].meter.reading
                              /\ PaidAs(j)[i].previous = power[i].meter.previous
                              /\ i # j => PaidAs(j)[i] = power[i].meter
  BY <1>1, <1>3 DEF PaidAs
<1>5. power' = [i \in DOMAIN power |-> [power[i] EXCEPT !.meter = PaidAs(j)[i]]]
  <2>1. power' = [power EXCEPT ![j] = [power[j] EXCEPT !.meter = [power[j].meter EXCEPT !.status = "paid"]]]
    BY DEF RecordPayment
  <2>2. power' = [i \in DOMAIN power |-> IF i = j
                     THEN [power[i] EXCEPT !.meter = [power[i].meter EXCEPT !.status = "paid"]] ELSE power[i]]
    BY <2>1, MetersAre
  <2>3. \A i \in DOMAIN power :
            [power[i] EXCEPT !.meter = PaidAs(j)[i]]
              = IF i = j THEN [power[i] EXCEPT !.meter = [power[i].meter EXCEPT !.status = "paid"]] ELSE power[i]
    BY SameMeter DEF PaidAs
  <2> QED
    BY <2>2, <2>3
<1>6. /\ lease' = lease /\ rent' = rent /\ final' = final /\ mixed' = mixed /\ call' = call
      /\ lease \in LeaseRow
  BY DEF RecordPayment, TypeInv
<1>7. Writes(PaidAs(j))
  BY <1>4, <1>5, <1>6, Rewritten DEF Writes
<1> QED
  BY <1>2, <1>3, <1>4, <1>6, <1>7 DEF PaidAs

(* What is kept whenever readings or statuses are written.                 *)
LEMMA WritesTyped ==
    ASSUME TypeInv, NEW m, Writes(m),
           \A i \in DOMAIN power : m[i].reading # None => m[i].previous \in Readings,
           final' \in [reading : Readings, previous : Readings] \cup {None}, mixed' \in BOOLEAN,
           call' = call \/ \E q \in Reqs : call' = Closed(q)
    PROVE  TypeInv'
<1>1. DOMAIN power' = DOMAIN power
  BY DEF Writes
<1>2. Calls' = Calls
  BY <1>1, CallsStay
<1>3. call' \in [Reqs -> Calls'] /\ \A q \in Reqs : LookedUp(call'[q]) => call'[q].previous \in Readings
  <2>1. CASE call' = call
    BY <1>2, <2>1 DEF TypeInv
  <2>2. CASE \E q \in Reqs : call' = Closed(q)
    <3>1. PICK q \in Reqs : call' = Closed(q)
      BY <2>2
    <3>2. Closed(q) \in [Reqs -> Calls]
          /\ \A r \in Reqs : LookedUp(Closed(q)[r]) =>
                 LookedUp(call[r]) /\ Closed(q)[r].previous = call[r].previous
      BY ClosedTyped
    <3>3. \A r \in Reqs : LookedUp(call[r]) => call[r].previous \in Readings
      BY DEF TypeInv
    <3> QED
      BY <1>2, <3>1, <3>2, <3>3
  <2> QED
    BY <2>1, <2>2
<1>4. \A i \in DOMAIN power : power'[i].meter.reading # None => power'[i].meter.previous \in Readings
  BY DEF Writes
<1>5. lease' \in LeaseRow /\ Real(lease'.start) /\ rent' \in Seq(RentRow) /\ power' \in Seq(PowerRow)
  BY DEF Writes, TypeInv
<1> QED
  BY <1>1, <1>3, <1>4, <1>5 DEF TypeInv, IsMetered, LookedUp

LEMMA WritesKeepPeriods ==
    ASSUME TypeInv, PeriodsInv, NEW m, Writes(m)
    PROVE  PeriodsInv'
<1>1. PICK end \in Dates : ChainsTo(end)
  BY DEF PeriodsInv
<1>2. PeriodOf(power') = PeriodOf(power) /\ Len(power') = Len(power)
  <2>1. Len(power') = Len(power) /\ DOMAIN power = 1..Len(power)
    BY MetersAre DEF Writes
  <2> QED
    BY <2>1 DEF PeriodOf, Writes
<1>3. RentNext' = RentNext /\ PowerNext' = PowerNext
  BY DEF RentNext, PowerNext, Writes
<1>4. /\ rent' = rent /\ lease'.start = lease.start
      /\ (lease'.status = "active" => lease.status = "active" /\ lease'.end = lease.end)
  BY DEF Writes
<1>5. PeriodOf(power)' = PeriodOf(power') /\ PeriodOf(rent)' = PeriodOf(rent)
  BY <1>4 DEF PeriodOf
<1>6. ChainsTo(end)'
  BY <1>1, <1>2, <1>3, <1>4, <1>5 DEF ChainsTo
<1> QED
  BY <1>6 DEF PeriodsInv

LEMMA BillsAre ==
    ASSUME NEW ps \in Seq(Period)
    PROVE  /\ \A amount \in Rents : /\ RentBills(ps, amount) \in Seq(RentRow)
                                    /\ Len(RentBills(ps, amount)) = Len(ps)
                                    /\ \A i \in 1..Len(ps) : RentBills(ps, amount)[i].period = ps[i]
           /\ PowerBills(ps) \in Seq(PowerRow) /\ Len(PowerBills(ps)) = Len(ps)
           /\ \A i \in 1..Len(ps) : PowerBills(ps)[i].period = ps[i] /\ PowerBills(ps)[i].meter \in Pending
<1>1. Len(ps) \in Nat /\ DOMAIN ps = 1..Len(ps) /\ \A i \in 1..Len(ps) : ps[i] \in Period
  OBVIOUS
<1>2. ASSUME NEW amount \in Rents
      PROVE  /\ RentBills(ps, amount) \in Seq(RentRow) /\ Len(RentBills(ps, amount)) = Len(ps)
             /\ \A i \in 1..Len(ps) : RentBills(ps, amount)[i].period = ps[i]
  <2>1. RentBills(ps, amount) = [i \in 1..Len(ps) |-> [period |-> ps[i], amount |-> amount]]
    BY <1>1 DEF RentBills
  <2>2. \A i \in 1..Len(ps) : [period |-> ps[i], amount |-> amount] \in RentRow
    BY <1>1 DEF RentRow
  <2> QED
    BY <1>1, <2>1, <2>2
<1>3. /\ PowerBills(ps) \in Seq(PowerRow) /\ Len(PowerBills(ps)) = Len(ps)
      /\ \A i \in 1..Len(ps) : PowerBills(ps)[i].period = ps[i] /\ PowerBills(ps)[i].meter \in Pending
  <2> DEFINE m == [status |-> "pending_meter", reading |-> None, previous |-> None]
  <2>1. PowerBills(ps) = [i \in 1..Len(ps) |-> [period |-> ps[i], meter |-> m]]
    BY <1>1 DEF PowerBills
  <2>2. m \in Pending /\ m \in Meters
    BY DEF Pending, Meters
  <2> HIDE DEF m
  <2>3. \A i \in 1..Len(ps) : [period |-> ps[i], meter |-> m] \in PowerRow
    BY <1>1, <2>2 DEF PowerRow
  <2> QED
    BY <1>1, <2>1, <2>2, <2>3
<1> QED
  BY <1>2, <1>3

LEMMA PeriodOfSame ==
    ASSUME NEW bills, NEW ps, Len(bills) = Len(ps), DOMAIN ps = 1..Len(ps),
           \A i \in 1..Len(ps) : bills[i].period = ps[i], NEW s, NEW end, NEW nx, NEW due,
           Chain(Len(ps), ps, s, end, nx, due)
    PROVE  Chain(Len(bills), PeriodOf(bills), s, end, nx, due)
<1> DEFINE p == PeriodOf(bills)
           n == Len(ps)
<1>1. \A i \in 1..n : p[i] = ps[i]
  BY DEF PeriodOf
<1>2. n \in Nat
  BY DEF Chain
<1> HIDE DEF p
<1>3. \A i \in 1..(n - 1) : i \in 1..n /\ i + 1 \in 1..n
  BY <1>2
<1>4. n >= 1 => 1 \in 1..n /\ n \in 1..n
  BY <1>2
<1> QED
  BY <1>1, <1>3, <1>4 DEF Chain, p

(* The bills of a new lease.                                               *)
LEMMA InitTypes == ASSUME Init PROVE TypeInv /\ PeriodsInv
<1> DEFINE rs == BuildRentBillingPeriods(lease.start, lease.end, lease.rentCadence)
           es == BuildBillingPeriods(lease.start, lease.end, lease.powerCadence)
<1>1. /\ lease \in LeaseRow /\ lease.status = "active" /\ Real(lease.start) /\ Real(lease.end)
      /\ ~After(lease.start, lease.end)
  BY LeasesAssumption DEF Init
<1>2. /\ lease.start \in Dates /\ lease.start.day \in 1..31 /\ lease.end \in Dates
      /\ lease.rentCadence \in Cadences /\ lease.powerCadence \in {"monthly", "bimonthly"}
      /\ lease.amount \in Rents
  BY <1>1, RealIs DEF LeaseRow
<1>3. /\ RentCadenceMonths[lease.rentCadence] \in Nat \ {0} /\ 1 \in Nat \ {0}
  BY <1>2, CadencesAre
<1>4. Steps(RentNext) /\ Steps(PowerNext) /\ AtStart \in [Dates -> Dates] /\ AtAnchor(lease.start.day) \in [Dates -> Dates]
  BY <1>2, <1>3, AnchoredSteps, WindowSteps, DueTypes DEF RentNext, PowerNext
<1>5. rs = PeriodsFrom(lease.start, lease.end, RentNext, AtStart)
  BY BuildersAre DEF BuildRentBillingPeriods, RentNext
<1>6. es = PeriodsFrom(lease.start, lease.end, PowerNext, AtAnchor(lease.start.day))
  BY BuildersAre DEF BuildBillingPeriods, PowerNext
<1> HIDE DEF rs, es
<1>7. rs \in Seq(Period) /\ Chain(Len(rs), rs, lease.start, lease.end, RentNext, AtStart)
  BY <1>1, <1>4, <1>5, PeriodsAreChain
<1>8. es \in Seq(Period) /\ Chain(Len(es), es, lease.start, lease.end, PowerNext, AtAnchor(lease.start.day))
  BY <1>1, <1>4, <1>6, PeriodsAreChain
<1>9. rent = RentBills(rs, lease.amount) /\ power = PowerBills(es)
  BY DEF Init, rs, es
<1>10. /\ rent \in Seq(RentRow) /\ Len(rent) = Len(rs) /\ \A i \in 1..Len(rs) : rent[i].period = rs[i]
       /\ power \in Seq(PowerRow) /\ Len(power) = Len(es)
       /\ \A i \in 1..Len(es) : power[i].period = es[i] /\ power[i].meter \in Pending
  BY <1>2, <1>7, <1>8, <1>9, BillsAre
<1>11. TypeInv
  <2>1. \A i \in DOMAIN power : ~IsMetered(i)
    BY <1>10 DEF IsMetered, Pending
  <2>2. ~LookedUp(None)
    BY DEF LookedUp
  <2>3. final = None /\ mixed = FALSE /\ call = [q \in Reqs |-> None]
    BY DEF Init
  <2>4. call \in [Reqs -> Calls] /\ \A q \in Reqs : call[q] = None
    BY <2>3 DEF Calls
  <2> QED
    BY <1>1, <1>10, <2>1, <2>2, <2>3, <2>4 DEF TypeInv
<1>12. Chain(Len(rent), PeriodOf(rent), lease.start, lease.end, RentNext, AtStart)
  <2>1. DOMAIN rs = 1..Len(rs)
    BY <1>7
  <2> QED
    BY <1>7, <1>10, <2>1, PeriodOfSame
<1>13. Chain(Len(power), PeriodOf(power), lease.start, lease.end, PowerNext, AtAnchor(lease.start.day))
  <2>1. DOMAIN es = 1..Len(es)
    BY <1>8
  <2> QED
    BY <1>8, <1>10, <2>1, PeriodOfSame
<1>14. ChainsTo(lease.end)
  BY <1>1, <1>12, <1>13 DEF ChainsTo
<1> QED
  BY <1>2, <1>11, <1>14 DEF PeriodsInv

LEMMA ChangeRentIs ==
    ASSUME TypeInv, PeriodsInv, NEW day \in Days, NEW amount \in Rents, ChangeRent(day, amount)
    PROVE  TypeInv' /\ PeriodsInv'
<1> DEFINE next == NextRentPaymentDateAfter(lease.start, day, lease.rentCadence)
           built == BuildRentBillingPeriodsFromAnchor(next, lease.end, lease.rentCadence, lease.start.day)
           p == PeriodOf(rent)
           n == Len(rent)
<1>1. PICK end \in Dates : ChainsTo(end)
  BY DEF PeriodsInv
<1>2. /\ lease.status = "active" /\ lease.end = end /\ lease' = [lease EXCEPT !.amount = amount]
      /\ rent' = IF After(next, end) THEN rent ELSE DueBefore(next) \o RentBills(built, amount)
      /\ UNCHANGED <<power, final, call, mixed>>
  BY <1>1 DEF ChangeRent, ChainsTo
<1>3. /\ lease' \in LeaseRow /\ lease'.start = lease.start /\ lease'.end = lease.end
      /\ lease'.rentCadence = lease.rentCadence /\ lease'.powerCadence = lease.powerCadence
      /\ lease'.status = lease.status
  BY <1>2 DEF TypeInv, LeaseRow
<1>4. Real(end) /\ ~After(lease.start, end) /\ Real(day) /\ Real(lease.start)
      /\ Chain(n, p, lease.start, end, RentNext, AtStart) /\ Steps(RentNext) /\ AtStart \in [Dates -> Dates]
      /\ lease.rentCadence \in Cadences
  BY <1>1, LeaseIs, ValuesAssumption DEF ChainsTo
<1>5. n \in Nat /\ DOMAIN rent = 1..n /\ rent \in Seq(RentRow) /\ \A i \in 1..n : p[i] = rent[i].period
  BY DEF TypeInv, PeriodOf
<1>6. PICK g : Payments(g, day, RentNext) /\ next = g[lease.start]
  BY <1>4, NextPaymentIs DEF RentNext
<1> HIDE DEF next
<1>7. rent' \in Seq(RentRow) /\ Chain(Len(rent'), PeriodOf(rent'), lease.start, end, RentNext, AtStart)
  <2>1. CASE After(next, end)
    BY <1>2, <1>4, <1>5, <2>1
  <2>2. CASE ~After(next, end)
    <3>1. PICK j \in 1..n : p[j].start = next
      BY <1>4, <1>6, <2>2, PaymentOnStart
    <3>2. Real(next) /\ next \in Dates
      BY <1>4, <3>1 DEF Chain, Real
    <3>3. built = PeriodsFrom(next, end, RentNext, AtStart)
      BY <1>2, BuildersAre DEF RentNext
    <3> HIDE DEF built
    <3>4. built \in Seq(Period) /\ Chain(Len(built), built, next, end, RentNext, AtStart)
      BY <1>4, <3>2, <3>3, PeriodsAreChain
    <3>5. \A i \in 1..n : After(next, rent[i].period.due) <=> i < j
      <4> SUFFICES ASSUME NEW i \in 1..n PROVE After(next, rent[i].period.due) <=> i < j
        OBVIOUS
      <4>1. p[i].start \in Dates /\ p[i] = PeriodAt(p[i].start, end, RentNext, AtStart)
        BY <1>4 DEF Chain, Real
      <4>2. rent[i].period.due = p[i].start
        BY <1>5, <4>1 DEF PeriodAt, AtStart
      <4>3. p[i].start.month \in Nat /\ next.month \in Nat
        BY <3>2, <4>1, DatesAre
      <4>4. CASE i < j
        <5>1. p[i].start.month < next.month
          BY <1>4, <3>1, <4>4, ChainOrder
        <5> QED
          BY <3>2, <4>1, <4>2, <4>3, <4>4, <5>1, AfterIs
      <4>5. CASE i = j
        BY <3>1, <3>2, <4>2, <4>5, AfterIs
      <4>6. CASE i > j
        <5>1. next.month < p[i].start.month
          BY <1>4, <3>1, <4>6, ChainOrder
        <5> QED
          BY <3>2, <4>1, <4>2, <4>3, <4>6, <5>1, AfterIs
      <4> QED
        BY <1>5, <4>4, <4>5, <4>6
    <3>6. DueBefore(next) = SubSeq(rent, 1, j - 1)
      BY <1>5, <3>5, DueBeforeIs
    <3> DEFINE kept == SubSeq(rent, 1, j - 1)
               bills == RentBills(built, amount)
               m == Len(built)
               r == kept \o bills
    <3>7. kept \in Seq(RentRow) /\ Len(kept) = j - 1 /\ \A i \in 1..(j - 1) : kept[i] = rent[i]
      <4>1. \A i \in 1..(j - 1) : rent[i] \in RentRow
        BY <1>5
      <4>2. j - 1 \in Int /\ 1 \in Int /\ (j - 1) - 1 + 1 = j - 1 /\ j \in Nat /\ j >= 1
        BY <1>5
      <4> QED
        BY <4>1, <4>2, SubSeqProperties
    <3>8. bills \in Seq(RentRow) /\ Len(bills) = m /\ m \in Nat /\ \A i \in 1..m : bills[i].period = built[i]
      BY <3>4, BillsAre
    <3> HIDE DEF kept, bills
    <3>9. /\ r \in Seq(RentRow) /\ Len(r) = j - 1 + m
          /\ \A i \in 1..(j - 1) : r[i] = rent[i]
          /\ \A i \in 1..m : r[j - 1 + i] = bills[i]
      <4>1. j - 1 \in Nat
        BY <1>5
      <4> QED
        BY <3>7, <3>8, <4>1
    <3>10. rent' = r
      BY <1>2, <2>2, <3>6 DEF kept, bills
    <3> HIDE DEF r
    <3>11. \A i \in 1..(j - 1) : PeriodOf(r)[i] = p[i]
      <4> SUFFICES ASSUME NEW i \in 1..(j - 1) PROVE PeriodOf(r)[i] = p[i]
        OBVIOUS
      <4>1. i \in 1..n /\ i \in 1..Len(r)
        BY <1>5, <3>8, <3>9
      <4> QED
        BY <1>5, <3>9, <4>1 DEF PeriodOf
    <3>12. \A i \in 1..m : PeriodOf(r)[j - 1 + i] = built[i]
      <4> SUFFICES ASSUME NEW i \in 1..m PROVE PeriodOf(r)[j - 1 + i] = built[i]
        OBVIOUS
      <4>1. j - 1 + i \in 1..Len(r)
        BY <1>5, <3>8, <3>9
      <4> QED
        BY <3>8, <3>9, <4>1 DEF PeriodOf
    <3>13. Chain(j - 1 + m, PeriodOf(r), lease.start, end, RentNext, AtStart)
      <4>1. Chain(m, built, p[j].start, end, RentNext, AtStart)
        BY <3>1, <3>4
      <4>2. Chain(n, p, lease.start, end, RentNext, AtStart)
        BY <1>4
      <4> HIDE DEF p, n, m
      <4> QED
        BY <3>11, <3>12, <4>1, <4>2, ChainSplice
    <3> QED
      BY <3>9, <3>10, <3>13
  <2> QED
    BY <2>1, <2>2
<1>8. RentNext' = RentNext /\ PowerNext' = PowerNext
  BY <1>3 DEF RentNext, PowerNext
<1>9. PeriodOf(rent)' = PeriodOf(rent') /\ PeriodOf(power)' = PeriodOf(power)
  BY <1>2 DEF PeriodOf
<1>10. PeriodsInv'
  <2>1. ChainsTo(end)'
    BY <1>1, <1>2, <1>3, <1>7, <1>8, <1>9 DEF ChainsTo
  <2> QED
    BY <2>1 DEF PeriodsInv
<1>11. TypeInv'
  <2>1. Calls' = Calls
    BY <1>2, CallsStay
  <2> QED
    BY <1>2, <1>3, <1>4, <1>7, <2>1 DEF TypeInv, IsMetered, LookedUp
<1> QED
  BY <1>10, <1>11

-----------------------------------------------------------------------------
(* The open transactions.                                                  *)

Holds(c) ==
    /\ c # None
    /\ \/ c.op = "record" /\ c.stage = "lease"
       \/ c.op \in Settlements /\ c.stage \in {"lease", "bills"}

(* The token stands for what the preview has shown.                        *)
Shown(c) == c # None /\ c.op = "checkout" => c.token.line = c.shown

(* What a request has looked up is still the previous reading, unless one  *)
(* was recorded since.                                                     *)
Fresh(c) ==
    LookedUp(c) /\ c.stale = FALSE => c.previous = PreviousReading(power[c.bill].period.start)

CallsInv ==
    /\ \A q, r \in Reqs : Holds(call[q]) /\ Holds(call[r]) => q = r
    /\ \A q \in Reqs : Shown(call[q]) /\ Fresh(call[q])

LEMMA HoldsIs == ASSUME NEW q PROVE HoldsLease(q) <=> Holds(call[q])
  BY DEF HoldsLease, Holds, At, AtSettlement, Open

MoveTo(q, c) ==
    /\ c \in Calls /\ Moves(q, c) /\ (LookedUp(c) => c.previous \in Readings)
    /\ Holds(c) => Holds(call[q]) \/ LeaseFree(q)
    /\ Shown(c) /\ Fresh(c)

LEMMA NoneMoves == LookedUp(None) = FALSE /\ Holds(None) = FALSE /\ Shown(None) /\ Fresh(None)
  BY DEF LookedUp, Holds, Shown, Fresh

LEMMA RollbackMoves ==
    ASSUME TypeInv, NEW q \in Reqs, Rollback(q) PROVE MoveTo(q, None)
  BY NoneMoves DEF MoveTo, Rollback, Moves, Calls

LEMMA RequestMoves ==
    ASSUME TypeInv, NEW q \in Reqs,
           \/ \E i \in DOMAIN power, v \in Readings : CallRecordMeter(q, i, v)
           \/ \E day \in LastDays, op \in {"terminate", "force"} : CallTermination(q, op, day)
           \/ \E day \in LastDays, v \in Readings \cup {None} : PreviewCheckout(q, day, v)
    PROVE  \E c \in Calls : MoveTo(q, c)
<1>1. \A d \in LastDays : d \in Dates
  BY ValuesAssumption DEF Real
<1>2. ASSUME NEW i \in DOMAIN power, NEW v \in Readings, CallRecordMeter(q, i, v)
      PROVE  \E c \in Calls : MoveTo(q, c)
  <2> DEFINE c == [op |-> "record", bill |-> i, value |-> v, stage |-> "called",
                   previous |-> None, stale |-> FALSE]
  <2>1. c \in Calls /\ c.op = "record" /\ c.stage = "called"
    BY DEF Calls, RecordCalls
  <2>2. Moves(q, c)
    BY <1>2 DEF CallRecordMeter, Request, Moves
  <2> HIDE DEF c
  <2>3. MoveTo(q, c)
    BY <2>1, <2>2 DEF MoveTo, LookedUp, Holds, Shown, Fresh, Settlements
  <2> QED
    BY <2>1, <2>3
<1>3. ASSUME NEW day \in LastDays, NEW op \in {"terminate", "force"}, CallTermination(q, op, day)
      PROVE  \E c \in Calls : MoveTo(q, c)
  <2> DEFINE c == [op |-> op, day |-> day, value |-> None, stage |-> "called"]
  <2>1. c \in Calls /\ c.op = op /\ c.stage = "called"
    BY <1>1 DEF Calls, TerminationCalls
  <2>2. Moves(q, c)
    BY <1>3 DEF CallTermination, Request, Moves
  <2> HIDE DEF c
  <2>3. MoveTo(q, c)
    BY <2>1, <2>2 DEF MoveTo, LookedUp, Holds, Shown, Fresh, Settlements
  <2> QED
    BY <2>1, <2>3
<1>4. ASSUME NEW day \in LastDays, NEW v \in Readings \cup {None}, PreviewCheckout(q, day, v)
      PROVE  \E c \in Calls : MoveTo(q, c)
  <2> DEFINE k == [day |-> day, value |-> v]
             c == [op |-> "checkout", day |-> day, value |-> v, stage |-> "called",
                   shown |-> ElectricityLine(k), token |-> CheckoutSettlementToken(k)]
  <2>1. Moves(q, c)
    BY <1>4 DEF PreviewCheckout, Request, Moves
  <2>2. k.day \in Dates /\ k.value \in Readings \cup {None}
    BY <1>1
  <2> HIDE DEF k
  <2>3. ElectricityLine(k) \in Lines /\ CheckoutSettlementToken(k) \in Tokens
        /\ CheckoutSettlementToken(k).line = ElectricityLine(k)
    BY <2>2, LineTyped
  <2>4. c \in Calls /\ c.op = "checkout" /\ c.stage = "called" /\ c.token.line = c.shown
    BY <1>1, <2>3 DEF Calls, CheckoutCalls
  <2> HIDE DEF c
  <2>5. MoveTo(q, c)
    BY <2>1, <2>4 DEF MoveTo, LookedUp, Holds, Shown, Fresh, Settlements
  <2> QED
    BY <2>4, <2>5
<1> QED
  BY <1>2, <1>3, <1>4

LEMMA RecordMoves ==
    ASSUME TypeInv, CallsInv, NEW q \in Reqs,
           FindBillByIDForUpdate(q) \/ FindPreviousReading(q) \/ LockLease(q)
    PROVE  \E c \in Calls : MoveTo(q, c)
<1>1. call[q] \in RecordCalls /\ Open(q) /\ call[q].op = "record" /\ call \in [Reqs -> Calls]
  BY CallsAre DEF FindBillByIDForUpdate, FindPreviousReading, LockLease, At, TypeInv
<1>2. CASE FindBillByIDForUpdate(q)
  <2> DEFINE c == [call[q] EXCEPT !.stage = "bill"]
  <2>1. Moves(q, c)
    BY <1>1, <1>2 DEF FindBillByIDForUpdate, Advance, Moves
  <2>2. c \in RecordCalls /\ c.op = "record" /\ c.stage = "bill"
    BY <1>1 DEF RecordCalls
  <2> HIDE DEF c
  <2>3. MoveTo(q, c) /\ c \in Calls
    BY <2>1, <2>2 DEF MoveTo, LookedUp, Holds, Shown, Fresh, Settlements, Calls
  <2> QED
    BY <2>3
<1>3. CASE FindPreviousReading(q)
  <2> DEFINE prev == PreviousReading(power[call[q].bill].period.start)
             c == [call[q] EXCEPT !.stage = "read", !.previous = prev]
  <2>1. prev \in Readings
    BY PreviousTyped
  <2>2. Moves(q, c)
    BY <1>1, <1>3 DEF FindPreviousReading, Moves
  <2>3. c \in RecordCalls /\ c.op = "record" /\ c.stage = "read" /\ c.previous = prev /\ c.bill = call[q].bill
    <3> HIDE DEF prev
    <3> QED
      BY <1>1, <2>1 DEF RecordCalls
  <2> HIDE DEF c
  <2>4. Fresh(c)
    BY <2>3 DEF Fresh
  <2>5. MoveTo(q, c) /\ c \in Calls
    BY <2>1, <2>2, <2>3, <2>4 DEF MoveTo, Holds, Shown, Settlements, Calls
  <2> QED
    BY <2>5
<1>4. CASE LockLease(q)
  <2> DEFINE c == [call[q] EXCEPT !.stage = "lease"]
  <2>1. Moves(q, c) /\ LeaseFree(q) /\ call[q].stage = "read"
    BY <1>1, <1>4 DEF LockLease, Advance, Moves, At
  <2>2. /\ c \in RecordCalls /\ c.op = "record" /\ c.stage = "lease" /\ c.previous = call[q].previous
        /\ c.bill = call[q].bill /\ c.stale = call[q].stale
    BY <1>1 DEF RecordCalls
  <2>3. LookedUp(call[q]) /\ call[q].previous \in Readings /\ Fresh(call[q])
    <3>1. LookedUp(call[q])
      BY <1>1, <2>1 DEF LookedUp, Open
    <3> QED
      BY <3>1 DEF TypeInv, CallsInv
  <2> HIDE DEF c
  <2>4. Fresh(c)
    BY <2>2, <2>3 DEF Fresh
  <2>5. MoveTo(q, c) /\ c \in Calls
    BY <2>1, <2>2, <2>3, <2>4 DEF MoveTo, Shown, Settlements, Calls
  <2> QED
    BY <2>5
<1> QED
  BY <1>2, <1>3, <1>4

LEMMA SettlementMoves ==
    ASSUME TypeInv, CallsInv, NEW q \in Reqs, LockLeaseFirst(q) \/ ListBillsForUpdate(q)
    PROVE  \E c \in Calls : MoveTo(q, c)
<1>1. /\ call[q] \in TerminationCalls \cup CheckoutCalls /\ call \in [Reqs -> Calls]
      /\ Shown(call[q]) /\ Open(q) /\ call[q].op \in Settlements
  BY CallsAre DEF LockLeaseFirst, ListBillsForUpdate, AtSettlement, At, TypeInv, CallsInv
<1>2. PICK s \in {"lease", "bills"} :
          /\ Moves(q, [call[q] EXCEPT !.stage = s])
          /\ Holds(call[q]) \/ LeaseFree(q)
  <2>1. CASE LockLeaseFirst(q)
    BY <1>1, <2>1 DEF LockLeaseFirst, Advance, Moves
  <2>2. CASE ListBillsForUpdate(q)
    <3>1. Moves(q, [call[q] EXCEPT !.stage = "bills"])
      BY <1>1, <2>2 DEF ListBillsForUpdate, Advance, Moves
    <3>2. Holds(call[q])
      BY <1>1, <2>2 DEF ListBillsForUpdate, AtSettlement, At, Holds, Open
    <3> QED
      BY <3>1, <3>2
  <2> QED
    BY <2>1, <2>2
<1> DEFINE c == [call[q] EXCEPT !.stage = s]
<1>3. c \in TerminationCalls \cup CheckoutCalls /\ c.op = call[q].op /\ c.op # "record"
  BY <1>1, SettlementStage
<1>4. c.op = "checkout" => c.token = call[q].token /\ c.shown = call[q].shown
  <2>1. CASE call[q] \in CheckoutCalls
    BY <2>1 DEF CheckoutCalls
  <2>2. CASE call[q] \in TerminationCalls
    <3>1. call[q].op # "checkout"
      BY <2>2 DEF TerminationCalls
    <3> QED
      BY <1>3, <3>1
  <2> QED
    BY <1>1, <2>1, <2>2
<1>5. Moves(q, c)
  BY <1>2
<1> HIDE DEF c
<1>6. Shown(c)
  BY <1>1, <1>3, <1>4 DEF Shown, Open
<1>7. MoveTo(q, c) /\ c \in Calls
  BY <1>2, <1>3, <1>5, <1>6 DEF MoveTo, LookedUp, Fresh, Calls
<1> QED
  BY <1>7

LEMMA MovesKeep ==
    ASSUME TypeInv, PeriodsInv, CallsInv, NEW q \in Reqs, NEW c, MoveTo(q, c)
    PROVE  TypeInv' /\ PeriodsInv' /\ CallsInv'
<1>1. /\ call' = [call EXCEPT ![q] = c] /\ lease' = lease /\ rent' = rent /\ power' = power
      /\ final' = final /\ mixed' = mixed /\ call \in [Reqs -> Calls]
  BY DEF MoveTo, Moves, TypeInv
<1>2. TypeInv'
  BY MovesTyped DEF MoveTo
<1>3. PeriodsInv'
  <2>1. PeriodOf(rent)' = PeriodOf(rent) /\ PeriodOf(power)' = PeriodOf(power)
        /\ RentNext' = RentNext /\ PowerNext' = PowerNext
    BY <1>1 DEF PeriodOf, RentNext, PowerNext
  <2>2. \A end : ChainsTo(end)' <=> ChainsTo(end)
    BY <1>1, <2>1 DEF ChainsTo
  <2> QED
    BY <2>2 DEF PeriodsInv
<1>4. \A r \in Reqs : call'[r] = IF r = q THEN c ELSE call[r]
  BY <1>1
<1>7. \A r, s \in Reqs : Holds(call'[r]) /\ Holds(call'[s]) => r = s
  <2> SUFFICES ASSUME NEW r \in Reqs, NEW s \in Reqs, Holds(call'[r]), Holds(call'[s]), r # s PROVE FALSE
    OBVIOUS
  <2>1. ASSUME NEW t \in Reqs, t # q, Holds(c) PROVE ~Holds(call[t])
    BY <2>1, HoldsIs DEF MoveTo, LeaseFree, CallsInv
  <2> QED
    BY <1>4, <2>1 DEF CallsInv
<1>8. ASSUME NEW r \in Reqs PROVE Shown(call[r])' /\ Fresh(call[r])'
  <2>1. Shown(call'[r]) /\ Fresh(call'[r])
    BY <1>4 DEF MoveTo, CallsInv
  <2>2. PreviousReading(power[call[r].bill].period.start)' = PreviousReading(power[call'[r].bill].period.start)
    BY <1>1 DEF PreviousReading, Metered, IsMetered
  <2> QED
    BY <2>1, <2>2 DEF Fresh, Shown, LookedUp
<1>9. CallsInv'
  BY <1>7, <1>8 DEF CallsInv, Holds
<1> QED
  BY <1>2, <1>3, <1>9

LEMMA ClosedKeeps ==
    ASSUME TypeInv, CallsInv, NEW q \in Reqs, call' = Closed(q)
    PROVE  CallsInv'
<1>0. \A r \in Reqs : Shown(call[r]) /\ Fresh(call[r])
  BY DEF CallsInv
<1>1. ASSUME NEW r \in Reqs
      PROVE  /\ Holds(call'[r]) => r # q /\ Holds(call[r])
             /\ Shown(call'[r])
             /\ LookedUp(call'[r]) => call'[r].stale = TRUE
  <2>1. CASE r = q
    <3>1. call'[r] = None
      BY <2>1, ClosedTyped
    <3> QED
      BY <3>1, NoneMoves
  <2>2. CASE r # q /\ ~LookedUp(call[r])
    <3>1. call'[r] = call[r]
      BY <2>2, ClosedTyped
    <3> QED
      BY <1>0, <2>2, <3>1
  <2>3. CASE r # q /\ LookedUp(call[r])
    <3>1. call'[r].op = "record" /\ call'[r].stage = call[r].stage
      BY <2>3, ClosedTyped
    <3>2. LookedUp(call'[r]) => call'[r].stale = TRUE
      BY ClosedTyped
    <3> QED
      BY <2>3, <3>1, <3>2 DEF Holds, Shown, LookedUp, Settlements
  <2> QED
    BY <2>1, <2>2, <2>3
<1>2. \A r, s \in Reqs : Holds(call'[r]) /\ Holds(call'[s]) => r = s
  BY <1>1 DEF CallsInv
<1>3. ASSUME NEW r \in Reqs PROVE Shown(call[r])' /\ Fresh(call[r])'
  BY <1>1 DEF Shown, Fresh, LookedUp
<1> QED
  BY <1>2, <1>3 DEF CallsInv, Holds

(* A step that keeps the readings keeps what follows from them.            *)
LEMMA ReadingsKept ==
    ASSUME TypeInv, NEW m, Writes(m),
           \A i \in DOMAIN power : /\ m[i].reading = power[i].meter.reading
                                   /\ m[i].previous = power[i].meter.previous
    PROVE  /\ Metered' = Metered
           /\ \A i \in DOMAIN power : power'[i].meter.reading = power[i].meter.reading
                                      /\ power'[i].meter.previous = power[i].meter.previous
           /\ \A i \in Metered : Usage(power'[i].meter) = Usage(power[i].meter)
<1>1. DOMAIN power' = DOMAIN power
      /\ \A i \in DOMAIN power : power'[i].meter.reading = power[i].meter.reading
                                 /\ power'[i].meter.previous = power[i].meter.previous
  BY DEF Writes
<1>2. Metered' = Metered
  BY <1>1 DEF Metered, IsMetered
<1>3. \A i \in Metered : i \in DOMAIN power
  BY DEF Metered
<1> QED
  BY <1>1, <1>2, <1>3 DEF Usage

LEMMA PaymentKeepsCalls ==
    ASSUME TypeInv, CallsInv, NEW j \in DOMAIN power, RecordPayment(j)
    PROVE  CallsInv'
<1>1. call' = call /\ Writes(PaidAs(j)) /\ lease' = lease
      /\ \A i \in DOMAIN power : /\ PaidAs(j)[i].reading = power[i].meter.reading
                                 /\ PaidAs(j)[i].previous = power[i].meter.previous
  BY PaymentIs
<1>2. /\ Metered' = Metered /\ Metered \in SUBSET (1..Len(power)) /\ Len(power) \in Nat
      /\ \A i \in DOMAIN power : power'[i].meter.reading = power[i].meter.reading
  BY <1>1, ReadingsKept, MetersAre
<1>3. DOMAIN power = 1..Len(power) /\ \A i \in DOMAIN power : power'[i].period = power[i].period
  BY <1>1, MetersAre DEF Writes
<1>4. ASSUME NEW d PROVE PreviousReading(d)' = PreviousReading(d)
  <2> DEFINE before == {i \in Metered : After(d, power[i].period.end)}
  <2>1. {i \in Metered' : After(d, power'[i].period.end)} = before
    BY <1>2, <1>3
  <2>2. before \in SUBSET (1..Len(power)) /\ before \in SUBSET DOMAIN power
    BY <1>2, <1>3
  <2>3. PreviousReading(d) = IF before = {} THEN lease.meter ELSE power[Max(before)].meter.reading
    BY DEF PreviousReading
  <2>4. PreviousReading(d)' = IF before = {} THEN lease.meter ELSE power'[Max(before)].meter.reading
    BY <1>1, <2>1 DEF PreviousReading
  <2> HIDE DEF before
  <2>5. before # {} => Max(before) \in DOMAIN power
    BY <1>2, <2>2, MaxIs
  <2> QED
    BY <1>2, <2>3, <2>4, <2>5
<1>5. ASSUME NEW r \in Reqs PROVE Shown(call[r])' /\ Fresh(call[r])'
  <2>1. Shown(call[r]) /\ Fresh(call[r])
    BY DEF CallsInv
  <2>2. LookedUp(call[r]) => call[r].bill \in DOMAIN power
    BY CallsAre DEF LookedUp, Open, RecordCalls
  <2>3. LookedUp(call[r]) => power'[call'[r].bill].period.start = power[call[r].bill].period.start
    BY <1>1, <1>3, <2>2
  <2>4. \A d : PreviousReading(d)' = PreviousReading(d)
    BY <1>4
  <2>5. Fresh(call[r])'
    <3> DEFINE d == power[call[r].bill].period.start
    <3>1. SUFFICES ASSUME LookedUp(call[r]), call[r].stale = FALSE
                   PROVE  call[r].previous = PreviousReading(power[call[r].bill].period.start)'
      BY <1>1 DEF Fresh, LookedUp
    <3>2. call[r].previous = PreviousReading(d)
      BY <2>1, <3>1 DEF Fresh
    <3>3. d' = d
      BY <2>3, <3>1
    <3>4. PreviousReading(power[call[r].bill].period.start)'
            = LET before == {i \in Metered' : After(d', power'[i].period.end)}
              IN  IF before = {} THEN lease'.meter ELSE power'[Max(before)].meter.reading
      BY DEF PreviousReading
    <3>5. PreviousReading(d)
            = LET before == {i \in Metered : After(d, power[i].period.end)}
              IN  IF before = {} THEN lease.meter ELSE power[Max(before)].meter.reading
      BY DEF PreviousReading
    <3> HIDE DEF d
    <3> DEFINE before == {i \in Metered : After(d, power[i].period.end)}
    <3>6. {i \in Metered' : After(d', power'[i].period.end)} = before
      BY <1>2, <1>3, <3>3
    <3>7. before # {} => Max(before) \in DOMAIN power
      <4>1. before \in SUBSET (1..Len(power))
        BY <1>2
      <4> HIDE DEF before
      <4> QED
        BY <1>2, <1>3, <4>1, MaxIs
    <3> QED
      BY <1>1, <1>2, <3>2, <3>4, <3>5, <3>6, <3>7
  <2> QED
    BY <1>1, <2>1, <2>5 DEF Shown
<1> QED
  BY <1>1, <1>5 DEF CallsInv, Holds

LEMMA ChangeRentKeepsCalls ==
    ASSUME TypeInv, PeriodsInv, CallsInv, NEW day \in Days, NEW amount \in Rents, ChangeRent(day, amount)
    PROVE  CallsInv' /\ lease'.meter = lease.meter /\ lease'.status = lease.status
<1>1. /\ power' = power /\ call' = call /\ lease' = [lease EXCEPT !.amount = amount] /\ lease \in LeaseRow
  BY DEF ChangeRent, TypeInv
<1>2. lease'.meter = lease.meter /\ lease'.status = lease.status
  BY <1>1 DEF LeaseRow
<1>3. ASSUME NEW r \in Reqs PROVE Shown(call[r])' /\ Fresh(call[r])'
  <2>1. Shown(call[r]) /\ Fresh(call[r])
    BY DEF CallsInv
  <2>2. PreviousReading(power[call[r].bill].period.start)' = PreviousReading(power[call[r].bill].period.start)
    BY <1>1, <1>2 DEF PreviousReading, Metered, IsMetered
  <2> QED
    BY <1>1, <2>1, <2>2 DEF Shown, Fresh, LookedUp
<1> QED
  BY <1>1, <1>2, <1>3 DEF CallsInv, Holds

-----------------------------------------------------------------------------
(* The readings in the order of the periods, and what they charge.         *)

LastBill == IF Metered = {} THEN lease.meter ELSE power[Max(Metered)].meter.reading
Charged == SumFunction([i \in Metered |-> Usage(power[i].meter)])

LEMMA PowerOrder ==
    ASSUME TypeInv, PeriodsInv, NEW i \in DOMAIN power, NEW j \in DOMAIN power
    PROVE  After(power[j].period.start, power[i].period.end) <=> i < j
<1> DEFINE n == Len(power)
           p == PeriodOf(power)
           due == AtAnchor(lease.start.day)
<1>1. PICK end \in Dates : ChainsTo(end)
  BY DEF PeriodsInv
<1>2. i \in 1..n /\ j \in 1..n /\ \A k \in 1..n : p[k] = power[k].period
  BY MetersAre DEF PeriodOf
<1>3. /\ Chain(n, p, lease.start, end, PowerNext, due) /\ Real(end)
      /\ Steps(PowerNext) /\ Real(lease.start) /\ due \in [Dates -> Dates]
  BY <1>1, LeaseIs DEF ChainsTo
<1> HIDE DEF n, p, due
<1>4. After(p[j].start, p[i].end) <=> i < j
  BY <1>2, <1>3, ChainBefore
<1> QED
  BY <1>2, <1>4

(* Behind all readings the last one is the previous one.                   *)
LEMMA PreviousIsLast ==
    ASSUME NEW d, \A i \in Metered : After(d, power[i].period.end)
    PROVE  PreviousReading(d) = LastBill
<1>1. {i \in Metered : After(d, power[i].period.end)} = Metered
  OBVIOUS
<1> QED
  BY <1>1 DEF PreviousReading, LastBill

LEMMA ChargedTyped ==
    ASSUME TypeInv
    PROVE  /\ IsFiniteSet(Metered) /\ Metered \in SUBSET DOMAIN power
           /\ \A i \in Metered : Usage(power[i].meter) \in Int
           /\ Charged \in Int /\ LastBill \in Int /\ lease.meter \in Int
<1> DEFINE f == [i \in Metered |-> Usage(power[i].meter)]
<1>1. Metered \in SUBSET (1..Len(power)) /\ Len(power) \in Nat /\ DOMAIN power = 1..Len(power)
  BY MetersAre
<1>2. IsFiniteSet(Metered)
  <2>1. IsFiniteSet(1..Len(power))
    BY <1>1, FS_Interval
  <2> QED
    BY <1>1, <2>1, FS_Subset
<1>3. \A i \in Metered : power[i].meter.reading \in Int /\ Usage(power[i].meter) \in Int
  <2>1. \A i \in Metered : power[i].meter.reading \in Int /\ power[i].meter.previous \in Int
    BY MetersAre, ValuesAssumption
  <2> QED
    BY <2>1 DEF Usage
<1>4. f \in [Metered -> Int]
  BY <1>3
<1>5. PICK it : Totals(Metered, f, it) /\ SumFunction(f) = it[Metered]
  <2> HIDE DEF f
  <2> QED
    BY <1>2, <1>4, SumIs
<1>6. it[Metered] \in Int
  <2>1. Metered \in SUBSET Metered
    OBVIOUS
  <2> HIDE DEF f
  <2> QED
    BY <1>2, <1>4, <1>5, <2>1, SumSplit
<1>7. lease.meter \in Int
  BY ValuesAssumption DEF TypeInv, LeaseRow
<1>8. Metered # {} => Max(Metered) \in Metered
  BY <1>1, MaxIs
<1>9. LastBill \in Int
  BY <1>3, <1>7, <1>8 DEF LastBill
<1> QED
  BY <1>1, <1>2, <1>3, <1>5, <1>6, <1>7, <1>9 DEF Charged

(* A step that keeps the readings keeps what they charge.                  *)
LEMMA ChargedSame ==
    ASSUME TypeInv, lease'.meter = lease.meter, DOMAIN power' = DOMAIN power,
           \A i \in DOMAIN power : /\ power'[i].meter.reading = power[i].meter.reading
                                   /\ power'[i].meter.previous = power[i].meter.previous
    PROVE  Charged' = Charged /\ LastBill' = LastBill /\ Metered' = Metered
<1>1. Metered' = Metered
  BY DEF Metered, IsMetered
<1>2. \A i \in Metered : i \in DOMAIN power
  BY DEF Metered
<1>3. \A i \in Metered : Usage(power'[i].meter) = Usage(power[i].meter)
  BY <1>2 DEF Usage
<1>4. [i \in Metered' |-> Usage(power'[i].meter)] = [i \in Metered |-> Usage(power[i].meter)]
  BY <1>1, <1>3
<1>6. Charged' = Charged
  BY <1>4 DEF Charged, Usage
<1>7. Metered # {} => Max(Metered) \in DOMAIN power
  <2>1. Metered \in SUBSET (1..Len(power)) /\ Len(power) \in Nat
    BY MetersAre
  <2> QED
    BY <1>2, <2>1, MaxIs
<1>8. LastBill' = LastBill
  BY <1>1, <1>7 DEF LastBill
<1> QED
  BY <1>1, <1>6, <1>8

(* One more bill gets its reading, behind all others and with the last     *)
(* reading as its previous one.                                            *)
LEMMA OneMore ==
    ASSUME TypeInv, NEW m, Writes(m), NEW b \in DOMAIN power, b \notin Metered,
           m[b].reading \in Readings, m[b].previous \in Readings,
           \A i \in DOMAIN power : i # b => m[i] = power[i].meter,
           \A i \in Metered : i < b
    PROVE  /\ Charged' = Charged + Usage(m[b])
           /\ LastBill' = m[b].reading
<1> DEFINE f == [i \in Metered \cup {b} |-> Usage(power'[i].meter)]
           g == [i \in Metered |-> Usage(power[i].meter)]
<1>1. /\ DOMAIN power' = DOMAIN power /\ power'[b].meter = m[b]
      /\ \A i \in DOMAIN power : i # b => power'[i].meter = power[i].meter
  BY DEF Writes
<1>2. m[b].reading # None
  BY NoneAssumption
<1>3. Metered' = Metered \cup {b}
  BY <1>1, <1>2 DEF Metered, IsMetered
<1>4. \A i \in Metered : i \in DOMAIN power /\ i # b
  BY DEF Metered
<1>5. Usage(m[b]) \in Int
  <2>1. m[b].reading \in Int /\ m[b].previous \in Int
    BY ValuesAssumption
  <2> QED
    BY <2>1 DEF Usage
<1>6. \A i \in Metered : f[i] = g[i]
  BY <1>1, <1>4
<1>7. f \in [Metered \cup {b} -> Int] /\ g \in [Metered -> Int] /\ f[b] = Usage(m[b])
  <2>1. \A i \in Metered : Usage(power[i].meter) \in Int
    BY ChargedTyped
  <2>2. \A i \in Metered \cup {b} : Usage(power'[i].meter) \in Int
    BY <1>1, <1>4, <1>5, <2>1
  <2> QED
    BY <1>1, <2>1, <2>2
<1>8. SumFunction(f) = f[b] + SumFunction(g)
  <2> DEFINE S == Metered
             T == Metered \cup {b}
  <2>1. IsFiniteSet(S) /\ T = S \cup {b} /\ b \in T /\ b \notin S
    BY ChargedTyped
  <2>2. f \in [T -> Int] /\ g \in [S -> Int] /\ \A i \in S : f[i] = g[i]
    BY <1>6, <1>7
  <2> HIDE DEF f, g, S, T
  <2> QED
    BY <2>1, <2>2, SumOfMore
<1>9. Charged' = SumFunction(f) /\ Charged = SumFunction(g)
  BY <1>3 DEF Charged, Usage
<1>10. Charged' = Charged + Usage(m[b])
  <2> HIDE DEF f, g
  <2>1. Charged \in Int
    BY ChargedTyped
  <2> QED
    BY <1>5, <1>7, <1>8, <1>9, <2>1
<1>11. Max(Metered \cup {b}) = b
  <2>1. /\ Len(power) \in Nat /\ Metered \cup {b} \in SUBSET (1..Len(power)) /\ b \in Metered \cup {b}
        /\ Metered \cup {b} # {} /\ b \in Int /\ \A i \in Metered : i \in Int
    BY MetersAre
  <2>2. Max(Metered \cup {b}) \in Metered \cup {b} /\ Max(Metered \cup {b}) >= b
    BY <2>1, MaxIs
  <2> QED
    BY <2>1, <2>2
<1>12. LastBill' = m[b].reading
  BY <1>1, <1>3, <1>11 DEF LastBill
<1> QED
  BY <1>10, <1>12


-----------------------------------------------------------------------------
(* What is charged.                                                        *)

(* A running lease has no final electricity and no waived bill, an ended   *)
(* one no bill without its reading.                                        *)
StatusInv ==
    /\ lease.status = "active" => final = None /\ \A i \in DOMAIN power : power[i].meter.status # "written_off"
    /\ lease.status = "ended" => \A i \in DOMAIN power : power[i].meter.status # "pending_meter"

UsageInv ==
    mixed \/ Charged + (IF final = None THEN 0 ELSE Usage(final))
             = (IF final # None THEN final.reading ELSE LastBill) - lease.meter

LEMMA UsageIs == UsageInv <=> UsageBilledOnce
  BY DEF UsageInv, UsageBilledOnce, UsageBilled, LastReading, Charged, LastBill

(* A pending bill is one without a reading.                                *)
LEMMA PendingIs ==
    ASSUME TypeInv, NEW i \in DOMAIN power, power[i].meter.status = "pending_meter"
    PROVE  i \notin Metered /\ power[i].meter \in Pending
<1>1. power[i].meter \in Meters
  BY MetersAre
<1>2. power[i].meter \in Pending
  BY <1>1 DEF Meters, Pending, Recorded, Waived
<1> QED
  BY <1>2 DEF Pending, Metered, IsMetered

LEMMA InitCharges == ASSUME Init PROVE CallsInv /\ StatusInv /\ UsageInv
<1>1. TypeInv /\ final = None /\ mixed = FALSE /\ lease.status = "active"
      /\ call = [q \in Reqs |-> None]
  BY InitTypes, LeasesAssumption DEF Init
<1>2. CallsInv
  BY <1>1, NoneMoves DEF CallsInv
<1>3. \A i \in DOMAIN power : power[i].meter.status = "pending_meter"
  <2> DEFINE es == BuildBillingPeriods(lease.start, lease.end, lease.powerCadence)
  <2>1. power = PowerBills(es)
    BY DEF Init
  <2> HIDE DEF es
  <2>2. power = [i \in DOMAIN es |-> [period |-> es[i],
                     meter |-> [status |-> "pending_meter", reading |-> None, previous |-> None]]]
    BY <2>1 DEF PowerBills
  <2> QED
    BY <2>2
<1>4. StatusInv
  BY <1>1, <1>3 DEF StatusInv
<1>5. Metered = {}
  BY <1>1, <1>3, PendingIs DEF Metered
<1>6. Charged = 0
  <2> DEFINE f == [i \in Metered |-> Usage(power[i].meter)]
  <2>1. f \in [{} -> Int]
    BY <1>5
  <2>2. Charged = SumFunction(f)
    BY DEF Charged
  <2> HIDE DEF f
  <2> QED
    BY <2>1, <2>2, SumOfNone
<1>7. LastBill = lease.meter /\ lease.meter \in Int
  BY <1>1, <1>5, ChargedTyped DEF LastBill
<1> QED
  BY <1>1, <1>2, <1>4, <1>6, <1>7 DEF UsageInv

LEMMA UnchangedCharges ==
    ASSUME TypeInv, StatusInv, UsageInv, power' = power, final' = final, mixed' = mixed,
           lease'.meter = lease.meter, lease'.status = lease.status
    PROVE  StatusInv' /\ UsageInv'
<1>1. Charged' = Charged /\ LastBill' = LastBill
  BY ChargedSame
<1>2. Usage(final)' = Usage(final)
  BY DEF Usage
<1> QED
  BY <1>1, <1>2 DEF StatusInv, UsageInv

LEMMA PaymentCharges ==
    ASSUME TypeInv, StatusInv, UsageInv, NEW j \in DOMAIN power, RecordPayment(j)
    PROVE  StatusInv' /\ UsageInv'
<1>1. /\ Writes(PaidAs(j)) /\ lease' = lease /\ final' = final /\ mixed' = mixed
      /\ \A i \in DOMAIN power : /\ PaidAs(j)[i].reading = power[i].meter.reading
                                 /\ PaidAs(j)[i].previous = power[i].meter.previous
                                 /\ i # j => PaidAs(j)[i] = power[i].meter
      /\ PaidAs(j)[j].status = "paid"
  BY PaymentIs
<1>2. /\ DOMAIN power' = DOMAIN power
      /\ \A i \in DOMAIN power : power'[i].meter = PaidAs(j)[i]
  BY <1>1 DEF Writes
<1>3. Charged' = Charged /\ LastBill' = LastBill
  BY <1>1, <1>2, ChargedSame
<1>4. StatusInv'
  <2>1. \A i \in DOMAIN power : power'[i].meter.status = IF i = j THEN "paid" ELSE power[i].meter.status
    BY <1>1, <1>2
  <2> QED
    BY <1>1, <1>2, <2>1 DEF StatusInv
<1>5. Usage(final)' = Usage(final)
  BY <1>1 DEF Usage
<1> QED
  BY <1>1, <1>3, <1>4, <1>5 DEF UsageInv

LEMMA RecordingCharges ==
    ASSUME TypeInv, PeriodsInv, CallsInv, StatusInv, UsageInv, NEW q \in Reqs, RecordMeter(q)
    PROVE  StatusInv' /\ UsageInv'
<1> DEFINE b == call[q].bill
           m == RecordedAs(q)
<1>1. /\ Writes(m) /\ lease' = lease /\ final' = final /\ LookedUp(call[q]) /\ b \in DOMAIN power
      /\ call[q].value \in Readings /\ call[q].previous \in Readings
  BY RecordingIs
<1>2. power[b].meter.status = "pending_meter" /\ mixed' = (mixed \/ OutOfTurn(q))
  BY DEF RecordMeter
<1>3. b \notin Metered
  BY <1>1, <1>2, PendingIs
<1>4. lease.status = "active" /\ final = None
  <2>1. lease.status \in {"active", "ended"}
    BY LeaseIs
  <2> QED
    BY <1>1, <1>2, <2>1 DEF StatusInv
<1>5. /\ \A i \in DOMAIN power : i # b => m[i] = power[i].meter
      /\ m[b] = UpdateMeter(call[q]) /\ m[b].status = "pending_payment"
      /\ m[b].reading = call[q].value /\ m[b].previous = call[q].previous
  BY <1>1 DEF RecordedAs, UpdateMeter
<1>6. /\ DOMAIN power' = DOMAIN power /\ power'[b].meter = m[b]
      /\ \A i \in DOMAIN power : i # b => power'[i].meter = power[i].meter
  BY <1>1, <1>5 DEF Writes
<1> HIDE DEF m, b
<1>7. StatusInv'
  <2>1. \A i \in DOMAIN power : power'[i].meter.status # "written_off"
    BY <1>4, <1>5, <1>6 DEF StatusInv
  <2> QED
    BY <1>1, <1>4, <1>6, <2>1 DEF StatusInv
<1>8. ASSUME ~mixed' PROVE UsageInv'
  <2>1. ~mixed /\ ~OutOfTurn(q)
    BY <1>2, <1>8 DEF TypeInv
  <2>2. \A i \in Metered : i < b
    <3>1. b \in Int /\ \A i \in Metered : i \in Int
      BY <1>1, MetersAre
    <3>2. \A i \in Metered : ~(i > b)
      BY <2>1 DEF OutOfTurn, b
    <3> QED
      BY <1>3, <3>1, <3>2
  <2>3. call[q].previous = LastBill
    <3>1. call[q].stale = FALSE
      <4>1. call[q].stale \in BOOLEAN
        BY <1>1, CallsAre DEF LookedUp, Open, RecordCalls
      <4> QED
        BY <2>1, <4>1 DEF OutOfTurn
    <3>2. call[q].previous = PreviousReading(power[b].period.start)
      BY <1>1, <3>1 DEF CallsInv, Fresh, b
    <3>3. \A i \in Metered : After(power[b].period.start, power[i].period.end)
      BY <1>1, <2>2, PowerOrder DEF Metered
    <3> QED
      BY <3>2, <3>3, PreviousIsLast
  <2>4. Charged' = Charged + Usage(m[b]) /\ LastBill' = m[b].reading
    BY <1>1, <1>3, <1>5, <2>2, OneMore
  <2>5. Usage(m[b]) = call[q].value - LastBill /\ LastBill' = call[q].value
    BY <1>5, <2>3, <2>4 DEF Usage
  <2>6. Charged = LastBill - lease.meter
    <3>1. Charged \in Int
      BY ChargedTyped
    <3> QED
      BY <1>4, <2>1, <3>1 DEF UsageInv
  <2>7. Charged' = LastBill' - lease'.meter
    <3>1. Charged \in Int /\ LastBill \in Int /\ lease.meter \in Int /\ call[q].value \in Int
      BY <1>1, ChargedTyped, ValuesAssumption
    <3> QED
      BY <1>1, <2>4, <2>5, <2>6, <3>1
  <2>8. final' = None /\ Charged' \in Int
    <3>1. Charged \in Int /\ call[q].value \in Int /\ LastBill \in Int
      BY <1>1, ChargedTyped, ValuesAssumption
    <3> QED
      BY <1>1, <1>4, <2>4, <2>5, <3>1
  <2> QED
    BY <2>7, <2>8 DEF UsageInv
<1>9. mixed' => UsageInv'
  BY DEF UsageInv
<1> QED
  BY <1>7, <1>8, <1>9


(* The bill that a checkout resolves is the only one without a reading.    *)
LEMMA ResolvableIs ==
    ASSUME TypeInv, NEW c
    PROVE  \/ ResolvableBill(c) = {} /\ SourceStart(c) = DayAfter(c.day)
           \/ \E b \in DOMAIN power : /\ ResolvableBill(c) = {b} /\ power[b].meter.status = "pending_meter"
                                      /\ SourceStart(c) = power[b].period.start
<1>1. CASE ResolvableBill(c) = {}
  BY <1>1 DEF SourceStart
<1>2. CASE ResolvableBill(c) # {}
  <2> DEFINE P == WithStatus("pending_meter")
  <2>1. Cardinality(P) = 1 /\ ResolvableBill(c) \in SUBSET P
    BY <1>2 DEF ResolvableBill
  <2>2. P \in SUBSET DOMAIN power /\ DOMAIN power = 1..Len(power) /\ Len(power) \in Nat
    BY MetersAre DEF WithStatus
  <2>3. \A i \in P : power[i].meter.status = "pending_meter"
    BY DEF WithStatus
  <2> HIDE DEF P
  <2>4. IsFiniteSet(P)
    <3>1. IsFiniteSet(1..Len(power))
      BY <2>2, FS_Interval
    <3> QED
      BY <2>2, <3>1, FS_Subset
  <2>5. PICK b : P = {b}
    BY <2>1, <2>4, FS_Singleton
  <2>6. ResolvableBill(c) = {b}
    BY <1>2, <2>1, <2>5
  <2>7. SourceStart(c) = power[b].period.start
    BY <2>6 DEF SourceStart
  <2> QED
    BY <2>2, <2>3, <2>5, <2>6, <2>7
<1> QED
  BY <1>1, <1>2

LEMMA CheckoutCharges ==
    ASSUME TypeInv, PeriodsInv, CallsInv, StatusInv, UsageInv, NEW q \in Reqs, FinalizeCheckout(q)
    PROVE  /\ StatusInv' /\ UsageInv'
           /\ final' \in [reading : Readings, previous : Readings] \cup {None}
           /\ mixed' \in BOOLEAN
           /\ \A i \in DOMAIN power : LET m == SettledAs(ElectricityLine(call[q]))
                                      IN  m[i].reading # None => m[i].previous \in Readings
<1> DEFINE c == call[q]
           line == ElectricityLine(c)
           m == SettledAs(line)
           bills == ResolvableBill(c)
           prev == PreviousReading(SourceStart(c))
<1>1. /\ Writes(m) /\ lease'.status = "ended" /\ c \in CheckoutCalls /\ line \in Lines
  BY CheckoutIs
<1>2. c.value \in Readings \cup {None}
  BY <1>1 DEF CheckoutCalls
<1>3. /\ lease.status # "ended" /\ WithStatus("pending_meter") = bills
      /\ final' = (IF line # None /\ line.bill = {}
                   THEN [reading |-> line.reading, previous |-> line.previous] ELSE None)
      /\ mixed' = (mixed \/ \E i \in Metered : ~After(SourceStart(c), power[i].period.end))
  BY DEF FinalizeCheckout, Blocked
<1>4. lease.status = "active" /\ final = None /\ mixed \in BOOLEAN
  BY <1>3, LeaseIs DEF StatusInv, TypeInv
<1>5. /\ line = (IF c.value = None \/ (bills = {} /\ c.value = prev) THEN None
                 ELSE [bill |-> bills, reading |-> c.value, previous |-> prev])
      /\ \A i \in DOMAIN power : m[i] = IF line # None /\ i \in line.bill THEN SettledBill(line) ELSE power[i].meter
      /\ DOMAIN power' = DOMAIN power /\ \A i \in DOMAIN power : power'[i].meter = m[i]
  BY <1>1 DEF ElectricityLine, SettledAs, Writes
<1>6. \/ bills = {} /\ SourceStart(c) = DayAfter(c.day)
      \/ \E b \in DOMAIN power : /\ bills = {b} /\ power[b].meter.status = "pending_meter"
                                 /\ SourceStart(c) = power[b].period.start
  BY ResolvableIs
<1>7. prev \in Readings
  BY PreviousTyped
<1>8. bills # {} => c.value # None
  BY DEF ResolvableBill
<1>9. lease'.meter = lease.meter
  BY <1>1 DEF Writes
<1>10. ~mixed' => ~mixed /\ prev = LastBill
  BY <1>3, PreviousIsLast
<1>11. /\ Charged \in Int /\ LastBill \in Int /\ lease.meter \in Int
       /\ ~mixed => Charged = LastBill - lease.meter
  BY <1>4, ChargedTyped DEF UsageInv
<1>12. None \notin [bill : SUBSET Nat, reading : Readings, previous : Readings]
       /\ None \notin [reading : Readings, previous : Readings]
  BY NoneAssumption
<1>13. ASSUME bills = {} PROVE Charged' = Charged /\ LastBill' = LastBill
  <2>1. \A i \in DOMAIN power : power'[i].meter = power[i].meter
    <3>1. line # None => line.bill = {}
      BY <1>5, <1>13
    <3> QED
      BY <1>5, <3>1
  <2> QED
    BY <1>5, <1>9, <2>1, ChargedSame
<1> HIDE DEF c, line, m, bills, prev
<1>14. CASE line = None
  <2>1. bills = {} /\ final' = None /\ \A i \in DOMAIN power : m[i] = power[i].meter
    <3>1. bills # {} => line = [bill |-> bills, reading |-> c.value, previous |-> prev]
      BY <1>5, <1>8
    <3>2. ASSUME bills # {} PROVE FALSE
      <4>1. bills \in SUBSET Nat
        BY <1>6, MetersAre
      <4>2. c.value \in Readings
        BY <1>2, <1>8, <3>2
      <4>3. [bill |-> bills, reading |-> c.value, previous |-> prev]
              \in [bill : SUBSET Nat, reading : Readings, previous : Readings]
        BY <1>7, <4>1, <4>2
      <4> QED
        BY <1>12, <1>14, <3>1, <3>2, <4>3
    <3> QED
      BY <1>3, <1>5, <1>12, <1>14, <3>2
  <2>2. StatusInv'
    <3>1. \A i \in DOMAIN power : power[i].meter.status # "pending_meter"
      BY <1>3, <2>1 DEF WithStatus
    <3> QED
      BY <1>1, <1>5, <2>1, <3>1 DEF StatusInv
  <2>3. UsageInv'
    BY <1>9, <1>10, <1>11, <1>13, <2>1 DEF UsageInv
  <2>4. \A i \in DOMAIN power : m[i].reading # None => m[i].previous \in Readings
    BY <2>1 DEF TypeInv, IsMetered
  <2> QED
    BY <1>3, <1>4, <2>1, <2>2, <2>3, <2>4 DEF c, line, m
<1>15. CASE line # None
  <2>1. /\ line = [bill |-> bills, reading |-> c.value, previous |-> prev]
        /\ c.value \in Readings /\ line.bill = bills /\ line.reading = c.value /\ line.previous = prev
    BY <1>2, <1>5, <1>15
  <2>2. SettledBill(line).status = "paid" /\ SettledBill(line).reading = c.value /\ SettledBill(line).previous = prev
    BY <2>1 DEF SettledBill
  <2>3. \A i \in DOMAIN power : m[i].reading # None => m[i].previous \in Readings
    BY <1>5, <1>7, <2>2 DEF TypeInv, IsMetered
  <2>4. StatusInv'
    <3>1. \A i \in DOMAIN power : i \notin bills => power[i].meter.status # "pending_meter"
      BY <1>3 DEF WithStatus
    <3>2. \A i \in DOMAIN power : power'[i].meter.status # "pending_meter"
      BY <1>5, <1>15, <2>1, <2>2, <3>1
    <3> QED
      BY <1>1, <1>5, <3>2 DEF StatusInv
  <2>5. c.value \in Int
    BY <2>1, ValuesAssumption
  <2>6. CASE bills = {}
    <3>1. final' = [reading |-> c.value, previous |-> prev] /\ final' \in [reading : Readings, previous : Readings]
      BY <1>3, <1>7, <1>15, <2>1, <2>6
    <3>2. final' # None /\ Usage(final') = c.value - prev /\ final'.reading = c.value
      BY <1>12, <3>1 DEF Usage
    <3>3. Usage(final)' = Usage(final')
      BY DEF Usage
    <3>4. UsageInv'
      <4>1. ASSUME ~mixed' PROVE Charged' + Usage(final)' = final'.reading - lease'.meter
        BY <1>9, <1>10, <1>11, <1>13, <2>5, <2>6, <3>2, <3>3, <4>1
      <4> QED
        BY <3>2, <4>1 DEF UsageInv
    <3> QED
      BY <1>3, <1>4, <2>3, <2>4, <3>1, <3>4 DEF c, line, m
  <2>7. CASE bills # {}
    <3>1. PICK b \in DOMAIN power : /\ bills = {b} /\ power[b].meter.status = "pending_meter"
                                    /\ SourceStart(c) = power[b].period.start
      BY <1>6, <2>7
    <3>2. final' = None
      BY <1>3, <2>1, <2>7
    <3>3. b \notin Metered
      BY <3>1, PendingIs
    <3>4. m[b].reading = c.value /\ m[b].previous = prev /\ \A i \in DOMAIN power : i # b => m[i] = power[i].meter
      BY <1>5, <1>15, <2>1, <2>2, <3>1
    <3>5. ASSUME ~mixed' PROVE Charged' + 0 = LastBill' - lease'.meter
      <4>1. \A i \in Metered : i < b
        <5>1. \A i \in Metered : i \in DOMAIN power /\ After(power[b].period.start, power[i].period.end)
          BY <1>3, <3>1, <3>5 DEF Metered
        <5> QED
          BY <3>1, <5>1, PowerOrder
      <4>2. Charged' = Charged + Usage(m[b]) /\ LastBill' = c.value
        BY <1>1, <1>7, <2>1, <3>3, <3>4, <4>1, OneMore
      <4>3. Usage(m[b]) = c.value - LastBill
        BY <1>10, <3>4, <3>5 DEF Usage
      <4> QED
        BY <1>9, <1>10, <1>11, <2>5, <3>5, <4>2, <4>3
    <3>6. UsageInv'
      BY <3>2, <3>5 DEF UsageInv
    <3> QED
      BY <1>3, <1>4, <2>3, <2>4, <3>2, <3>6 DEF c, line, m
  <2> QED
    BY <2>6, <2>7
<1> QED
  BY <1>14, <1>15

LEMMA TerminationCharges ==
    ASSUME TypeInv, StatusInv, UsageInv, NEW q \in Reqs, TerminateLease(q)
    PROVE  StatusInv' /\ UsageInv'
<1>1. Writes(MeterNow) /\ lease'.status = "ended" /\ power' = power /\ final' = final /\ mixed' = mixed
      /\ WithStatus("pending_meter") = {}
  BY TerminationIs DEF TerminateLease
<1>2. lease'.meter = lease.meter
  BY <1>1 DEF Writes
<1>3. Charged' = Charged /\ LastBill' = LastBill
  BY <1>1, <1>2, ChargedSame
<1>4. \A i \in DOMAIN power : power[i].meter.status # "pending_meter"
  BY <1>1 DEF WithStatus
<1>5. Usage(final)' = Usage(final)
  BY <1>1 DEF Usage
<1> QED
  BY <1>1, <1>2, <1>3, <1>4, <1>5 DEF StatusInv, UsageInv

LEMMA ForceCharges ==
    ASSUME TypeInv, StatusInv, UsageInv, NEW q \in Reqs, ForceTerminateLease(q)
    PROVE  StatusInv' /\ UsageInv'
<1>1. Writes(WaivedAs) /\ lease'.status = "ended" /\ final' = final /\ mixed' = mixed
      /\ \A i \in DOMAIN power : /\ WaivedAs[i].reading = power[i].meter.reading
                                 /\ WaivedAs[i].previous = power[i].meter.previous
                                 /\ WaivedAs[i].status \in {"paid", "written_off"}
  BY ForceIs DEF ForceTerminateLease
<1>2. /\ lease'.meter = lease.meter /\ DOMAIN power' = DOMAIN power
      /\ \A i \in DOMAIN power : power'[i].meter = WaivedAs[i]
  BY <1>1 DEF Writes
<1>3. Charged' = Charged /\ LastBill' = LastBill
  BY <1>1, <1>2, ChargedSame
<1>4. \A i \in DOMAIN power' : power'[i].meter.status # "pending_meter"
  BY <1>1, <1>2
<1>5. Usage(final)' = Usage(final)
  BY <1>1 DEF Usage
<1> QED
  BY <1>1, <1>2, <1>3, <1>4, <1>5 DEF StatusInv, UsageInv


-----------------------------------------------------------------------------
(* The lists of meters.                                                    *)

LEMMA HistoryIs ==
    ASSUME TypeInv
    PROVE  /\ ListRoomMeterHistory = ListPropertyMeterHistory
           /\ ListRoomMeterHistory = {HistoryRow(i) : i \in {j \in Metered : power[j].meter.status # "written_off"}}
<1> DEFINE R == {j \in DOMAIN power : power[j].meter.reading # None /\ power[j].meter.status # "written_off"}
           P == {j \in DOMAIN power : /\ power[j].meter.previous # None /\ power[j].meter.reading # None
                                      /\ power[j].meter.status \in {"pending_payment", "paid"}}
           M == {j \in Metered : power[j].meter.status # "written_off"}
<1>1. R = M
  BY DEF Metered, IsMetered
<1>2. R = P
  <2> SUFFICES ASSUME NEW j \in DOMAIN power, power[j].meter.reading # None
               PROVE  power[j].meter.status # "written_off"
                      <=> power[j].meter.previous # None /\ power[j].meter.status \in {"pending_payment", "paid"}
    OBVIOUS
  <2>1. power[j].meter \in Meters /\ power[j].meter.previous \in Readings
    BY MetersAre DEF Metered, IsMetered
  <2>2. power[j].meter.previous # None
    BY <2>1, NoneAssumption
  <2>3. power[j].meter \in Recorded \cup Waived
    BY <2>1 DEF Meters, Pending
  <2> QED
    BY <2>2, <2>3 DEF Recorded, Waived
<1>3. ListRoomMeterHistory = {HistoryRow(i) : i \in R} /\ ListPropertyMeterHistory = {HistoryRow(i) : i \in P}
  BY DEF ListRoomMeterHistory, ListPropertyMeterHistory
<1> QED
  BY <1>1, <1>2, <1>3

LEMMA ListsAgree == ASSUME TypeInv, PeriodsInv, StatusInv PROVE MeterListsAgree
<1> DEFINE L == ListRoomMeterHistory
           P == ListPendingMeters
<1>1. L = {HistoryRow(i) : i \in {j \in Metered : power[j].meter.status # "written_off"}}
  BY HistoryIs
<1>2. P = {[bill |-> i, previous |-> PreviousReading(power[i].period.start)] : i \in WithStatus("pending_meter")}
  BY DEF ListPendingMeters
<1>3. \A i : HistoryRow(i).bill = i /\ HistoryRow(i).reading = power[i].meter.reading
  BY DEF HistoryRow
<1>4. ListRoomMeterHistory = ListPropertyMeterHistory
  BY HistoryIs
<1> HIDE DEF L, P
<1>5. {r.bill : r \in L} = {j \in Metered : power[j].meter.status # "written_off"}
  BY <1>1, <1>3
<1>6. {r.bill : r \in P} = WithStatus("pending_meter")
  <2> DEFINE pending(i) == [bill |-> i, previous |-> PreviousReading(power[i].period.start)]
  <2>1. \A i : pending(i).bill = i
    OBVIOUS
  <2>2. P = {pending(i) : i \in WithStatus("pending_meter")}
    BY <1>2
  <2> HIDE DEF pending
  <2> QED
    BY <2>1, <2>2
<1>7. ASSUME lease.status = "active"
      PROVE  /\ {r.bill : r \in L} = Metered
             /\ {r.bill : r \in L} \cup {r.bill : r \in P} = DOMAIN power
             /\ {r.bill : r \in L} \cap {r.bill : r \in P} = {}
  <2>1. \A i \in DOMAIN power : power[i].meter.status # "written_off" /\ power[i].meter \in Meters
    BY <1>7, MetersAre DEF StatusInv
  <2>2. Metered \in SUBSET DOMAIN power
    BY DEF Metered
  <2>3. {r.bill : r \in L} = Metered
    BY <1>5, <2>1, <2>2
  <2>4. \A i \in DOMAIN power : i \in Metered \/ i \in WithStatus("pending_meter")
    <3> SUFFICES ASSUME NEW i \in DOMAIN power PROVE i \in Metered \/ power[i].meter.status = "pending_meter"
      BY DEF WithStatus
    <3>1. power[i].meter \in Pending \cup Recorded
      BY <2>1 DEF Meters, Waived
    <3> QED
      BY <3>1, NoneAssumption DEF Pending, Recorded, Metered, IsMetered
  <2>5. \A i \in WithStatus("pending_meter") : i \in DOMAIN power /\ i \notin Metered
    BY PendingIs DEF WithStatus
  <2> QED
    BY <1>6, <2>2, <2>3, <2>4, <2>5
<1>8. ASSUME lease.status = "active", NEW p \in P, {r \in L : r.bill < p.bill} # {}
      PROVE  LET before == {r \in L : r.bill < p.bill}
             IN  \E r \in before : r.reading = p.previous /\ \A s \in before : s.bill <= r.bill
  <2>1. PICK b \in WithStatus("pending_meter") :
            p = [bill |-> b, previous |-> PreviousReading(power[b].period.start)]
    BY <1>2
  <2> DEFINE B == {i \in Metered : After(power[b].period.start, power[i].period.end)}
             before == {r \in L : r.bill < p.bill}
             k == Max(B)
             r == HistoryRow(k)
  <2>2. b \in DOMAIN power /\ p.bill = b /\ p.previous = PreviousReading(power[b].period.start)
    BY <2>1 DEF WithStatus
  <2>3. Metered \in SUBSET DOMAIN power /\ DOMAIN power = 1..Len(power) /\ Len(power) \in Nat
    BY MetersAre
  <2>4. \A i \in Metered : i \in B <=> i < b
    BY <2>2, <2>3, PowerOrder
  <2>5. \A s \in L : s.bill \in Metered
    BY <1>5
  <2>6. \A s \in before : s.bill \in B
    BY <2>2, <2>4, <2>5
  <2>7. B # {}
    BY <1>8, <2>6
  <2>8. p.previous = power[Max(B)].meter.reading
    BY <2>2, <2>7 DEF PreviousReading
  <2>9. B \in SUBSET (1..Len(power))
    BY <2>3
  <2> HIDE DEF B
  <2>10. k \in B /\ \A i \in B : k >= i
    BY <2>3, <2>7, <2>9, MaxIs
  <2>11. k \in Metered /\ k < b /\ k \in Int
    BY <2>3, <2>4, <2>9, <2>10 DEF B
  <2>12. r \in L /\ r.bill = k /\ r.reading = power[k].meter.reading
    <3>1. \A i \in Metered : i \in {j \in Metered : power[j].meter.status # "written_off"}
      BY <1>5, <1>7, <1>8
    <3>2. k \in {j \in Metered : power[j].meter.status # "written_off"}
      BY <2>11, <3>1
    <3> HIDE DEF k
    <3> QED
      BY <1>1, <1>3, <3>2
  <2> HIDE DEF r, k
  <2>13. r \in before
    BY <2>2, <2>11, <2>12
  <2>14. \A s \in before : s.bill <= r.bill
    <3>1. \A i \in B : i <= k
      BY <2>9, <2>10, <2>11
    <3> QED
      BY <2>6, <2>12, <3>1
  <2>15. r.reading = p.previous
    BY <2>8, <2>12 DEF k
  <2> QED
    BY <2>13, <2>14, <2>15
<1>9. ASSUME NEW p \in ListPendingMeters
      PROVE  LET before == {r \in ListRoomMeterHistory : r.bill < p.bill}
             IN  lease.status = "active" /\ before # {} =>
                     \E r \in before : r.reading = p.previous /\ \A s \in before : s.bill <= r.bill
  BY <1>8 DEF L, P
<1>10. lease.status = "active" =>
           /\ {r.bill : r \in ListRoomMeterHistory} \cup {r.bill : r \in ListPendingMeters} = DOMAIN power
           /\ {r.bill : r \in ListRoomMeterHistory} \cap {r.bill : r \in ListPendingMeters} = {}
  BY <1>7 DEF L, P
<1> QED
  BY <1>4, <1>9, <1>10 DEF MeterListsAgree

-----------------------------------------------------------------------------
(* The inductive invariant: the types, the chains of periods, what the     *)
(* open transactions have read and hold, the statuses and the charges.     *)
IInv == TypeInv /\ PeriodsInv /\ CallsInv /\ StatusInv /\ UsageInv

LEMMA InitIInv == ASSUME Init PROVE IInv
  BY InitTypes, InitCharges DEF IInv

LEMMA MoveKeeps ==
    ASSUME IInv, NEW q \in Reqs, \E c \in Calls : MoveTo(q, c)
    PROVE  IInv'
<1>1. PICK c \in Calls : MoveTo(q, c)
  OBVIOUS
<1>2. TypeInv' /\ PeriodsInv' /\ CallsInv'
  BY <1>1, MovesKeep DEF IInv
<1>3. power' = power /\ final' = final /\ mixed' = mixed /\ lease' = lease
  BY <1>1 DEF MoveTo, Moves
<1> QED
  BY <1>2, <1>3, UnchangedCharges DEF IInv

LEMMA RecordKeeps == ASSUME IInv, NEW q \in Reqs, RecordMeter(q) PROVE IInv'
<1> DEFINE m == RecordedAs(q)
<1>1. Writes(m) /\ final' = final /\ call' = Closed(q) /\ mixed' \in BOOLEAN
      /\ call[q].previous \in Readings /\ call[q].bill \in DOMAIN power
  BY RecordingIs DEF IInv, RecordMeter, OutOfTurn, TypeInv
<1>2. \A i \in DOMAIN power : m[i].reading # None => m[i].previous \in Readings
  BY <1>1 DEF RecordedAs, UpdateMeter, IInv, TypeInv, IsMetered
<1>3. TypeInv'
  BY <1>1, <1>2, WritesTyped DEF IInv, TypeInv
<1>4. PeriodsInv' /\ CallsInv'
  BY <1>1, WritesKeepPeriods, ClosedKeeps DEF IInv
<1> QED
  BY <1>3, <1>4, RecordingCharges DEF IInv

LEMMA CheckoutKeeps == ASSUME IInv, NEW q \in Reqs, FinalizeCheckout(q) PROVE IInv'
<1> DEFINE m == SettledAs(ElectricityLine(call[q]))
<1>1. Writes(m) /\ call' = Closed(q)
  BY CheckoutIs DEF IInv, FinalizeCheckout
<1>2. /\ StatusInv' /\ UsageInv'
      /\ final' \in [reading : Readings, previous : Readings] \cup {None}
      /\ mixed' \in BOOLEAN
      /\ \A i \in DOMAIN power : m[i].reading # None => m[i].previous \in Readings
  BY CheckoutCharges DEF IInv
<1> HIDE DEF m
<1>3. TypeInv'
  BY <1>1, <1>2, WritesTyped DEF IInv
<1>4. PeriodsInv' /\ CallsInv'
  BY <1>1, WritesKeepPeriods, ClosedKeeps DEF IInv
<1> QED
  BY <1>2, <1>3, <1>4 DEF IInv

LEMMA TerminationKeeps ==
    ASSUME IInv, NEW q \in Reqs, TerminateLease(q) \/ ForceTerminateLease(q) PROVE IInv'
<1>1. /\ final' = final /\ mixed' = mixed /\ call' = Closed(q)
      /\ final' \in [reading : Readings, previous : Readings] \cup {None} /\ mixed' \in BOOLEAN
  BY DEF TerminateLease, ForceTerminateLease, IInv, TypeInv
<1>2. \A i \in DOMAIN power : power[i].meter.reading # None => power[i].meter.previous \in Readings
  BY DEF IInv, TypeInv, IsMetered
<1>3. PICK m : /\ Writes(m)
               /\ \A i \in DOMAIN power : m[i].reading # None => m[i].previous \in Readings
  <2>1. CASE TerminateLease(q)
    <3>1. Writes(MeterNow) /\ \A i \in DOMAIN power : MeterNow[i] = power[i].meter
      BY <2>1, TerminationIs DEF IInv, MeterNow
    <3> QED
      BY <1>2, <3>1
  <2>2. CASE ForceTerminateLease(q)
    <3>1. Writes(WaivedAs) /\ \A i \in DOMAIN power : /\ WaivedAs[i].reading = power[i].meter.reading
                                                      /\ WaivedAs[i].previous = power[i].meter.previous
      BY <2>2, ForceIs DEF IInv
    <3> QED
      BY <1>2, <3>1
  <2> QED
    BY <2>1, <2>2
<1>4. TypeInv'
  BY <1>1, <1>3, WritesTyped DEF IInv
<1>5. PeriodsInv' /\ CallsInv'
  BY <1>1, <1>3, WritesKeepPeriods, ClosedKeeps DEF IInv
<1>6. StatusInv' /\ UsageInv'
  BY TerminationCharges, ForceCharges DEF IInv
<1> QED
  BY <1>4, <1>5, <1>6 DEF IInv

LEMMA PaymentKeeps == ASSUME IInv, NEW j \in DOMAIN power, RecordPayment(j) PROVE IInv'
<1>1. /\ Writes(PaidAs(j)) /\ final' = final /\ mixed' = mixed /\ call' = call
      /\ \A i \in DOMAIN power : /\ PaidAs(j)[i].reading = power[i].meter.reading
                                 /\ PaidAs(j)[i].previous = power[i].meter.previous
  BY PaymentIs DEF IInv
<1>2. \A i \in DOMAIN power : PaidAs(j)[i].reading # None => PaidAs(j)[i].previous \in Readings
  BY <1>1 DEF IInv, TypeInv, IsMetered
<1>3. final' \in [reading : Readings, previous : Readings] \cup {None} /\ mixed' \in BOOLEAN
  BY <1>1 DEF IInv, TypeInv
<1>4. TypeInv'
  BY <1>1, <1>2, <1>3, WritesTyped DEF IInv
<1>5. PeriodsInv'
  BY <1>1, WritesKeepPeriods DEF IInv
<1> QED
  BY <1>4, <1>5, PaymentKeepsCalls, PaymentCharges DEF IInv

LEMMA RentKeeps ==
    ASSUME IInv, NEW day \in Days, NEW amount \in Rents, ChangeRent(day, amount) PROVE IInv'
<1>1. TypeInv' /\ PeriodsInv' /\ CallsInv' /\ lease'.meter = lease.meter /\ lease'.status = lease.status
  BY ChangeRentIs, ChangeRentKeepsCalls DEF IInv
<1>2. power' = power /\ final' = final /\ mixed' = mixed
  BY DEF ChangeRent
<1> QED
  BY <1>1, <1>2, UnchangedCharges DEF IInv

LEMMA NextKeepsIInv == ASSUME IInv, [Next]_vars PROVE IInv'
<1>1. CASE UNCHANGED vars
  <2>1. /\ lease' = lease /\ rent' = rent /\ power' = power /\ final' = final /\ call' = call
        /\ mixed' = mixed
    BY <1>1 DEF vars
  <2>2. Calls' = Calls
    BY <2>1, CallsStay
  <2>3. TypeInv'
    BY <2>1, <2>2 DEF IInv, TypeInv, IsMetered, LookedUp
  <2>4. PeriodsInv'
    <3>1. PeriodOf(rent)' = PeriodOf(rent) /\ PeriodOf(power)' = PeriodOf(power)
          /\ RentNext' = RentNext /\ PowerNext' = PowerNext
      BY <2>1 DEF PeriodOf, RentNext, PowerNext
    <3>2. \A end : ChainsTo(end)' <=> ChainsTo(end)
      BY <2>1, <3>1 DEF ChainsTo
    <3> QED
      BY <3>2 DEF PeriodsInv, IInv
  <2>5. CallsInv'
    <3>1. ASSUME NEW r \in Reqs PROVE Shown(call[r])' /\ Fresh(call[r])'
      <4>1. Shown(call[r]) /\ Fresh(call[r])
        BY DEF IInv, CallsInv
      <4>2. PreviousReading(power[call[r].bill].period.start)'
              = PreviousReading(power[call[r].bill].period.start)
        BY <2>1 DEF PreviousReading, Metered, IsMetered
      <4> QED
        BY <2>1, <4>1, <4>2 DEF Shown, Fresh, LookedUp
    <3> QED
      BY <2>1, <3>1 DEF IInv, CallsInv, Holds
  <2>6. StatusInv' /\ UsageInv'
    BY <2>1, UnchangedCharges DEF IInv
  <2> QED
    BY <2>3, <2>4, <2>5, <2>6 DEF IInv
<1>2. ASSUME NEW day \in Days, NEW amount \in Rents, ChangeRent(day, amount) PROVE IInv'
  BY <1>2, RentKeeps
<1>3. ASSUME NEW q \in Reqs,
             \/ \E i \in DOMAIN power, v \in Readings : CallRecordMeter(q, i, v)
             \/ \E day \in LastDays, op \in {"terminate", "force"} : CallTermination(q, op, day)
             \/ \E day \in LastDays, v \in Readings \cup {None} : PreviewCheckout(q, day, v)
      PROVE  IInv'
  BY <1>3, RequestMoves, MoveKeeps DEF IInv
<1>4. ASSUME NEW q \in Reqs, FindBillByIDForUpdate(q) \/ FindPreviousReading(q) \/ LockLease(q) PROVE IInv'
  BY <1>4, RecordMoves, MoveKeeps DEF IInv
<1>5. ASSUME NEW q \in Reqs, LockLeaseFirst(q) \/ ListBillsForUpdate(q) PROVE IInv'
  BY <1>5, SettlementMoves, MoveKeeps DEF IInv
<1>6. ASSUME NEW q \in Reqs, RecordMeter(q) PROVE IInv'
  BY <1>6, RecordKeeps
<1>7. ASSUME NEW q \in Reqs, FinalizeCheckout(q) PROVE IInv'
  BY <1>7, CheckoutKeeps
<1>8. ASSUME NEW q \in Reqs, TerminateLease(q) \/ ForceTerminateLease(q) PROVE IInv'
  BY <1>8, TerminationKeeps
<1>9. ASSUME NEW q \in Reqs, Rollback(q) PROVE IInv'
  <2>1. None \in Calls /\ MoveTo(q, None)
    BY <1>9, RollbackMoves DEF IInv, Calls
  <2> QED
    BY <2>1, MoveKeeps
<1>10. ASSUME NEW i \in DOMAIN power, RecordPayment(i) PROVE IInv'
  BY <1>10, PaymentKeeps
<1> QED
  BY <1>1, <1>2, <1>3, <1>4, <1>5, <1>6, <1>7, <1>8, <1>9, <1>10 DEF Next, Step

-----------------------------------------------------------------------------
(* Whoever ends a running lease by a checkout settles what it was shown: no *)
(* other transaction can end the lease while it holds the lease's row.     *)
LEMMA StepSettlesAsShown ==
    ASSUME IInv, [Next]_vars, NEW r \in Reqs, At(r, "checkout", "bills"),
           lease.status = "active", lease'.status = "ended"
    PROVE  ElectricityLine(call[r]) = call[r].shown
<1>1. \E q \in Reqs : FinalizeCheckout(q) \/ TerminateLease(q) \/ ForceTerminateLease(q)
  <2>1. lease' # lease
    OBVIOUS
  <2>2. ASSUME NEW day, NEW amount, ChangeRent(day, amount) PROVE FALSE
    <3>1. lease \in LeaseRow
      BY DEF IInv, TypeInv
    <3> QED
      BY <2>2, <3>1 DEF ChangeRent, LeaseRow
  <2>3. \/ \E day \in Days, amount \in Rents : ChangeRent(day, amount)
        \/ \E q \in Reqs : FinalizeCheckout(q) \/ TerminateLease(q) \/ ForceTerminateLease(q)
    BY <2>1 DEF Next, Step, vars, CallRecordMeter, CallTermination, PreviewCheckout, Request, Rollback,
                FindBillByIDForUpdate, FindPreviousReading, LockLease, Advance, RecordMeter,
                LockLeaseFirst, ListBillsForUpdate, RecordPayment
  <2> QED
    BY <2>2, <2>3
<1>2. PICK q \in Reqs : FinalizeCheckout(q) \/ TerminateLease(q) \/ ForceTerminateLease(q)
  BY <1>1
<1>3. Holds(call[q]) /\ Holds(call[r])
  BY <1>2 DEF FinalizeCheckout, TerminateLease, ForceTerminateLease, At, Open, Holds, Settlements
<1>4. q = r
  BY <1>3 DEF IInv, CallsInv
<1>5. FinalizeCheckout(r)
  BY <1>2, <1>4 DEF TerminateLease, ForceTerminateLease, At
<1>6. CheckoutSettlementToken(call[r]) = call[r].token
  BY <1>5 DEF FinalizeCheckout
<1>7. CheckoutSettlementToken(call[r]).line = ElectricityLine(call[r])
  BY DEF CheckoutSettlementToken
<1>8. call[r].token.line = call[r].shown
  BY DEF IInv, CallsInv, Shown, At, Open
<1> QED
  BY <1>6, <1>7, <1>8

-----------------------------------------------------------------------------
(* What holds of every state: types, periods, what the open transactions  *)
(* have read, statuses and usage; every action of MeterReadings keeps it.  *)
THEOREM SpecInv == Spec => []IInv
<1>1. Init => IInv
  BY InitIInv
<1>2. IInv /\ [Next]_vars => IInv'
  BY NextKeepsIInv
<1> QED
  BY <1>1, <1>2, PTL DEF Spec

(* Every day of a lease is on one rent bill and one electricity bill,      *)
(* whatever day of the month it starts on and however often its rent is    *)
(* changed (buildAnchoredPeriods, NextRentPaymentDateAfter and             *)
(* isCompleteBoundaryBill agree on where the periods start).               *)
THEOREM PeriodsAlwaysTile == Spec => []PeriodsTileLease
<1>1. IInv => PeriodsTileLease
  BY PeriodsTile DEF IInv
<1> QED
  BY <1>1, SpecInv, PTL

(* What the bills and the checkout charge is what the meter has counted,   *)
(* unless readings were recorded out of turn, and the lists of meters show *)
(* what is charged or still to be read (RecordMeter, FinalizeCheckout,     *)
(* ListPendingMeters, ListPropertyMeterHistory, ListRoomMeterHistory).     *)
THEOREM UsageAlwaysAccounted == Spec => []UsageAccounted
<1>1. IInv => UsageAccounted
  BY TypesImplied, UsageIs, ListsAgree DEF IInv, UsageAccounted
<1> QED
  BY <1>1, SpecInv, PTL

(* A checkout that ends a running lease charges the electricity that its   *)
(* preview has shown, whatever was committed in between (FinalizeCheckout  *)
(* compares CheckoutSettlementToken).                                      *)
THEOREM AlwaysSettledAsShown == Spec => SettledAsShown
<1> DEFINE A == \A q \in Reqs :
                    At(q, "checkout", "bills") /\ lease.status = "active" /\ lease'.status = "ended"
                    => ElectricityLine(call[q]) = call[q].shown
<1>1. IInv /\ [Next]_vars => A
  BY StepSettlesAsShown
<1>2. IInv /\ [Next]_vars => [A]_vars
  BY <1>1
<1>3. Spec => [][A]_vars
  BY <1>2, SpecInv, PTL DEF Spec
<1> QED
  BY <1>3 DEF SettledAsShown

-----------------------------------------------------------------------------
(* PagedLists: the lists that a caller walks page by page.                 *)

(* The types of all variables but the histories.                           *)
Listing ==
    /\ list \in Lists /\ live \in SUBSET Properties
    /\ who \in [role : Roles, props : SUBSET Properties]
    /\ filter \in (IF list \in {"rooms", "roster"} THEN Properties ELSE Properties \cup {Absent})
    /\ row \in [Ids -> Rows(list) \cup {Absent}]
    /\ changes \in 0..MaxChanges

LEMMA RowsAre ==
    ASSUME Listing, NEW r \in Present
    PROVE  /\ row[r] \in Rows(list) /\ r \in Ids /\ row[r].in \in SUBSET Properties
           /\ row[r].key \in 1..MaxKey
           /\ list = "users" => row[r].in = {}
           /\ list \notin {"users", "tenants"} => \E p \in Properties : row[r].in = {p}
<1>1. r \in Ids /\ row[r] # Absent
  BY DEF Present
<1>2. row[r] \in Rows(list)
  BY <1>1 DEF Listing
<1> QED
  BY <1>1, <1>2 DEF Rows

LEMMA ListedIs ==
    ASSUME Listing, NEW f PROVE Listed(f) \in SUBSET Present
<1>1. list \in {"leases", "reviews", "tenants", "rooms", "roster", "bills", "journals", "repairs", "users"}
  BY DEF Listing, Lists
<1> QED
  BY <1>1 DEF Listed, LeaseRows, ReviewRows, TenantRows, RoomRows, RosterRows, BillRows,
              JournalRows, RepairRows, UserRows, Scoped, Present

LEMMA Reachable ==
    ASSUME Listing PROVE ListedIsReachable
<1> SUFFICES ASSUME who.role \in AllowedRoles
             PROVE  UNION {Listed(f) : f \in {g \in Properties \cup (IF list \in {"rooms", "roster"} THEN {} ELSE {Absent}) : MayList(g)}}
                      = {r \in Present : Opens(r)}
  BY DEF ListedIsReachable
<1> DEFINE F == Properties \cup (IF list \in {"rooms", "roster"} THEN {} ELSE {Absent})
<1>0. Absent \notin Properties
  BY SizesAssumption
<1>1. \A f : Listed(f) \in SUBSET Present
  BY ListedIs
<1>2. who.role \in {"admin", "organizer", "staff", "owner"}
      /\ (list \notin {"rooms", "roster", "bills"} => who.role # "owner")
  BY DEF AllowedRoles
<1>3. \A f : MayList(f) <=> (f # Absent => MayUse(f))
  BY DEF MayList
<1>4. ASSUME NEW r \in Present
      PROVE  Opens(r) <=> \E f \in F : (f # Absent => MayUse(f)) /\ r \in Listed(f)
  <2>1. row[r].in \in SUBSET Properties
    BY RowsAre
  <2>2. CASE list \in {"leases", "reviews"}
    <3>1. Opens(r) <=> \E p \in row[r].in : MayUse(p) /\ InScope(p)
      BY <2>2 DEF Opens, LeaseOpens
    <3>2. \A f : r \in Listed(f) <=> \E p \in row[r].in : InScope(p) /\ Matches(p, f)
      BY <2>2 DEF Listed, LeaseRows, ReviewRows, Scoped
    <3> QED
      BY <1>0, <1>2, <2>1, <2>2, <3>1, <3>2 DEF InScope, Matches, MayUse
  <2>3. CASE list \in {"journals", "repairs"}
    <3>1. Opens(r) <=> \E p \in row[r].in : MayUse(p)
      BY <2>3 DEF Opens, JournalOpens, RepairOpens
    <3>2. \A f : r \in Listed(f) <=> \E p \in row[r].in : InScope(p) /\ Matches(p, f)
      BY <2>3 DEF Listed, JournalRows, RepairRows, Scoped
    <3> QED
      BY <1>0, <1>2, <2>1, <2>3, <3>1, <3>2 DEF InScope, Matches, MayUse
  <2>4. CASE list = "bills"
    <3>1. Opens(r) <=> \E p \in row[r].in : /\ MayUse(p) /\ InScope(p)
                                            /\ (who.role = "owner" => p \in who.props \cap live)
      BY <2>4 DEF Opens, BillOpens
    <3>2. \A f : r \in Listed(f) <=> \E p \in row[r].in : /\ InScope(p) /\ Matches(p, f)
                                                          /\ who.role = "owner" => p \in who.props /\ p \in live
      BY <2>4 DEF Listed, BillRows
    <3> QED
      BY <1>0, <1>2, <2>1, <2>4, <3>1, <3>2 DEF InScope, Matches, MayUse, OwnerOf
  <2>5. CASE list = "rooms"
    <3>1. Opens(r) <=> \E p \in row[r].in : MayUse(p)
      BY <2>5 DEF Opens, RoomOpens
    <3>2. \A f : r \in Listed(f) <=> row[r].in = {f}
      BY <2>5 DEF Listed, RoomRows
    <3>3. \E p \in Properties : row[r].in = {p}
      BY <2>5, RowsAre
    <3> QED
      BY <1>0, <2>5, <3>1, <3>2, <3>3
  <2>6. CASE list = "roster"
    <3>1. Opens(r) <=> \E p \in row[r].in : MayUse(p) /\ p \in live
      BY <2>6 DEF Opens, RosterOpens
    <3>2. \A f : r \in Listed(f) <=> /\ row[r].in = {f} /\ f \in live /\ InScope(f)
                                     /\ who.role = "owner" => f \in who.props
      BY <2>6 DEF Listed, RosterRows
    <3>3. PICK p \in Properties : row[r].in = {p}
      BY <2>6, RowsAre
    <3> QED
      BY <1>0, <1>2, <2>6, <3>1, <3>2, <3>3 DEF InScope, MayUse, OwnerOf
  <2>7. CASE list = "tenants"
    <3>1. Opens(r) <=> who.role = "admin" \/ \E p \in row[r].in : InScope(p)
      BY <2>7 DEF Opens, TenantOpens
    <3>2. \A f : r \in Listed(f) <=> \/ \E p \in row[r].in : InScope(p) /\ Matches(p, f)
                                     \/ who.role = "admin" /\ f = Absent
      BY <2>7 DEF Listed, TenantRows, Joined
    <3> QED
      BY <1>0, <1>2, <2>1, <2>7, <3>1, <3>2 DEF InScope, Matches, MayUse
  <2>8. CASE list = "users"
    <3>1. Opens(r) /\ \A f : r \in Listed(f)
      BY <2>8 DEF Opens, Listed, UserRows
    <3> QED
      BY <2>8, <3>1
  <2> QED
    BY <2>2, <2>3, <2>4, <2>5, <2>6, <2>7, <2>8 DEF Listing, Lists
<1> QED
  BY <1>1, <1>3, <1>4

-----------------------------------------------------------------------------
(* Rows in the order of their keys.  Where ties is TRUE the rows of one    *)
(* key come in any order, otherwise the larger id is first.                *)

LEMMA ImageSize ==
    ASSUME NEW T, IsFiniteSet(T), NEW s, \A i, j \in T : i # j => s[i] # s[j]
    PROVE  IsFiniteSet({s[i] : i \in T}) /\ Cardinality({s[i] : i \in T}) = Cardinality(T)
<1> DEFINE S == {s[i] : i \in T}
           f == [i \in T |-> s[i]]
<1>1. f \in [T -> S]
  OBVIOUS
<1>2. \A x \in S : \E i \in T : f[i] = x
  OBVIOUS
<1>3. \A i, j \in T : f[i] = f[j] => i = j
  OBVIOUS
<1> HIDE DEF f, S
<1>4. f \in Bijection(T, S)
  BY <1>1, <1>2, <1>3 DEF Bijection, Injection, Surjection, IsInjective
<1>5. ExistsBijection(T, S)
  BY <1>4 DEF ExistsBijection
<1>6. IsFiniteSet(S) /\ Cardinality(S) = Cardinality(T)
  BY <1>5, FS_Bijection
<1> QED
  BY <1>6 DEF S

LEMMA LargestOf ==
    ASSUME NEW S, IsFiniteSet(S), S # {}, NEW k, \A x \in S : k[x] \in Int
    PROVE  \E x \in S : \A y \in S : k[x] >= k[y]
<1> DEFINE B == {{y \in S : k[y] > k[x]} : x \in S}
<1>1. B \in SUBSET SUBSET S /\ B # {}
  OBVIOUS
<1> HIDE DEF B
<1>2. PICK b \in B : \A c \in B : Cardinality(b) <= Cardinality(c)
  BY <1>1, SmallestSet
<1>3. PICK x \in S : b = {y \in S : k[y] > k[x]}
  BY DEF B
<1>4. ASSUME NEW y \in S, k[y] > k[x] PROVE FALSE
  <2> DEFINE c == {z \in S : k[z] > k[y]}
  <2>1. c \in B /\ c \in SUBSET (b \ {y}) /\ y \in b /\ b \in SUBSET S
    BY <1>3, <1>4 DEF B
  <2> HIDE DEF c
  <2>2. Cardinality(b) \in Nat /\ Cardinality(b \ {y}) = Cardinality(b) - 1 /\ b \ {y} \in SUBSET S
    BY <2>1, SmallerSet
  <2>3. IsFiniteSet(b \ {y})
    BY <2>2, FS_Subset
  <2>4. Cardinality(c) <= Cardinality(b \ {y}) /\ IsFiniteSet(c)
    BY <2>1, <2>3, FS_Subset
  <2>5. Cardinality(c) \in Nat /\ Cardinality(b) <= Cardinality(c)
    BY <1>2, <2>1, <2>4, FS_CardinalityType
  <2> QED
    BY <2>2, <2>4, <2>5
<1> QED
  BY <1>3, <1>4

Before(k, ties, x, y) == k[x] > k[y] \/ (~ties /\ k[x] = k[y] /\ x > y)
Fore(S, k, ties, y) == {x \in S : Before(k, ties, x, y)}
Upto(S, k, ties, y) == {x \in S : x = y \/ ~Before(k, ties, y, x)}

LEMMA Placed ==
    ASSUME NEW S \in SUBSET Int, IsFiniteSet(S), NEW k, \A x \in S : k[x] \in Int, NEW ties \in BOOLEAN,
           NEW n \in Nat, n = Cardinality(S), NEW s \in [1..n -> S],
           \A i, j \in 1..n : i < j => s[i] # s[j] /\ ~Before(k, ties, s[j], s[i]),
           NEW i \in 1..n
    PROVE  /\ Cardinality(Fore(S, k, ties, s[i])) \in Nat /\ Cardinality(Upto(S, k, ties, s[i])) \in Nat
           /\ Cardinality(Fore(S, k, ties, s[i])) < i
           /\ i <= Cardinality(Upto(S, k, ties, s[i]))
<1> DEFINE y == s[i]
           A == {s[j] : j \in 1..(i - 1)}
           B == {s[j] : j \in 1..i}
           F == Fore(S, k, ties, y)
           U == Upto(S, k, ties, y)
<1>1. /\ F \in SUBSET S /\ U \in SUBSET S /\ IsFiniteSet(F) /\ IsFiniteSet(U)
      /\ Cardinality(F) \in Nat /\ Cardinality(U) \in Nat
  <2>1. F \in SUBSET S /\ U \in SUBSET S
    BY DEF Fore, Upto
  <2> HIDE DEF F, U
  <2>2. IsFiniteSet(F) /\ IsFiniteSet(U)
    BY <2>1, FS_Subset
  <2> QED
    BY <2>1, <2>2, FS_CardinalityType
<1>2. \A a, b \in 1..n : a # b => s[a] # s[b]
  OBVIOUS
<1>3. \A c \in 0..n : /\ IsFiniteSet({s[j] : j \in 1..c}) /\ Cardinality({s[j] : j \in 1..c}) = c
  <2> SUFFICES ASSUME NEW c \in 0..n
               PROVE  IsFiniteSet({s[j] : j \in 1..c}) /\ Cardinality({s[j] : j \in 1..c}) = c
    OBVIOUS
  <2>1. IsFiniteSet(1..c) /\ Cardinality(1..c) = c
    BY FS_Interval
  <2>2. \A a, b \in 1..c : a # b => s[a] # s[b]
    BY <1>2
  <2> QED
    BY <2>1, <2>2, ImageSize
<1>4. IsFiniteSet(A) /\ Cardinality(A) = i - 1 /\ IsFiniteSet(B) /\ Cardinality(B) = i
  <2>1. i - 1 \in 0..n /\ i \in 0..n
    OBVIOUS
  <2> QED
    BY <1>3, <2>1
<1>8. \A x \in S : ~Before(k, ties, x, x)
  BY DEF Before
<1>5. \A x \in S : \E j \in 1..n : x = s[j]
  <2> DEFINE C == {s[j] : j \in 1..n}
  <2>1. C \in SUBSET S
    OBVIOUS
  <2>2. Cardinality(C) = n
    <3>1. n \in 0..n
      OBVIOUS
    <3> QED
      BY <1>3, <3>1
  <2>3. C = S
    <3> HIDE DEF C
    <3> QED
      BY <2>1, <2>2, FS_Subset
  <2> QED
    BY <2>3
<1>6. F \in SUBSET A
  <2> SUFFICES ASSUME NEW x \in S, Before(k, ties, x, y) PROVE x \in A
    BY DEF Fore
  <2>1. PICK j \in 1..n : x = s[j]
    BY <1>5
  <2>2. y \in S
    OBVIOUS
  <2>3. j # i
    BY <1>8, <2>1, <2>2
  <2>4. ~(i < j)
    BY <2>1
  <2>5. j \in 1..(i - 1)
    BY <2>3, <2>4
  <2> QED
    BY <2>1, <2>5
<1>7. B \in SUBSET U
  <2> SUFFICES ASSUME NEW j \in 1..i PROVE s[j] \in U
    OBVIOUS
  <2>1. j \in 1..n /\ s[j] \in S
    OBVIOUS
  <2>2. CASE j = i
    BY <2>1, <2>2 DEF Upto
  <2>3. CASE j # i
    <3>1. j < i
      BY <2>3
    <3>2. ~Before(k, ties, y, s[j])
      BY <2>1, <3>1
    <3> QED
      BY <2>1, <3>2 DEF Upto
  <2> QED
    BY <2>2, <2>3
<1> HIDE DEF F, U, A, B
<1>10. Cardinality(F) <= i - 1 /\ i <= Cardinality(U)
  <2>1. Cardinality(F) <= Cardinality(A)
    BY <1>4, <1>6, FS_Subset
  <2>2. Cardinality(B) <= Cardinality(U)
    BY <1>1, <1>7, FS_Subset
  <2> QED
    BY <1>1, <1>4, <2>1, <2>2
<1> QED
  BY <1>1, <1>10 DEF F, U

Slice(s, off, lim) == {s[i] : i \in DOMAIN s \cap (off + 1 .. off + lim)}

Distinct(n, s, S) == s \in [1..n -> S] /\ \A i, j \in 1..n : i # j => s[i] # s[j]

(* A page holds as many rows as there are, up to the limit.                *)
LEMMA PageSize ==
    ASSUME NEW S, NEW n \in Nat, NEW s, Distinct(n, s, S), NEW off \in Nat, NEW lim \in Nat \ {0},
           NEW pg, pg = Slice(s, off, lim)
    PROVE  /\ pg \in SUBSET S /\ IsFiniteSet(pg) /\ Cardinality(pg) \in Nat
           /\ off + lim <= n => Cardinality(pg) = lim
           /\ n < off + lim => Cardinality(pg) < lim
           /\ n < off + lim /\ off <= n => Cardinality(pg) = n - off
<1> DEFINE T == DOMAIN s \cap (off + 1 .. off + lim)
<1>0. s \in [1..n -> S] /\ \A i, j \in 1..n : i # j => s[i] # s[j]
  BY DEF Distinct
<1>1. DOMAIN s = 1..n
  BY <1>0
<1>2. /\ off + lim <= n => T = off + 1 .. off + lim
      /\ off <= n /\ n < off + lim => T = off + 1 .. n
      /\ n < off => T = {}
  BY <1>1
<1>3. \A i, j \in T : i # j => s[i] # s[j]
  BY <1>0, <1>1
<1>4. pg \in SUBSET S
  BY <1>0, <1>1 DEF Slice
<1>5. T \in SUBSET (1..n) /\ pg = {s[i] : i \in T}
  BY <1>1 DEF Slice
<1> HIDE DEF T
<1>6. IsFiniteSet(T)
  <2>1. IsFiniteSet(1..n)
    BY FS_Interval
  <2> QED
    BY <1>5, <2>1, FS_Subset
<1>7. IsFiniteSet(pg) /\ Cardinality(pg) = Cardinality(T)
  <2>1. IsFiniteSet({s[i] : i \in T}) /\ Cardinality({s[i] : i \in T}) = Cardinality(T)
    BY <1>3, <1>6, ImageSize
  <2> QED
    BY <1>5, <2>1
<1>8. Cardinality(pg) \in Nat
  BY <1>7, FS_CardinalityType
<1>9. ASSUME off + lim <= n PROVE Cardinality(pg) = lim
  <2>1. Cardinality(off + 1 .. off + lim) = lim
    <3>1. off + 1 \in Int /\ off + lim \in Int
      OBVIOUS
    <3>2. Cardinality(off + 1 .. off + lim) = IF off + 1 > off + lim THEN 0 ELSE off + lim - (off + 1) + 1
      BY <3>1, FS_Interval
    <3> QED
      BY <3>2
  <2> QED
    BY <1>2, <1>7, <1>9, <2>1
<1>10. ASSUME off <= n, n < off + lim PROVE Cardinality(pg) = n - off
  <2>1. Cardinality(off + 1 .. n) = n - off
    <3>1. off + 1 \in Int /\ n \in Int
      OBVIOUS
    <3>2. Cardinality(off + 1 .. n) = IF off + 1 > n THEN 0 ELSE n - (off + 1) + 1
      BY <3>1, FS_Interval
    <3> QED
      BY <1>10, <3>2
  <2> QED
    BY <1>2, <1>7, <1>10, <2>1
<1>11. ASSUME n < off PROVE Cardinality(pg) = 0
  BY <1>2, <1>7, <1>11, FS_EmptySet
<1>12. ASSUME n < off + lim PROVE Cardinality(pg) < lim
  <2>1. CASE off <= n
    BY <1>10, <1>12, <2>1
  <2>2. CASE n < off
    BY <1>11, <2>2
  <2> QED
    BY <2>1, <2>2
<1> QED
  BY <1>4, <1>7, <1>8, <1>9, <1>10, <1>12

(* The rows of a page: those on it have too few rows before them to come   *)
(* later, those not on it too many, or had their place on an earlier page. *)
LEMMA PageRows ==
    ASSUME NEW S \in SUBSET Int, IsFiniteSet(S), NEW k, \A x \in S : k[x] \in Int, NEW ties \in BOOLEAN,
           NEW n \in Nat, n = Cardinality(S), NEW s \in [1..n -> S],
           \A i, j \in 1..n : i < j => s[i] # s[j] /\ ~Before(k, ties, s[j], s[i]),
           NEW off \in Nat, NEW lim \in Nat \ {0},
           NEW pg, pg = Slice(s, off, lim),
           NEW x \in S
    PROVE  /\ x \in pg => /\ off < Cardinality(Upto(S, k, ties, x))
                          /\ Cardinality(Fore(S, k, ties, x)) < off + lim
           /\ x \notin pg /\ off <= Cardinality(Fore(S, k, ties, x)) =>
                  off + lim < Cardinality(Upto(S, k, ties, x))
<1>1. \A i, j \in 1..n : i # j => s[i] # s[j]
  OBVIOUS
<1>2. \E i \in 1..n : x = s[i]
  <2> DEFINE C == {s[j] : j \in 1..n}
  <2>1. IsFiniteSet(1..n) /\ Cardinality(1..n) = n
    BY FS_Interval
  <2>2. C \in SUBSET S
    OBVIOUS
  <2>3. Cardinality(C) = n
    BY <1>1, <2>1, ImageSize
  <2>4. C = S
    <3> HIDE DEF C
    <3> QED
      BY <2>2, <2>3, FS_Subset
  <2> QED
    BY <2>4
<1>3. PICK i \in 1..n : x = s[i] /\ (x \in pg => i \in off + 1 .. off + lim)
  <2>1. CASE x \in pg
    <3>1. PICK i \in DOMAIN s \cap (off + 1 .. off + lim) : x = s[i]
      BY <2>1 DEF Slice
    <3> QED
      BY <3>1
  <2>2. CASE x \notin pg
    BY <1>2, <2>2
  <2> QED
    BY <2>1, <2>2
<1>4. x \notin pg => i \notin off + 1 .. off + lim
  BY <1>3 DEF Slice
<1> DEFINE F == Fore(S, k, ties, x)
           U == Upto(S, k, ties, x)
<1>5. /\ Cardinality(F) \in Nat /\ Cardinality(U) \in Nat
      /\ Cardinality(F) < i /\ i <= Cardinality(U)
  BY <1>3, Placed
<1> HIDE DEF F, U
<1>6. /\ x \in pg => off < Cardinality(U) /\ Cardinality(F) < off + lim
      /\ x \notin pg /\ off <= Cardinality(F) => off + lim < Cardinality(U)
  BY <1>3, <1>4, <1>5
<1> QED
  BY <1>6 DEF F, U

(* What stands before a row and what stands up to it, and when they differ *)
(* by the row alone.                                                       *)
LEMMA AroundRow ==
    ASSUME NEW S \in SUBSET Int, IsFiniteSet(S), NEW k, \A x \in S : k[x] \in Int, NEW ties \in BOOLEAN,
           NEW r \in S
    PROVE  /\ Fore(S, k, ties, r) \in SUBSET S /\ Upto(S, k, ties, r) \in SUBSET S /\ r \in Upto(S, k, ties, r)
           /\ IsFiniteSet(Fore(S, k, ties, r)) /\ IsFiniteSet(Upto(S, k, ties, r))
           /\ Cardinality(Fore(S, k, ties, r)) \in Nat /\ Cardinality(Upto(S, k, ties, r)) \in Nat
           /\ Cardinality(Fore(S, k, ties, r)) <= Cardinality(S) /\ Cardinality(Upto(S, k, ties, r)) <= Cardinality(S)
           /\ (ties => \A x \in S : k[x] = k[r] => x = r) =>
                  Cardinality(Upto(S, k, ties, r)) = Cardinality(Fore(S, k, ties, r)) + 1
<1> DEFINE F == Fore(S, k, ties, r)
           U == Upto(S, k, ties, r)
<1>1. F \in SUBSET S /\ U \in SUBSET S /\ r \in U /\ r \notin F
  BY DEF Fore, Upto, Before
<1>2. (ties => \A x \in S : k[x] = k[r] => x = r) => U = F \cup {r}
  <2> SUFFICES ASSUME ties => \A x \in S : k[x] = k[r] => x = r,
                      NEW x \in S
               PROVE  (x = r \/ ~Before(k, ties, r, x)) <=> (Before(k, ties, x, r) \/ x = r)
    BY DEF Fore, Upto
  <2>1. k[x] \in Int /\ k[r] \in Int /\ x \in Int /\ r \in Int
    OBVIOUS
  <2> QED
    BY <2>1 DEF Before
<1> HIDE DEF F, U
<1>3. IsFiniteSet(F) /\ IsFiniteSet(U) /\ Cardinality(F) <= Cardinality(S) /\ Cardinality(U) <= Cardinality(S)
  BY <1>1, FS_Subset
<1>4. Cardinality(F) \in Nat /\ Cardinality(U) \in Nat
  BY <1>3, FS_CardinalityType
<1>5. U = F \cup {r} => Cardinality(U) = Cardinality(F) + 1
  BY <1>1, <1>3, FS_AddElement
<1> QED
  BY <1>1, <1>2, <1>3, <1>4, <1>5 DEF F, U

(* Where the list changes, a row that kept its key still has as many rows  *)
(* before it, unless one of the first off rows left or moved back.         *)
LEMMA ForeStays ==
    ASSUME NEW N0 \in Nat, NEW S \in SUBSET (1..N0), NEW S2 \in SUBSET (1..N0),
           NEW k, \A x \in S : k[x] \in Int, NEW k2, \A x \in S2 : k2[x] \in Int,
           NEW ties \in BOOLEAN, NEW off \in Nat, NEW r \in S \cap S2, k2[r] = k[r],
           off <= Cardinality(Fore(S, k, ties, r)),
           \A x \in S : x \notin S2 \/ k2[x] # k[x] =>
               \/ off <= Cardinality({s \in S : k[s] > k[x]})
               \/ x \in S2 /\ k2[x] > k[x]
    PROVE  off <= Cardinality(Fore(S2, k2, ties, r))
<1> DEFINE F == Fore(S, k, ties, r)
           F2 == Fore(S2, k2, ties, r)
           Bad == F \ F2
<1>0. IsFiniteSet(1..N0)
  BY FS_Interval
<1>1. /\ F \in SUBSET S /\ F2 \in SUBSET S2 /\ IsFiniteSet(F) /\ IsFiniteSet(F2)
      /\ Cardinality(F) \in Nat /\ Cardinality(F2) \in Nat
  <2>1. F \in SUBSET S /\ F2 \in SUBSET S2
    BY DEF Fore
  <2> HIDE DEF F, F2
  <2>2. IsFiniteSet(F) /\ IsFiniteSet(F2)
    BY <1>0, <2>1, FS_Subset
  <2> QED
    BY <2>1, <2>2, FS_CardinalityType
<1>2. CASE Bad = {}
  <2>1. F \in SUBSET F2
    BY <1>2
  <2> HIDE DEF F, F2
  <2>2. Cardinality(F) <= Cardinality(F2)
    BY <1>1, <2>1, FS_Subset
  <2>3. off <= Cardinality(F)
    BY DEF F
  <2> QED
    BY <1>1, <2>2, <2>3 DEF F2
<1>3. CASE Bad # {}
  <2>1. PICK x \in Bad : \A y \in Bad : k[x] >= k[y]
    <3>1. IsFiniteSet(Bad) /\ \A y \in Bad : k[y] \in Int
      BY <1>1, FS_Subset
    <3> HIDE DEF Bad
    <3> QED
      BY <1>3, <3>1, LargestOf
  <2> DEFINE G == {s \in S : k[s] > k[x]}
  <2>2. x \in S /\ k[x] \in Int /\ k[r] \in Int /\ Before(k, ties, x, r)
        /\ (x \in S2 => ~Before(k2, ties, x, r))
    BY <2>1 DEF Fore
  <2>3. x \notin S2 \/ k2[x] # k[x]
    BY <2>2 DEF Before
  <2>4. ~(x \in S2 /\ k2[x] > k[x])
    <3> SUFFICES ASSUME x \in S2, k2[x] > k[x] PROVE FALSE
      OBVIOUS
    <3>1. k2[x] \in Int
      OBVIOUS
    <3>2. k[x] >= k[r]
      BY <2>2 DEF Before
    <3>3. k2[x] > k2[r]
      BY <2>2, <3>1, <3>2
    <3> QED
      BY <2>2, <3>3 DEF Before
  <2>5. off <= Cardinality(G)
    BY <2>2, <2>3, <2>4
  <2>6. G \in SUBSET F2
    <3> SUFFICES ASSUME NEW s \in S, k[s] > k[x] PROVE s \in F2
      OBVIOUS
    <3>1. k[s] \in Int /\ k[x] >= k[r]
      BY <2>2 DEF Before
    <3>2. Before(k, ties, s, r)
      BY <2>2, <3>1 DEF Before
    <3>3. s \in F
      BY <3>2 DEF Fore
    <3>4. s \notin Bad
      BY <2>1, <2>2, <3>1
    <3> QED
      BY <3>3, <3>4
  <2> HIDE DEF G, F2, F
  <2>7. Cardinality(G) \in Nat /\ Cardinality(G) <= Cardinality(F2)
    <3>1. IsFiniteSet(G) /\ Cardinality(G) <= Cardinality(F2)
      BY <1>1, <2>6, FS_Subset
    <3> QED
      BY <3>1, FS_CardinalityType
  <2> QED
    BY <1>1, <2>5, <2>7 DEF F2
<1> QED
  BY <1>2, <1>3

(* And no more rows up to it, unless one joined or moved before the first  *)
(* off rows.                                                               *)
LEMMA UptoStays ==
    ASSUME NEW N0 \in Nat, NEW S \in SUBSET (1..N0), NEW S2 \in SUBSET (1..N0),
           NEW k, \A x \in S : k[x] \in Int, NEW k2, \A x \in S2 : k2[x] \in Int,
           NEW ties \in BOOLEAN, NEW off \in Nat, NEW r \in S \cap S2, k2[r] = k[r],
           Cardinality(Upto(S, k, ties, r)) <= off,
           \A x \in S2 : x \notin S \/ k2[x] # k[x] => off <= Cardinality({s \in S2 : k2[s] > k2[x]})
    PROVE  Cardinality(Upto(S2, k2, ties, r)) <= off
<1> DEFINE U == Upto(S, k, ties, r)
           U2 == Upto(S2, k2, ties, r)
           Bad == U2 \ U
<1>0. IsFiniteSet(1..N0)
  BY FS_Interval
<1>1. /\ U \in SUBSET S /\ U2 \in SUBSET S2 /\ IsFiniteSet(U) /\ IsFiniteSet(U2)
      /\ Cardinality(U) \in Nat /\ Cardinality(U2) \in Nat
  <2>1. U \in SUBSET S /\ U2 \in SUBSET S2
    BY DEF Upto
  <2> HIDE DEF U, U2
  <2>2. IsFiniteSet(U) /\ IsFiniteSet(U2)
    BY <1>0, <2>1, FS_Subset
  <2> QED
    BY <2>1, <2>2, FS_CardinalityType
<1>2. CASE Bad = {}
  <2>1. U2 \in SUBSET U
    BY <1>2
  <2> HIDE DEF U, U2
  <2>2. Cardinality(U2) <= Cardinality(U)
    BY <1>1, <2>1, FS_Subset
  <2>3. Cardinality(U) <= off
    BY DEF U
  <2> QED
    BY <1>1, <2>2, <2>3 DEF U2
<1>3. CASE Bad # {}
  <2>1. PICK x \in Bad : \A y \in Bad : k2[x] >= k2[y]
    <3>1. IsFiniteSet(Bad) /\ \A y \in Bad : k2[y] \in Int
      BY <1>1, FS_Subset
    <3> HIDE DEF Bad
    <3> QED
      BY <1>3, <3>1, LargestOf
  <2> DEFINE G == {s \in S2 : k2[s] > k2[x]}
  <2>2. /\ x \in S2 /\ k2[x] \in Int /\ k[r] \in Int /\ (x = r \/ ~Before(k2, ties, r, x))
        /\ x # r /\ (x \in S => Before(k, ties, r, x))
    BY <2>1 DEF Upto
  <2>3. x \notin S \/ k2[x] # k[x]
    BY <2>2 DEF Before
  <2>4. k2[x] >= k2[r]
    BY <2>2 DEF Before
  <2>5. off <= Cardinality(G)
    BY <2>2, <2>3
  <2>6. G \in SUBSET U /\ r \notin G /\ r \in U
    <3>1. ASSUME NEW s \in S2, k2[s] > k2[x] PROVE s \in U
      <4>1. k2[s] \in Int
        OBVIOUS
      <4>2. ~Before(k2, ties, r, s)
        BY <2>2, <2>4, <3>1, <4>1 DEF Before
      <4>3. s \in U2
        BY <4>2 DEF Upto
      <4>4. s \notin Bad
        BY <2>1, <2>2, <3>1, <4>1
      <4> QED
        BY <4>3, <4>4
    <3>2. r \notin G
      BY <2>2, <2>4
    <3>3. r \in U
      BY DEF Upto
    <3> QED
      BY <3>1, <3>2, <3>3
  <2> HIDE DEF G, U
  <2>7. Cardinality(G) \in Nat /\ Cardinality(G) + 1 <= Cardinality(U)
    <3>1. IsFiniteSet(G) /\ G \cup {r} \in SUBSET U
      BY <1>1, <2>6, FS_Subset
    <3>2. Cardinality(G \cup {r}) <= Cardinality(U)
      BY <1>1, <3>1, FS_Subset
    <3>3. Cardinality(G \cup {r}) = Cardinality(G) + 1
      BY <2>6, <3>1, FS_AddElement
    <3> QED
      BY <3>1, <3>2, <3>3, FS_CardinalityType
  <2>8. Cardinality(U) <= off
    BY DEF U
  <2> QED
    BY <1>1, <2>5, <2>7, <2>8
<1> QED
  BY <1>2, <1>3

(* Every row of a page is shown once more.                                 *)
LEMMA SumOfPage ==
    ASSUME NEW S, IsFiniteSet(S), NEW f \in [S -> Int], NEW pg \in SUBSET S
    PROVE  SumFunction([x \in S |-> IF x \in pg THEN f[x] + 1 ELSE f[x]]) = SumFunction(f) + Cardinality(pg)
<1> DEFINE g == [x \in S |-> IF x \in pg THEN f[x] + 1 ELSE f[x]]
<1>1. g \in [S -> Int] /\ \A x \in S : g[x] = IF x \in pg THEN f[x] + 1 ELSE f[x]
  OBVIOUS
<1> HIDE DEF g
<1>2. PICK it : Totals(S, f, it) /\ SumFunction(f) = it[S]
  BY SumIs
<1>3. PICK jt : Totals(S, g, jt) /\ SumFunction(g) = jt[S]
  BY <1>1, SumIs
<1> DEFINE B == {s \in SUBSET S : jt[s] # it[s] + Cardinality(s \cap pg)}
<1>4. /\ \A s \in SUBSET S : it[s] = IF s = {} THEN 0 ELSE f[Some(s)] + it[s \ {Some(s)}]
      /\ \A s \in SUBSET S : jt[s] = IF s = {} THEN 0 ELSE g[Some(s)] + jt[s \ {Some(s)}]
  BY <1>2, <1>3 DEF Totals, Adds
<1>5. \A s \in SUBSET S : it[s] \in Int /\ jt[s] \in Int
  BY <1>1, <1>2, <1>3, SumSplit
<1>6. \A s \in SUBSET S : IsFiniteSet(s) /\ Cardinality(s) \in Nat
  BY FS_Subset, FS_CardinalityType
<1>7. ASSUME B # {} PROVE FALSE
  <2>1. B \in SUBSET SUBSET S
    OBVIOUS
  <2> HIDE DEF B
  <2>2. PICK s \in B : \A t \in B : Cardinality(s) <= Cardinality(t)
    BY <1>7, <2>1, SmallestSet
  <2>3. s \in SUBSET S /\ jt[s] # it[s] + Cardinality(s \cap pg)
    BY DEF B
  <2>4. s # {}
    <3> SUFFICES ASSUME s = {} PROVE FALSE
      OBVIOUS
    <3>1. s \cap pg = {} /\ it[s] = 0 /\ jt[s] = 0
      BY <1>4, <2>3
    <3> QED
      BY <2>3, <3>1, FS_EmptySet
  <2> DEFINE y == Some(s)
             t == s \ {y}
  <2>5. y \in s
    BY <2>4 DEF Some
  <2>6. /\ t \in SUBSET S /\ Cardinality(s) \in Nat /\ Cardinality(t) \in Nat
        /\ Cardinality(t) = Cardinality(s) - 1
    BY <2>3, <2>5, SmallerSet
  <2>7. it[s] = f[y] + it[t] /\ jt[s] = g[y] + jt[t]
    BY <1>4, <2>3, <2>4
  <2> HIDE DEF y, t
  <2>8. t \notin B
    BY <2>2, <2>6
  <2>9. jt[t] = it[t] + Cardinality(t \cap pg)
    BY <2>6, <2>8 DEF B
  <2>10. Cardinality(s \cap pg) = Cardinality(t \cap pg) + (IF y \in pg THEN 1 ELSE 0)
    <3>1. CASE y \in pg
      <4>1. s \cap pg = (t \cap pg) \cup {y} /\ y \notin t \cap pg
        BY <2>5, <3>1 DEF t
      <4>2. IsFiniteSet(t \cap pg)
        BY <1>6, <2>6
      <4>3. Cardinality((t \cap pg) \cup {y}) = Cardinality(t \cap pg) + 1
        BY <4>1, <4>2, FS_AddElement
      <4> QED
        BY <3>1, <4>1, <4>3
    <3>2. CASE y \notin pg
      <4>1. s \cap pg = t \cap pg
        BY <3>2 DEF t
      <4>2. Cardinality(t \cap pg) \in Nat
        BY <1>6, <2>6
      <4> QED
        BY <3>2, <4>1, <4>2
    <3> QED
      BY <3>1, <3>2
  <2>11. /\ it[t] \in Int /\ jt[t] \in Int /\ f[y] \in Int /\ Cardinality(t \cap pg) \in Nat
         /\ g[y] = IF y \in pg THEN f[y] + 1 ELSE f[y]
    BY <1>1, <1>5, <1>6, <2>3, <2>5, <2>6
  <2> QED
    BY <2>3, <2>7, <2>9, <2>10, <2>11
<1>8. jt[S] = it[S] + Cardinality(S \cap pg)
  BY <1>7
<1>9. S \cap pg = pg
  OBVIOUS
<1>10. SumFunction(g) = SumFunction(f) + Cardinality(pg)
  BY <1>2, <1>3, <1>8, <1>9
<1> QED
  BY <1>10 DEF g

LEMMA SumOfZeros ==
    ASSUME NEW S, IsFiniteSet(S) PROVE SumFunction([x \in S |-> 0]) = 0
<1> DEFINE f == [x \in S |-> 0]
           g == [x \in {} |-> 0]
<1>1. f \in [S -> Int] /\ \A x \in S : f[x] = 0
  OBVIOUS
<1> HIDE DEF f
<1>2. PICK it : Totals(S, f, it) /\ SumFunction(f) = it[S]
  BY <1>1, SumIs
<1> DEFINE B == {s \in SUBSET S : it[s] # 0}
<1>4. \A s \in SUBSET S : it[s] = IF s = {} THEN 0 ELSE f[Some(s)] + it[s \ {Some(s)}]
  BY <1>2 DEF Totals, Adds
<1>5. ASSUME B # {} PROVE FALSE
  <2>1. B \in SUBSET SUBSET S
    OBVIOUS
  <2> HIDE DEF B
  <2>2. PICK s \in B : \A t \in B : Cardinality(s) <= Cardinality(t)
    BY <1>5, <2>1, SmallestSet
  <2>3. s \in SUBSET S /\ it[s] # 0
    BY DEF B
  <2>4. s # {}
    BY <1>4, <2>3
  <2>5. Some(s) \in s
    BY <2>4 DEF Some
  <2>6. /\ s \ {Some(s)} \in SUBSET S /\ Cardinality(s) \in Nat /\ Cardinality(s \ {Some(s)}) \in Nat
        /\ Cardinality(s \ {Some(s)}) = Cardinality(s) - 1
    BY <2>3, <2>5, SmallerSet
  <2>7. s \ {Some(s)} \notin B
    BY <2>2, <2>6
  <2>8. it[s \ {Some(s)}] = 0 /\ f[Some(s)] = 0
    BY <1>1, <2>3, <2>5, <2>6, <2>7 DEF B
  <2>9. it[s] = f[Some(s)] + it[s \ {Some(s)}]
    BY <1>4, <2>3, <2>4
  <2> QED
    BY <2>3, <2>8, <2>9
<1> QED
  BY <1>2, <1>5 DEF f

-----------------------------------------------------------------------------
(* The list that is walked, and its order.                                 *)
Lst == Listed(filter)
Keys == [r \in Ids |-> row[r].key]
Ties == list \in Unordered
Order == IF Ties THEN ByKey ELSE ByKeyThenId
ForeOf(r) == Cardinality(Fore(Lst, Keys, Ties, r))
UptoOf(r) == Cardinality(Upto(Lst, Keys, Ties, r))

(* The walk is on: neither done nor refused.                               *)
On == walk.phase \in {"asking", "counted"}

WalkTypes ==
    /\ Listing
    /\ walk \in [phase : {"asking", "counted", "done", "refused"}, page : Nat \ {0}, total : 0..N]
    /\ shown \in [Ids -> Nat]
    /\ stayed \in SUBSET Lst
    /\ shrunk \in BOOLEAN /\ grown \in BOOLEAN /\ cut \in BOOLEAN /\ steady \in BOOLEAN

(* A page number never runs past the rows, and a page shows a row once.    *)
Position ==
    /\ Read <= N
    /\ \A r \in Ids : shown[r] <= IF walk.phase = "done" THEN walk.page ELSE walk.page - 1

(* A row still to be shown has at least the rows read so far before it.    *)
SkipInv == ~shrunk /\ ~cut => \A r \in stayed : shown[r] = 0 =>
               walk.phase # "done" /\ (On => Read <= ForeOf(r))

(* A row that was shown has its place among the rows read so far.          *)
TwiceInv == ~grown /\ ~cut => \A r \in stayed : shown[r] <= 1 /\ (On /\ shown[r] = 1 => UptoOf(r) <= Read)

(* As long as the list stays the same, the rows shown are those read.      *)
CountInv == steady => /\ On => /\ SumFunction(shown) = Read /\ Read <= Cardinality(Lst)
                               /\ walk.phase = "counted" => walk.total = Cardinality(Lst)
                      /\ walk.phase = "done" => walk.total = SumFunction(shown)

WalkInv == WalkTypes /\ Position /\ SkipInv /\ TwiceInv /\ CountInv

LEMMA ListSize ==
    ASSUME Listing
    PROVE  /\ Lst \in SUBSET Present /\ Lst \in SUBSET (1..N) /\ Lst \in SUBSET Int /\ IsFiniteSet(Lst)
           /\ Cardinality(Lst) \in 0..N
           /\ \A r \in Lst : Keys[r] = row[r].key /\ Keys[r] \in Int
<1>1. Lst \in SUBSET Present
  BY ListedIs DEF Lst
<1>2. Present \in SUBSET (1..N) /\ N \in Nat
  BY SizesAssumption DEF Present, Ids
<1>3. IsFiniteSet(1..N) /\ Cardinality(1..N) = N
  BY <1>2, FS_Interval
<1>4. IsFiniteSet(Lst) /\ Cardinality(Lst) <= N
  BY <1>1, <1>2, <1>3, FS_Subset
<1>5. Cardinality(Lst) \in 0..N
  BY <1>2, <1>4, FS_CardinalityType
<1>6. \A r \in Lst : Keys[r] = row[r].key /\ Keys[r] \in Int
  <2> SUFFICES ASSUME NEW r \in Lst PROVE Keys[r] = row[r].key /\ Keys[r] \in Int
    OBVIOUS
  <2>1. r \in Present /\ r \in Ids
    BY <1>1 DEF Present
  <2>2. row[r].key \in 1..MaxKey
    BY <2>1, RowsAre
  <2> QED
    BY <2>1, <2>2 DEF Keys
<1>7. Lst \in SUBSET (1..N) /\ Lst \in SUBSET Int
  BY <1>1, <1>2
<1> QED
  BY <1>1, <1>4, <1>5, <1>6, <1>7

LEMMA ReadIs ==
    ASSUME NEW p \in Nat \ {0}
    PROVE  /\ Limit \in Nat \ {0} /\ (p - 1) * Limit \in Nat /\ p - 1 <= (p - 1) * Limit
           /\ \A q \in Nat : q = p + 1 => (q - 1) * Limit = (p - 1) * Limit + Limit
<1>1. Limit \in Nat /\ Limit >= 1
  BY SizesAssumption
<1>2. PICK q \in Nat : p = q + 1
  <2>1. p - 1 \in Nat /\ p = (p - 1) + 1
    OBVIOUS
  <2> QED
    BY <2>1
<1>3. q * Limit \in Nat /\ q <= q * Limit
  <2> DEFINE m == Limit - 1
  <2>1. m \in Nat /\ Limit = m + 1
    BY <1>1
  <2> HIDE DEF m
  <2>2. q * m \in Nat
    BY <2>1
  <2>3. q * (m + 1) = q * m + q
    BY <2>1
  <2> QED
    BY <2>1, <2>2, <2>3
<1>4. (q + 1) * Limit = q * Limit + Limit
  BY <1>1
<1>5. p - 1 = q
  BY <1>2
<1>6. ASSUME NEW t \in Nat, t = p + 1 PROVE (t - 1) * Limit = (p - 1) * Limit + Limit
  <2>1. t - 1 = q + 1
    BY <1>2, <1>6
  <2> QED
    BY <1>4, <1>5, <2>1
<1> QED
  BY <1>1, <1>3, <1>5, <1>6

LEMMA OrderIs ==
    ASSUME Listing, NEW x \in Lst, NEW y \in Lst
    PROVE  <<x, y>> \in Order <=> Before(Keys, Ties, x, y)
<1>1. x \in Ids /\ y \in Ids /\ Keys[x] = row[x].key /\ Keys[y] = row[y].key
  <2>1. x \in Present /\ y \in Present
    BY ListSize
  <2> QED
    BY <2>1, ListSize DEF Present
<1>2. <<x, y>> \in Ids \X Ids /\ <<x, y>>[1] = x /\ <<x, y>>[2] = y
  BY <1>1
<1>3. <<x, y>> \in ByKey <=> Keys[x] > Keys[y]
  BY <1>1, <1>2 DEF ByKey
<1>4. <<x, y>> \in ByKeyThenId <=> Keys[x] > Keys[y] \/ (Keys[x] = Keys[y] /\ x > y)
  BY <1>1, <1>2, <1>3 DEF ByKeyThenId
<1> QED
  BY <1>3, <1>4 DEF Order, Before

(* A page that does not end in a tie: what is not before its end is all    *)
(* behind it.                                                              *)
LEMMA NoTie ==
    ASSUME Listing, Read \in Nat, ~EndsInTie, NEW r \in Lst
    PROVE  Read + Limit <= ForeOf(r) \/ UptoOf(r) <= Read + Limit
<1>1. /\ Lst \in SUBSET Int /\ IsFiniteSet(Lst) /\ \A x \in Lst : Keys[x] = row[x].key /\ Keys[x] \in Int
      /\ Limit \in Nat /\ Ties \in BOOLEAN
  BY ListSize, SizesAssumption DEF Ties
<1>2. /\ ForeOf(r) \in Nat /\ UptoOf(r) \in Nat
      /\ (Ties => \A x \in Lst : Keys[x] = Keys[r] => x = r) => UptoOf(r) = ForeOf(r) + 1
  <2> DEFINE L == Lst
             K == Keys
  <2>1. L \in SUBSET Int /\ IsFiniteSet(L) /\ (\A x \in L : K[x] \in Int) /\ Ties \in BOOLEAN /\ r \in L
    BY <1>1
  <2> HIDE DEF L, K
  <2>2. /\ Cardinality(Fore(L, K, Ties, r)) \in Nat /\ Cardinality(Upto(L, K, Ties, r)) \in Nat
        /\ (Ties => \A x \in L : K[x] = K[r] => x = r) =>
               Cardinality(Upto(L, K, Ties, r)) = Cardinality(Fore(L, K, Ties, r)) + 1
    BY <2>1, AroundRow
  <2> QED
    BY <2>2 DEF L, K, ForeOf, UptoOf
<1>3. CASE Ties => \A x \in Lst : Keys[x] = Keys[r] => x = r
  <2>1. UptoOf(r) = ForeOf(r) + 1
    BY <1>2, <1>3
  <2> QED
    BY <1>1, <1>2, <2>1
<1>4. CASE Ties /\ \E x \in Lst : Keys[x] = Keys[r] /\ x # r
  <2>1. PICK x \in Lst : Keys[x] = Keys[r] /\ x # r
    BY <1>4
  <2>2. {q \in Lst : row[q].key > row[r].key} = Fore(Lst, Keys, Ties, r)
    BY <1>1, <1>4 DEF Fore, Before
  <2>3. {q \in Lst : row[q].key >= row[r].key} = Upto(Lst, Keys, Ties, r)
    <3> SUFFICES ASSUME NEW q \in Lst
                 PROVE  row[q].key >= row[r].key <=> q = r \/ ~Before(Keys, Ties, r, q)
      BY DEF Upto
    <3>1. /\ Keys[q] = row[q].key /\ Keys[q] \in Int /\ Keys[r] = row[r].key /\ Keys[r] \in Int
      BY <1>1
    <3>2. Before(Keys, Ties, r, q) <=> row[r].key > row[q].key
      BY <1>4, <3>1 DEF Before
    <3> QED
      BY <3>1, <3>2
  <2>4. ~(ForeOf(r) < Read + Limit /\ Read + Limit < UptoOf(r))
    <3>1. row[r].key = row[x].key
      BY <1>1, <2>1
    <3>2. list \in Unordered
      BY <1>4 DEF Ties
    <3>3. \A a, b \in Lst : list \in Unordered /\ row[a].key = row[b].key /\ a # b =>
              ~(/\ Cardinality({q \in Lst : row[q].key > row[a].key}) < Read + Limit
                /\ Read + Limit < Cardinality({q \in Lst : row[q].key >= row[a].key}))
      BY DEF EndsInTie, Lst
    <3>4. ~(/\ Cardinality({q \in Lst : row[q].key > row[r].key}) < Read + Limit
            /\ Read + Limit < Cardinality({q \in Lst : row[q].key >= row[r].key}))
      BY <2>1, <3>1, <3>2, <3>3
    <3> QED
      BY <2>2, <2>3, <3>4 DEF ForeOf, UptoOf
  <2> QED
    BY <1>1, <1>2, <2>4
<1> QED
  BY <1>3, <1>4

(* Every endpoint serves the list that is walked, in its order.            *)
LEMMA Requested ==
    ASSUME Listing, PageRequest
    PROVE  /\ UNCHANGED <<list, who, filter, row, live, changes>>
           /\ \/ Serve(Lst, Cardinality(Lst), Order)
              \/ walk.phase = "counted" /\ walk' = [walk EXCEPT !.phase = "refused"] /\ shown' = shown
<1> USE DEF Walks
<1>1. CASE ListLeases
  <2>1. list = "leases" /\ LeasePage /\ UNCHANGED <<list, who, filter, row, live, changes>>
    BY <1>1 DEF ListLeases
  <2>2. Lst = LeaseRows(filter) /\ Order = ByKey
    BY <2>1 DEF Lst, Listed, Order, Ties, Unordered
  <2> QED
    BY <2>1, <2>2 DEF LeasePage
<1>2. CASE ListLeaseCheckoutReviews
  <2>1. list = "reviews" /\ ReviewPage /\ UNCHANGED <<list, who, filter, row, live, changes>>
    BY <1>2 DEF ListLeaseCheckoutReviews
  <2>2. Lst = ReviewRows(filter) /\ Order = ByKeyThenId
    BY <2>1 DEF Lst, Listed, Order, Ties, Unordered
  <2> QED
    BY <2>1, <2>2 DEF ReviewPage
<1>3. CASE ListTenants
  <2>1. list = "tenants" /\ TenantPage /\ UNCHANGED <<list, who, filter, row, live, changes>>
    BY <1>3 DEF ListTenants
  <2>2. Lst = TenantRows(filter) /\ Order = ByKey
    BY <2>1 DEF Lst, Listed, Order, Ties, Unordered
  <2>3. TenantTotal(filter) = Cardinality(Lst)
    BY <2>2 DEF TenantTotal
  <2> QED
    BY <2>1, <2>2, <2>3 DEF TenantPage
<1>4. CASE ListPropertyRooms
  <2>1. list = "rooms" /\ UNCHANGED <<list, who, filter, row, live, changes>>
        /\ (RoomPage \/ (walk.phase = "counted" /\ walk' = [walk EXCEPT !.phase = "refused"] /\ UNCHANGED shown))
    BY <1>4 DEF ListPropertyRooms
  <2>2. Lst = RoomRows(filter) /\ Order = ByKey
    BY <2>1 DEF Lst, Listed, Order, Ties, Unordered
  <2> QED
    BY <2>1, <2>2 DEF RoomPage
<1>5. CASE ListTenantLeaseRoster
  <2>1. list = "roster" /\ RosterPage /\ UNCHANGED <<list, who, filter, row, live, changes>>
    BY <1>5 DEF ListTenantLeaseRoster
  <2>2. Lst = RosterRows(filter) /\ Order = ByKeyThenId
    BY <2>1 DEF Lst, Listed, Order, Ties, Unordered
  <2> QED
    BY <2>1, <2>2 DEF RosterPage
<1>6. CASE ListBills
  <2>1. list = "bills" /\ BillPage /\ UNCHANGED <<list, who, filter, row, live, changes>>
    BY <1>6 DEF ListBills
  <2>2. Lst = BillRows(filter) /\ Order = ByKey
    BY <2>1 DEF Lst, Listed, Order, Ties, Unordered
  <2> QED
    BY <2>1, <2>2 DEF BillPage
<1>7. CASE ListJournalLogs
  <2>1. list = "journals" /\ JournalPage /\ UNCHANGED <<list, who, filter, row, live, changes>>
    BY <1>7 DEF ListJournalLogs
  <2>2. Lst = JournalRows(filter) /\ Order = ByKeyThenId
    BY <2>1 DEF Lst, Listed, Order, Ties, Unordered
  <2> QED
    BY <2>1, <2>2 DEF JournalPage
<1>8. CASE ListRepairRequests
  <2>1. list = "repairs" /\ RepairPage /\ UNCHANGED <<list, who, filter, row, live, changes>>
    BY <1>8 DEF ListRepairRequests
  <2>2. Lst = RepairRows(filter) /\ Order = ByKeyThenId
    BY <2>1 DEF Lst, Listed, Order, Ties, Unordered
  <2> QED
    BY <2>1, <2>2 DEF RepairPage
<1>9. CASE ListUsers
  <2>1. list = "users" /\ UserPage /\ UNCHANGED <<list, who, filter, row, live, changes>>
    BY <1>9 DEF ListUsers
  <2>2. Lst = UserRows /\ Order = ByKeyThenId
    BY <2>1 DEF Lst, Listed, Order, Ties, Unordered
  <2> QED
    BY <2>1, <2>2 DEF UserPage
<1> QED
  BY <1>1, <1>2, <1>3, <1>4, <1>5, <1>6, <1>7, <1>8, <1>9 DEF PageRequest

(* A page: its rows, what they are to the walk, and where it goes on.      *)
PageRead(n, s, pg) ==
    /\ n = Cardinality(Lst) /\ s \in [1..n -> Lst]
    /\ \A i, j \in 1..n : i < j => s[i] # s[j] /\ ~Before(Keys, Ties, s[j], s[i])
    /\ pg = Slice(s, Read, Limit)
    /\ shown' = [r \in Ids |-> IF r \in pg THEN shown[r] + 1 ELSE shown[r]]
    /\ walk' = IF Cardinality(pg) < Limit THEN [walk EXCEPT !.phase = "done"]
               ELSE [walk EXCEPT !.phase = "asking", !.page = @ + 1]

LEMMA Served ==
    ASSUME Listing, Serve(Lst, Cardinality(Lst), Order)
    PROVE  \/ /\ walk.phase = "asking" /\ shown' = shown
              /\ walk' \in {[walk EXCEPT !.phase = "counted", !.total = Cardinality(Lst)],
                            [walk EXCEPT !.phase = "refused"]}
           \/ walk.phase = "counted" /\ \E n, s, pg : PageRead(n, s, pg)
<1>1. CASE walk.phase = "asking"
  BY <1>1 DEF Serve
<1>2. CASE walk.phase # "asking"
  <2>1. walk.phase = "counted"
    BY <1>2 DEF Serve
  <2>2. PICK s \in Arrangements(Lst, Order) :
            LET pg == {s[i] : i \in DOMAIN s \cap (Offset(walk.page) + 1 .. Offset(walk.page) + Limit)}
            IN  /\ shown' = [r \in Ids |-> IF r \in pg THEN shown[r] + 1 ELSE shown[r]]
                /\ walk' = IF Cardinality(pg) < Limit THEN [walk EXCEPT !.phase = "done"]
                           ELSE [walk EXCEPT !.phase = "asking", !.page = @ + 1]
    BY <1>2 DEF Serve
  <2> DEFINE n == Cardinality(Lst)
             pg == Slice(s, Read, Limit)
  <2>3. s \in [1..n -> Lst] /\ \A i, j \in 1..n : i < j => s[i] # s[j] /\ <<s[j], s[i]>> \notin Order
    BY <2>2 DEF Arrangements
  <2>4. \A i, j \in 1..n : i < j => s[i] # s[j] /\ ~Before(Keys, Ties, s[j], s[i])
    <3> SUFFICES ASSUME NEW i \in 1..n, NEW j \in 1..n, i < j
                 PROVE  s[i] # s[j] /\ ~Before(Keys, Ties, s[j], s[i])
      OBVIOUS
    <3>1. s[i] \in Lst /\ s[j] \in Lst
      BY <2>3
    <3> HIDE DEF n
    <3>2. <<s[j], s[i]>> \in Order <=> Before(Keys, Ties, s[j], s[i])
      BY <3>1, OrderIs
    <3> QED
      BY <2>3, <3>2
  <2>5. Offset(walk.page) = Read
    BY DEF Offset, Read
  <2>6. /\ shown' = [r \in Ids |-> IF r \in pg THEN shown[r] + 1 ELSE shown[r]]
        /\ walk' = IF Cardinality(pg) < Limit THEN [walk EXCEPT !.phase = "done"]
                   ELSE [walk EXCEPT !.phase = "asking", !.page = @ + 1]
    BY <2>2, <2>5 DEF Slice
  <2>7. PageRead(n, s, pg)
    BY <2>3, <2>4, <2>6 DEF PageRead
  <2> QED
    BY <2>1, <2>7
<1> QED
  BY <1>1, <1>2

LEMMA RowsStay ==
    ASSUME UNCHANGED <<list, who, filter, row, live, changes>>
    PROVE  Lst' = Lst /\ Keys' = Keys /\ Ties' = Ties /\ (Listing => Listing')
<1>1. Lst' = Lst
  BY DEF Lst, Listed, LeaseRows, ReviewRows, TenantRows, RoomRows, RosterRows, BillRows,
         JournalRows, RepairRows, UserRows, Scoped, Present, Joined, InScope, Matches
<1>2. Keys' = Keys /\ Ties' = Ties
  BY DEF Keys, Ties
<1>3. Listing => Listing'
  BY DEF Listing, Rows
<1> QED
  BY <1>1, <1>2, <1>3

Kept == {r \in Lst \cap Lst' : row'[r].key = row[r].key}

LEMMA HistorySteps ==
    ASSUME HistoryNext
    PROVE  /\ stayed' = stayed \cap Kept
           /\ steady' = (steady /\ Kept = Lst /\ Kept = Lst')
           /\ shrunk' = (shrunk \/ \E r \in Lst \ Kept :
                            /\ Cardinality({s \in Lst : row[s].key > row[r].key}) < Read
                            /\ (r \in Lst' => row'[r].key < row[r].key))
           /\ grown' = (grown \/ \E r \in Lst' \ Kept :
                            Cardinality({s \in Lst' : row'[s].key > row'[r].key}) < Read)
           /\ cut' = (cut \/ (shown' # shown /\ EndsInTie))
<1> DEFINE kept == {r \in Listed(filter) \cap Listed(filter)' : row'[r].key = row[r].key}
<1>1. Kept = kept /\ Lst = Listed(filter) /\ Lst' = Listed(filter)'
  BY DEF Kept, Lst
<1>2. /\ stayed' = stayed \cap kept
      /\ steady' = (steady /\ kept = Listed(filter) /\ kept = Listed(filter)')
      /\ shrunk' = (shrunk \/ \E r \in Listed(filter) \ kept :
                       Ahead(r, Listed(filter)) /\ (r \in Listed(filter)' => row'[r].key < row[r].key))
      /\ grown' = (grown \/ \E r \in Listed(filter)' \ kept : AheadAfter(r, Listed(filter)'))
      /\ cut' = (cut \/ (shown' # shown /\ EndsInTie))
  BY DEF HistoryNext
<1>3. \A r : Ahead(r, Lst) <=> Cardinality({s \in Lst : row[s].key > row[r].key}) < Read
  BY DEF Ahead
<1>4. \A r : AheadAfter(r, Listed(filter)') <=>
                 Cardinality({s \in Listed(filter)' : row'[s].key > row'[r].key}) < Read
  BY DEF AheadAfter
<1> HIDE DEF kept
<1> QED
  BY <1>1, <1>2, <1>3, <1>4

LEMMA RequestHistory ==
    ASSUME WalkTypes, HistoryNext, UNCHANGED <<list, who, filter, row, live, changes>>
    PROVE  /\ Lst' = Lst /\ Keys' = Keys /\ Ties' = Ties
           /\ stayed' = stayed /\ steady' = steady /\ shrunk' = shrunk /\ grown' = grown
           /\ cut' \in BOOLEAN /\ (~cut' => ~cut /\ (shown' # shown => ~EndsInTie))
<1>1. Lst' = Lst /\ Keys' = Keys /\ Ties' = Ties
  BY RowsStay
<1>2. Kept = Lst
  BY <1>1 DEF Kept
<1>3. stayed \in SUBSET Lst /\ steady \in BOOLEAN /\ shrunk \in BOOLEAN /\ grown \in BOOLEAN /\ cut \in BOOLEAN
  BY DEF WalkTypes
<1>4. stayed' = stayed
  BY <1>2, <1>3, HistorySteps
<1>5. steady' = steady
  BY <1>1, <1>2, <1>3, HistorySteps
<1>6. shrunk' = shrunk /\ grown' = grown
  <2>1. Lst \ Kept = {} /\ Lst' \ Kept = {}
    BY <1>1, <1>2
  <2> QED
    BY <1>3, <2>1, HistorySteps
<1>7. cut' = (cut \/ (shown' # shown /\ EndsInTie))
  BY HistorySteps
<1> QED
  BY <1>1, <1>3, <1>4, <1>5, <1>6, <1>7

LEMMA PlaceOf ==
    ASSUME walk \in [phase : {"asking", "counted", "done", "refused"}, page : Nat \ {0}, total : 0..N]
    PROVE  /\ walk.page \in Nat \ {0} /\ Read = (walk.page - 1) * Limit /\ Read \in Nat
           /\ walk.page - 1 <= Read /\ Limit \in Nat \ {0} /\ N \in Nat /\ Ids = 1..N
<1>1. walk.page \in Nat \ {0}
  OBVIOUS
<1> QED
  BY <1>1, ReadIs, SizesAssumption DEF Read, Ids

(* A request that reads no page.                                           *)
LEMMA AskingKeeps ==
    ASSUME WalkInv, HistoryNext, UNCHANGED <<list, who, filter, row, live, changes>>,
           shown' = shown, On,
           walk' \in {[walk EXCEPT !.phase = "counted", !.total = Cardinality(Lst)], [walk EXCEPT !.phase = "refused"]}
    PROVE  WalkInv'
<1>1. WalkTypes /\ Position /\ SkipInv /\ TwiceInv /\ CountInv /\ Listing
  BY DEF WalkInv, WalkTypes
<1>2. /\ Lst' = Lst /\ Keys' = Keys /\ Ties' = Ties
      /\ stayed' = stayed /\ steady' = steady /\ shrunk' = shrunk /\ grown' = grown
      /\ cut' \in BOOLEAN /\ (~cut' => ~cut)
  BY <1>1, RequestHistory
<1>3. walk \in [phase : {"asking", "counted", "done", "refused"}, page : Nat \ {0}, total : 0..N]
  BY <1>1 DEF WalkTypes
<1>4. Cardinality(Lst) \in 0..N
  BY <1>1, ListSize
<1>5. /\ walk' \in [phase : {"asking", "counted", "done", "refused"}, page : Nat \ {0}, total : 0..N]
      /\ walk'.page = walk.page /\ walk'.phase \in {"counted", "refused"}
      /\ walk'.phase = "counted" => walk'.total = Cardinality(Lst)
  BY <1>3, <1>4
<1>6. Read' = Read
  BY <1>5 DEF Read
<1>7. \A r : ForeOf(r)' = ForeOf(r) /\ UptoOf(r)' = UptoOf(r)
  BY <1>2 DEF ForeOf, UptoOf
<1>8. WalkTypes'
  <2>1. Listing'
    BY <1>1, RowsStay
  <2> QED
    BY <1>1, <1>2, <1>5, <2>1 DEF WalkTypes, Ids
<1>9. Position'
  <2>1. walk.phase # "done" /\ walk'.phase # "done"
    BY <1>5 DEF On
  <2> QED
    BY <1>1, <1>5, <1>6, <2>1 DEF Position, Ids
<1>10. SkipInv'
  BY <1>1, <1>2, <1>5, <1>6, <1>7 DEF SkipInv, On
<1>11. TwiceInv'
  BY <1>1, <1>2, <1>5, <1>6, <1>7 DEF TwiceInv, On
<1>12. CountInv'
  BY <1>1, <1>2, <1>5, <1>6 DEF CountInv, On
<1> QED
  BY <1>8, <1>9, <1>10, <1>11, <1>12 DEF WalkInv

(* A page, read of the list as it stands.                                  *)
LEMMA PageKeeps ==
    ASSUME WalkInv, HistoryNext, UNCHANGED <<list, who, filter, row, live, changes>>,
           walk.phase = "counted", NEW n, NEW s, NEW pg, PageRead(n, s, pg)
    PROVE  WalkInv'
<1>1. WalkTypes /\ Position /\ SkipInv /\ TwiceInv /\ CountInv /\ Listing
  BY DEF WalkInv, WalkTypes
<1>2. /\ Lst' = Lst /\ Keys' = Keys /\ Ties' = Ties
      /\ stayed' = stayed /\ steady' = steady /\ shrunk' = shrunk /\ grown' = grown
      /\ cut' \in BOOLEAN /\ (~cut' => ~cut /\ (shown' # shown => ~EndsInTie))
  BY <1>1, RequestHistory
<1>3. /\ walk \in [phase : {"asking", "counted", "done", "refused"}, page : Nat \ {0}, total : 0..N]
      /\ shown \in [Ids -> Nat] /\ stayed \in SUBSET Lst
  BY <1>1 DEF WalkTypes
<1>4. /\ Lst \in SUBSET (1..N) /\ Lst \in SUBSET Int /\ IsFiniteSet(Lst) /\ Cardinality(Lst) \in 0..N
      /\ \A r \in Lst : Keys[r] \in Int
  BY <1>1, ListSize
<1>5. /\ walk.page \in Nat \ {0} /\ Read = (walk.page - 1) * Limit /\ Read \in Nat
      /\ walk.page - 1 <= Read /\ Limit \in Nat \ {0} /\ N \in Nat /\ Ids = 1..N
  BY <1>3, PlaceOf
<1> DEFINE off == Read
<1>6. /\ n = Cardinality(Lst) /\ n \in Nat /\ n <= N /\ s \in [1..n -> Lst]
      /\ \A i, j \in 1..n : i < j => s[i] # s[j] /\ ~Before(Keys, Ties, s[j], s[i])
      /\ pg = Slice(s, off, Limit)
      /\ shown' = [r \in Ids |-> IF r \in pg THEN shown[r] + 1 ELSE shown[r]]
      /\ walk' = IF Cardinality(pg) < Limit THEN [walk EXCEPT !.phase = "done"]
                 ELSE [walk EXCEPT !.phase = "asking", !.page = @ + 1]
  BY <1>4 DEF PageRead
<1>7. /\ pg \in SUBSET Lst /\ IsFiniteSet(pg) /\ Cardinality(pg) \in Nat
      /\ off + Limit <= n => Cardinality(pg) = Limit
      /\ n < off + Limit => Cardinality(pg) < Limit
      /\ n < off + Limit /\ off <= n => Cardinality(pg) = n - off
  <2>1. \A i, j \in 1..n : i # j => s[i] # s[j]
    BY <1>6
  <2> DEFINE L == Lst
             lim == Limit
  <2>2. n \in Nat /\ Distinct(n, s, L) /\ off \in Nat /\ lim \in Nat \ {0} /\ pg = Slice(s, off, lim)
    BY <1>5, <1>6, <2>1 DEF Distinct
  <2> HIDE DEF off, L, lim
  <2>3. /\ pg \in SUBSET L /\ IsFiniteSet(pg) /\ Cardinality(pg) \in Nat
        /\ off + lim <= n => Cardinality(pg) = lim
        /\ n < off + lim => Cardinality(pg) < lim
        /\ n < off + lim /\ off <= n => Cardinality(pg) = n - off
    BY <2>2, PageSize
  <2> QED
    BY <2>3 DEF L, lim
<1>8. \A x \in Lst : /\ x \in pg => off < UptoOf(x) /\ ForeOf(x) < off + Limit
                     /\ x \notin pg /\ off <= ForeOf(x) => off + Limit < UptoOf(x)
                     /\ UptoOf(x) \in Nat /\ ForeOf(x) \in Nat /\ UptoOf(x) <= n
  <2> SUFFICES ASSUME NEW x \in Lst
               PROVE  /\ x \in pg => off < UptoOf(x) /\ ForeOf(x) < off + Limit
                      /\ x \notin pg /\ off <= ForeOf(x) => off + Limit < UptoOf(x)
                      /\ UptoOf(x) \in Nat /\ ForeOf(x) \in Nat /\ UptoOf(x) <= n
    OBVIOUS
  <2> DEFINE L == Lst
             K == Keys
             T == Ties
  <2>1. /\ L \in SUBSET Int /\ IsFiniteSet(L) /\ (\A r \in L : K[r] \in Int) /\ T \in BOOLEAN
        /\ n = Cardinality(L) /\ n \in Nat /\ s \in [1..n -> L] /\ x \in L
        /\ \A i, j \in 1..n : i < j => s[i] # s[j] /\ ~Before(K, T, s[j], s[i])
        /\ off \in Nat /\ Limit \in Nat \ {0} /\ pg = Slice(s, off, Limit)
    BY <1>4, <1>5, <1>6 DEF Ties
  <2> HIDE DEF L, K, T, off
  <2>2. /\ x \in pg => /\ off < Cardinality(Upto(L, K, T, x))
                       /\ Cardinality(Fore(L, K, T, x)) < off + Limit
        /\ x \notin pg /\ off <= Cardinality(Fore(L, K, T, x)) =>
               off + Limit < Cardinality(Upto(L, K, T, x))
    BY <2>1, PageRows
  <2>3. /\ Cardinality(Fore(L, K, T, x)) \in Nat /\ Cardinality(Upto(L, K, T, x)) \in Nat
        /\ Cardinality(Upto(L, K, T, x)) <= Cardinality(L)
    BY <2>1, AroundRow
  <2> QED
    BY <2>1, <2>2, <2>3 DEF ForeOf, UptoOf, L, K, T
<1>9. \A r : ForeOf(r)' = ForeOf(r) /\ UptoOf(r)' = UptoOf(r)
  BY <1>2 DEF ForeOf, UptoOf
<1>10. /\ walk' \in [phase : {"asking", "counted", "done", "refused"}, page : Nat \ {0}, total : 0..N]
       /\ walk'.total = walk.total
       /\ \/ n < off + Limit /\ walk'.phase = "done" /\ walk'.page = walk.page
          \/ off + Limit <= n /\ walk'.phase = "asking" /\ walk'.page = walk.page + 1
  <2>1. CASE n < off + Limit
    BY <1>3, <1>5, <1>6, <1>7, <2>1
  <2>2. CASE off + Limit <= n
    <3>1. walk' = [walk EXCEPT !.phase = "asking", !.page = @ + 1]
      BY <1>5, <1>6, <1>7, <2>2
    <3>2. walk.page + 1 \in Nat \ {0}
      BY <1>5
    <3> QED
      BY <1>3, <2>2, <3>1, <3>2
  <2> QED
    BY <1>5, <1>6, <2>1, <2>2
<1>11. /\ n < off + Limit => Read' = off
       /\ off + Limit <= n => Read' = off + Limit
  <2>1. Read' = (walk'.page - 1) * Limit /\ walk'.page \in Nat
    BY <1>10 DEF Read
  <2>2. CASE n < off + Limit
    <3>1. walk'.page = walk.page
      BY <1>5, <1>6, <1>10, <2>2
    <3> QED
      BY <1>5, <1>6, <2>1, <2>2, <3>1
  <2>3. CASE off + Limit <= n
    <3>1. walk'.page = walk.page + 1
      BY <1>5, <1>6, <1>10, <2>3
    <3>2. (walk'.page - 1) * Limit = (walk.page - 1) * Limit + Limit
      BY <1>5, <2>1, <3>1, ReadIs
    <3> QED
      BY <1>5, <1>6, <2>1, <2>3, <3>2
  <2> QED
    BY <1>5, <1>6, <2>2, <2>3
<1>12. /\ shown' \in [Ids -> Nat]
       /\ \A r \in Ids : shown'[r] = (IF r \in pg THEN shown[r] + 1 ELSE shown[r]) /\ shown[r] \in Nat
  BY <1>3, <1>6
<1>13. off + Limit <= n /\ ~cut' => ~EndsInTie
  <2> SUFFICES ASSUME off + Limit <= n PROVE shown' # shown
    BY <1>2
  <2>1. Cardinality(pg) # 0
    BY <1>5, <1>7
  <2>2. PICK r \in pg : TRUE
    BY <2>1, FS_EmptySet
  <2>3. r \in Ids /\ shown'[r] = shown[r] + 1 /\ shown[r] \in Nat
    BY <1>4, <1>5, <1>7, <1>12, <2>2
  <2> QED
    BY <2>3
<1>14. \A r \in Lst : off + Limit <= n /\ ~cut' => off + Limit <= ForeOf(r) \/ UptoOf(r) <= off + Limit
  BY <1>1, <1>5, <1>13, NoTie
<1> HIDE DEF off
<1>15. off \in Nat /\ off <= N /\ (n < off + Limit \/ off + Limit <= n)
  BY <1>1, <1>5, <1>6 DEF Position, off
<1>16. WalkTypes'
  <2>1. Listing'
    BY <1>1, RowsStay
  <2> QED
    BY <1>1, <1>2, <1>3, <1>10, <1>12, <2>1 DEF WalkTypes, Ids
<1>17. Position'
  <2>1. Read' <= N
    BY <1>5, <1>6, <1>11, <1>15
  <2>2. ASSUME NEW r \in Ids PROVE shown'[r] <= IF walk'.phase = "done" THEN walk'.page ELSE walk'.page - 1
    <3>1. shown[r] <= walk.page - 1 /\ shown[r] \in Nat
      BY <1>1, <1>12 DEF Position
    <3>2. shown'[r] <= walk.page
      BY <1>5, <1>12, <3>1
    <3> QED
      BY <1>5, <1>10, <3>2
  <2> QED
    BY <2>1, <2>2 DEF Position, Ids
<1>18. SkipInv'
  <2> SUFFICES ASSUME ~shrunk', ~cut', NEW r \in stayed', shown'[r] = 0
               PROVE  walk'.phase # "done" /\ (On' => Read' <= ForeOf(r)')
    BY DEF SkipInv
  <2>1. r \in stayed /\ r \in Lst /\ r \in Ids /\ ~shrunk /\ ~cut
    BY <1>2, <1>3, <1>4, <1>5
  <2>2. shown[r] = 0 /\ r \notin pg
    BY <1>12, <2>1
  <2>3. off <= ForeOf(r)
    BY <1>1, <2>1, <2>2 DEF SkipInv, On, off
  <2>4. off + Limit < UptoOf(r) /\ UptoOf(r) <= n /\ UptoOf(r) \in Nat /\ ForeOf(r) \in Nat
    BY <1>8, <2>1, <2>2, <2>3
  <2>5. off + Limit <= n
    BY <1>5, <1>6, <1>15, <2>4
  <2>6. off + Limit <= ForeOf(r)
    BY <1>5, <1>14, <1>15, <2>1, <2>4, <2>5
  <2>7. walk'.phase = "asking"
    BY <1>5, <1>6, <1>10, <1>15, <2>5
  <2> QED
    BY <1>9, <1>11, <2>5, <2>6, <2>7
<1>19. TwiceInv'
  <2> SUFFICES ASSUME ~grown', ~cut', NEW r \in stayed'
               PROVE  shown'[r] <= 1 /\ (On' /\ shown'[r] = 1 => UptoOf(r)' <= Read')
    BY DEF TwiceInv
  <2>1. r \in stayed /\ r \in Lst /\ r \in Ids /\ ~grown /\ ~cut
    BY <1>2, <1>3, <1>4, <1>5
  <2>2. shown[r] \in Nat /\ shown[r] <= 1 /\ (shown[r] = 1 => UptoOf(r) <= off)
    BY <1>1, <1>12, <2>1 DEF TwiceInv, On, off
  <2>3. UptoOf(r) \in Nat /\ ForeOf(r) \in Nat /\ (r \in pg => off < UptoOf(r) /\ ForeOf(r) < off + Limit)
    BY <1>8, <2>1
  <2>4. r \in pg => shown[r] = 0
    BY <1>15, <2>2, <2>3
  <2>5. shown'[r] <= 1
    BY <1>12, <2>1, <2>2, <2>4
  <2>6. ASSUME On', shown'[r] = 1 PROVE UptoOf(r) <= Read'
    <3>1. off + Limit <= n
      BY <1>10, <1>15, <2>6 DEF On
    <3>2. CASE r \in pg
      BY <1>5, <1>11, <1>14, <1>15, <2>1, <2>3, <3>1, <3>2
    <3>3. CASE r \notin pg
      <4>1. UptoOf(r) <= off
        BY <1>12, <2>1, <2>2, <2>6, <3>3
      <4> QED
        BY <1>5, <1>11, <1>15, <2>3, <3>1, <4>1
    <3> QED
      BY <3>2, <3>3
  <2> QED
    BY <1>9, <2>5, <2>6
<1>20. CountInv'
  <2> SUFFICES ASSUME steady'
               PROVE  /\ On' => /\ SumFunction(shown') = Read' /\ Read' <= Cardinality(Lst')
                                /\ walk'.phase = "counted" => walk'.total = Cardinality(Lst')
                      /\ walk'.phase = "done" => walk'.total = SumFunction(shown')
    BY DEF CountInv
  <2>1. SumFunction(shown) = off /\ off <= n /\ walk.total = n
    BY <1>1, <1>2, <1>6 DEF CountInv, On, off
  <2>2. SumFunction(shown') = SumFunction(shown) + Cardinality(pg)
    <3>1. IsFiniteSet(Ids) /\ shown \in [Ids -> Int] /\ pg \in SUBSET Ids
      <4>1. IsFiniteSet(Ids)
        BY <1>5, FS_Interval
      <4> QED
        BY <1>3, <1>4, <1>5, <1>7, <4>1
    <3> DEFINE D == Ids
               f == shown
    <3>2. IsFiniteSet(D) /\ f \in [D -> Int] /\ pg \in SUBSET D
          /\ shown' = [x \in D |-> IF x \in pg THEN f[x] + 1 ELSE f[x]]
      BY <1>6, <3>1
    <3> HIDE DEF D, f
    <3>3. SumFunction([x \in D |-> IF x \in pg THEN f[x] + 1 ELSE f[x]]) = SumFunction(f) + Cardinality(pg)
      BY <3>2, SumOfPage
    <3> QED
      BY <3>2, <3>3 DEF f
  <2>3. CASE n < off + Limit
    <3>1. Cardinality(pg) = n - off /\ walk'.phase = "done" /\ walk'.total = walk.total
      BY <1>7, <1>10, <1>15, <2>1, <2>3, <1>5, <1>6
    <3> QED
      BY <1>6, <1>15, <2>1, <2>2, <3>1 DEF On
  <2>4. CASE off + Limit <= n
    <3>1. Cardinality(pg) = Limit /\ walk'.phase = "asking" /\ Read' = off + Limit
      BY <1>5, <1>6, <1>7, <1>10, <1>11, <1>15, <2>4
    <3> QED
      BY <1>2, <1>6, <2>1, <2>2, <2>4, <3>1 DEF On
  <2> QED
    BY <1>15, <2>3, <2>4
<1> QED
  BY <1>16, <1>17, <1>18, <1>19, <1>20 DEF WalkInv

(* Commits by other requests leave the walk where it is.                   *)
LEMMA Changed ==
    ASSUME Listing, Change
    PROVE  /\ UNCHANGED <<list, who, filter, walk, shown>> /\ On /\ Listing'
<1> USE DEF Commit
<1>0. /\ list \in Lists /\ live \in SUBSET Properties
      /\ who \in [role : Roles, props : SUBSET Properties]
      /\ filter \in (IF list \in {"rooms", "roster"} THEN Properties ELSE Properties \cup {Absent})
      /\ row \in [Ids -> Rows(list) \cup {Absent}] /\ changes \in 0..MaxChanges /\ MaxChanges \in Nat
  BY SizesAssumption DEF Listing
<1>1. /\ UNCHANGED <<list, who, filter, walk, shown>> /\ On
      /\ changes < MaxChanges /\ changes' = changes + 1
  BY DEF Change, Appear, Vanish, Touch, Rename, Sign, DeleteProperty, On
<1> DEFINE T == Rows(list)
<1>2. live' \in SUBSET Properties /\ row' \in [Ids -> T \cup {Absent}]
  <2>1. CASE Appear
    <3>1. PICK r \in Ids, new \in T : row' = [row EXCEPT ![r] = new] /\ live' = live
      BY <2>1 DEF Appear
    <3> HIDE DEF T
    <3> QED
      BY <1>0, <3>1 DEF T
  <2>2. CASE Vanish
    <3>1. PICK r \in Ids : row' = [row EXCEPT ![r] = Absent] /\ live' = live
      BY <2>2 DEF Vanish
    <3> HIDE DEF T
    <3> QED
      BY <1>0, <3>1 DEF T
  <2>3. CASE Touch \/ Rename
    <3>1. PICK r \in Ids, k \in 1..MaxKey : row[r] # Absent /\ row' = [row EXCEPT ![r].key = k] /\ live' = live
      BY <2>3 DEF Touch, Rename
    <3>2. row[r] \in T
      BY <1>0, <3>1
    <3>3. [row[r] EXCEPT !.key = k] \in T
      BY <3>1, <3>2 DEF Rows
    <3>4. row' = [row EXCEPT ![r] = [row[r] EXCEPT !.key = k]]
      BY <3>1
    <3> HIDE DEF T
    <3> QED
      BY <1>0, <3>1, <3>3, <3>4 DEF T
  <2>4. CASE Sign
    <3>1. PICK r \in Ids, p \in Properties : /\ list = "tenants" /\ row[r] # Absent
                                             /\ row' = [row EXCEPT ![r].in = @ \cup {p}] /\ live' = live
      BY <2>4 DEF Sign
    <3>2. row[r] \in T
      BY <1>0, <3>1
    <3>3. [row[r] EXCEPT !.in = row[r].in \cup {p}] \in T
      BY <3>1, <3>2 DEF Rows
    <3>4. row' = [row EXCEPT ![r] = [row[r] EXCEPT !.in = row[r].in \cup {p}]]
      BY <3>1
    <3> HIDE DEF T
    <3> QED
      BY <1>0, <3>1, <3>3, <3>4 DEF T
  <2>5. CASE DeleteProperty
    <3>1. live' \in SUBSET live /\ row' = row
      BY <2>5 DEF DeleteProperty
    <3> HIDE DEF T
    <3> QED
      BY <1>0, <3>1 DEF T
  <2> QED
    BY <2>1, <2>2, <2>3, <2>4, <2>5 DEF Change
<1>3. Rows(list)' = T
  BY <1>1 DEF Rows
<1>4. changes' \in 0..MaxChanges
  BY <1>0, <1>1
<1>5. Listing'
  BY <1>0, <1>1, <1>2, <1>3, <1>4 DEF Listing, Ids, Lists
<1> QED
  BY <1>1, <1>5

LEMMA ChangeKeeps ==
    ASSUME WalkInv, HistoryNext, Change
    PROVE  WalkInv'
<1>1. WalkTypes /\ Position /\ SkipInv /\ TwiceInv /\ CountInv /\ Listing
  BY DEF WalkInv, WalkTypes
<1>2. UNCHANGED <<list, who, filter, walk, shown>> /\ On /\ Listing'
  BY <1>1, Changed
<1>3. /\ walk \in [phase : {"asking", "counted", "done", "refused"}, page : Nat \ {0}, total : 0..N]
      /\ stayed \in SUBSET Lst
      /\ shrunk \in BOOLEAN /\ grown \in BOOLEAN /\ cut \in BOOLEAN /\ steady \in BOOLEAN
  BY <1>1 DEF WalkTypes
<1>4. Read' = Read /\ On' /\ Ties' = Ties
  BY <1>2 DEF Read, On, Ties
<1>5. Read \in Nat /\ N \in Nat
  BY <1>3, PlaceOf
<1>6. /\ Lst \in SUBSET (1..N) /\ \A r \in Lst : Keys[r] = row[r].key /\ Keys[r] \in Int
  BY <1>1, ListSize
<1>7. /\ Lst' \in SUBSET (1..N) /\ \A r \in Lst' : Keys'[r] = row'[r].key /\ Keys'[r] \in Int
  <2>1. (Listing => Lst \in SUBSET (1..N) /\ \A r \in Lst : Keys[r] = row[r].key /\ Keys[r] \in Int)'
    BY ListSize, PTL
  <2> QED
    BY <1>2, <2>1
<1>8. /\ stayed' = stayed \cap Kept
      /\ steady' = (steady /\ Kept = Lst /\ Kept = Lst')
      /\ shrunk' = (shrunk \/ \E r \in Lst \ Kept :
                   /\ Cardinality({s \in Lst : row[s].key > row[r].key}) < Read
                   /\ (r \in Lst' => row'[r].key < row[r].key))
      /\ grown' = (grown \/ \E r \in Lst' \ Kept :
                   Cardinality({s \in Lst' : row'[s].key > row'[r].key}) < Read)
      /\ cut' = (cut \/ (shown' # shown /\ EndsInTie))
  BY HistorySteps
<1>9. cut' = cut
  BY <1>2, <1>3, <1>8
<1>10. \A r \in stayed' : r \in stayed /\ r \in Lst \cap Lst' /\ Keys'[r] = Keys[r]
  BY <1>3, <1>6, <1>7, <1>8 DEF Kept
<1>11. \A r : ForeOf(r)' = Cardinality(Fore(Lst', Keys', Ties, r)) /\ UptoOf(r)' = Cardinality(Upto(Lst', Keys', Ties, r))
  BY <1>4 DEF ForeOf, UptoOf
<1>12. WalkTypes'
  <2>1. stayed' \in SUBSET Lst'
    BY <1>10
  <2>2. shrunk' \in BOOLEAN /\ grown' \in BOOLEAN /\ cut' \in BOOLEAN /\ steady' \in BOOLEAN
    BY <1>8
  <2> QED
    BY <1>1, <1>2, <2>1, <2>2 DEF WalkTypes, Ids
<1>13. Position'
  BY <1>1, <1>2, <1>4 DEF Position, Ids
<1>14. SkipInv'
  <2> SUFFICES ASSUME ~shrunk', ~cut', NEW r \in stayed', shown'[r] = 0
               PROVE  walk'.phase # "done" /\ (On' => Read' <= ForeOf(r)')
    BY DEF SkipInv
  <2> DEFINE L == Lst
             L2 == Lst'
             K == Keys
             K2 == Keys'
             T == Ties
             off == Read
  <2>1. ~shrunk /\ ~cut
    BY <1>3, <1>8, <1>9
  <2>2. r \in stayed /\ r \in L \cap L2 /\ K2[r] = K[r]
    BY <1>10
  <2>3. off <= Cardinality(Fore(L, K, T, r)) /\ walk.phase # "done"
    BY <1>1, <1>2, <2>1, <2>2 DEF SkipInv, ForeOf
  <2>4. \A x \in L : x \notin L2 \/ K2[x] # K[x] =>
            \/ off <= Cardinality({s \in L : K[s] > K[x]})
            \/ x \in L2 /\ K2[x] > K[x]
    <3> SUFFICES ASSUME NEW x \in L, x \notin L2 \/ K2[x] # K[x], ~(x \in L2 /\ K2[x] > K[x])
                 PROVE  off <= Cardinality({s \in L : K[s] > K[x]})
      OBVIOUS
    <3>1. x \in Lst \ Kept
      BY <1>6, <1>7 DEF Kept
    <3>2. x \in Lst' => row'[x].key < row[x].key
      BY <1>6, <1>7
    <3> DEFINE G == {s \in L : K[s] > K[x]}
               H == {s \in Lst : row[s].key > row[x].key}
    <3>3. ~(Cardinality(H) < off)
      <4>1. ~\E q \in Lst \ Kept :
                /\ Cardinality({s \in Lst : row[s].key > row[q].key}) < Read
                /\ (q \in Lst' => row'[q].key < row[q].key)
        BY <1>8
      <4> QED
        BY <3>1, <3>2, <4>1
    <3>4. H = G /\ G \in SUBSET (1..N)
      BY <1>6
    <3> HIDE DEF G, H
    <3>5. Cardinality(G) \in Nat
      <4>1. IsFiniteSet(1..N)
        BY <1>5, FS_Interval
      <4>2. IsFiniteSet(G)
        BY <3>4, <4>1, FS_Subset
      <4> QED
        BY <4>2, FS_CardinalityType
    <3>6. off <= Cardinality(G)
      BY <1>5, <3>3, <3>4, <3>5
    <3> QED
      BY <3>6 DEF G
  <2>5. /\ N \in Nat /\ L \in SUBSET (1..N) /\ L2 \in SUBSET (1..N) /\ (\A x \in L : K[x] \in Int)
        /\ (\A x \in L2 : K2[x] \in Int) /\ T \in BOOLEAN /\ off \in Nat
    <3>1. T \in BOOLEAN
      BY DEF Ties
    <3>2. N \in Nat /\ off \in Nat
      BY <1>5
    <3>3. L \in SUBSET (1..N) /\ \A x \in L : K[x] \in Int
      BY <1>6
    <3>4. L2 \in SUBSET (1..N) /\ \A x \in L2 : K2[x] \in Int
      BY <1>7
    <3> QED
      BY <3>1, <3>2, <3>3, <3>4
  <2> HIDE DEF L, L2, K, K2, T, off
  <2>6. off <= Cardinality(Fore(L2, K2, T, r))
    BY <2>2, <2>3, <2>4, <2>5, ForeStays
  <2> QED
    BY <1>2, <1>4, <1>11, <2>3, <2>6 DEF L2, K2, T, off
<1>15. TwiceInv'
  <2> SUFFICES ASSUME ~grown', ~cut', NEW r \in stayed'
               PROVE  shown'[r] <= 1 /\ (On' /\ shown'[r] = 1 => UptoOf(r)' <= Read')
    BY DEF TwiceInv
  <2> DEFINE L == Lst
             L2 == Lst'
             K == Keys
             K2 == Keys'
             T == Ties
             off == Read
  <2>1. ~grown /\ ~cut
    BY <1>3, <1>8, <1>9
  <2>2. r \in stayed /\ r \in L \cap L2 /\ K2[r] = K[r]
    BY <1>10
  <2>3. shown'[r] <= 1 /\ (shown'[r] = 1 => Cardinality(Upto(L, K, T, r)) <= off)
    BY <1>1, <1>2, <2>1, <2>2 DEF TwiceInv, UptoOf
  <2>4. \A x \in L2 : x \notin L \/ K2[x] # K[x] => off <= Cardinality({s \in L2 : K2[s] > K2[x]})
    <3> SUFFICES ASSUME NEW x \in L2, x \notin L \/ K2[x] # K[x]
                 PROVE  off <= Cardinality({s \in L2 : K2[s] > K2[x]})
      OBVIOUS
    <3>1. x \in Lst' \ Kept
      BY <1>6, <1>7 DEF Kept
    <3> DEFINE G == {s \in L2 : K2[s] > K2[x]}
               H == {s \in Lst' : row'[s].key > row'[x].key}
    <3>2. ~(Cardinality(H) < off)
      <4>1. ~\E q \in Lst' \ Kept : Cardinality({s \in Lst' : row'[s].key > row'[q].key}) < Read
        BY <1>8
      <4> QED
        BY <3>1, <4>1
    <3>3. H = G /\ G \in SUBSET (1..N)
      BY <1>7
    <3> HIDE DEF G, H
    <3>4. Cardinality(G) \in Nat
      <4>1. IsFiniteSet(1..N)
        BY <1>5, FS_Interval
      <4>2. IsFiniteSet(G)
        BY <3>3, <4>1, FS_Subset
      <4> QED
        BY <4>2, FS_CardinalityType
    <3>5. off <= Cardinality(G)
      BY <1>5, <3>2, <3>3, <3>4
    <3> QED
      BY <3>5 DEF G
  <2>5. /\ N \in Nat /\ L \in SUBSET (1..N) /\ L2 \in SUBSET (1..N) /\ (\A x \in L : K[x] \in Int)
        /\ (\A x \in L2 : K2[x] \in Int) /\ T \in BOOLEAN /\ off \in Nat
    <3>1. T \in BOOLEAN
      BY DEF Ties
    <3>2. N \in Nat /\ off \in Nat
      BY <1>5
    <3>3. L \in SUBSET (1..N) /\ \A x \in L : K[x] \in Int
      BY <1>6
    <3>4. L2 \in SUBSET (1..N) /\ \A x \in L2 : K2[x] \in Int
      BY <1>7
    <3> QED
      BY <3>1, <3>2, <3>3, <3>4
  <2> HIDE DEF L, L2, K, K2, T, off
  <2>6. ASSUME shown'[r] = 1 PROVE Cardinality(Upto(L2, K2, T, r)) <= off
    <3>1. Cardinality(Upto(L, K, T, r)) <= off
      BY <2>3, <2>6
    <3> QED
      BY <2>2, <2>4, <2>5, <3>1, UptoStays
  <2> QED
    BY <1>4, <1>11, <2>3, <2>6 DEF L2, K2, T, off
<1>16. CountInv'
  <2> SUFFICES ASSUME steady'
               PROVE  /\ On' => /\ SumFunction(shown') = Read' /\ Read' <= Cardinality(Lst')
                                /\ walk'.phase = "counted" => walk'.total = Cardinality(Lst')
                      /\ walk'.phase = "done" => walk'.total = SumFunction(shown')
    BY DEF CountInv
  <2>1. steady /\ Lst' = Lst
    BY <1>3, <1>8
  <2> QED
    BY <1>1, <1>2, <1>4, <2>1 DEF CountInv
<1> QED
  BY <1>12, <1>13, <1>14, <1>15, <1>16 DEF WalkInv

-----------------------------------------------------------------------------
LEMMA WalkStart == ASSUME HistoryInit PROVE WalkInv
<1>1. /\ N \in Nat /\ MaxChanges \in Nat /\ Ids = 1..N
  BY SizesAssumption DEF Ids
<1>2. Listing
  <2>1. WalkInit
    BY DEF HistoryInit
  <2> QED
    BY <1>1, <2>1 DEF WalkInit, Listing, Ids
<1>3. /\ walk = [phase |-> "asking", page |-> 1, total |-> 0] /\ shown = [r \in Ids |-> 0]
      /\ stayed = Lst /\ shrunk = FALSE /\ grown = FALSE /\ cut = FALSE /\ steady = TRUE
  <2>1. WalkInit /\ stayed = Listed(filter) /\ shrunk = FALSE /\ grown = FALSE /\ cut = FALSE /\ steady = TRUE
    BY DEF HistoryInit
  <2>2. walk = [phase |-> "asking", page |-> 1, total |-> 0] /\ shown = [r \in Ids |-> 0]
    BY <2>1 DEF WalkInit
  <2> QED
    BY <2>1, <2>2 DEF Lst
<1>4. WalkTypes
  <2>1. walk \in [phase : {"asking", "counted", "done", "refused"}, page : Nat \ {0}, total : 0..N]
    BY <1>1, <1>3
  <2>2. shown \in [Ids -> Nat]
    BY <1>3
  <2> QED
    BY <1>2, <1>3, <2>1, <2>2 DEF WalkTypes
<1>5. Read = 0
  <2>1. Read = (1 - 1) * Limit /\ Limit \in Nat
    BY <1>3, SizesAssumption DEF Read
  <2> QED
    BY <2>1
<1>6. Position
  BY <1>1, <1>3, <1>5 DEF Position
<1>7. \A r \in Ids : shown[r] = 0
  BY <1>3
<1>8. Lst \in SUBSET Ids /\ Cardinality(Lst) \in Nat
  BY <1>1, <1>2, ListSize
<1>9. SkipInv
  <2> SUFFICES ASSUME NEW r \in Lst PROVE 0 <= ForeOf(r)
    BY <1>3, <1>5 DEF SkipInv
  <2> DEFINE L == Lst
             K == Keys
             T == Ties
  <2>1. L \in SUBSET Int /\ IsFiniteSet(L) /\ (\A x \in L : K[x] \in Int) /\ T \in BOOLEAN /\ r \in L
    BY <1>2, ListSize DEF Ties
  <2> HIDE DEF L, K, T
  <2>2. Cardinality(Fore(L, K, T, r)) \in Nat
    BY <2>1, AroundRow
  <2> QED
    BY <2>2 DEF ForeOf, L, K, T
<1>10. TwiceInv
  BY <1>3, <1>7, <1>8 DEF TwiceInv
<1>11. CountInv
  <2>1. IsFiniteSet(Ids)
    BY <1>1, FS_Interval
  <2>2. SumFunction(shown) = 0
    BY <1>3, <2>1, SumOfZeros
  <2> QED
    BY <1>3, <1>5, <1>8, <2>2 DEF CountInv
<1> QED
  BY <1>4, <1>6, <1>9, <1>10, <1>11 DEF WalkInv

LEMMA WalkKept == ASSUME WalkInv, HistoryNext PROVE WalkInv'
<1>1. Listing
  BY DEF WalkInv, WalkTypes
<1>2. CASE PageRequest
  <2>1. /\ UNCHANGED <<list, who, filter, row, live, changes>>
        /\ \/ Serve(Lst, Cardinality(Lst), Order)
           \/ walk.phase = "counted" /\ walk' = [walk EXCEPT !.phase = "refused"] /\ shown' = shown
    BY <1>1, <1>2, Requested
  <2>2. CASE walk.phase = "counted" /\ walk' = [walk EXCEPT !.phase = "refused"] /\ shown' = shown
    <3>1. On
      BY <2>2 DEF On
    <3> QED
      BY <2>1, <2>2, <3>1, AskingKeeps
  <2>3. CASE Serve(Lst, Cardinality(Lst), Order)
    <3>1. \/ /\ walk.phase = "asking" /\ shown' = shown
             /\ walk' \in {[walk EXCEPT !.phase = "counted", !.total = Cardinality(Lst)],
                           [walk EXCEPT !.phase = "refused"]}
          \/ walk.phase = "counted" /\ \E n, s, pg : PageRead(n, s, pg)
      BY <1>1, <2>3, Served
    <3>2. CASE /\ walk.phase = "asking" /\ shown' = shown
               /\ walk' \in {[walk EXCEPT !.phase = "counted", !.total = Cardinality(Lst)],
                             [walk EXCEPT !.phase = "refused"]}
      <4>1. On
        BY <3>2 DEF On
      <4> QED
        BY <2>1, <3>2, <4>1, AskingKeeps
    <3>3. CASE walk.phase = "counted" /\ \E n, s, pg : PageRead(n, s, pg)
      BY <2>1, <3>3, PageKeeps
    <3> QED
      BY <3>1, <3>2, <3>3
  <2> QED
    BY <2>1, <2>2, <2>3
<1>3. CASE Change
  BY <1>3, ChangeKeeps
<1> QED
  BY <1>2, <1>3 DEF HistoryNext, WalkNext

LEMMA WalkStutter ==
    ASSUME WalkInv, UNCHANGED <<listVars, history>> PROVE WalkInv'
<1>1. UNCHANGED <<list, who, filter, row, live, walk, shown, changes, stayed, shrunk, grown, cut, steady>>
  BY DEF listVars, history
<1>2. Lst' = Lst /\ Keys' = Keys /\ Ties' = Ties /\ Listing'
  BY <1>1, RowsStay DEF WalkInv, WalkTypes
<1>3. Read' = Read /\ \A r : ForeOf(r)' = ForeOf(r) /\ UptoOf(r)' = UptoOf(r)
  BY <1>1, <1>2 DEF Read, ForeOf, UptoOf
<1>4. WalkTypes' /\ Position'
  BY <1>1, <1>2, <1>3 DEF WalkInv, WalkTypes, Position, Ids
<1>5. SkipInv' /\ TwiceInv' /\ CountInv'
  BY <1>1, <1>2, <1>3 DEF WalkInv, SkipInv, TwiceInv, CountInv, On
<1> QED
  BY <1>4, <1>5 DEF WalkInv

LEMMA WalkPromise == ASSUME WalkInv PROVE WalkComplete
<1>1. WalkTypes /\ Position /\ SkipInv /\ TwiceInv /\ CountInv /\ Listing
  BY DEF WalkInv, WalkTypes
<1>2. /\ walk \in [phase : {"asking", "counted", "done", "refused"}, page : Nat \ {0}, total : 0..N]
      /\ shown \in [Ids -> Nat] /\ stayed \in SUBSET Lst
  BY <1>1 DEF WalkTypes
<1>3. /\ walk.page \in Nat \ {0} /\ Read \in Nat /\ walk.page - 1 <= Read /\ N \in Nat /\ Ids = 1..N
  BY <1>2, PlaceOf
<1>4. WalkTypeOK
  <2>1. Read <= N /\ \A r \in Ids : shown[r] <= walk.page /\ shown[r] \in Nat
    <3>1. \A r \in Ids : shown[r] <= (IF walk.phase = "done" THEN walk.page ELSE walk.page - 1) /\ shown[r] \in Nat
      BY <1>1, <1>2 DEF Position
    <3> QED
      BY <1>1, <1>3, <3>1 DEF Position
  <2>2. walk.page \in 1..N + 1
    BY <1>3, <2>1
  <2>3. walk \in [phase : {"asking", "counted", "done", "refused"}, page : 1..N + 1, total : 0..N]
    BY <1>2, <2>2
  <2>4. shown \in [Ids -> 0..N + 1]
    <3>1. \A r \in Ids : shown[r] \in 0..N + 1
      BY <1>3, <2>1, <2>2
    <3> QED
      BY <1>2, <3>1
  <2>5. \A r \in Present : row[r] \in Rows(list)
    BY <1>1, RowsAre
  <2> QED
    BY <1>1, <2>3, <2>4, <2>5 DEF WalkTypeOK, Listing
<1>5. \A r \in stayed : r \in Ids /\ shown[r] \in Nat
  <2>1. Lst \in SUBSET Ids
    BY <1>1, <1>3, ListSize
  <2> QED
    BY <1>2, <2>1
<1>6. NothingSkipped
  BY <1>1, <1>5 DEF NothingSkipped, SkipInv
<1>7. NothingTwice
  BY <1>1 DEF NothingTwice, TwiceInv
<1>8. TotalCounted
  BY <1>1 DEF TotalCounted, CountInv
<1> QED
  BY <1>4, <1>6, <1>7, <1>8 DEF WalkComplete

(* Whatever is added, removed, moved or deleted while a caller walks a     *)
(* list, a finished walk has shown every row that stayed in its place, and *)
(* none twice, and has counted them, with the exceptions WalkComplete      *)
(* names: for every number of rows, page size and bound.                   *)
THEOREM WalksAreComplete == HistorySpec => []WalkComplete
<1>1. HistoryInit => WalkInv
  BY WalkStart
<1>2. WalkInv /\ [HistoryNext]_<<listVars, history>> => WalkInv'
  BY WalkKept, WalkStutter
<1>3. WalkInv => WalkComplete
  BY WalkPromise
<1> QED
  BY <1>1, <1>2, <1>3, PTL DEF HistorySpec

(* What a caller may list is what the same caller may open by its id, for  *)
(* every role, assignment and filter, also after a property was deleted.   *)
THEOREM ListsAreReachable == HistorySpec => []ListedIsReachable
<1>1. HistoryInit => WalkInv
  BY WalkStart
<1>2. WalkInv /\ [HistoryNext]_<<listVars, history>> => WalkInv'
  BY WalkKept, WalkStutter
<1>3. WalkInv => ListedIsReachable
  BY Reachable DEF WalkInv, WalkTypes
<1> QED
  BY <1>1, <1>2, <1>3, PTL DEF HistorySpec

=============================================================================
