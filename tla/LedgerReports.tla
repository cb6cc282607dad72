--------------------------- MODULE LedgerReports ---------------------------
(***************************************************************************)
(* The reports on one property's ledger, read while it is being written.   *)
(*                                                                         *)
(* A report asks the clock which month is current.  It reads that month    *)
(* from the live entries and every other one from its snapshot; what came  *)
(* before the period is the sum of the earlier snapshots.  A closed month  *)
(* without entries takes the profit and loss report a second statement, to *)
(* look for the snapshot's header.  Statements run one after the other     *)
(* without a transaction, and a closing may commit between any two of      *)
(* them.  read[r] is the report reader r is composing, and afterwards the  *)
(* report it holds.                                                        *)
(***************************************************************************)
EXTENDS PropertyLedger, Sequences

CONSTANT Readers  \* slots of concurrent report requests

ASSUME MonthsAssumption == Months \subseteq Nat

VARIABLES
    now,   \* the current month, Asia/Taipei
    read   \* read[r]: the report of reader r

reportVars == <<vars, now, read>>

(* The statements of each report, in the order they run.                   *)
Statements ==
    [summaries   |-> <<"finalized", "live">>,
     financial   |-> <<"period">>,
     cashflow    |-> <<"period", "opening">>,
     operation   |-> <<"opening", "period">>,
     profit_loss |-> <<"period", "clock", "previous">>]

(* What can be left of them.                                               *)
Suffixes ==
    {<<>>} \cup {SubSeq(s, i, Len(s)) : s \in {Statements[k] : k \in DOMAIN Statements}, i \in 1..3}

(* rows and before are the entries of the period and of what is reported   *)
(* beside it, fresh the months read from live entries; seek says that the  *)
(* first statement of a month has found no entries.  Two are histories:    *)
(* missed, the months that had no snapshot when their entries were looked  *)
(* for, and due, the recorded entries the report should show when the      *)
(* request comes in.                                                       *)
Report ==
    [kind : DOMAIN Statements, month : Months, clock : Months, todo : Suffixes,
     rows : SUBSET Entry, before : SUBSET Entry, fresh : SUBSET Months,
     seek : BOOLEAN, missed : SUBSET Months, due : SUBSET Entry]

ReadersTypeOK ==
    /\ now \in Months
    /\ read \in [Readers -> Report \cup {None}]
    /\ \A r \in Readers : read[r] # None => read[r].rows \cap read[r].before = {}

ReportInit ==
    /\ Init
    /\ now \in Months
    /\ read = [r \in Readers |-> None]

-----------------------------------------------------------------------------
Closed(m) == snapshot[m] # None

(* Live queries select the entries of the month; an empty month reports    *)
(* zeros.                                                                  *)
Live(m) == {e \in live : e.month = m}

(* The operation report takes the totals of the snapshot, the others its   *)
(* entries.                                                                *)
FinalizedFinancialReport(m) == snapshot[m].entries
FinalizedMonthlyCashflow(m) == snapshot[m].entries
FinalizedProfitLossPeriod(m) == snapshot[m].entries
FinalizedOperationReport(m) == snapshot[m].total

Finalized(kind, m) ==
    CASE kind = "financial" -> FinalizedFinancialReport(m)
      [] kind = "cashflow" -> FinalizedMonthlyCashflow(m)
      [] kind = "profit_loss" -> FinalizedProfitLossPeriod(m)
      [] kind = "operation" -> FinalizedOperationReport(m)

SumOf(ms) == UNION {snapshot[m].total : m \in ms}

Opening(m) == SumOf({n \in Months : n < m /\ Closed(n)})

Busy(r) == read[r] # None /\ read[r].todo # <<>>
NextIs(r, statement) == Busy(r) /\ ~read[r].seek /\ Head(read[r].todo) = statement

Store(r, rows, before, fresh) ==
    LET R == read[r]
    IN  read' = [read EXCEPT ![r] =
            [R EXCEPT !.rows = rows, !.before = before, !.fresh = @ \cup fresh, !.todo = Tail(@)]]

-----------------------------------------------------------------------------
(* The months a request should show: its periods, live or closed, and the  *)
(* closed months before them.                                              *)
Shown(kind, m) ==
    LET period(n) == Closed(n) \/ n = now
    IN  CASE kind = "financial" -> {n \in {m} : period(n)}
          [] kind = "profit_loss" -> {n \in {m, m - 1} \cap Months : period(n)}
          [] kind = "summaries" -> {n \in Months : period(n)}
          [] OTHER -> {n \in Months : (n = m /\ period(n)) \/ (n < m /\ Closed(n))}

(* The request reads the clock.  The list of summaries has no period of    *)
(* its own and lists the current month.                                    *)
Request(r, kind, m) ==
    /\ ~Busy(r)
    /\ kind = "summaries" => m = now
    /\ read' = [read EXCEPT ![r] =
           [kind |-> kind, month |-> m, clock |-> now, todo |-> Statements[kind],
            rows |-> {}, before |-> {}, fresh |-> {}, seek |-> FALSE, missed |-> {},
            due |-> {e \in Archived \cup live : e.month \in Shown(kind, m)}]]
    /\ UNCHANGED <<vars, now>>

(* A month that is neither current nor closed has no report.               *)
Exists(r, m) == m \in Months /\ (m = read[r].clock \/ Closed(m))

NotFound(r) == read' = [read EXCEPT ![r] = None]

(* Mutation: every period is read from the live entries.                   *)
PeriodOfLive(r, m) == Live(m)
PeriodOf(r, m) == IF m = read[r].clock THEN Live(m) ELSE Finalized(read[r].kind, m)

(* The profit and loss report selects a closed month through its entries.  *)
(* Without any it cannot tell an empty snapshot from a missing one.        *)
NoRows(r, m) ==
    /\ read[r].kind = "profit_loss" /\ m \in Months /\ m # read[r].clock
    /\ ~(Closed(m) /\ FinalizedProfitLossPeriod(m) # {})

Seek(r, m) ==
    read' = [read EXCEPT ![r].seek = TRUE,
                         ![r].missed = IF Closed(m) THEN @ ELSE @ \cup {m}]

ReadPeriod(r) ==
    /\ NextIs(r, "period")
    /\ LET m == read[r].month
       IN  IF NoRows(r, m)
           THEN Seek(r, m)
           ELSE IF Exists(r, m)
           THEN Store(r, PeriodOf(r, m), read[r].before, {m} \cap {read[r].clock})
           ELSE NotFound(r)
    /\ UNCHANGED <<vars, now>>

(* The second statement: a header that exists by now makes it a closed     *)
(* month without rows.                                                     *)
SoughtMonth(R) == IF Head(R.todo) = "period" THEN R.month ELSE R.month - 1

FindHeader(r) ==
    /\ Busy(r) /\ read[r].seek
    /\ IF Closed(SoughtMonth(read[r]))
       THEN read' = [read EXCEPT ![r].seek = FALSE, ![r].todo = Tail(@)]
       ELSE NotFound(r)
    /\ UNCHANGED <<vars, now>>

ReadOpening(r) ==
    /\ NextIs(r, "opening")
    /\ Store(r, read[r].rows, Opening(read[r].month), {})
    /\ UNCHANGED <<vars, now>>

(* The previous period of a profit and loss report asks the clock again.   *)
ReadClock(r) ==
    /\ NextIs(r, "clock")
    /\ read' = [read EXCEPT ![r].clock = now, ![r].todo = Tail(@)]
    /\ UNCHANGED <<vars, now>>

ReadPrevious(r) ==
    /\ NextIs(r, "previous")
    /\ LET m == read[r].month - 1
       IN  IF NoRows(r, m)
           THEN Seek(r, m)
           ELSE IF Exists(r, m)
           THEN Store(r, read[r].rows, PeriodOf(r, m), {m} \cap {read[r].clock})
           ELSE NotFound(r)
    /\ UNCHANGED <<vars, now>>

ListFinalized(r) ==
    /\ NextIs(r, "finalized")
    /\ Store(r, {}, SumOf({n \in Months : Closed(n)}), {})
    /\ UNCHANGED <<vars, now>>

(* The live summary replaces a finalized one of the same month.            *)
ListLive(r) ==
    /\ NextIs(r, "live")
    /\ LET m == read[r].clock
       IN  Store(r, Live(m), {e \in read[r].before : e.month # m}, {m})
    /\ UNCHANGED <<vars, now>>

(* The month ends.                                                         *)
Rollover ==
    /\ now + 1 \in Months
    /\ now' = now + 1
    /\ UNCHANGED <<vars, read>>

-----------------------------------------------------------------------------
ReadNext(r) ==
    \/ \E kind \in DOMAIN Statements, m \in Months : Request(r, kind, m)
    \/ ReadPeriod(r) \/ ReadOpening(r)
    \/ ReadClock(r) \/ ReadPrevious(r) \/ FindHeader(r)
    \/ ListFinalized(r) \/ ListLive(r)

ReportNext ==
    \/ Next /\ UNCHANGED <<now, read>>
    \/ \E r \in Readers : ReadNext(r)
    \/ Rollover

ReportSpec == ReportInit /\ [][ReportNext]_reportVars

-----------------------------------------------------------------------------
(* Properties.                                                             *)

Finished(r) == read[r] # None /\ read[r].todo = <<>>

(* Entries posted to a month that was closed already.                      *)
Late == {e \in live : Closed(e.month)}

(* Entries of a month that was read as current and is closed by now.       *)
ClosedWhileRead(r) == {e \in Entry : e.month \in read[r].fresh /\ Closed(e.month)}

(* Entries of a month that was closed between the look for its entries and *)
(* the look for its header: a closed month that the report shows empty.    *)
ClosedBetween(r) == {e \in Entry : e.month \in read[r].missed}

(* A finished report shows every entry that it owed its reader when it was *)
(* asked for and that is still recorded: a closing that commits between    *)
(* its statements moves nothing from where it has not looked yet to where  *)
(* it has looked already.  A current month closed by then, a month closed  *)
(* between the two looks for it, entries posted to a closed month and      *)
(* entries that raced a closing are exempt.                                *)
ReportComplete ==
    \A r \in Readers : Finished(r) =>
        (read[r].due \cap Owed) \ (raced \cup Late \cup ClosedWhileRead(r) \cup ClosedBetween(r))
            \subseteq read[r].rows \cup read[r].before

(* The months whose own figures a report shows.                            *)
Periods(R) == {R.month} \cup {n \in {R.month - 1} : R.kind = "profit_loss"}

(* A month that a finished report shows as closed, whenever it was closed, *)
(* is shown with all the entries of its snapshot.  The one month that is   *)
(* not is one that was closed between the two looks for it.                *)
ClosedMonthsWhole ==
    \A r \in Readers : Finished(r) =>
        \A m \in Periods(read[r]) \ (read[r].fresh \cup read[r].missed) :
            snapshot[m].entries \ raced \subseteq read[r].rows \cup read[r].before

(* What a report takes from snapshots stays true for as long as its reader *)
(* keeps it: no journal command changes an expense of a month that has     *)
(* been reported as closed.                                                *)
ClosedFiguresStayTrue ==
    \A r \in Readers : Finished(r) =>
        \A e \in (read[r].rows \cup read[r].before) \ raced :
            e.month \notin read[r].fresh => e \in Owed

(* A report leaves no entry out, counts none both in its period and in its *)
(* opening balance, shows the months it calls closed in full, and says     *)
(* nothing of them that is undone later, though its statements see         *)
(* different commits.                                                      *)
ReportsTrue ==
    ReadersTypeOK /\ ReportComplete /\ ClosedMonthsWhole /\ ClosedFiguresStayTrue

(* The balance at the end of a month: what the next month opens with.      *)
Balance(m) == SumOf({n \in Months : n <= m})

(* Once a month and all before it are closed, its ending balance, and so   *)
(* the opening balance of every month after it, never changes.             *)
ClosedBalanceFixed ==
    [][\A m \in Months :
          (\A n \in Months : n <= m => Closed(n)) => Balance(m)' = Balance(m)]_reportVars
=============================================================================
