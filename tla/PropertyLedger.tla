--------------------------- MODULE PropertyLedger ---------------------------
(***************************************************************************)
(* The ledger of one property: the live accounting entries, the monthly    *)
(* snapshots that archive them, and the journal whose expenses post        *)
(* entries that editing and deleting a journal log has to follow.          *)
(*                                                                         *)
(* Closing a month is one transaction of three statements, and each sees   *)
(* what other requests have committed before it: it sums the entries of    *)
(* the month, copies them, and deletes them.  A journal command checks in  *)
(* one statement that the month has no snapshot, and writes its entry in a *)
(* later one.  Neither locks the ledger.  txn[q] is the transaction that   *)
(* request q has open.                                                     *)
(***************************************************************************)
EXTENDS Naturals

CONSTANTS
    Months,    \* accounting months
    Journals,  \* ids of journal logs (a bound)
    Postings,  \* payments and settlements, each posts one entry (a bound)
    MaxRev,    \* values an expense can take (a bound)
    Reqs,      \* slots of concurrent requests and jobs
    None

ASSUME RevAssumption == MaxRev \in Nat \ {0}
ASSUME SourceAssumption == Journals \cap Postings = {}

VARIABLES
    journal,   \* journal[j]: month of creation, revision of its expense, deleted
    posting,   \* posting[p]: the month the payment or settlement was posted to
    live,      \* accounting_entries
    snapshot,  \* snapshot[m]: what its total sums up, and its entries
    txn,       \* txn[q]: the open transaction of request q
    raced      \* history: entries whose writing overlapped a closing of their month

vars == <<journal, posting, live, snapshot, txn, raced>>

(* An expense without amount has revision 0; setting its amount,           *)
(* description or title makes the next one, and a new entry.               *)
Entry == [source : Journals \cup Postings, month : Months, rev : 1..MaxRev]
Journal == [month : Months, rev : 0..MaxRev, deleted : BOOLEAN]

Snapshot == [total : SUBSET Entry, entries : SUBSET Entry]

(* A journal command: the row it is going to write.                        *)
Command == [op : {"journal"}, journal : Journals, row : Journal]
Closing == [op : {"close"}, month : Months, copied : BOOLEAN, taken : Snapshot]

ASSUME NoneAssumption == None \notin Months \cup Journal \cup Snapshot \cup Command \cup Closing

(* The transaction of request q is a command or a closing.                 *)
Open(q, op) == txn[q] # None /\ txn[q].op = op

TypeOK ==
    /\ journal \in [Journals -> Journal \cup {None}]
    /\ posting \in [Postings -> Months \cup {None}]
    /\ live \subseteq Entry
    /\ snapshot \in [Months -> Snapshot \cup {None}]
    /\ \A m \in Months : snapshot[m] # None =>
           \A e \in snapshot[m].total \cup snapshot[m].entries : e.month = m
    /\ raced \subseteq Entry
    /\ txn \in [Reqs -> Command \cup Closing \cup {None}]
    /\ \A q \in Reqs : Open(q, "close") =>
           \A e \in txn[q].taken.total \cup txn[q].taken.entries : e.month = txn[q].month

Init ==
    /\ journal = [j \in Journals |-> None]
    /\ posting = [p \in Postings |-> None]
    /\ live = {}
    /\ snapshot = [m \in Months |-> None]
    /\ txn = [q \in Reqs |-> None]
    /\ raced = {}

-----------------------------------------------------------------------------
ClosingOf(m) == {q \in Reqs : Open(q, "close") /\ txn[q].month = m}

(* The entry that a journal log should have, if any.                       *)
EntryOf(j, row) ==
    IF row = None THEN {}
    ELSE IF row.deleted \/ row.rev = 0 THEN {}
    ELSE {[source |-> j, month |-> row.month, rev |-> row.rev]}

-----------------------------------------------------------------------------
(* Payments and settlements post to any month, closed or not.              *)
InsertAccountingEntry(p, m) ==
    LET entry == [source |-> p, month |-> m, rev |-> 1]
    IN  /\ (\E q \in Reqs : txn[q] = None) /\ posting[p] = None
        /\ posting' = [posting EXCEPT ![p] = m]
        /\ live' = live \cup {entry}
        /\ raced' = IF ClosingOf(m) = {} THEN raced ELSE raced \cup {entry}
        /\ UNCHANGED <<journal, snapshot, txn>>

(* Mutation: the snapshot is not looked for.                               *)
MonthOpenAlways(j, row) == TRUE
(* A command that changes an expense is refused once its month is closed.  *)
MonthOpen(j, row) ==
    EntryOf(j, journal[j]) # EntryOf(j, row) => snapshot[row.month] = None

(* First half of a journal command: lock the row, check the month.         *)
Begin(q, j, row) ==
    /\ txn[q] = None
    /\ \A r \in Reqs : Open(r, "journal") => txn[r].journal # j
    /\ MonthOpen(j, row)
    /\ txn' = [txn EXCEPT ![q] = [op |-> "journal", journal |-> j, row |-> row]]
    /\ UNCHANGED <<journal, posting, live, snapshot, raced>>

CreateJournal(q, j, m, rev) ==
    journal[j] = None /\ Begin(q, j, [month |-> m, rev |-> rev, deleted |-> FALSE])

UpdateJournal(q, j) ==
    /\ journal[j] # None
    /\ ~journal[j].deleted /\ journal[j].rev < MaxRev
    /\ Begin(q, j, [journal[j] EXCEPT !.rev = @ + 1])

DeleteJournal(q, j) ==
    /\ journal[j] # None
    /\ ~journal[j].deleted
    /\ Begin(q, j, [journal[j] EXCEPT !.deleted = TRUE])

(* Second half: write the row, replace the entry, commit.                  *)
SyncExpenseEntry(q) ==
    /\ Open(q, "journal")
    /\ LET j == txn[q].journal
           row == txn[q].row
           m == row.month
           old == EntryOf(j, journal[j])
           new == EntryOf(j, row)
       IN  /\ journal' = [journal EXCEPT ![j] = row]
           /\ live' = {e \in live : e.source # j} \cup new
           /\ raced' = IF ClosingOf(m) = {} THEN raced ELSE raced \cup old \cup new
    /\ txn' = [txn EXCEPT ![q] = None]
    /\ UNCHANGED <<posting, snapshot>>

-----------------------------------------------------------------------------
(* The month closing.                                                      *)

Close(m, copied, total, entries) ==
    [op |-> "close", month |-> m, copied |-> copied,
     taken |-> [total |-> total, entries |-> entries]]

Summed(m) == {e \in live : e.month = m}

(* Mutation: a month that has a snapshot is closed again.                  *)
InsertSnapshotAgain(q, m) ==
    /\ txn[q] = None
    /\ txn' = [txn EXCEPT ![q] = Close(m, FALSE, Summed(m), {})]
    /\ UNCHANGED <<journal, posting, live, snapshot, raced>>

(* MonthlySnapshotExists, then the first INSERT: the index on property and *)
(* month makes a second closing of the month wait and then fail.           *)
InsertSnapshot(q, m) ==
    /\ txn[q] = None /\ snapshot[m] = None /\ ClosingOf(m) = {}
    /\ txn' = [txn EXCEPT ![q] = Close(m, FALSE, Summed(m), {})]
    /\ UNCHANGED <<journal, posting, live, snapshot, raced>>

Copied(m) == {e \in live : e.month = m}

CopyEntries(q) ==
    /\ Open(q, "close") /\ ~txn[q].copied
    /\ txn' = [txn EXCEPT ![q] = Close(@.month, TRUE, @.taken.total, Copied(@.month))]
    /\ UNCHANGED <<journal, posting, live, snapshot, raced>>

(* Mutation: nothing is deleted.                                           *)
ClearedNone(m) == {}
Cleared(m) == {e \in live : e.month = m}

(* The entries of a command that has already seen the month open.          *)
Overtaken(r) ==
    LET j == txn[r].journal
    IN  EntryOf(j, journal[j]) \cup EntryOf(j, txn[r].row)

DeleteEntries(q) ==
    /\ Open(q, "close") /\ txn[q].copied
    /\ live' = live \ Cleared(txn[q].month)
    /\ snapshot' = [snapshot EXCEPT ![txn[q].month] = txn[q].taken]
    /\ txn' = [txn EXCEPT ![q] = None]
    /\ raced' = raced \cup UNION {Overtaken(r) :
           r \in {x \in Reqs : Open(x, "journal") /\ txn[x].row.month = txn[q].month}}
    /\ UNCHANGED <<journal, posting>>

Rollback(q) ==
    /\ txn[q] # None
    /\ txn' = [txn EXCEPT ![q] = None]
    /\ UNCHANGED <<journal, posting, live, snapshot, raced>>

-----------------------------------------------------------------------------
JournalNext(q) ==
    \/ \E j \in Journals :
           \/ \E m \in Months, rev \in 0..1 : CreateJournal(q, j, m, rev)
           \/ UpdateJournal(q, j) \/ DeleteJournal(q, j)
    \/ SyncExpenseEntry(q)

CloseNext(q) ==
    \/ \E m \in Months : InsertSnapshot(q, m)
    \/ CopyEntries(q) \/ DeleteEntries(q)

Next ==
    \/ \E p \in Postings, m \in Months : InsertAccountingEntry(p, m)
    \/ \E q \in Reqs : JournalNext(q) \/ CloseNext(q) \/ Rollback(q)

Spec == Init /\ [][Next]_vars

-----------------------------------------------------------------------------
(* Properties.                                                             *)

Archived == UNION {snapshot[m].entries : m \in {n \in Months : snapshot[n] # None}}

(* What the payments, settlements and journal logs say should be recorded. *)
Owed ==
    (UNION {EntryOf(j, journal[j]) : j \in Journals})
    \cup {[source |-> p, month |-> posting[p], rev |-> 1] : p \in {x \in Postings : posting[x] # None}}

(* The ledger, live and archived, records what its sources say, and        *)
(* nothing else: a journal cannot be changed under an archived entry, and  *)
(* closing a month leaves the others alone.  Only entries whose writing    *)
(* overlapped a closing of their month are exempt.                         *)
EntriesMatchSources == (live \cup Archived) \ raced = Owed \ raced

(* No entry is both live and archived: no report counts it twice, however  *)
(* commands and closings interleave.                                       *)
CountedOnce == live \cap Archived = {}

(* The total of a snapshot is the sum of its entries, but for entries      *)
(* written while it was being made.                                        *)
SnapshotAddsUp ==
    \A m \in Months :
        snapshot[m] # None => snapshot[m].total \ raced = snapshot[m].entries \ raced

(* What the journal and the payments have written is in the ledger or in a *)
(* closed month, and the total of a closed month says so.                  *)
LedgerMatchesSources == EntriesMatchSources /\ SnapshotAddsUp
=============================================================================
