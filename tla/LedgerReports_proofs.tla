------------------------ MODULE LedgerReports_proofs ------------------------
(* Proofs about PropertyLedger and LedgerReports, for every choice of      *)
(* their constants.                                                        *)
EXTENDS LedgerReports, SequenceTheorems, TLAPS

(* The entry of a row is an entry of the row's month.                      *)
LEMMA EntryOfType ==
    ASSUME NEW j \in Journals, NEW row \in Journal \cup {None}
    PROVE  \A e \in EntryOf(j, row) :
               /\ e \in Entry /\ e.source = j /\ row # None
               /\ e.month = row.month /\ e.rev = row.rev /\ ~row.deleted
BY RevAssumption DEF EntryOf, Entry, Journal

LEMMA OpenType ==
    ASSUME TypeOK, NEW q \in Reqs
    PROVE  /\ Open(q, "journal") => txn[q] \in Command
           /\ Open(q, "close") => txn[q] \in Closing
           /\ txn[q] # None => Open(q, "journal") \/ Open(q, "close")
BY DEF TypeOK, Open, Command, Closing

LEMMA CloseType ==
    ASSUME NEW m \in Months, NEW T \in SUBSET Entry, NEW E \in SUBSET Entry
    PROVE  Close(m, FALSE, T, E) \in Closing /\ Close(m, TRUE, T, E) \in Closing
<1>1. [total |-> T, entries |-> E] \in Snapshot
  BY DEF Snapshot
<1> QED
  BY <1>1 DEF Close, Closing

(* What a closing keeps in its transaction.                                *)
LEMMA ClosingParts ==
    ASSUME NEW c \in Closing
    PROVE  /\ c.month \in Months /\ c.taken \in Snapshot
           /\ c.taken.total \in SUBSET Entry /\ c.taken.entries \in SUBSET Entry
<1>1. c.month \in Months /\ c.taken \in Snapshot
  BY DEF Closing
<1> QED
  BY <1>1 DEF Snapshot

(* A step of a closing: what it takes are entries of its month.            *)
LEMMA TakenStep ==
    ASSUME TypeOK, NEW q \in Reqs, NEW c \in Closing,
           txn' = [txn EXCEPT ![q] = c],
           \A e \in c.taken.total \cup c.taken.entries : e.month = c.month
    PROVE  /\ txn' \in [Reqs -> Command \cup Closing \cup {None}]
           /\ \A r \in Reqs : Open(r, "close")' =>
                  (\A e \in txn[r].taken.total \cup txn[r].taken.entries : e.month = txn[r].month)'
<1>1. txn' \in [Reqs -> Command \cup Closing \cup {None}]
  BY DEF TypeOK
<1>2. ASSUME NEW r \in Reqs, Open(r, "close")'
      PROVE  (\A e \in txn[r].taken.total \cup txn[r].taken.entries : e.month = txn[r].month)'
  <2>1. CASE r = q
    <3>1. txn'[r] = c
      BY <2>1 DEF TypeOK
    <3> QED
      BY <3>1
  <2>2. CASE r # q
    <3>1. txn'[r] = txn[r]
      BY <2>2 DEF TypeOK
    <3> QED
      BY <1>2, <3>1 DEF TypeOK, Open
  <2> QED
    BY <2>1, <2>2
<1> QED
  BY <1>1, <1>2

(***************************************************************************)
(* Type correctness.                                                       *)
(***************************************************************************)
LEMMA TypeStep == TypeOK /\ [Next]_vars => TypeOK'
<1> SUFFICES ASSUME TypeOK, [Next]_vars PROVE TypeOK'
  OBVIOUS
<1> USE RevAssumption, NoneAssumption
<1>1. ASSUME NEW p \in Postings, NEW m \in Months, InsertAccountingEntry(p, m)
      PROVE  TypeOK'
  <2>1. [source |-> p, month |-> m, rev |-> 1] \in Entry
    BY DEF Entry
  <2> QED
    BY <1>1, <2>1 DEF InsertAccountingEntry, TypeOK, Open
<1>2. ASSUME NEW q \in Reqs, NEW j \in Journals, NEW row \in Journal, Begin(q, j, row)
      PROVE  TypeOK'
  <2>1. [op |-> "journal", journal |-> j, row |-> row] \in Command
    BY DEF Command
  <2> QED
    BY <1>2, <2>1 DEF Begin, TypeOK, Open
<1>3. ASSUME NEW q \in Reqs, NEW j \in Journals, NEW m \in Months, NEW rev \in 0..1,
             CreateJournal(q, j, m, rev)
      PROVE  TypeOK'
  <2>1. [month |-> m, rev |-> rev, deleted |-> FALSE] \in Journal
    BY DEF Journal
  <2> QED
    BY <1>2, <1>3, <2>1 DEF CreateJournal
<1>4. ASSUME NEW q \in Reqs, NEW j \in Journals, UpdateJournal(q, j)
      PROVE  TypeOK'
  <2>1. journal[j] \in Journal /\ journal[j].rev < MaxRev
    BY <1>4 DEF UpdateJournal, TypeOK
  <2>2. [journal[j] EXCEPT !.rev = @ + 1] \in Journal
    BY <2>1 DEF Journal
  <2> QED
    BY <1>2, <1>4, <2>2 DEF UpdateJournal
<1>5. ASSUME NEW q \in Reqs, NEW j \in Journals, DeleteJournal(q, j)
      PROVE  TypeOK'
  <2>1. journal[j] \in Journal
    BY <1>5 DEF DeleteJournal, TypeOK
  <2>2. [journal[j] EXCEPT !.deleted = TRUE] \in Journal
    BY <2>1 DEF Journal
  <2> QED
    BY <1>2, <1>5, <2>2 DEF DeleteJournal
<1>6. ASSUME NEW q \in Reqs, SyncExpenseEntry(q)
      PROVE  TypeOK'
  <2>1. PICK j \in Journals, row \in Journal : txn[q].journal = j /\ txn[q].row = row
    BY <1>6, OpenType DEF SyncExpenseEntry, Command
  <2>2. EntryOf(j, row) \subseteq Entry /\ EntryOf(j, journal[j]) \subseteq Entry
    BY EntryOfType DEF TypeOK
  <2> QED
    BY <1>6, <2>1, <2>2 DEF SyncExpenseEntry, TypeOK, Open
<1>7. ASSUME NEW q \in Reqs, NEW m \in Months, InsertSnapshot(q, m)
      PROVE  TypeOK'
  <2>1. PICK T \in SUBSET Entry, E \in SUBSET Entry, c \in Closing :
            /\ T = Summed(m) /\ E = {} /\ c = Close(m, FALSE, T, E)
    <3>1. Summed(m) \subseteq Entry
      BY DEF Summed, TypeOK
    <3>2. \A T, E \in SUBSET Entry : Close(m, FALSE, T, E) \in Closing
      BY CloseType
    <3> QED
      BY <3>1, <3>2
  <2>2. c.month = m /\ c.taken.total = T /\ c.taken.entries = E
    BY <2>1 DEF Close
  <2>3. txn' = [txn EXCEPT ![q] = c]
    BY <1>7, <2>1 DEF InsertSnapshot
  <2>4. \A e \in T \cup E : e.month = m
    BY <2>1 DEF Summed
  <2>5. \A e \in c.taken.total \cup c.taken.entries : e.month = c.month
    BY <2>2, <2>4
  <2>6. /\ txn' \in [Reqs -> Command \cup Closing \cup {None}]
        /\ \A r \in Reqs : Open(r, "close")' =>
               (\A e \in txn[r].taken.total \cup txn[r].taken.entries : e.month = txn[r].month)'
    BY <2>3, <2>5, TakenStep
  <2> QED
    BY <1>7, <2>6 DEF InsertSnapshot, TypeOK
<1>8. ASSUME NEW q \in Reqs, CopyEntries(q)
      PROVE  TypeOK'
  <2>1. txn[q] \in Closing
    BY <1>8, OpenType DEF CopyEntries
  <2>2. PICK m \in Months, T \in SUBSET Entry, E \in SUBSET Entry, c \in Closing :
            /\ m = txn[q].month /\ T = txn[q].taken.total
            /\ E = Copied(m) /\ c = Close(m, TRUE, T, E)
    <3>1. Copied(txn[q].month) \subseteq Entry
      BY DEF Copied, TypeOK
    <3>2. \A m \in Months : \A T, E \in SUBSET Entry : Close(m, TRUE, T, E) \in Closing
      BY CloseType
    <3> QED
      BY <2>1, <3>1, <3>2, ClosingParts
  <2>3. c.month = m /\ c.taken.total = T /\ c.taken.entries = E
    BY <2>2 DEF Close
  <2>4. txn' = [txn EXCEPT ![q] = c]
    BY <1>8, <2>2 DEF CopyEntries
  <2>5. \A e \in T \cup E : e.month = m
    BY <1>8, <2>2 DEF TypeOK, Copied, CopyEntries
  <2>6. \A e \in c.taken.total \cup c.taken.entries : e.month = c.month
    BY <2>3, <2>5
  <2>7. /\ txn' \in [Reqs -> Command \cup Closing \cup {None}]
        /\ \A r \in Reqs : Open(r, "close")' =>
               (\A e \in txn[r].taken.total \cup txn[r].taken.entries : e.month = txn[r].month)'
    BY <2>4, <2>6, TakenStep
  <2> QED
    BY <1>8, <2>7 DEF CopyEntries, TypeOK
<1>9. ASSUME NEW q \in Reqs, DeleteEntries(q)
      PROVE  TypeOK'
  <2>1. txn[q] \in Closing /\ Open(q, "close")
    BY <1>9, OpenType DEF DeleteEntries
  <2>2. ASSUME NEW r \in Reqs, Open(r, "journal")
        PROVE  Overtaken(r) \subseteq Entry
    BY <2>2, OpenType, EntryOfType DEF Overtaken, Command, TypeOK
  <2>3. raced' \subseteq Entry
    BY <1>9, <2>2 DEF DeleteEntries, TypeOK
  <2>4. txn[q].taken \in Snapshot /\ txn[q].month \in Months
    BY <2>1 DEF Closing
  <2>5. \A e \in txn[q].taken.total \cup txn[q].taken.entries : e.month = txn[q].month
    BY <2>1 DEF TypeOK
  <2> QED
    BY <1>9, <2>3, <2>4, <2>5 DEF DeleteEntries, TypeOK, Open
<1>10. ASSUME NEW q \in Reqs, Rollback(q)
       PROVE  TypeOK'
  BY <1>10 DEF Rollback, TypeOK, Open
<1>11. CASE UNCHANGED vars
  BY <1>11 DEF vars, TypeOK, Open
<1> QED
  BY <1>1, <1>3, <1>4, <1>5, <1>6, <1>7, <1>8, <1>9, <1>10, <1>11
     DEF Next, JournalNext, CloseNext

(* The variables stay in their types, with any number of requests.         *)
THEOREM TypeCorrect == Spec => []TypeOK
<1>1. Init => TypeOK
  BY DEF Init, TypeOK, Open
<1> QED
  BY <1>1, TypeStep, PTL DEF Spec

(***************************************************************************)
(* No entry is both live and archived.  CountedOnce is not inductive: a    *)
(* new entry might have been archived before.  It was not, because the     *)
(* payment posts once, and a journal command, which holds the lock of its  *)
(* row, makes a revision that no entry has yet.                            *)
(***************************************************************************)

(* The source of an entry has been there, and has got at least as far.     *)
Known(e) ==
    /\ e.source \in Journals =>
           journal[e.source] # None /\ e.rev <= journal[e.source].rev
    /\ e.source \in Postings => posting[e.source] # None

KnownInv ==
    /\ \A e \in live : Known(e)
    /\ \A m \in Months : snapshot[m] # None => \A e \in snapshot[m].entries : Known(e)
    /\ \A q \in Reqs : Open(q, "close") => \A e \in txn[q].taken.entries : Known(e)

(* One command at a time has the lock of a journal log.                    *)
RowLock ==
    \A q, r \in Reqs :
        Open(q, "journal") /\ Open(r, "journal") /\ txn[q].journal = txn[r].journal => q = r

(* What a command may do with the row it has locked.                       *)
Follows(old, row) ==
    \/ old = None
    \/ old # None /\ row.deleted /\ row.rev = old.rev
    \/ old # None /\ row.rev = old.rev + 1

RowFresh ==
    \A q \in Reqs : Open(q, "journal") => Follows(journal[txn[q].journal], txn[q].row)

IInv == TypeOK /\ KnownInv /\ RowLock /\ RowFresh /\ CountedOnce

LEMMA KnownGrows ==
    ASSUME TypeOK, TypeOK', NEW e \in Entry, Known(e),
           \A j \in Journals :
               journal[j] # None => journal'[j] # None /\ journal[j].rev <= journal'[j].rev,
           \A p \in Postings : posting[p] # None => posting'[p] # None
    PROVE  Known(e)'
<1>1. ASSUME e.source \in Journals
      PROVE  journal'[e.source] # None /\ e.rev <= journal'[e.source].rev
  <2>1. journal[e.source] \in Journal /\ journal'[e.source] \in Journal
    BY <1>1 DEF TypeOK, Known
  <2>2. e.rev \in Nat /\ journal[e.source].rev \in Nat /\ journal'[e.source].rev \in Nat
    BY <2>1, RevAssumption DEF Entry, Journal
  <2> QED
    BY <1>1, <2>2 DEF Known
<1> QED
  BY <1>1 DEF Known

(* Every entry that can be found anywhere is an entry.                     *)
LEMMA EntriesType ==
    ASSUME TypeOK
    PROVE  /\ \A m \in Months : snapshot[m] # None => snapshot[m].entries \subseteq Entry
           /\ \A q \in Reqs : Open(q, "close") => txn[q].taken.entries \subseteq Entry
<1>1. ASSUME NEW m \in Months, snapshot[m] # None
      PROVE  snapshot[m].entries \subseteq Entry
  BY <1>1 DEF TypeOK, Snapshot
<1>2. ASSUME NEW q \in Reqs, Open(q, "close")
      PROVE  txn[q].taken.entries \subseteq Entry
  BY <1>2, OpenType, ClosingParts
<1> QED
  BY <1>1, <1>2

(* The entry a payment or a command writes is not archived.                *)
LEMMA NewEntry ==
    ASSUME IInv, NEW e \in Entry, ~Known(e)
    PROVE  e \notin Archived
BY DEF IInv, KnownInv, Archived

LEMMA PostingStep ==
    ASSUME IInv, TypeOK', NEW p \in Postings, NEW m \in Months, InsertAccountingEntry(p, m)
    PROVE  IInv'
<1> DEFINE new == [source |-> p, month |-> m, rev |-> 1]
<1>1. new \in Entry /\ new.source = p
  BY RevAssumption DEF Entry
<1>2. ~Known(new) /\ Known(new)'
  <2>1. p \notin Journals /\ posting[p] = None /\ posting'[p] # None
    BY SourceAssumption, NoneAssumption DEF InsertAccountingEntry, IInv, TypeOK
  <2> QED
    BY <1>1, <2>1 DEF Known
<1> HIDE DEF new
<1>3. live' = live \cup {new}
  BY DEF InsertAccountingEntry, new
<1>4. ASSUME NEW e \in Entry, Known(e)
      PROVE  Known(e)'
  <2>1. \A x \in Postings : posting[x] # None => posting'[x] # None
    BY DEF InsertAccountingEntry, IInv, TypeOK
  <2>2. journal' = journal
    BY DEF InsertAccountingEntry
  <2> QED
    BY <1>4, <2>1, <2>2 DEF Known
<1>5. KnownInv'
  <2>1. live \subseteq Entry
    BY DEF IInv, TypeOK
  <2> QED
    BY <1>2, <1>3, <1>4, <2>1, EntriesType DEF IInv, KnownInv, InsertAccountingEntry, Open
<1>6. (RowLock /\ RowFresh)'
  BY DEF IInv, RowLock, RowFresh, InsertAccountingEntry, Open
<1>7. CountedOnce'
  BY <1>1, <1>2, <1>3, NewEntry DEF IInv, CountedOnce, Archived, InsertAccountingEntry
<1> QED
  BY <1>5, <1>6, <1>7 DEF IInv

LEMMA BeginStep ==
    ASSUME IInv, TypeOK', NEW q \in Reqs, NEW j \in Journals, NEW row \in Journal,
           Begin(q, j, row), Follows(journal[j], row)
    PROVE  IInv'
<1> DEFINE c == [op |-> "journal", journal |-> j, row |-> row]
<1>1. \A r \in Reqs : txn'[r] = IF r = q THEN c ELSE txn[r]
  BY DEF Begin, IInv, TypeOK
<1>2. c.op = "journal" /\ c.journal = j /\ c.row = row /\ c # None
  BY NoneAssumption DEF Command
<1> HIDE DEF c
<1>3. KnownInv'
  BY <1>1, <1>2 DEF IInv, KnownInv, Known, Begin, Open
<1>4. RowLock'
  BY <1>1, <1>2 DEF IInv, RowLock, Begin, Open
<1>5. RowFresh'
  BY <1>1, <1>2 DEF IInv, RowFresh, Follows, Begin, Open
<1>6. CountedOnce'
  BY DEF IInv, CountedOnce, Archived, Begin
<1> QED
  BY <1>3, <1>4, <1>5, <1>6 DEF IInv

(* A step that only moves the transaction of q, to c, which holds no lock  *)
(* and nothing but known entries.                                          *)
LEMMA TxnStep ==
    ASSUME IInv, TypeOK', NEW q \in Reqs, NEW c \in Closing \cup {None},
           txn' = [txn EXCEPT ![q] = c],
           c # None => \A e \in c.taken.entries : Known(e),
           UNCHANGED <<journal, posting, live, snapshot>>
    PROVE  IInv'
<1>1. \A r \in Reqs : txn'[r] = IF r = q THEN c ELSE txn[r]
  BY DEF IInv, TypeOK
<1>2. c = None \/ c.op = "close"
  BY DEF Closing
<1>3. KnownInv'
  BY <1>1, <1>2 DEF IInv, KnownInv, Known, Open
<1>4. (RowLock /\ RowFresh)'
  BY <1>1, <1>2 DEF IInv, RowLock, RowFresh, Open
<1>5. CountedOnce'
  BY DEF IInv, CountedOnce, Archived
<1> QED
  BY <1>3, <1>4, <1>5 DEF IInv

LEMMA SyncStep ==
    ASSUME IInv, TypeOK', NEW q \in Reqs, SyncExpenseEntry(q)
    PROVE  IInv'
<1> DEFINE j == txn[q].journal
           row == txn[q].row
           new == EntryOf(j, row)
<1>1. j \in Journals /\ row \in Journal /\ Open(q, "journal")
  BY OpenType DEF SyncExpenseEntry, IInv, Command
<1>2. Follows(journal[j], row)
  BY <1>1 DEF IInv, RowFresh
<1>3. /\ journal' = [journal EXCEPT ![j] = row]
      /\ live' = {e \in live : e.source # j} \cup new
      /\ txn' = [txn EXCEPT ![q] = None]
      /\ UNCHANGED <<posting, snapshot>>
  BY DEF SyncExpenseEntry
<1>4. journal \in [Journals -> Journal \cup {None}] /\ journal[j] \in Journal \cup {None}
  BY <1>1 DEF IInv, TypeOK
<1>5. \A r \in Reqs : txn'[r] = IF r = q THEN None ELSE txn[r]
  BY <1>3 DEF IInv, TypeOK
<1>6. \A e \in new : /\ e \in Entry /\ e.source = j /\ e.rev = row.rev
                    /\ ~row.deleted
  BY <1>1, EntryOfType
<1> HIDE DEF j, row, new
<1>7. row # None /\ journal'[j] = row /\ \A x \in Journals \ {j} : journal'[x] = journal[x]
  BY <1>1, <1>3, <1>4, NoneAssumption
<1>8. journal[j] # None => journal[j].rev <= row.rev
  BY <1>1, <1>2, <1>4, RevAssumption DEF Follows, Journal
<1>9. ASSUME NEW e \in Entry, Known(e)
      PROVE  Known(e)'
  <2>1. \A x \in Journals :
            journal[x] # None => journal'[x] # None /\ journal[x].rev <= journal'[x].rev
    <3>1. ASSUME NEW x \in Journals, x # j, journal[x] # None
          PROVE  journal'[x] # None /\ journal[x].rev <= journal'[x].rev
      <4>1. journal'[x] = journal[x] /\ journal[x] \in Journal
        BY <1>4, <1>7, <3>1
      <4> QED
        BY <3>1, <4>1, RevAssumption DEF Journal
    <3> QED
      BY <1>7, <1>8, <3>1
  <2>2. \A p \in Postings : posting[p] # None => posting'[p] # None
    BY <1>3
  <2> QED
    BY <1>9, <2>1, <2>2, KnownGrows DEF IInv
<1>10. \A e \in new : Known(e)'
  BY <1>1, <1>6, <1>7, SourceAssumption, RevAssumption DEF Known, Journal
<1>11. \A e \in new : ~Known(e)
  <2>1. ASSUME NEW e \in new, Known(e)
        PROVE  FALSE
    <3>1. journal[j] # None /\ e.rev <= journal[j].rev
      BY <1>1, <1>6, <2>1 DEF Known
    <3>2. row.rev = journal[j].rev + 1 /\ e.rev = row.rev
      BY <1>2, <1>6, <2>1, <3>1 DEF Follows
    <3>3. journal[j].rev \in Nat
      BY <1>4, <3>1, RevAssumption DEF Journal
    <3> QED
      BY <3>1, <3>2, <3>3
  <2> QED
    BY <2>1
<1>12. KnownInv'
  <2>1. \A e \in live' : Known(e)'
    BY <1>3, <1>9, <1>10 DEF IInv, TypeOK, KnownInv
  <2>2. \A m \in Months : snapshot'[m] # None => \A e \in snapshot'[m].entries : Known(e)'
    BY <1>3, <1>9, EntriesType DEF IInv, KnownInv
  <2>3. ASSUME NEW r \in Reqs, Open(r, "close")'
        PROVE  \A e \in txn'[r].taken.entries : Known(e)'
    BY <1>5, <1>9, <2>3, EntriesType DEF IInv, KnownInv, Open
  <2> QED
    BY <2>1, <2>2, <2>3 DEF KnownInv
<1>13. RowLock'
  BY <1>5 DEF IInv, RowLock, Open
<1>14. RowFresh'
  <2>1. ASSUME NEW r \in Reqs, Open(r, "journal")'
        PROVE  (Follows(journal[txn[r].journal], txn[r].row))'
    <3>1. r # q /\ txn'[r] = txn[r] /\ Open(r, "journal")
      BY <1>5, <2>1 DEF Open
    <3>2. txn[r].journal \in Journals
      BY <3>1, OpenType DEF IInv, Command
    <3>3. txn[r].journal # j
      BY <1>1, <3>1 DEF IInv, RowLock, j
    <3>4. journal'[txn[r].journal] = journal[txn[r].journal]
      BY <1>7, <3>2, <3>3
    <3> QED
      BY <3>1, <3>4 DEF IInv, RowFresh, Follows
  <2> QED
    BY <2>1 DEF RowFresh
<1>15. CountedOnce'
  <2>1. \A e \in new : e \notin Archived
    BY <1>6, <1>11, NewEntry
  <2>2. Archived' = Archived
    BY <1>3 DEF Archived
  <2> QED
    BY <1>3, <2>1, <2>2 DEF IInv, CountedOnce
<1> QED
  BY <1>12, <1>13, <1>14, <1>15 DEF IInv

(* Closing a month archives entries of the month and clears all of them.   *)
LEMMA DeleteStep ==
    ASSUME IInv, TypeOK', NEW q \in Reqs, DeleteEntries(q)
    PROVE  IInv'
<1>1. /\ Open(q, "close") /\ txn[q] \in Closing
      /\ UNCHANGED <<journal, posting>>
  BY OpenType DEF DeleteEntries, IInv
<1>2. PICK m \in Months, E \in SUBSET Entry :
          /\ m = txn[q].month /\ E = txn[q].taken.entries
          /\ \A e \in E : e.month = m /\ Known(e)
  BY <1>1, ClosingParts DEF IInv, TypeOK, KnownInv
<1>3. live' = {e \in live : e.month # m}
  BY <1>2 DEF DeleteEntries, Cleared
<1>4. /\ snapshot'[m].entries = E
      /\ \A n \in Months \ {m} : snapshot'[n] = snapshot[n]
  BY <1>1, <1>2, ClosingParts DEF DeleteEntries, IInv, TypeOK
<1>5. \A r \in Reqs : txn'[r] = IF r = q THEN None ELSE txn[r]
  BY DEF DeleteEntries, IInv, TypeOK
<1>6. KnownInv'
  BY <1>1, <1>2, <1>3, <1>4, <1>5 DEF IInv, KnownInv, Known, Open
<1>7. (RowLock /\ RowFresh)'
  BY <1>1, <1>5 DEF IInv, RowLock, RowFresh, Open
<1>8. CountedOnce'
  <2>1. ASSUME NEW e \in live', e \in Archived'
        PROVE  FALSE
    <3>1. e \in live /\ e.month # m
      BY <1>3, <2>1
    <3>2. PICK n \in Months : snapshot'[n] # None /\ e \in snapshot'[n].entries
      BY <2>1 DEF Archived
    <3>3. n # m
      BY <1>2, <1>4, <3>1, <3>2
    <3>4. e \in Archived
      BY <1>4, <3>2, <3>3 DEF Archived
    <3> QED
      BY <3>1, <3>4 DEF IInv, CountedOnce
  <2> QED
    BY <2>1 DEF CountedOnce
<1> QED
  BY <1>6, <1>7, <1>8 DEF IInv

LEMMA IInvStep == IInv /\ [Next]_vars => IInv'
<1> SUFFICES ASSUME IInv, [Next]_vars PROVE IInv'
  OBVIOUS
<1>0. TypeOK /\ TypeOK'
  BY TypeStep DEF IInv
<1>1. ASSUME NEW p \in Postings, NEW m \in Months, InsertAccountingEntry(p, m)
      PROVE  IInv'
  BY <1>0, <1>1, PostingStep
<1>2. ASSUME NEW q \in Reqs, NEW j \in Journals, NEW m \in Months, NEW rev \in 0..1,
             CreateJournal(q, j, m, rev)
      PROVE  IInv'
  <2>1. [month |-> m, rev |-> rev, deleted |-> FALSE] \in Journal
    BY RevAssumption DEF Journal
  <2> QED
    BY <1>0, <1>2, <2>1, BeginStep DEF CreateJournal, Follows
<1>3. ASSUME NEW q \in Reqs, NEW j \in Journals, UpdateJournal(q, j)
      PROVE  IInv'
  <2> DEFINE row == [journal[j] EXCEPT !.rev = @ + 1]
  <2>1. journal[j] \in Journal /\ journal[j].rev < MaxRev
    BY <1>0, <1>3 DEF UpdateJournal, TypeOK
  <2>2. row \in Journal /\ row.rev = journal[j].rev + 1
    BY <2>1, RevAssumption DEF Journal
  <2> QED
    BY <1>0, <1>3, <2>2, BeginStep DEF UpdateJournal, Follows
<1>4. ASSUME NEW q \in Reqs, NEW j \in Journals, DeleteJournal(q, j)
      PROVE  IInv'
  <2> DEFINE row == [journal[j] EXCEPT !.deleted = TRUE]
  <2>1. journal[j] \in Journal
    BY <1>0, <1>4 DEF DeleteJournal, TypeOK
  <2>2. row \in Journal /\ row.rev = journal[j].rev /\ row.deleted
    BY <2>1 DEF Journal
  <2> QED
    BY <1>0, <1>4, <2>2, BeginStep DEF DeleteJournal, Follows
<1>5. ASSUME NEW q \in Reqs, SyncExpenseEntry(q)
      PROVE  IInv'
  BY <1>0, <1>5, SyncStep
<1>6. ASSUME NEW q \in Reqs, NEW m \in Months, InsertSnapshot(q, m)
      PROVE  IInv'
  <2>1. PICK c \in Closing : c = Close(m, FALSE, Summed(m), {}) /\ c.taken.entries = {}
    <3>1. Summed(m) \subseteq Entry
      BY <1>0 DEF Summed, TypeOK
    <3>2. \A T, E \in SUBSET Entry : Close(m, FALSE, T, E) \in Closing
      BY CloseType
    <3>3. Close(m, FALSE, Summed(m), {}).taken.entries = {}
      BY DEF Close
    <3> QED
      BY <3>1, <3>2, <3>3
  <2>2. txn' = [txn EXCEPT ![q] = c] /\ UNCHANGED <<journal, posting, live, snapshot>>
    BY <1>6, <2>1 DEF InsertSnapshot
  <2>3. \A e \in c.taken.entries : Known(e)
    BY <2>1
  <2> QED
    BY <1>0, <2>2, <2>3, TxnStep
<1>7. ASSUME NEW q \in Reqs, CopyEntries(q)
      PROVE  IInv'
  <2>1. txn[q] \in Closing
    BY <1>0, <1>7, OpenType DEF CopyEntries
  <2>2. PICK m \in Months, T \in SUBSET Entry, E \in SUBSET Entry, c \in Closing :
            /\ m = txn[q].month /\ T = txn[q].taken.total
            /\ E = Copied(m) /\ c = Close(m, TRUE, T, E)
    <3>1. Copied(txn[q].month) \subseteq Entry
      BY <1>0 DEF Copied, TypeOK
    <3>2. \A m \in Months : \A T, E \in SUBSET Entry : Close(m, TRUE, T, E) \in Closing
      BY CloseType
    <3> QED
      BY <2>1, <3>1, <3>2, ClosingParts
  <2>3. txn' = [txn EXCEPT ![q] = c] /\ UNCHANGED <<journal, posting, live, snapshot>>
    BY <1>7, <2>2 DEF CopyEntries
  <2>4. \A e \in E : Known(e)
    BY <2>2 DEF IInv, KnownInv, Copied
  <2>5. c.taken.entries = E
    BY <2>2 DEF Close
  <2> QED
    BY <1>0, <2>3, <2>4, <2>5, TxnStep
<1>8. ASSUME NEW q \in Reqs, DeleteEntries(q)
      PROVE  IInv'
  BY <1>0, <1>8, DeleteStep
<1>9. ASSUME NEW q \in Reqs, Rollback(q)
      PROVE  IInv'
  BY <1>0, <1>9, TxnStep DEF Rollback
<1>10. CASE UNCHANGED vars
  BY <1>0, <1>10 DEF vars, IInv, KnownInv, Known, RowLock, RowFresh, Follows,
                     CountedOnce, Archived, Open
<1> QED
  BY <1>1, <1>2, <1>3, <1>4, <1>5, <1>6, <1>7, <1>8, <1>9, <1>10
     DEF Next, JournalNext, CloseNext

(* No entry is ever both live and archived, with any number of concurrent  *)
(* commands, payments and closings.                                        *)
THEOREM NoDoubleCount == Spec => []CountedOnce
<1>1. Init => IInv
  <2>1. Init => TypeOK
    BY DEF Init, TypeOK, Open
  <2> QED
    BY <2>1 DEF Init, IInv, KnownInv, RowLock, RowFresh, CountedOnce, Archived, Open
<1>2. IInv => CountedOnce
  BY DEF IInv
<1> QED
  BY <1>1, <1>2, IInvStep, PTL DEF Spec

-----------------------------------------------------------------------------
(***************************************************************************)
(* Reading changes nothing: a system with report readers is a ledger.      *)
(***************************************************************************)
LEMMA ReportStep == [ReportNext]_reportVars => [Next]_vars
<1> SUFFICES ASSUME [ReportNext]_reportVars PROVE [Next]_vars
  OBVIOUS
<1>1. CASE Next /\ UNCHANGED <<now, read>>
  BY <1>1
<1>2. ASSUME NEW r \in Readers, ReadNext(r)
      PROVE  UNCHANGED vars
  BY <1>2 DEF ReadNext, Request, ReadPeriod, ReadOpening, ReadClock, ReadPrevious, FindHeader,
              ListFinalized, ListLive
<1>3. CASE Rollover
  BY <1>3 DEF Rollover
<1>4. CASE UNCHANGED reportVars
  BY <1>4 DEF reportVars
<1> QED
  BY <1>1, <1>2, <1>3, <1>4 DEF ReportNext

(* The ledger under its readers is the ledger of PropertyLedger.           *)
THEOREM ReportsImplementLedger == ReportSpec => Spec
<1>1. ReportInit => Init
  BY DEF ReportInit
<1> QED
  BY <1>1, ReportStep, PTL DEF ReportSpec, Spec

(***************************************************************************)
(* Closings exclude each other, and a closed month is not closed again.    *)
(***************************************************************************)
ClosingInv ==
    /\ \A q \in Reqs : Open(q, "close") => snapshot[txn[q].month] = None
    /\ \A q, r \in Reqs :
           Open(q, "close") /\ Open(r, "close") /\ txn[q].month = txn[r].month => q = r

(* A request that opens, or goes on with, the closing of a month that no   *)
(* other request closes and that has no snapshot.                          *)
LEMMA ClosingStep ==
    ASSUME TypeOK, ClosingInv, NEW q \in Reqs, NEW c \in Closing,
           txn' = [txn EXCEPT ![q] = c], UNCHANGED snapshot,
           snapshot[c.month] = None,
           \A r \in Reqs \ {q} : Open(r, "close") => txn[r].month # c.month
    PROVE  ClosingInv'
<1>1. txn'[q] = c /\ \A r \in Reqs \ {q} : txn'[r] = txn[r]
  BY DEF TypeOK
<1>2. \A r \in Reqs \ {q} : Open(r, "close")' => Open(r, "close")
  BY <1>1 DEF Open
<1> QED
  BY <1>1, <1>2 DEF ClosingInv

(* A request that ends, or a command.                                      *)
LEMMA OtherStep ==
    ASSUME TypeOK, ClosingInv, NEW q \in Reqs, NEW c \in Command \cup {None},
           txn' = [txn EXCEPT ![q] = c], UNCHANGED snapshot
    PROVE  ClosingInv'
<1>1. txn'[q] = c /\ \A r \in Reqs \ {q} : txn'[r] = txn[r]
  BY DEF TypeOK
<1>2. ~Open(q, "close")'
  BY <1>1 DEF Open, Command
<1>3. \A r \in Reqs : Open(r, "close")' => r # q /\ Open(r, "close")
  BY <1>1, <1>2 DEF Open
<1> QED
  BY <1>1, <1>3 DEF ClosingInv

LEMMA DeleteClosing ==
    ASSUME TypeOK, ClosingInv, NEW q \in Reqs, DeleteEntries(q)
    PROVE  ClosingInv'
<1>1. txn' = [txn EXCEPT ![q] = None] /\ Open(q, "close")
  BY DEF DeleteEntries
<1>2. txn'[q] = None /\ \A r \in Reqs \ {q} : txn'[r] = txn[r]
  BY <1>1 DEF TypeOK
<1>3. \A r \in Reqs : Open(r, "close")' => r # q /\ Open(r, "close") /\ txn'[r] = txn[r]
  BY <1>2 DEF Open
<1>4. \A r \in Reqs : r # q /\ Open(r, "close") => txn[r].month # txn[q].month
  BY <1>1 DEF ClosingInv
<1>5. \A r \in Reqs : Open(r, "close") => txn[r].month \in Months
  BY OpenType, ClosingParts
<1>6. \A m \in Months : m # txn[q].month => snapshot'[m] = snapshot[m]
  BY DEF DeleteEntries, TypeOK
<1>7. \A r \in Reqs : Open(r, "close")' => snapshot'[txn'[r].month] = None
  BY <1>3, <1>4, <1>5, <1>6 DEF ClosingInv
<1>8. \A r, s \in Reqs : Open(r, "close")' /\ Open(s, "close")' /\ txn'[r].month = txn'[s].month
                         => r = s
  BY <1>3 DEF ClosingInv
<1> QED
  BY <1>7, <1>8 DEF ClosingInv

LEMMA ClosingInvStep == TypeOK /\ ClosingInv /\ [Next]_vars => ClosingInv'
<1> SUFFICES ASSUME TypeOK, ClosingInv, [Next]_vars PROVE ClosingInv'
  OBVIOUS
<1> USE NoneAssumption
<1>1. ASSUME NEW p \in Postings, NEW m \in Months, InsertAccountingEntry(p, m)
      PROVE  ClosingInv'
  BY <1>1 DEF InsertAccountingEntry, ClosingInv, Open
<1>2. ASSUME NEW q \in Reqs, NEW j \in Journals, NEW row \in Journal, Begin(q, j, row)
      PROVE  ClosingInv'
  <2>1. [op |-> "journal", journal |-> j, row |-> row] \in Command
    BY DEF Command
  <2> QED
    BY <1>2, <2>1, OtherStep DEF Begin
<1>3. ASSUME NEW q \in Reqs, JournalNext(q)
      PROVE  ClosingInv'
  <2>1. ASSUME NEW j \in Journals, NEW m \in Months, NEW rev \in 0..1, CreateJournal(q, j, m, rev)
        PROVE  ClosingInv'
    <3>1. [month |-> m, rev |-> rev, deleted |-> FALSE] \in Journal
      BY RevAssumption DEF Journal
    <3> QED
      BY <2>1, <3>1, <1>2 DEF CreateJournal
  <2>2. ASSUME NEW j \in Journals, UpdateJournal(q, j)
        PROVE  ClosingInv'
    <3>1. journal[j] \in Journal
      BY <2>2 DEF UpdateJournal, TypeOK
    <3>2. [journal[j] EXCEPT !.rev = @ + 1] \in Journal
      BY <2>2, <3>1, RevAssumption DEF UpdateJournal, Journal
    <3> QED
      BY <2>2, <3>2, <1>2 DEF UpdateJournal
  <2>3. ASSUME NEW j \in Journals, DeleteJournal(q, j)
        PROVE  ClosingInv'
    <3>1. journal[j] \in Journal
      BY <2>3 DEF DeleteJournal, TypeOK
    <3>2. [journal[j] EXCEPT !.deleted = TRUE] \in Journal
      BY <3>1 DEF Journal
    <3> QED
      BY <2>3, <3>2, <1>2 DEF DeleteJournal
  <2>4. CASE SyncExpenseEntry(q)
    BY <2>4, OtherStep DEF SyncExpenseEntry
  <2> QED
    BY <1>3, <2>1, <2>2, <2>3, <2>4 DEF JournalNext
<1>4. ASSUME NEW q \in Reqs, NEW m \in Months, InsertSnapshot(q, m)
      PROVE  ClosingInv'
  <2>1. Summed(m) \in SUBSET Entry
    BY DEF Summed, TypeOK
  <2>2. Close(m, FALSE, Summed(m), {}) \in Closing
    BY <2>1, CloseType
  <2>3. Close(m, FALSE, Summed(m), {}).month = m
    BY DEF Close
  <2>4. \A r \in Reqs : Open(r, "close") => txn[r].month # m
    BY <1>4 DEF InsertSnapshot, ClosingOf
  <2> QED
    BY <1>4, <2>2, <2>3, <2>4, ClosingStep DEF InsertSnapshot
<1>5. ASSUME NEW q \in Reqs, CopyEntries(q)
      PROVE  ClosingInv'
  <2>1. Open(q, "close") /\ txn[q] \in Closing
    BY <1>5, OpenType DEF CopyEntries
  <2>2. txn[q].month \in Months /\ txn[q].taken.total \in SUBSET Entry
    BY <2>1, ClosingParts
  <2>3. Copied(txn[q].month) \in SUBSET Entry
    BY DEF Copied, TypeOK
  <2> DEFINE c == Close(txn[q].month, TRUE, txn[q].taken.total, Copied(txn[q].month))
  <2>4. c \in Closing
    BY <2>2, <2>3, CloseType
  <2>5. c.month = txn[q].month
    BY DEF Close
  <2>6. txn' = [txn EXCEPT ![q] = c] /\ UNCHANGED snapshot
    BY <1>5 DEF CopyEntries
  <2>7. /\ snapshot[c.month] = None
        /\ \A r \in Reqs \ {q} : Open(r, "close") => txn[r].month # c.month
    BY <2>1, <2>5 DEF ClosingInv
  <2> HIDE DEF c
  <2> QED
    BY <2>4, <2>6, <2>7, ClosingStep
<1>6. ASSUME NEW q \in Reqs, DeleteEntries(q)
      PROVE  ClosingInv'
  BY <1>6, DeleteClosing
<1>7. ASSUME NEW q \in Reqs, Rollback(q)
      PROVE  ClosingInv'
  BY <1>7, OtherStep DEF Rollback
<1>8. CASE UNCHANGED vars
  BY <1>8 DEF vars, ClosingInv, Open
<1> QED
  BY <1>1, <1>3, <1>4, <1>5, <1>6, <1>7, <1>8 DEF Next, CloseNext

(***************************************************************************)
(* Snapshots are written once.                                             *)
(***************************************************************************)
LEMMA SnapshotStays ==
    ASSUME TypeOK, ClosingInv, [Next]_vars, NEW m \in Months, Closed(m)
    PROVE  snapshot'[m] = snapshot[m]
<1>1. ASSUME NEW q \in Reqs, DeleteEntries(q)
      PROVE  snapshot'[m] = snapshot[m]
  <2>1. txn[q].month # m
    BY <1>1 DEF DeleteEntries, ClosingInv, Closed
  <2> QED
    BY <1>1, <2>1 DEF DeleteEntries, TypeOK
<1>2. CASE UNCHANGED snapshot
  BY <1>2
<1> QED
  BY <1>1, <1>2
  DEF Next, vars, InsertAccountingEntry, JournalNext, CreateJournal, UpdateJournal,
      DeleteJournal, Begin, SyncExpenseEntry, CloseNext, InsertSnapshot, CopyEntries, Rollback

LEMMA BalanceStays ==
    ASSUME TypeOK, ClosingInv, [Next]_vars, NEW m \in Months,
           \A n \in Months : n <= m => Closed(n)
    PROVE  Balance(m)' = Balance(m)
<1>1. \A n \in Months : n <= m => snapshot'[n] = snapshot[n]
  BY SnapshotStays
<1> QED
  BY <1>1 DEF Balance, SumOf

(* The ending balance of a closed month, with all months before it closed, *)
(* never changes: for any months, entries, requests and readers.           *)
THEOREM ClosedBalances == ReportSpec => ClosedBalanceFixed
<1> DEFINE Fixed == \A m \in Months : (\A n \in Months : n <= m => Closed(n)) => Balance(m)' = Balance(m)
<1>1. Init => ClosingInv
  BY DEF Init, ClosingInv, Open
<1>2. TypeOK /\ ClosingInv /\ [Next]_vars => Fixed
  BY BalanceStays
<1>3. Spec => []TypeOK
  BY TypeCorrect
<1>4. TypeOK /\ ClosingInv /\ [ReportNext]_reportVars => [Fixed]_reportVars
  BY <1>2, ReportStep
<1>5. ReportInit => Init
  BY DEF ReportInit
<1> QED
  BY <1>1, <1>3, <1>4, <1>5, ClosingInvStep, ReportStep, ReportsImplementLedger, PTL
  DEF ReportSpec, ClosedBalanceFixed

(***************************************************************************)
(* The ledger records what its sources say.  A closing takes what is live  *)
(* in its month, up to what is written meanwhile, and a command that has   *)
(* seen its month open either leaves its entry as it was, or writes before *)
(* the month is closed, or its entries are among those that raced.         *)
(***************************************************************************)

(* A command keeps the month of the log it changes.                        *)
RowMonth ==
    \A q \in Reqs : Open(q, "journal") =>
        (journal[txn[q].journal] # None =>
             txn[q].row.month = journal[txn[q].journal].month)

ClosingFaithful ==
    \A q \in Reqs : Open(q, "close") =>
        /\ txn[q].taken.total \ raced = Summed(txn[q].month) \ raced
        /\ txn[q].copied => txn[q].taken.entries \ raced = Summed(txn[q].month) \ raced

SameEntry(q) ==
    EntryOf(txn[q].journal, journal[txn[q].journal]) = EntryOf(txn[q].journal, txn[q].row)

CommandCovered ==
    \A q \in Reqs : Open(q, "journal") =>
        \/ SameEntry(q)
        \/ snapshot[txn[q].row.month] = None
        \/ Overtaken(q) \subseteq raced

(* An entry is what its source says; it is in the closing of its month.    *)
Says(e) ==
    \/ e.source \in Journals /\ e \in EntryOf(e.source, journal[e.source])
    \/ /\ e.source \in Postings
       /\ posting[e.source] # None /\ posting[e.source] = e.month /\ e.rev = 1

Filed(e) == snapshot[e.month] # None /\ e \in snapshot[e.month].entries

Matches == \A e \in Entry \ raced : e \in live \/ Filed(e) <=> Says(e)

LedgerGood == RowMonth /\ ClosingFaithful /\ CommandCovered /\ Matches /\ SnapshotAddsUp

MatchInv == IInv /\ ClosingInv /\ LedgerGood

LEMMA OwedSays == TypeOK => \A e : e \in Owed <=> e \in Entry /\ Says(e)
<1> SUFFICES ASSUME TypeOK, NEW e PROVE e \in Owed <=> e \in Entry /\ Says(e)
  OBVIOUS
<1>1. ASSUME NEW j \in Journals, e \in EntryOf(j, journal[j])
      PROVE  e \in Entry /\ Says(e)
  <2>1. journal[j] \in Journal \cup {None}
    BY DEF TypeOK
  <2>2. e \in Entry /\ e.source = j
    BY <1>1, <2>1, EntryOfType
  <2> QED
    BY <1>1, <2>2 DEF Says
<1>2. ASSUME NEW p \in Postings, posting[p] # None,
             e = [source |-> p, month |-> posting[p], rev |-> 1]
      PROVE  e \in Entry /\ Says(e)
  BY <1>2, RevAssumption DEF Says, Entry, TypeOK
<1>3. ASSUME e \in Entry, e.source \in Postings, e.month = posting[e.source], e.rev = 1
      PROVE  e = [source |-> e.source, month |-> posting[e.source], rev |-> 1]
  BY <1>3 DEF Entry
<1>4. ASSUME e \in Owed
      PROVE  e \in Entry /\ Says(e)
  <2>1. \/ \E j \in Journals : e \in EntryOf(j, journal[j])
        \/ \E p \in {x \in Postings : posting[x] # None} :
               e = [source |-> p, month |-> posting[p], rev |-> 1]
    BY <1>4 DEF Owed
  <2> QED
    BY <1>1, <1>2, <2>1
<1>5. ASSUME e \in Entry, Says(e)
      PROVE  e \in Owed
  <2>1. CASE e.source \in Journals /\ e \in EntryOf(e.source, journal[e.source])
    BY <2>1 DEF Owed
  <2>2. CASE e.source \in Postings /\ posting[e.source] # None
             /\ e = [source |-> e.source, month |-> posting[e.source], rev |-> 1]
    BY <2>2 DEF Owed
  <2> QED
    BY <1>3, <1>5, <2>1, <2>2 DEF Says
<1> QED
  BY <1>4, <1>5

LEMMA ArchivedFiled == TypeOK => \A e : e \in Archived <=> e \in Entry /\ Filed(e)
<1> SUFFICES ASSUME TypeOK, NEW e PROVE e \in Archived <=> e \in Entry /\ Filed(e)
  OBVIOUS
<1>1. ASSUME NEW m \in Months, snapshot[m] # None, e \in snapshot[m].entries
      PROVE  e \in Entry /\ Filed(e)
  <2>1. e \in Entry
    BY <1>1, EntriesType
  <2>2. e.month = m
    BY <1>1 DEF TypeOK
  <2> QED
    BY <1>1, <2>1, <2>2 DEF Filed
<1>2. ASSUME e \in Entry, Filed(e)
      PROVE  e \in Archived
  BY <1>2 DEF Archived, Filed, Entry
<1> QED
  BY <1>1, <1>2 DEF Archived

LEMMA MatchesIff == TypeOK => (EntriesMatchSources <=> Matches)
<1> SUFFICES ASSUME TypeOK PROVE EntriesMatchSources <=> Matches
  OBVIOUS
<1>1. live \subseteq Entry
  BY DEF TypeOK
<1> QED
  BY <1>1, OwedSays, ArchivedFiled DEF EntriesMatchSources, Matches

(* What raced stays raced: snapshots that add up go on doing so.           *)
LEMMA AddsUpStep ==
    ASSUME SnapshotAddsUp, UNCHANGED snapshot, raced \subseteq raced'
    PROVE  SnapshotAddsUp'
BY DEF SnapshotAddsUp

(* A step after which the closings still open take the same entries, and   *)
(* nothing but raced entries has moved in their months.                    *)
LEMMA FaithfulStep ==
    ASSUME ClosingFaithful, raced \subseteq raced',
           \A q \in Reqs : Open(q, "close")' =>
               /\ Open(q, "close") /\ txn'[q] = txn[q]
               /\ \A e \in (live \cup live') \ raced' :
                      e.month = txn[q].month => (e \in live <=> e \in live')
    PROVE  ClosingFaithful'
<1> SUFFICES ASSUME NEW q \in Reqs, Open(q, "close")'
             PROVE  /\ txn'[q].taken.total \ raced' = Summed(txn[q].month)' \ raced'
                    /\ txn'[q].copied =>
                           txn'[q].taken.entries \ raced' = Summed(txn[q].month)' \ raced'
  BY DEF ClosingFaithful
<1>1. Open(q, "close") /\ txn'[q] = txn[q]
  OBVIOUS
<1>2. Summed(txn[q].month)' \ raced' = Summed(txn[q].month) \ raced'
  BY <1>1 DEF Summed
<1>3. /\ txn[q].taken.total \ raced = Summed(txn[q].month) \ raced
      /\ txn[q].copied => txn[q].taken.entries \ raced = Summed(txn[q].month) \ raced
  BY <1>1 DEF ClosingFaithful
<1> QED
  BY <1>1, <1>2, <1>3

LEMMA PostingGood ==
    ASSUME MatchInv, TypeOK', NEW p \in Postings, NEW m \in Months, InsertAccountingEntry(p, m)
    PROVE  LedgerGood'
<1> DEFINE new == [source |-> p, month |-> m, rev |-> 1]
<1>0. TypeOK /\ LedgerGood
  BY DEF MatchInv, IInv
<1>1. new \in Entry /\ new.source = p /\ new.month = m /\ new.rev = 1
  BY RevAssumption DEF Entry
<1>2. \A e \in Entry : e.source = p /\ e.month = m /\ e.rev = 1 => e = new
  BY DEF Entry
<1> HIDE DEF new
<1>3. live' = live \cup {new} /\ UNCHANGED <<journal, snapshot, txn>>
  BY DEF InsertAccountingEntry, new
<1>4. /\ raced' = IF ClosingOf(m) = {} THEN raced ELSE raced \cup {new}
      /\ posting[p] = None /\ m # None
      /\ posting' = [posting EXCEPT ![p] = m]
  BY NoneAssumption DEF InsertAccountingEntry, new
<1>5. posting'[p] = m /\ \A x \in Postings \ {p} : posting'[x] = posting[x]
  BY <1>0, <1>4 DEF TypeOK
<1>6. (RowMonth /\ CommandCovered)'
  BY <1>0, <1>3, <1>4 DEF LedgerGood, RowMonth, CommandCovered, SameEntry, Overtaken, EntryOf, Open
<1>7. SnapshotAddsUp'
  BY <1>0, <1>3, <1>4, AddsUpStep DEF LedgerGood
<1>8. ClosingFaithful'
  <2>1. ASSUME NEW q \in Reqs, Open(q, "close")'
        PROVE  /\ Open(q, "close") /\ txn'[q] = txn[q]
               /\ \A e \in (live \cup live') \ raced' :
                      e.month = txn[q].month => (e \in live <=> e \in live')
    <3>1. Open(q, "close") /\ txn'[q] = txn[q]
      BY <1>3, <2>1 DEF Open
    <3>2. txn[q].month = m => new \in raced'
      BY <1>4, <3>1 DEF ClosingOf
    <3> QED
      BY <1>1, <1>3, <3>1, <3>2
  <2>2. raced \subseteq raced'
    BY <1>4
  <2> QED
    BY <1>0, <2>1, <2>2, FaithfulStep DEF LedgerGood
<1>9. Matches'
  <2>1. ASSUME NEW e \in Entry, e \notin raced'
        PROVE  (e \in live \/ Filed(e) <=> Says(e))'
    <3>1. Filed(e)' <=> Filed(e)
      BY <1>3 DEF Filed
    <3>2. e # new => (Says(e)' <=> Says(e))
      <4>1. CASE e.source = p
        BY <1>2, <1>3, <1>4, <1>5, <4>1, SourceAssumption DEF Says
      <4>2. CASE e.source # p
        BY <1>3, <1>5, <4>2 DEF Says, Entry
      <4> QED
        BY <4>1, <4>2
    <3>3. Says(new)'
      BY <1>1, <1>4, <1>5 DEF Says
    <3>4. e \notin raced
      BY <1>4, <2>1
    <3> QED
      BY <1>0, <1>3, <2>1, <3>1, <3>2, <3>3, <3>4 DEF LedgerGood, Matches
  <2> QED
    BY <2>1 DEF Matches
<1> QED
  BY <1>6, <1>7, <1>8, <1>9 DEF LedgerGood

LEMMA BeginGood ==
    ASSUME MatchInv, NEW q \in Reqs, NEW j \in Journals, NEW row \in Journal,
           Begin(q, j, row), journal[j] # None => row.month = journal[j].month
    PROVE  LedgerGood'
<1> DEFINE c == [op |-> "journal", journal |-> j, row |-> row]
<1>0. TypeOK /\ LedgerGood
  BY DEF MatchInv, IInv
<1>1. txn' = [txn EXCEPT ![q] = c] /\ UNCHANGED <<journal, posting, live, snapshot, raced>>
  BY DEF Begin
<1>2. c.op = "journal" /\ c.journal = j /\ c.row = row
  OBVIOUS
<1> HIDE DEF c
<1>3. \A r \in Reqs : txn'[r] = IF r = q THEN c ELSE txn[r]
  BY <1>0, <1>1 DEF TypeOK
<1>4. (Matches /\ SnapshotAddsUp)'
  BY <1>0, <1>1 DEF LedgerGood, Matches, Filed, Says, EntryOf, SnapshotAddsUp
<1>5. ASSUME NEW r \in Reqs, Open(r, "close")'
      PROVE  Open(r, "close") /\ txn'[r] = txn[r]
  BY <1>2, <1>3, <1>5 DEF Open
<1>6. ClosingFaithful'
  BY <1>0, <1>1, <1>5, FaithfulStep DEF LedgerGood
<1>7. RowMonth'
  BY <1>0, <1>1, <1>2, <1>3 DEF LedgerGood, RowMonth, Open
<1>8. CommandCovered'
  <2>1. ASSUME NEW r \in Reqs, Open(r, "journal")'
        PROVE  (\/ SameEntry(r)
                \/ snapshot[txn[r].row.month] = None
                \/ Overtaken(r) \subseteq raced)'
    <3>1. CASE r = q
      <4>1. EntryOf(j, journal[j]) # EntryOf(j, row) => snapshot[row.month] = None
        BY DEF Begin, MonthOpen
      <4>2. txn'[r].journal = j /\ txn'[r].row = row
        BY <1>2, <1>3, <3>1
      <4> QED
        BY <1>1, <4>1, <4>2 DEF SameEntry, EntryOf
    <3>2. CASE r # q
      <4>1. txn'[r] = txn[r] /\ Open(r, "journal")
        BY <1>3, <2>1, <3>2 DEF Open
      <4> QED
        BY <1>0, <1>1, <4>1 DEF LedgerGood, CommandCovered, SameEntry, Overtaken, EntryOf
    <3> QED
      BY <3>1, <3>2
  <2> QED
    BY <2>1 DEF CommandCovered
<1> QED
  BY <1>4, <1>6, <1>7, <1>8 DEF LedgerGood

(* A command replaces the entry of its log, which it had to leave as it    *)
(* was if the month has been closed meanwhile.                             *)
LEMMA SyncGood ==
    ASSUME MatchInv, TypeOK', NEW q \in Reqs, SyncExpenseEntry(q)
    PROVE  LedgerGood'
<1> DEFINE j == txn[q].journal
           row == txn[q].row
           old == EntryOf(j, journal[j])
           new == EntryOf(j, row)
<1>0. TypeOK /\ LedgerGood /\ RowLock
  BY DEF MatchInv, IInv
<1>1. j \in Journals /\ row \in Journal /\ Open(q, "journal")
  BY <1>0, OpenType DEF SyncExpenseEntry, Command
<1>2. /\ journal' = [journal EXCEPT ![j] = row]
      /\ live' = {e \in live : e.source # j} \cup new
      /\ raced' = IF ClosingOf(row.month) = {} THEN raced ELSE raced \cup old \cup new
      /\ txn' = [txn EXCEPT ![q] = None]
      /\ UNCHANGED <<posting, snapshot>>
  BY DEF SyncExpenseEntry
<1>3. journal'[j] = row /\ \A x \in Journals \ {j} : journal'[x] = journal[x]
  BY <1>0, <1>1, <1>2 DEF TypeOK
<1>4. \A r \in Reqs : txn'[r] = IF r = q THEN None ELSE txn[r]
  BY <1>0, <1>2 DEF TypeOK
<1>5. \A e \in old \cup new : e \in Entry /\ e.source = j /\ e.month = row.month
  <2>1. journal[j] \in Journal \cup {None}
    BY <1>0, <1>1 DEF TypeOK
  <2>2. journal[j] # None => row.month = journal[j].month
    BY <1>0, <1>1 DEF LedgerGood, RowMonth
  <2> QED
    BY <1>1, <2>1, <2>2, EntryOfType
<1>6. old = new \/ snapshot[row.month] = None \/ old \cup new \subseteq raced
  BY <1>0, <1>1 DEF LedgerGood, CommandCovered, SameEntry, Overtaken
<1>7. \A e \in Entry : e.source = j => (Says(e) <=> e \in old) /\ (Says(e)' <=> e \in new)
  BY <1>1, <1>2, <1>3, SourceAssumption DEF Says, EntryOf
<1>8. \A e \in Entry : e.source # j => (Says(e)' <=> Says(e))
  BY <1>2, <1>3 DEF Says, EntryOf
<1> HIDE DEF j, row, old, new
<1>9. raced \subseteq raced'
  BY <1>2
<1>10. SnapshotAddsUp'
  BY <1>0, <1>2, <1>9, AddsUpStep DEF LedgerGood
<1>11. Matches'
  <2>1. ASSUME NEW e \in Entry, e \notin raced'
        PROVE  (e \in live \/ Filed(e) <=> Says(e))'
    <3>1. Filed(e)' <=> Filed(e)
      BY <1>2 DEF Filed
    <3>2. e \in live \/ Filed(e) <=> Says(e)
      BY <1>0, <1>9, <2>1 DEF LedgerGood, Matches
    <3>3. CASE e.source # j
      BY <1>2, <1>5, <1>8, <3>1, <3>2, <3>3
    <3>4. CASE e.source = j
      <4>1. e \in live' <=> e \in new
        BY <1>2, <3>4
      <4>2. ASSUME Filed(e)
            PROVE  e \in new
        <5>1. e \in old
          BY <1>7, <3>2, <3>4, <4>2
        <5>2. e.month = row.month /\ snapshot[row.month] # None
          BY <1>5, <4>2, <5>1 DEF Filed
        <5> QED
          BY <1>6, <1>9, <2>1, <5>1, <5>2
      <4> QED
        BY <1>7, <3>1, <3>4, <4>1, <4>2
    <3> QED
      BY <3>3, <3>4
  <2> QED
    BY <2>1 DEF Matches
<1>12. ClosingFaithful'
  <2>1. ASSUME NEW r \in Reqs, Open(r, "close")'
        PROVE  /\ Open(r, "close") /\ txn'[r] = txn[r]
               /\ \A e \in (live \cup live') \ raced' :
                      e.month = txn[r].month => (e \in live <=> e \in live')
    <3>1. Open(r, "close") /\ txn'[r] = txn[r]
      BY <1>4, <2>1 DEF Open
    <3>2. txn[r].month = row.month => old \cup new \subseteq raced'
      BY <1>2, <3>1 DEF ClosingOf
    <3>3. ASSUME NEW e \in (live \cup live') \ raced', e.month = txn[r].month
          PROVE  e \in live <=> e \in live'
      <4>1. e \in Entry
        BY <1>0, <1>2, <1>5 DEF TypeOK
      <4>2. CASE e.source # j
        BY <1>2, <1>5, <3>3, <4>2
      <4>3. CASE e.source = j
        <5>1. e \in live => e \in old
          BY <1>0, <1>7, <1>9, <3>3, <4>1, <4>3 DEF LedgerGood, Matches
        <5>2. e \in live' => e \in new
          BY <1>2, <4>3
        <5> QED
          BY <1>5, <3>2, <3>3, <5>1, <5>2
      <4> QED
        BY <4>2, <4>3
    <3> QED
      BY <3>1, <3>3
  <2> QED
    BY <1>0, <1>9, <2>1, FaithfulStep DEF LedgerGood
<1>13. ASSUME NEW r \in Reqs, Open(r, "journal")'
       PROVE  /\ Open(r, "journal") /\ txn'[r] = txn[r]
              /\ journal'[txn[r].journal] = journal[txn[r].journal]
  <2>1. r # q /\ txn'[r] = txn[r] /\ Open(r, "journal")
    BY <1>4, <1>13 DEF Open
  <2>2. txn[r].journal \in Journals
    BY <1>0, <2>1, OpenType DEF Command
  <2>3. txn[r].journal # j
    BY <1>0, <1>1, <2>1 DEF RowLock, j
  <2> QED
    BY <1>3, <2>1, <2>2, <2>3
<1>14. RowMonth'
  BY <1>0, <1>13 DEF LedgerGood, RowMonth
<1>15. CommandCovered'
  <2>1. ASSUME NEW r \in Reqs, Open(r, "journal")'
        PROVE  (\/ SameEntry(r)
                \/ snapshot[txn[r].row.month] = None
                \/ Overtaken(r) \subseteq raced)'
    <3>1. /\ Open(r, "journal") /\ txn'[r] = txn[r]
          /\ journal'[txn[r].journal] = journal[txn[r].journal]
      BY <1>13, <2>1
    <3>2. (SameEntry(r)' <=> SameEntry(r)) /\ Overtaken(r)' = Overtaken(r)
      BY <3>1 DEF SameEntry, Overtaken, EntryOf
    <3>3. \/ SameEntry(r)
          \/ snapshot[txn[r].row.month] = None
          \/ Overtaken(r) \subseteq raced
      BY <1>0, <3>1 DEF LedgerGood, CommandCovered
    <3> QED
      BY <1>2, <1>9, <3>1, <3>2, <3>3
  <2> QED
    BY <2>1 DEF CommandCovered
<1> QED
  BY <1>10, <1>11, <1>12, <1>14, <1>15 DEF LedgerGood

(* A step of a closing, or the end of a transaction, that writes nothing.  *)
LEMMA TakeGood ==
    ASSUME MatchInv, NEW q \in Reqs, NEW c \in Closing \cup {None},
           txn' = [txn EXCEPT ![q] = c],
           UNCHANGED <<journal, posting, live, snapshot, raced>>,
           c # None => /\ c.taken.total \ raced = Summed(c.month) \ raced
                       /\ c.copied => c.taken.entries \ raced = Summed(c.month) \ raced
    PROVE  LedgerGood'
<1>0. TypeOK /\ LedgerGood
  BY DEF MatchInv, IInv
<1>1. \A r \in Reqs : txn'[r] = IF r = q THEN c ELSE txn[r]
  BY <1>0 DEF TypeOK
<1>2. c = None \/ c.op = "close"
  BY DEF Closing
<1>3. ASSUME NEW r \in Reqs, Open(r, "journal")'
      PROVE  Open(r, "journal") /\ txn'[r] = txn[r]
  BY <1>1, <1>2, <1>3 DEF Open
<1>4. (RowMonth /\ CommandCovered)'
  <2>1. ASSUME NEW r \in Reqs, Open(r, "journal")'
        PROVE  (SameEntry(r)' <=> SameEntry(r)) /\ Overtaken(r)' = Overtaken(r)
    BY <1>3, <2>1 DEF SameEntry, Overtaken, EntryOf
  <2>2. RowMonth'
    BY <1>0, <1>3 DEF LedgerGood, RowMonth
  <2>3. CommandCovered'
    BY <1>0, <1>3, <2>1 DEF LedgerGood, CommandCovered
  <2> QED
    BY <2>2, <2>3
<1>5. (Matches /\ SnapshotAddsUp)'
  BY <1>0 DEF LedgerGood, Matches, Filed, Says, EntryOf, SnapshotAddsUp
<1>6. ClosingFaithful'
  <2>1. ASSUME NEW r \in Reqs, Open(r, "close")'
        PROVE  /\ txn'[r].taken.total \ raced' = Summed(txn[r].month)' \ raced'
               /\ txn'[r].copied => txn'[r].taken.entries \ raced' = Summed(txn[r].month)' \ raced'
    <3>1. CASE r = q
      <4>1. txn'[r] = c /\ c # None
        BY <1>1, <2>1, <3>1 DEF Open
      <4> QED
        BY <4>1 DEF Summed
    <3>2. CASE r # q
      <4>1. txn'[r] = txn[r] /\ Open(r, "close")
        BY <1>1, <2>1, <3>2 DEF Open
      <4> QED
        BY <1>0, <4>1 DEF LedgerGood, ClosingFaithful, Summed
    <3> QED
      BY <3>1, <3>2
  <2> QED
    BY <2>1 DEF ClosingFaithful
<1> QED
  BY <1>4, <1>5, <1>6 DEF LedgerGood

(* Closing a month moves its entries into the snapshot.                    *)
LEMMA DeleteGood ==
    ASSUME MatchInv, TypeOK', NEW q \in Reqs, DeleteEntries(q)
    PROVE  LedgerGood'
<1> DEFINE m == txn[q].month
           T == txn[q].taken.total
           E == txn[q].taken.entries
<1>0. TypeOK /\ LedgerGood /\ ClosingInv
  BY DEF MatchInv, IInv
<1>1. Open(q, "close") /\ txn[q].copied /\ m \in Months
  BY <1>0, OpenType, ClosingParts DEF DeleteEntries
<1>2. /\ live' = {e \in live : e.month # m}
      /\ snapshot' = [snapshot EXCEPT ![m] = txn[q].taken]
      /\ txn' = [txn EXCEPT ![q] = None]
      /\ raced' = raced \cup UNION {Overtaken(r) :
             r \in {x \in Reqs : Open(x, "journal") /\ txn[x].row.month = m}}
      /\ UNCHANGED <<journal, posting>>
  BY DEF DeleteEntries, Cleared
<1>3. /\ snapshot[m] = None /\ snapshot'[m] # None
      /\ snapshot'[m].total = T /\ snapshot'[m].entries = E
      /\ \A n \in Months \ {m} : snapshot'[n] = snapshot[n]
  <2>1. txn[q].taken \in Snapshot
    BY <1>0, <1>1, OpenType, ClosingParts
  <2>2. txn[q].taken # None
    BY <2>1, NoneAssumption
  <2> QED
    BY <1>0, <1>1, <1>2, <2>2 DEF TypeOK, ClosingInv
<1>4. \A r \in Reqs : txn'[r] = IF r = q THEN None ELSE txn[r]
  BY <1>0, <1>2 DEF TypeOK
<1>5. /\ T \ raced = {e \in live : e.month = m} \ raced
      /\ E \ raced = {e \in live : e.month = m} \ raced
  BY <1>0, <1>1 DEF LedgerGood, ClosingFaithful, Summed
<1>6. \A e \in E : e.month = m
  BY <1>0, <1>1 DEF TypeOK
<1>7. raced \subseteq raced'
  BY <1>2
<1> HIDE DEF m, T, E
<1>8. SnapshotAddsUp'
  <2>1. ASSUME NEW n \in Months, snapshot'[n] # None
        PROVE  snapshot'[n].total \ raced' = snapshot'[n].entries \ raced'
    <3>1. CASE n = m
      BY <1>3, <1>5, <1>7, <3>1
    <3>2. CASE n # m
      BY <1>0, <1>3, <1>7, <2>1, <3>2 DEF LedgerGood, SnapshotAddsUp
    <3> QED
      BY <3>1, <3>2
  <2> QED
    BY <2>1 DEF SnapshotAddsUp
<1>9. Matches'
  <2>1. ASSUME NEW e \in Entry, e \notin raced'
        PROVE  (e \in live \/ Filed(e) <=> Says(e))'
    <3>1. Says(e)' <=> Says(e)
      BY <1>2 DEF Says, EntryOf
    <3>2. e \in live \/ Filed(e) <=> Says(e)
      BY <1>0, <1>7, <2>1 DEF LedgerGood, Matches
    <3>3. CASE e.month = m
      <4>1. e \notin live' /\ (Filed(e)' <=> e \in E) /\ ~Filed(e)
        BY <1>2, <1>3, <3>3 DEF Filed
      <4>2. e \in E <=> e \in live
        BY <1>5, <1>7, <2>1, <3>3
      <4> QED
        BY <3>1, <3>2, <4>1, <4>2
    <3>4. CASE e.month # m
      <4>1. e \in live' <=> e \in live
        BY <1>2, <3>4
      <4>2. Filed(e)' <=> Filed(e)
        BY <1>3, <3>4 DEF Filed, Entry
      <4> QED
        BY <3>1, <3>2, <4>1, <4>2
    <3> QED
      BY <3>3, <3>4
  <2> QED
    BY <2>1 DEF Matches
<1>10. ClosingFaithful'
  <2>1. ASSUME NEW r \in Reqs, Open(r, "close")'
        PROVE  /\ Open(r, "close") /\ txn'[r] = txn[r]
               /\ \A e \in (live \cup live') \ raced' :
                      e.month = txn[r].month => (e \in live <=> e \in live')
    <3>1. r # q /\ Open(r, "close") /\ txn'[r] = txn[r]
      BY <1>4, <2>1 DEF Open
    <3>2. txn[r].month # m
      BY <1>0, <1>1, <3>1 DEF ClosingInv, m
    <3> QED
      BY <1>2, <3>1, <3>2
  <2> QED
    BY <1>0, <1>7, <2>1, FaithfulStep DEF LedgerGood
<1>11. ASSUME NEW r \in Reqs, Open(r, "journal")'
       PROVE  Open(r, "journal") /\ txn'[r] = txn[r]
  BY <1>4, <1>11 DEF Open
<1>12. RowMonth'
  BY <1>0, <1>2, <1>11 DEF LedgerGood, RowMonth
<1>13. CommandCovered'
  <2>1. ASSUME NEW r \in Reqs, Open(r, "journal")'
        PROVE  (\/ SameEntry(r)
                \/ snapshot[txn[r].row.month] = None
                \/ Overtaken(r) \subseteq raced)'
    <3>1. Open(r, "journal") /\ txn'[r] = txn[r]
      BY <1>11, <2>1
    <3>2. (SameEntry(r)' <=> SameEntry(r)) /\ Overtaken(r)' = Overtaken(r)
      BY <1>2, <3>1 DEF SameEntry, Overtaken, EntryOf
    <3>3. CASE txn[r].row.month = m
      BY <1>2, <3>1, <3>2, <3>3
    <3>4. CASE txn[r].row.month # m
      <4>1. txn[r].row.month \in Months
        BY <1>0, <3>1, OpenType DEF Command, Journal
      <4>2. snapshot'[txn[r].row.month] = snapshot[txn[r].row.month]
        BY <1>3, <3>4, <4>1
      <4>3. \/ SameEntry(r)
            \/ snapshot[txn[r].row.month] = None
            \/ Overtaken(r) \subseteq raced
        BY <1>0, <3>1 DEF LedgerGood, CommandCovered
      <4> QED
        BY <1>7, <3>1, <3>2, <4>2, <4>3
    <3> QED
      BY <3>3, <3>4
  <2> QED
    BY <2>1 DEF CommandCovered
<1> QED
  BY <1>8, <1>9, <1>10, <1>12, <1>13 DEF LedgerGood

LEMMA MatchInvStep == MatchInv /\ [Next]_vars => MatchInv'
<1> SUFFICES ASSUME MatchInv, [Next]_vars PROVE MatchInv'
  OBVIOUS
<1>1. TypeOK /\ TypeOK' /\ IInv' /\ ClosingInv'
  BY TypeStep, IInvStep, ClosingInvStep DEF MatchInv, IInv
<1>2. ASSUME NEW p \in Postings, NEW m \in Months, InsertAccountingEntry(p, m)
      PROVE  LedgerGood'
  BY <1>1, <1>2, PostingGood
<1>3. ASSUME NEW q \in Reqs, NEW j \in Journals, NEW m \in Months, NEW rev \in 0..1,
             CreateJournal(q, j, m, rev)
      PROVE  LedgerGood'
  <2>1. [month |-> m, rev |-> rev, deleted |-> FALSE] \in Journal
    BY RevAssumption DEF Journal
  <2> QED
    BY <1>3, <2>1, BeginGood DEF CreateJournal
<1>4. ASSUME NEW q \in Reqs, NEW j \in Journals, UpdateJournal(q, j)
      PROVE  LedgerGood'
  <2> DEFINE row == [journal[j] EXCEPT !.rev = @ + 1]
  <2>1. journal[j] \in Journal /\ journal[j].rev < MaxRev
    BY <1>1, <1>4 DEF UpdateJournal, TypeOK
  <2>2. row \in Journal /\ row.month = journal[j].month
    BY <2>1, RevAssumption DEF Journal
  <2> QED
    BY <1>4, <2>2, BeginGood DEF UpdateJournal
<1>5. ASSUME NEW q \in Reqs, NEW j \in Journals, DeleteJournal(q, j)
      PROVE  LedgerGood'
  <2> DEFINE row == [journal[j] EXCEPT !.deleted = TRUE]
  <2>1. journal[j] \in Journal
    BY <1>1, <1>5 DEF DeleteJournal, TypeOK
  <2>2. row \in Journal /\ row.month = journal[j].month
    BY <2>1 DEF Journal
  <2> QED
    BY <1>5, <2>2, BeginGood DEF DeleteJournal
<1>6. ASSUME NEW q \in Reqs, SyncExpenseEntry(q)
      PROVE  LedgerGood'
  BY <1>1, <1>6, SyncGood
<1>7. ASSUME NEW q \in Reqs, NEW m \in Months, InsertSnapshot(q, m)
      PROVE  LedgerGood'
  <2> DEFINE c == Close(m, FALSE, Summed(m), {})
  <2>1. c \in Closing
    <3>1. Summed(m) \in SUBSET Entry
      BY <1>1 DEF Summed, TypeOK
    <3> QED
      BY <3>1, CloseType
  <2>2. c.taken.total = Summed(m) /\ c.month = m /\ c.copied = FALSE
    BY DEF Close
  <2>3. txn' = [txn EXCEPT ![q] = c] /\ UNCHANGED <<journal, posting, live, snapshot, raced>>
    BY <1>7 DEF InsertSnapshot
  <2> HIDE DEF c
  <2> QED
    BY <2>1, <2>2, <2>3, TakeGood
<1>8. ASSUME NEW q \in Reqs, CopyEntries(q)
      PROVE  LedgerGood'
  <2>1. Open(q, "close") /\ txn[q] \in Closing
    BY <1>1, <1>8, OpenType DEF CopyEntries
  <2>2. PICK m \in Months, T \in SUBSET Entry : m = txn[q].month /\ T = txn[q].taken.total
    BY <2>1, ClosingParts
  <2> DEFINE c == Close(m, TRUE, T, Copied(m))
  <2>3. c \in Closing
    <3>1. Copied(m) \in SUBSET Entry
      BY <1>1 DEF Copied, TypeOK
    <3> QED
      BY <3>1, CloseType
  <2>4. c.taken.total = T /\ c.taken.entries = Copied(m) /\ c.month = m
    BY DEF Close
  <2>5. txn' = [txn EXCEPT ![q] = c] /\ UNCHANGED <<journal, posting, live, snapshot, raced>>
    BY <1>8, <2>2 DEF CopyEntries
  <2>6. T \ raced = Summed(m) \ raced /\ Copied(m) = Summed(m)
    BY <2>1, <2>2 DEF MatchInv, LedgerGood, ClosingFaithful, Copied, Summed
  <2> HIDE DEF c
  <2> QED
    BY <2>3, <2>4, <2>5, <2>6, TakeGood
<1>9. ASSUME NEW q \in Reqs, DeleteEntries(q)
      PROVE  LedgerGood'
  BY <1>1, <1>9, DeleteGood
<1>10. ASSUME NEW q \in Reqs, Rollback(q)
       PROVE  LedgerGood'
  BY <1>10, TakeGood DEF Rollback
<1>11. CASE UNCHANGED vars
  <2>1. LedgerGood
    BY DEF MatchInv
  <2>2. (RowMonth /\ ClosingFaithful)'
    BY <1>11, <2>1 DEF vars, LedgerGood, RowMonth, ClosingFaithful, Summed, Open
  <2>3. ASSUME NEW q \in Reqs
        PROVE  (SameEntry(q)' <=> SameEntry(q)) /\ Overtaken(q)' = Overtaken(q)
    BY <1>11 DEF vars, SameEntry, Overtaken, EntryOf
  <2>4. CommandCovered'
    BY <1>11, <2>1, <2>3 DEF vars, LedgerGood, CommandCovered, Open
  <2>5. (Matches /\ SnapshotAddsUp)'
    BY <1>11, <2>1 DEF vars, LedgerGood, Matches, Filed, Says, EntryOf, SnapshotAddsUp
  <2> QED
    BY <1>1, <2>2, <2>4, <2>5 DEF LedgerGood, MatchInv
<1> QED
  BY <1>1, <1>2, <1>3, <1>4, <1>5, <1>6, <1>7, <1>8, <1>9, <1>10, <1>11
     DEF Next, JournalNext, CloseNext, MatchInv

LEMMA MatchInvInit == Init => MatchInv
<1> SUFFICES ASSUME Init PROVE MatchInv
  OBVIOUS
<1>1. TypeOK
  BY DEF Init, TypeOK, Open
<1>2. IInv /\ ClosingInv
  BY <1>1 DEF Init, IInv, KnownInv, RowLock, RowFresh, CountedOnce, Archived, Open, ClosingInv
<1>3. RowMonth /\ ClosingFaithful /\ CommandCovered /\ SnapshotAddsUp
  BY DEF Init, RowMonth, ClosingFaithful, CommandCovered, SnapshotAddsUp, Open
<1>4. Matches
  BY DEF Init, Matches, Filed, Says, EntryOf, Entry
<1> QED
  BY <1>2, <1>3, <1>4 DEF MatchInv, LedgerGood

(* What the payments, settlements and journal logs say is recorded, live   *)
(* or archived, and nothing else is, and the total of a closed month is    *)
(* the sum of its entries: for any months, sources and concurrent          *)
(* requests, and every entry whose writing did not overlap a closing of    *)
(* its month.                                                              *)
THEOREM LedgerIsTrue == Spec => []LedgerMatchesSources
<1>1. MatchInv => LedgerMatchesSources
  BY MatchesIff DEF MatchInv, IInv, LedgerGood, LedgerMatchesSources
<1> QED
  BY <1>1, MatchInvInit, MatchInvStep, PTL DEF Spec

(***************************************************************************)
(* The statements that a report has still to run.                          *)
(***************************************************************************)
Todos(kind) ==
    CASE kind = "summaries" -> {<<"finalized", "live">>, <<"live">>, <<>>}
      [] kind = "financial" -> {<<"period">>, <<>>}
      [] kind = "cashflow" -> {<<"period", "opening">>, <<"opening">>, <<>>}
      [] kind = "operation" -> {<<"opening", "period">>, <<"period">>, <<>>}
      [] kind = "profit_loss" ->
             {<<"period", "clock", "previous">>, <<"clock", "previous">>, <<"previous">>, <<>>}

Left(todo, s) == \E i \in DOMAIN todo : todo[i] = s

LEMMA Kinds ==
    DOMAIN Statements = {"summaries", "financial", "cashflow", "operation", "profit_loss"}
BY DEF Statements

LEMMA EachKind ==
    /\ Statements["summaries"] = <<"finalized", "live">>
    /\ Statements["financial"] = <<"period">>
    /\ Statements["cashflow"] = <<"period", "opening">>
    /\ Statements["operation"] = <<"opening", "period">>
    /\ Statements["profit_loss"] = <<"period", "clock", "previous">>
BY DEF Statements

LEMMA HeadsTails ==
    \A a, b, c : /\ Head(<<a>>) = a /\ Tail(<<a>>) = <<>>
                 /\ Head(<<a, b>>) = a /\ Tail(<<a, b>>) = <<b>>
                 /\ Head(<<a, b, c>>) = a /\ Tail(<<a, b, c>>) = <<b, c>>
OBVIOUS

LEMMA FunctionIsSequence ==
    ASSUME NEW S, NEW n \in Nat, NEW s \in [1..n -> S]
    PROVE  s \in Seq(S)
OBVIOUS

LEMMA Singleton ==
    ASSUME NEW S, NEW a \in S
    PROVE  <<a>> \in Seq(S)
<1>1. <<a>> \in [1..1 -> S]
  OBVIOUS
<1> QED
  BY <1>1, FunctionIsSequence

LEMMA Pair ==
    ASSUME NEW S, NEW a \in S, NEW b \in S
    PROVE  <<a, b>> \in Seq(S)
<1>1. \A i \in 1..2 : i = 1 \/ i = 2
  OBVIOUS
<1>2. <<a, b>> \in [1..2 -> S]
  BY <1>1
<1> QED
  BY <1>2, FunctionIsSequence

LEMMA Triple ==
    ASSUME NEW S, NEW a \in S, NEW b \in S, NEW c \in S
    PROVE  <<a, b, c>> \in Seq(S)
<1>1. \A i \in 1..3 : i = 1 \/ i = 2 \/ i = 3
  OBVIOUS
<1>2. <<a, b, c>> \in [1..3 -> S]
  BY <1>1
<1> QED
  BY <1>2, FunctionIsSequence

(* What a report has left is a suffix of its statements.                   *)
LEMMA TodosAreSuffixes ==
    ASSUME NEW kind \in DOMAIN Statements
    PROVE  Todos(kind) \subseteq Suffixes
<1> DEFINE Names == {"period", "finalized", "live", "opening", "clock", "previous"}
<1>1. /\ "period" \in Names /\ "finalized" \in Names /\ "live" \in Names
      /\ "opening" \in Names /\ "clock" \in Names /\ "previous" \in Names
  OBVIOUS
<1> HIDE DEF Names
<1>2. \A k \in DOMAIN Statements : Statements[k] \in Seq(Names) /\ Statements[k] # <<>>
  <2>1. ASSUME NEW k \in DOMAIN Statements
        PROVE  Statements[k] \in Seq(Names)
    <3>1. CASE k = "summaries"
      BY <1>1, <3>1, EachKind, Pair
    <3>2. CASE k = "financial"
      BY <1>1, <3>2, EachKind, Singleton
    <3>3. CASE k = "cashflow"
      BY <1>1, <3>3, EachKind, Pair
    <3>4. CASE k = "operation"
      BY <1>1, <3>4, EachKind, Pair
    <3>5. CASE k = "profit_loss"
      BY <1>1, <3>5, EachKind, Triple
    <3> QED
      BY <3>1, <3>2, <3>3, <3>4, <3>5, Kinds
  <2>2. \A k \in DOMAIN Statements : Statements[k] # <<>>
    BY DEF Statements
  <2> QED
    BY <2>1, <2>2
<1>3. ASSUME NEW k \in DOMAIN Statements
      PROVE  Statements[k] \in Suffixes /\ Tail(Statements[k]) \in Suffixes
  <2>1. Statements[k] = SubSeq(Statements[k], 1, Len(Statements[k]))
    BY <1>2, SubSeqFull
  <2>2. Tail(Statements[k]) = SubSeq(Statements[k], 2, Len(Statements[k]))
    BY <1>2, TailIsSubSeq
  <2>3. Statements[k] \in Suffixes
    BY <2>1 DEF Suffixes
  <2>4. Tail(Statements[k]) \in Suffixes
    BY <2>2 DEF Suffixes
  <2> QED
    BY <2>3, <2>4
<1>4. <<"previous">> \in Suffixes
  <2> DEFINE s == <<"period", "clock", "previous">>
  <2>1. s \in Seq(Names) /\ Len(s) = 3 /\ s = Statements["profit_loss"]
    BY <1>1, EachKind, Triple
  <2>2. Tail(s) = <<"clock", "previous">>
    BY HeadsTails
  <2> HIDE DEF s
  <2>3. SubSeq(s, 2, 3) = Tail(s) /\ Tail(SubSeq(s, 2, 3)) = SubSeq(s, 3, 3)
    BY <2>1, TailIsSubSeq, HeadTailOfSubSeq
  <2>4. <<"previous">> = SubSeq(Statements["profit_loss"], 3, Len(Statements["profit_loss"]))
    BY <2>1, <2>2, <2>3, HeadsTails
  <2>5. "profit_loss" \in DOMAIN Statements
    BY Kinds
  <2> QED
    BY <2>4, <2>5 DEF Suffixes
<1>5. /\ <<"finalized", "live">> \in Suffixes /\ <<"period">> \in Suffixes
      /\ <<"period", "opening">> \in Suffixes /\ <<"opening", "period">> \in Suffixes
      /\ <<"period", "clock", "previous">> \in Suffixes
  BY <1>3, EachKind, Kinds
<1>6. /\ <<"live">> \in Suffixes /\ <<"opening">> \in Suffixes
      /\ <<"clock", "previous">> \in Suffixes
  <2>1. /\ Tail(Statements["summaries"]) = <<"live">>
        /\ Tail(Statements["cashflow"]) = <<"opening">>
        /\ Tail(Statements["profit_loss"]) = <<"clock", "previous">>
    BY EachKind, HeadsTails
  <2> QED
    BY <2>1, <1>3, Kinds
<1>7. <<>> \in Suffixes
  BY DEF Suffixes
<1>8. /\ <<"period">> \in Suffixes /\ Tail(Statements["operation"]) = <<"period">>
  BY <1>5, EachKind, HeadsTails
<1> QED
  BY <1>4, <1>5, <1>6, <1>7, Kinds DEF Todos

LEMMA LeftOf ==
    /\ \A s : ~Left(<<>>, s)
    /\ \A a, s : Left(<<a>>, s) <=> s = a
    /\ \A a, b, s : Left(<<a, b>>, s) <=> s = a \/ s = b
    /\ \A a, b, c, s : Left(<<a, b, c>>, s) <=> s = a \/ s = b \/ s = c
<1>1. \A s : ~Left(<<>>, s)
  BY DEF Left
<1>2. \A a, s : Left(<<a>>, s) <=> s = a
  BY DEF Left
<1>3. \A a, b, s : Left(<<a, b>>, s) <=> s = a \/ s = b
  BY DEF Left
<1>4. \A a, b, c, s : Left(<<a, b, c>>, s) <=> s = a \/ s = b \/ s = c
  BY DEF Left
<1> QED
  BY <1>1, <1>2, <1>3, <1>4

LEMMA LeftOfRest ==
    ASSUME NEW todo
    PROVE  /\ todo = <<>> => \A s : ~Left(todo, s)
           /\ \A a : todo = <<a>> => \A s : Left(todo, s) <=> s = a
BY LeftOf

(* What running the next statement, h, leaves, u.                          *)
LeavesAfter(kind, t, h, u) ==
    /\ u \in Todos(kind)
    /\ \A s : Left(t, s) <=> s = h \/ Left(u, s)
    /\ kind = "summaries" => \/ h = "finalized" /\ u = <<"live">>
                             \/ h = "live" /\ u = <<>>
    /\ kind # "summaries" => /\ h \in {"period", "opening", "clock", "previous"}
                             /\ ~Left(u, "live") /\ ~Left(u, "finalized")
    /\ h = "period" => ~Left(u, "period")
    /\ h = "opening" => /\ kind \in {"cashflow", "operation"}
                        /\ ~Left(u, "opening") /\ ~Left(u, "previous")
    /\ h = "clock" => kind = "profit_loss" /\ u = <<"previous">>
    /\ h = "previous" => kind = "profit_loss" /\ u = <<>>

LEMMA EachStatement ==
    /\ LeavesAfter("summaries", <<"finalized", "live">>, "finalized", <<"live">>)
    /\ LeavesAfter("summaries", <<"live">>, "live", <<>>)
    /\ LeavesAfter("financial", <<"period">>, "period", <<>>)
    /\ LeavesAfter("cashflow", <<"period", "opening">>, "period", <<"opening">>)
    /\ LeavesAfter("cashflow", <<"opening">>, "opening", <<>>)
    /\ LeavesAfter("operation", <<"opening", "period">>, "opening", <<"period">>)
    /\ LeavesAfter("operation", <<"period">>, "period", <<>>)
    /\ LeavesAfter("profit_loss", <<"period", "clock", "previous">>, "period", <<"clock", "previous">>)
    /\ LeavesAfter("profit_loss", <<"clock", "previous">>, "clock", <<"previous">>)
    /\ LeavesAfter("profit_loss", <<"previous">>, "previous", <<>>)
<1>1. LeavesAfter("summaries", <<"finalized", "live">>, "finalized", <<"live">>)
  <2>1. <<"live">> \in Todos("summaries")
    BY DEF Todos
  <2> QED
    BY <2>1, LeftOf DEF LeavesAfter
<1>2. LeavesAfter("summaries", <<"live">>, "live", <<>>)
  <2>1. <<>> \in Todos("summaries")
    BY DEF Todos
  <2> QED
    BY <2>1, LeftOf DEF LeavesAfter
<1>3. LeavesAfter("financial", <<"period">>, "period", <<>>)
  <2>1. <<>> \in Todos("financial")
    BY DEF Todos
  <2> QED
    BY <2>1, LeftOf DEF LeavesAfter
<1>4. LeavesAfter("cashflow", <<"period", "opening">>, "period", <<"opening">>)
  <2>1. <<"opening">> \in Todos("cashflow")
    BY DEF Todos
  <2> QED
    BY <2>1, LeftOf DEF LeavesAfter
<1>5. LeavesAfter("cashflow", <<"opening">>, "opening", <<>>)
  <2>1. <<>> \in Todos("cashflow")
    BY DEF Todos
  <2> QED
    BY <2>1, LeftOf DEF LeavesAfter
<1>6. LeavesAfter("operation", <<"opening", "period">>, "opening", <<"period">>)
  <2>1. <<"period">> \in Todos("operation")
    BY DEF Todos
  <2> QED
    BY <2>1, LeftOf DEF LeavesAfter
<1>7. LeavesAfter("operation", <<"period">>, "period", <<>>)
  <2>1. <<>> \in Todos("operation")
    BY DEF Todos
  <2> QED
    BY <2>1, LeftOf DEF LeavesAfter
<1>8. LeavesAfter("profit_loss", <<"period", "clock", "previous">>, "period", <<"clock", "previous">>)
  <2>1. <<"clock", "previous">> \in Todos("profit_loss")
    BY DEF Todos
  <2> QED
    BY <2>1, LeftOf DEF LeavesAfter
<1>9. LeavesAfter("profit_loss", <<"clock", "previous">>, "clock", <<"previous">>)
  <2>1. <<"previous">> \in Todos("profit_loss")
    BY DEF Todos
  <2> QED
    BY <2>1, LeftOf DEF LeavesAfter
<1>10. LeavesAfter("profit_loss", <<"previous">>, "previous", <<>>)
  <2>1. <<>> \in Todos("profit_loss")
    BY DEF Todos
  <2> QED
    BY <2>1, LeftOf DEF LeavesAfter
<1> QED
  BY <1>1, <1>2, <1>3, <1>4, <1>5, <1>6, <1>7, <1>8, <1>9, <1>10

LEMMA NextStatement ==
    ASSUME NEW kind \in DOMAIN Statements, NEW t \in Todos(kind), t # <<>>
    PROVE  LeavesAfter(kind, t, Head(t), Tail(t))
<1>1. CASE kind = "summaries"
  <2>1. CASE t = <<"finalized", "live">>
    <3>1. Head(t) = "finalized" /\ Tail(t) = <<"live">>
      BY <2>1, HeadsTails
    <3> QED
      BY <1>1, <2>1, <3>1, EachStatement
  <2>2. CASE t = <<"live">>
    <3>1. Head(t) = "live" /\ Tail(t) = <<>>
      BY <2>2, HeadsTails
    <3> QED
      BY <1>1, <2>2, <3>1, EachStatement
  <2> QED
    BY <1>1, <2>1, <2>2 DEF Todos
<1>2. CASE kind = "financial"
  <2>1. CASE t = <<"period">>
    <3>1. Head(t) = "period" /\ Tail(t) = <<>>
      BY <2>1, HeadsTails
    <3> QED
      BY <1>2, <2>1, <3>1, EachStatement
  <2> QED
    BY <1>2, <2>1 DEF Todos
<1>3. CASE kind = "cashflow"
  <2>1. CASE t = <<"period", "opening">>
    <3>1. Head(t) = "period" /\ Tail(t) = <<"opening">>
      BY <2>1, HeadsTails
    <3> QED
      BY <1>3, <2>1, <3>1, EachStatement
  <2>2. CASE t = <<"opening">>
    <3>1. Head(t) = "opening" /\ Tail(t) = <<>>
      BY <2>2, HeadsTails
    <3> QED
      BY <1>3, <2>2, <3>1, EachStatement
  <2> QED
    BY <1>3, <2>1, <2>2 DEF Todos
<1>4. CASE kind = "operation"
  <2>1. CASE t = <<"opening", "period">>
    <3>1. Head(t) = "opening" /\ Tail(t) = <<"period">>
      BY <2>1, HeadsTails
    <3> QED
      BY <1>4, <2>1, <3>1, EachStatement
  <2>2. CASE t = <<"period">>
    <3>1. Head(t) = "period" /\ Tail(t) = <<>>
      BY <2>2, HeadsTails
    <3> QED
      BY <1>4, <2>2, <3>1, EachStatement
  <2> QED
    BY <1>4, <2>1, <2>2 DEF Todos
<1>5. CASE kind = "profit_loss"
  <2>1. CASE t = <<"period", "clock", "previous">>
    <3>1. Head(t) = "period" /\ Tail(t) = <<"clock", "previous">>
      BY <2>1, HeadsTails
    <3> QED
      BY <1>5, <2>1, <3>1, EachStatement
  <2>2. CASE t = <<"clock", "previous">>
    <3>1. Head(t) = "clock" /\ Tail(t) = <<"previous">>
      BY <2>2, HeadsTails
    <3> QED
      BY <1>5, <2>2, <3>1, EachStatement
  <2>3. CASE t = <<"previous">>
    <3>1. Head(t) = "previous" /\ Tail(t) = <<>>
      BY <2>3, HeadsTails
    <3> QED
      BY <1>5, <2>3, <3>1, EachStatement
  <2> QED
    BY <1>5, <2>1, <2>2, <2>3 DEF Todos
<1> QED
  BY <1>1, <1>2, <1>3, <1>4, <1>5, Kinds

(***************************************************************************)
(* Reports.  A statement covers some months.  Of an entry that was due and *)
(* is not excused, a report holds it or has its month still to read; what  *)
(* it holds was read live, or is in the snapshot of its month.             *)
(***************************************************************************)
Covers(R, s, n) ==
    \/ s = "period" /\ n = R.month
    \/ s = "opening" /\ n < R.month
    \/ s = "previous" /\ n = R.month - 1
    \/ s = "finalized"
    \/ s = "live" /\ n = R.clock

ToRead(R, n) == \E s : Left(R.todo, s) /\ Covers(R, s, n)

Unread(R) ==
    /\ Left(R.todo, "period") \/ Left(R.todo, "live") => R.rows = {}
    /\ Left(R.todo, "opening") \/ Left(R.todo, "previous") \/ Left(R.todo, "finalized")
          => R.before = {}

Apart(R) ==
    /\ \A e \in R.rows : e.month = R.month
    /\ \A e \in R.before : e.month # R.month \/ Left(R.todo, "live")
    /\ R.kind = "summaries" => R.clock = R.month

Due(R) ==
    \A e \in R.due :
        /\ Known(e)
        /\ \/ e.month = R.month
           \/ R.kind = "profit_loss" /\ e.month = R.month - 1
           \/ R.kind = "summaries" /\ Closed(e.month)
           \/ R.kind \in {"cashflow", "operation"} /\ e.month < R.month /\ Closed(e.month)

Sourced(R) ==
    \A e \in R.rows \cup R.before :
        \/ e.month \in R.fresh
        \/ Closed(e.month) /\ e \in snapshot[e.month].total \cup snapshot[e.month].entries

Excused(R, e) ==
    \/ e \in raced \/ e.month \in R.missed
    \/ Closed(e.month) /\ (e \in live \/ e.month \in R.fresh)

Covered(R) ==
    \A e \in R.due :
        Says(e) /\ ~Excused(R, e) => e \in R.rows \cup R.before \/ ToRead(R, e.month)

(* A month is sought because it had no snapshot, or an empty one.          *)
Sought(R) ==
    R.seek =>
        /\ R.kind = "profit_loss" /\ R.todo # <<>>
        /\ Head(R.todo) \in {"period", "previous"} /\ SoughtMonth(R) \in Months
        /\ SoughtMonth(R) \notin R.missed =>
               Closed(SoughtMonth(R)) /\ snapshot[SoughtMonth(R)].entries = {}

(* The report has all of a month's snapshot.                               *)
Has(rows, m) == m \in Months /\ Closed(m) /\ snapshot[m].entries \ raced \subseteq rows

Whole(R) ==
    \A m \in Periods(R) \ (R.fresh \cup R.missed) : ToRead(R, m) \/ Has(R.rows \cup R.before, m)

GoodReport(R) ==
    /\ R \in Report /\ R.todo \in Todos(R.kind)
    /\ Unread(R) /\ Apart(R) /\ Due(R) /\ Sourced(R) /\ Covered(R)
    /\ Sought(R) /\ Whole(R)

ReportInv ==
    /\ now \in Months
    /\ read \in [Readers -> Report \cup {None}]
    /\ \A r \in Readers : read[r] # None => GoodReport(read[r])

LEMMA ReportParts ==
    ASSUME NEW R \in Report
    PROVE  /\ R.kind \in DOMAIN Statements /\ R.month \in Months /\ R.clock \in Months
           /\ R.todo \in Suffixes
           /\ R.rows \in SUBSET Entry /\ R.before \in SUBSET Entry
           /\ R.fresh \in SUBSET Months /\ R.due \in SUBSET Entry
           /\ R.seek \in BOOLEAN /\ R.missed \in SUBSET Months
           /\ R.month \in Nat
BY MonthsAssumption DEF Report

(* What is owed is where it belongs.                                       *)
LEMMA WhereItIs ==
    ASSUME MatchInv, NEW e \in Entry, Says(e), e \notin raced
    PROVE  \/ e \in live
           \/ /\ Closed(e.month)
              /\ e \in snapshot[e.month].entries /\ e \in snapshot[e.month].total
<1>1. e \in live \/ Filed(e)
  BY DEF MatchInv, LedgerGood, Matches
<1>2. ASSUME Filed(e)
      PROVE  Closed(e.month) /\ e \in snapshot[e.month].entries /\ e \in snapshot[e.month].total
  <2>1. Closed(e.month) /\ e \in snapshot[e.month].entries
    BY <1>2 DEF Filed, Closed
  <2>2. e.month \in Months
    BY DEF Entry
  <2>3. snapshot[e.month].total \ raced = snapshot[e.month].entries \ raced
    BY <2>1, <2>2 DEF MatchInv, LedgerGood, SnapshotAddsUp, Closed
  <2> QED
    BY <2>1, <2>3
<1> QED
  BY <1>1, <1>2

LEMMA SnapshotParts ==
    ASSUME TypeOK, NEW m \in Months, Closed(m)
    PROVE  /\ snapshot[m].total \in SUBSET Entry /\ snapshot[m].entries \in SUBSET Entry
           /\ \A e \in snapshot[m].total \cup snapshot[m].entries : e.month = m
<1>1. snapshot[m] \in Snapshot
  BY DEF TypeOK, Closed
<1> QED
  BY <1>1 DEF TypeOK, Closed, Snapshot

(* The report after its next statement.                                    *)
After(R, rows, before, fresh) ==
    [kind |-> R.kind, month |-> R.month, clock |-> R.clock, todo |-> Tail(R.todo),
     rows |-> rows, before |-> before, fresh |-> R.fresh \cup fresh,
     seek |-> FALSE, missed |-> R.missed, due |-> R.due]

LEMMA StoreGood ==
    ASSUME NEW R, GoodReport(R), R.todo # <<>>,
           NEW rows \in SUBSET Entry, NEW before \in SUBSET Entry, NEW fresh \in SUBSET Months,
           \A e \in rows : e.month = R.month,
           \A e \in before : e.month # R.month \/ Left(Tail(R.todo), "live"),
           Unread(After(R, rows, before, fresh)),
           \A e \in rows \cup before :
               \/ e \in R.rows \cup R.before \/ e.month \in fresh
               \/ Closed(e.month) /\ e \in snapshot[e.month].total \cup snapshot[e.month].entries,
           \A e \in R.due :
               Says(e) /\ ~Excused(After(R, rows, before, fresh), e)
               /\ (e \in R.rows \cup R.before \/ Covers(R, Head(R.todo), e.month))
               => e \in rows \cup before \/ ToRead(After(R, rows, before, fresh), e.month),
           \A m \in Periods(R) \ (R.fresh \cup fresh \cup R.missed) :
               /\ R.rows \cup R.before \subseteq rows \cup before
               /\ Covers(R, Head(R.todo), m)
                     => ToRead(After(R, rows, before, fresh), m) \/ Has(rows \cup before, m)
    PROVE  GoodReport(After(R, rows, before, fresh))
<1> DEFINE R2 == After(R, rows, before, fresh)
<1>1. /\ R2.kind = R.kind /\ R2.month = R.month /\ R2.clock = R.clock
      /\ R2.todo = Tail(R.todo) /\ R2.rows = rows /\ R2.before = before
      /\ R2.fresh = R.fresh \cup fresh /\ R2.due = R.due
      /\ R2.seek = FALSE /\ R2.missed = R.missed
  BY DEF After
<1>2. R \in Report /\ R.kind \in DOMAIN Statements /\ R.todo \in Todos(R.kind)
  BY ReportParts DEF GoodReport
<1>3. LeavesAfter(R.kind, R.todo, Head(R.todo), Tail(R.todo))
  BY <1>2, NextStatement
<1>4. R2 \in Report /\ R2.todo \in Todos(R2.kind)
  <2>1. Tail(R.todo) \in Todos(R.kind) /\ Tail(R.todo) \in Suffixes
    BY <1>2, <1>3, TodosAreSuffixes DEF LeavesAfter
  <2>2. R.fresh \cup fresh \in SUBSET Months
    BY <1>2, ReportParts
  <2> QED
    BY <1>1, <1>2, <2>1, <2>2, ReportParts DEF After, Report
<1> HIDE DEF R2
<1>5. Unread(R2) /\ Apart(R2)
  <2>1. Unread(R2)
    BY DEF R2
  <2>2. Apart(R2)
    BY <1>1 DEF Apart, GoodReport
  <2> QED
    BY <2>1, <2>2
<1>6. Due(R2)
  BY <1>1 DEF Due, GoodReport
<1>7. Sourced(R2)
  BY <1>1 DEF Sourced, GoodReport
<1>8. Covered(R2)
  <2> SUFFICES ASSUME NEW e \in R.due, Says(e), ~Excused(R2, e)
               PROVE  e \in rows \cup before \/ ToRead(R2, e.month)
    BY <1>1 DEF Covered
  <2>1. ~Excused(R, e)
    BY <1>1 DEF Excused
  <2>2. e \in R.rows \cup R.before \/ ToRead(R, e.month)
    BY <2>1 DEF GoodReport, Covered
  <2>3. ToRead(R, e.month) => Covers(R, Head(R.todo), e.month) \/ ToRead(R2, e.month)
    BY <1>1, <1>3 DEF ToRead, Covers, LeavesAfter
  <2> QED
    BY <2>2, <2>3 DEF R2
<1>9. Sought(R2)
  BY <1>1 DEF Sought
<1>10. Whole(R2)
  <2> SUFFICES ASSUME NEW m \in Periods(R) \ (R.fresh \cup fresh \cup R.missed)
               PROVE  ToRead(R2, m) \/ Has(rows \cup before, m)
    BY <1>1 DEF Whole, Periods
  <2>1. ToRead(R, m) \/ Has(R.rows \cup R.before, m)
    BY DEF GoodReport, Whole
  <2>2. ToRead(R, m) => Covers(R, Head(R.todo), m) \/ ToRead(R2, m)
    BY <1>1, <1>3 DEF ToRead, Covers, LeavesAfter
  <2>3. Has(R.rows \cup R.before, m) => Has(rows \cup before, m)
    BY DEF Has
  <2> QED
    BY <2>1, <2>2, <2>3 DEF R2
<1> QED
  BY <1>4, <1>5, <1>6, <1>7, <1>8, <1>9, <1>10 DEF GoodReport, R2

(* What a report reads of a month: its entries, and each one it should.    *)
ReadAs(kind, clock, m) == IF m = clock THEN Live(m) ELSE Finalized(kind, m)

LEMMA PeriodRead ==
    ASSUME MatchInv, NEW m \in Months, NEW clock,
           NEW kind \in {"financial", "cashflow", "operation", "profit_loss"},
           m = clock \/ Closed(m),
           NEW P, P = ReadAs(kind, clock, m)
    PROVE  /\ P \in SUBSET Entry
           /\ \A e \in P :
                  /\ e.month = m
                  /\ \/ m = clock
                     \/ Closed(m) /\ e \in snapshot[m].total \cup snapshot[m].entries
           /\ \A e \in Entry :
                  /\ e.month = m /\ Says(e) /\ e \notin raced
                  /\ ~(Closed(m) /\ (e \in live \/ m = clock))
                  => e \in P
           /\ m # clock => Has(P, m)
<1>0. TypeOK
  BY DEF MatchInv, IInv
<1>1. CASE m = clock
  <2>1. P = {e \in live : e.month = m}
    BY <1>1 DEF ReadAs, Live
  <2> QED
    BY <1>0, <1>1, <2>1, WhereItIs DEF TypeOK
<1>2. CASE m # clock
  <2>1. Closed(m) /\ (P = snapshot[m].total \/ P = snapshot[m].entries)
    BY <1>2 DEF ReadAs, Finalized, FinalizedFinancialReport, FinalizedMonthlyCashflow,
                FinalizedProfitLossPeriod, FinalizedOperationReport
  <2>2. snapshot[m].total \ raced = snapshot[m].entries \ raced
    BY <2>1 DEF MatchInv, LedgerGood, SnapshotAddsUp, Closed
  <2>3. Has(P, m)
    BY <2>1, <2>2 DEF Has
  <2> QED
    BY <1>0, <1>2, <2>1, <2>3, SnapshotParts, WhereItIs
<1> QED
  BY <1>1, <1>2

(* Which kinds a statement belongs to, and what is still unread.           *)
LEMMA AtStatement ==
    ASSUME NEW R, GoodReport(R), R.todo # <<>>
    PROVE  /\ R \in Report /\ LeavesAfter(R.kind, R.todo, Head(R.todo), Tail(R.todo))
           /\ Left(R.todo, Head(R.todo))
           /\ \A s : Left(Tail(R.todo), s) => Left(R.todo, s)
<1>1. R \in Report /\ R.kind \in DOMAIN Statements /\ R.todo \in Todos(R.kind)
  BY ReportParts DEF GoodReport
<1>2. LeavesAfter(R.kind, R.todo, Head(R.todo), Tail(R.todo))
  BY <1>1, NextStatement
<1> QED
  BY <1>1, <1>2 DEF LeavesAfter

LEMMA PeriodGood ==
    ASSUME MatchInv, NEW R, GoodReport(R), R.todo # <<>>, Head(R.todo) = "period",
           R.month = R.clock \/ Closed(R.month),
           NEW P, P = ReadAs(R.kind, R.clock, R.month)
    PROVE  GoodReport(After(R, P, R.before, {R.month} \cap {R.clock}))
<1> DEFINE m == R.month
           F == {m} \cap {R.clock}
           R2 == After(R, P, R.before, F)
<1>1. /\ R \in Report /\ LeavesAfter(R.kind, R.todo, "period", Tail(R.todo))
      /\ Left(R.todo, "period") /\ \A s : Left(Tail(R.todo), s) => Left(R.todo, s)
  BY AtStatement
<1>2. R.kind \in {"financial", "cashflow", "operation", "profit_loss"} /\ m \in Months
  BY <1>1, ReportParts, Kinds DEF LeavesAfter
<1>3. ~Left(Tail(R.todo), "period") /\ ~Left(Tail(R.todo), "live")
  BY <1>1, <1>2 DEF LeavesAfter
<1>4. /\ P \in SUBSET Entry
      /\ \A e \in P : /\ e.month = m
                      /\ \/ m = R.clock
                         \/ Closed(m) /\ e \in snapshot[m].total \cup snapshot[m].entries
      /\ \A e \in Entry :
             /\ e.month = m /\ Says(e) /\ e \notin raced
             /\ ~(Closed(m) /\ (e \in live \/ m = R.clock))
             => e \in P
      /\ m # R.clock => Has(P, m)
  BY <1>2, PeriodRead
<1>5. /\ R2.rows = P /\ R2.before = R.before /\ R2.todo = Tail(R.todo)
      /\ R2.fresh = R.fresh \cup F
  BY DEF After
<1>6. R.rows = {} /\ Unread(R2)
  BY <1>1, <1>3, <1>5 DEF GoodReport, Unread
<1>7. R.before \in SUBSET Entry /\ F \in SUBSET Months /\ R.due \in SUBSET Entry
  BY <1>1, <1>2, ReportParts
<1>8. \A e \in R.before : e.month # R.month \/ Left(Tail(R.todo), "live")
  BY <1>1, <1>2 DEF GoodReport, Apart, LeavesAfter
<1>9. \A e \in P \cup R.before :
          \/ e \in R.rows \cup R.before \/ e.month \in F
          \/ Closed(e.month) /\ e \in snapshot[e.month].total \cup snapshot[e.month].entries
  BY <1>4
<1>10. ASSUME NEW e \in R.due, Says(e), ~Excused(R2, e),
              e \in R.rows \cup R.before \/ Covers(R, "period", e.month)
       PROVE  e \in P \cup R.before
  <2>1. e \in R.before \/ e.month = m
    BY <1>6, <1>10 DEF Covers
  <2>2. e.month = m => e \notin raced /\ ~(Closed(m) /\ (e \in live \/ m = R.clock))
    BY <1>5, <1>10 DEF Excused
  <2> QED
    BY <1>4, <1>7, <1>10, <2>1, <2>2
<1>11. ASSUME NEW x \in Periods(R) \ (R.fresh \cup F \cup R.missed), Covers(R, "period", x)
       PROVE  Has(P \cup R.before, x)
  <2>1. x = m /\ Has(P, m)
    BY <1>4, <1>11 DEF Covers
  <2> QED
    BY <2>1 DEF Has
<1> HIDE DEF m, F, R2
<1> QED
  BY <1>4, <1>6, <1>7, <1>8, <1>9, <1>10, <1>11, StoreGood DEF m, F, R2

LEMMA OpeningGood ==
    ASSUME MatchInv, NEW R, GoodReport(R), R.todo # <<>>, Head(R.todo) = "opening"
    PROVE  GoodReport(After(R, R.rows, Opening(R.month), {}))
<1> DEFINE B == Opening(R.month)
           R2 == After(R, R.rows, B, {})
<1>0. TypeOK
  BY DEF MatchInv, IInv
<1>1. /\ R \in Report /\ LeavesAfter(R.kind, R.todo, "opening", Tail(R.todo))
      /\ Left(R.todo, "opening") /\ \A s : Left(Tail(R.todo), s) => Left(R.todo, s)
  BY AtStatement
<1>2. /\ R.kind \in {"cashflow", "operation"}
      /\ ~Left(Tail(R.todo), "opening") /\ ~Left(Tail(R.todo), "previous")
      /\ ~Left(Tail(R.todo), "finalized") /\ ~Left(Tail(R.todo), "live")
  BY <1>1 DEF LeavesAfter
<1>3. /\ R.rows \in SUBSET Entry /\ R.due \in SUBSET Entry
      /\ R.month \in Months /\ R.month \in Nat
  BY <1>1, ReportParts
<1>4. \A e : e \in B <=> \E n \in Months : n < R.month /\ Closed(n) /\ e \in snapshot[n].total
  BY DEF Opening, SumOf
<1>5. B \in SUBSET Entry
  BY <1>0, <1>4, SnapshotParts
<1>6. \A e \in B : /\ e.month # R.month /\ Closed(e.month)
                   /\ e \in snapshot[e.month].total
  BY <1>0, <1>3, <1>4, SnapshotParts, MonthsAssumption
<1>7. /\ R2.rows = R.rows /\ R2.before = B /\ R2.todo = Tail(R.todo)
      /\ R2.fresh = R.fresh
  BY DEF After
<1>8. R.before = {} /\ Unread(R2)
  BY <1>1, <1>2, <1>7 DEF GoodReport, Unread
<1>9. ASSUME NEW e \in R.due, Says(e), ~Excused(R2, e),
             e \in R.rows \cup R.before \/ Covers(R, "opening", e.month)
      PROVE  e \in R.rows \cup B
  <2>1. CASE e \in R.rows
    BY <2>1
  <2>2. CASE e.month < R.month
    <3>1. Closed(e.month)
      BY <1>2, <1>3, <1>9, <2>2, MonthsAssumption DEF GoodReport, Due
    <3>2. e \in Entry /\ e \notin raced /\ e \notin live
      BY <1>3, <1>9, <3>1 DEF Excused
    <3>3. e \in snapshot[e.month].total
      BY <1>9, <3>2, WhereItIs
    <3>4. e.month \in Months
      BY <3>2 DEF Entry
    <3> QED
      BY <1>4, <2>2, <3>1, <3>3, <3>4
  <2> QED
    BY <1>8, <1>9, <2>1, <2>2 DEF Covers
<1>10. \A e \in R.rows : e.month = R.month
  BY DEF GoodReport, Apart
<1>11. \A x \in Periods(R) : ~Covers(R, "opening", x)
  BY <1>2, <1>3 DEF Periods, Covers
<1> HIDE DEF B, R2
<1> QED
  BY <1>3, <1>5, <1>6, <1>8, <1>9, <1>10, <1>11, StoreGood DEF B, R2

LEMMA PreviousGood ==
    ASSUME MatchInv, NEW R, GoodReport(R), R.todo # <<>>, Head(R.todo) = "previous",
           NEW m \in Months, m = R.month - 1, m = R.clock \/ Closed(m),
           NEW P, P = ReadAs(R.kind, R.clock, m)
    PROVE  GoodReport(After(R, R.rows, P, {m} \cap {R.clock}))
<1> DEFINE F == {m} \cap {R.clock}
           R2 == After(R, R.rows, P, F)
<1>1. /\ R \in Report /\ LeavesAfter(R.kind, R.todo, "previous", Tail(R.todo))
      /\ Left(R.todo, "previous")
  BY AtStatement
<1>2. R.kind = "profit_loss" /\ Tail(R.todo) = <<>> /\ \A s : ~Left(Tail(R.todo), s)
  <2>1. Tail(R.todo) = <<>>
    BY <1>1 DEF LeavesAfter
  <2> QED
    BY <1>1, <2>1, LeftOfRest DEF LeavesAfter
<1>3. /\ P \in SUBSET Entry
      /\ \A e \in P : /\ e.month = m
                      /\ \/ m = R.clock
                         \/ Closed(m) /\ e \in snapshot[m].total \cup snapshot[m].entries
      /\ \A e \in Entry :
             /\ e.month = m /\ Says(e) /\ e \notin raced
             /\ ~(Closed(m) /\ (e \in live \/ m = R.clock))
             => e \in P
      /\ m # R.clock => Has(P, m)
  BY <1>2, PeriodRead
<1>4. /\ R2.rows = R.rows /\ R2.before = P /\ R2.todo = Tail(R.todo)
      /\ R2.fresh = R.fresh \cup F
  BY DEF After
<1>5. R.before = {} /\ Unread(R2)
  BY <1>1, <1>2, <1>4 DEF GoodReport, Unread
<1>6. /\ R.rows \in SUBSET Entry /\ F \in SUBSET Months /\ R.due \in SUBSET Entry
      /\ R.month \in Nat
  BY <1>1, ReportParts
<1>7. /\ \A e \in R.rows : e.month = R.month
      /\ \A e \in P : e.month # R.month
  BY <1>3, <1>6, MonthsAssumption DEF GoodReport, Apart
<1>8. \A e \in R.rows \cup P :
          \/ e \in R.rows \cup R.before \/ e.month \in F
          \/ Closed(e.month) /\ e \in snapshot[e.month].total \cup snapshot[e.month].entries
  BY <1>3
<1>9. ASSUME NEW e \in R.due, Says(e), ~Excused(R2, e),
             e \in R.rows \cup R.before \/ Covers(R, "previous", e.month)
      PROVE  e \in R.rows \cup P
  <2>1. e \in R.rows \/ e.month = m
    BY <1>5, <1>9 DEF Covers
  <2>2. e.month = m => e \notin raced /\ ~(Closed(m) /\ (e \in live \/ m = R.clock))
    BY <1>4, <1>9 DEF Excused
  <2> QED
    BY <1>3, <1>6, <1>9, <2>1, <2>2
<1>10. ASSUME NEW x \in Periods(R) \ (R.fresh \cup F \cup R.missed), Covers(R, "previous", x)
       PROVE  Has(R.rows \cup P, x)
  <2>1. x = m /\ Has(P, m)
    BY <1>3, <1>10 DEF Covers
  <2> QED
    BY <2>1 DEF Has
<1>11. R.rows \cup R.before \subseteq R.rows \cup P
  BY <1>5
<1> HIDE DEF F, R2
<1>12. Unread(R2)
  BY <1>5
<1>13. \A x \in Periods(R) \ (R.fresh \cup F \cup R.missed) :
           /\ R.rows \cup R.before \subseteq R.rows \cup P
           /\ Covers(R, Head(R.todo), x) => ToRead(R2, x) \/ Has(R.rows \cup P, x)
  BY <1>10, <1>11
<1>14. \A e \in R.due :
           Says(e) /\ ~Excused(R2, e)
           /\ (e \in R.rows \cup R.before \/ Covers(R, Head(R.todo), e.month))
           => e \in R.rows \cup P \/ ToRead(R2, e.month)
  BY <1>9
<1> QED
  BY <1>3, <1>6, <1>7, <1>8, <1>12, <1>13, <1>14, StoreGood DEF F, R2

(* The header is found.  A month that had a snapshot when its entries were *)
(* looked for has none.                                                    *)
LEMMA HeaderGood ==
    ASSUME MatchInv, NEW R, GoodReport(R), R.seek, Closed(SoughtMonth(R))
    PROVE  R.todo # <<>> /\ GoodReport(After(R, R.rows, R.before, {}))
<1> DEFINE h == Head(R.todo)
           m == SoughtMonth(R)
           R2 == After(R, R.rows, R.before, {})
<1>1. /\ R.kind = "profit_loss" /\ R.todo # <<>> /\ h \in {"period", "previous"} /\ m \in Months
      /\ m \notin R.missed => snapshot[m].entries = {}
  BY DEF GoodReport, Sought
<1>2. /\ R \in Report /\ LeavesAfter(R.kind, R.todo, h, Tail(R.todo))
      /\ Left(R.todo, h) /\ \A s : Left(Tail(R.todo), s) => Left(R.todo, s)
  BY <1>1, AtStatement
<1>3. /\ R.rows \in SUBSET Entry /\ R.before \in SUBSET Entry /\ R.due \in SUBSET Entry
  BY <1>2, ReportParts
<1>4. /\ R2.rows = R.rows /\ R2.before = R.before /\ R2.todo = Tail(R.todo)
      /\ R2.fresh = R.fresh /\ R2.missed = R.missed
  BY DEF After
<1>5. Unread(R2)
  BY <1>2, <1>4 DEF GoodReport, Unread
<1>6. \A n : Covers(R, h, n) => n = m
  BY <1>1 DEF Covers, SoughtMonth
<1>7. ~Left(R.todo, "live")
  BY <1>1, <1>2 DEF LeavesAfter
<1>8. /\ \A e \in R.rows : e.month = R.month
      /\ \A e \in R.before : e.month # R.month \/ Left(Tail(R.todo), "live")
  BY <1>7 DEF GoodReport, Apart
<1>9. ASSUME NEW e \in R.due, Says(e), ~Excused(R2, e),
             e \in R.rows \cup R.before \/ Covers(R, h, e.month)
      PROVE  e \in R.rows \cup R.before
  <2>1. ASSUME e.month = m
        PROVE  FALSE
    <3>1. e \in Entry /\ e \notin raced /\ e \notin live /\ m \notin R.missed
      BY <1>3, <1>4, <1>9, <2>1 DEF Excused
    <3>2. e \in snapshot[m].entries
      BY <1>9, <2>1, <3>1, WhereItIs
    <3> QED
      BY <1>1, <3>1, <3>2
  <2> QED
    BY <1>6, <1>9, <2>1
<1>10. ASSUME NEW x \in Periods(R) \ (R.fresh \cup {} \cup R.missed), Covers(R, h, x)
       PROVE  Has(R.rows \cup R.before, x)
  <2>1. x = m /\ x \notin R.missed
    BY <1>6, <1>10
  <2> QED
    BY <1>1, <2>1 DEF Has
<1> HIDE DEF h, m, R2
<1> QED
  BY <1>1, <1>3, <1>5, <1>8, <1>9, <1>10, StoreGood DEF h, R2

(* No entries are found: the month is missed, or has an empty snapshot.    *)
LEMMA SeekGood ==
    ASSUME NEW R, GoodReport(R), R.todo # <<>>, Head(R.todo) \in {"period", "previous"},
           R.kind = "profit_loss", NEW m \in Months, m = SoughtMonth(R),
           Closed(m) => snapshot[m].entries = {},
           NEW R2, R2 = [R EXCEPT !.seek = TRUE, !.missed = IF Closed(m) THEN @ ELSE @ \cup {m}]
    PROVE  GoodReport(R2)
<1>1. R \in Report
  BY DEF GoodReport
<1>2. /\ R2 \in Report /\ R2.kind = R.kind /\ R2.month = R.month /\ R2.clock = R.clock
      /\ R2.todo = R.todo /\ R2.rows = R.rows /\ R2.before = R.before
      /\ R2.fresh = R.fresh /\ R2.due = R.due
      /\ R2.missed = IF Closed(m) THEN R.missed ELSE R.missed \cup {m}
  BY <1>1 DEF Report
<1>3. Unread(R2) /\ Apart(R2) /\ Due(R2) /\ Sourced(R2)
  BY <1>2 DEF GoodReport, Unread, Apart, Due, Sourced
<1>4. \A n : ToRead(R2, n) <=> ToRead(R, n)
  BY <1>2 DEF ToRead, Covers
<1>5. Covered(R2)
  BY <1>2, <1>4 DEF GoodReport, Covered, Excused
<1>6. Whole(R2)
  <2>1. R.missed \subseteq R2.missed /\ Periods(R2) = Periods(R)
    BY <1>2 DEF Periods
  <2> QED
    BY <1>2, <1>4, <2>1 DEF GoodReport, Whole
<1>7. SoughtMonth(R2) = m
  BY <1>2 DEF SoughtMonth
<1>8. Sought(R2)
  BY <1>2, <1>7 DEF Sought
<1> QED
  BY <1>2, <1>3, <1>5, <1>6, <1>8 DEF GoodReport

LEMMA FinalizedGood ==
    ASSUME MatchInv, NEW R, GoodReport(R), R.todo # <<>>, Head(R.todo) = "finalized"
    PROVE  GoodReport(After(R, {}, SumOf({n \in Months : Closed(n)}), {}))
<1> DEFINE B == SumOf({n \in Months : Closed(n)})
           R2 == After(R, {}, B, {})
<1>0. TypeOK
  BY DEF MatchInv, IInv
<1>1. /\ R \in Report /\ LeavesAfter(R.kind, R.todo, "finalized", Tail(R.todo))
      /\ Left(R.todo, "finalized")
  BY AtStatement
<1>2. R.kind = "summaries" /\ Tail(R.todo) = <<"live">>
  BY <1>1 DEF LeavesAfter
<1>3. \A s : Left(Tail(R.todo), s) <=> s = "live"
  BY <1>2, LeftOfRest
<1>4. \A e : e \in B <=> \E n \in Months : Closed(n) /\ e \in snapshot[n].total
  BY DEF SumOf
<1>5. R.due \in SUBSET Entry
  BY <1>1, ReportParts
<1>6. /\ B \in SUBSET Entry
      /\ \A e \in B : Closed(e.month) /\ e \in snapshot[e.month].total
  <2>1. ASSUME NEW e \in B
        PROVE  e \in Entry /\ Closed(e.month) /\ e \in snapshot[e.month].total
    <3>1. PICK n \in Months : Closed(n) /\ e \in snapshot[n].total
      BY <1>4
    <3> QED
      BY <1>0, <3>1, SnapshotParts
  <2> QED
    BY <2>1
<1>7. /\ R2.rows = {} /\ R2.before = B /\ R2.todo = Tail(R.todo) /\ R2.fresh = R.fresh
      /\ R2.clock = R.clock
  BY DEF After
<1>8. Left(R.todo, "live")
  BY <1>1, <1>3 DEF LeavesAfter
<1>9. R.before = {} /\ R.rows = {} /\ Unread(R2)
  BY <1>1, <1>3, <1>7, <1>8 DEF GoodReport, Unread
<1>10. ASSUME NEW e \in R.due, Says(e), ~Excused(R2, e)
       PROVE  e \in B \/ ToRead(R2, e.month)
  <2>1. e.month = R.month \/ Closed(e.month)
    BY <1>2 DEF GoodReport, Due
  <2>2. e.month = R.month => ToRead(R2, e.month)
    BY <1>2, <1>3, <1>7 DEF GoodReport, Apart, ToRead, Covers
  <2>3. ASSUME Closed(e.month)
        PROVE  e \in B
    <3>1. e \in Entry /\ e \notin raced /\ e \notin live
      BY <1>5, <1>10, <2>3 DEF Excused
    <3>2. e \in snapshot[e.month].total /\ e.month \in Months
      BY <1>10, <3>1, WhereItIs DEF Entry
    <3> QED
      BY <1>4, <2>3, <3>2
  <2> QED
    BY <2>1, <2>2, <2>3
<1>11. \A x \in Periods(R) : ToRead(R2, x)
  <2>1. \A x \in Periods(R) : x = R.clock
    BY <1>2 DEF Periods, GoodReport, Apart
  <2> QED
    BY <1>3, <1>7, <2>1 DEF ToRead, Covers
<1> HIDE DEF B, R2
<1> QED
  BY <1>3, <1>5, <1>6, <1>9, <1>10, <1>11, StoreGood DEF B, R2

LEMMA LiveGood ==
    ASSUME MatchInv, NEW R, GoodReport(R), R.todo # <<>>, Head(R.todo) = "live"
    PROVE  GoodReport(After(R, Live(R.clock), {e \in R.before : e.month # R.clock}, {R.clock}))
<1> DEFINE L == Live(R.clock)
           B == {e \in R.before : e.month # R.clock}
           R2 == After(R, L, B, {R.clock})
<1>0. TypeOK
  BY DEF MatchInv, IInv
<1>1. /\ R \in Report /\ LeavesAfter(R.kind, R.todo, "live", Tail(R.todo))
      /\ Left(R.todo, "live")
  BY AtStatement
<1>2. R.kind = "summaries" /\ Tail(R.todo) = <<>> /\ \A s : ~Left(Tail(R.todo), s)
  <2>1. Tail(R.todo) = <<>>
    BY <1>1 DEF LeavesAfter
  <2> QED
    BY <1>1, <2>1, LeftOfRest DEF LeavesAfter
<1>3. /\ R.before \in SUBSET Entry /\ R.due \in SUBSET Entry /\ R.clock \in Months
      /\ R.clock = R.month
  BY <1>1, <1>2, ReportParts DEF GoodReport, Apart
<1>4. L \in SUBSET Entry /\ B \in SUBSET Entry
  BY <1>0, <1>3 DEF Live, TypeOK
<1>5. /\ R2.rows = L /\ R2.before = B /\ R2.todo = Tail(R.todo)
      /\ R2.fresh = R.fresh \cup {R.clock}
  BY DEF After
<1>6. R.rows = {} /\ Unread(R2)
  BY <1>1, <1>2, <1>5 DEF GoodReport, Unread
<1>7. /\ \A e \in L : e.month = R.month
      /\ \A e \in B : e.month # R.month
  BY <1>3 DEF Live
<1>8. \A e \in L \cup B :
          \/ e \in R.rows \cup R.before \/ e.month \in {R.clock}
          \/ Closed(e.month) /\ e \in snapshot[e.month].total \cup snapshot[e.month].entries
  BY DEF Live
<1>9. ASSUME NEW e \in R.due, Says(e), ~Excused(R2, e),
             e \in R.rows \cup R.before \/ Covers(R, "live", e.month)
      PROVE  e \in L \cup B
  <2>1. CASE e.month = R.clock
    <3>1. e \in Entry /\ e \notin raced /\ ~Closed(e.month)
      BY <1>3, <1>5, <1>9, <2>1 DEF Excused
    <3>2. e \in live
      BY <1>9, <3>1, WhereItIs
    <3> QED
      BY <2>1, <3>2 DEF Live
  <2>2. CASE e.month # R.clock
    BY <1>6, <1>9, <2>2 DEF Covers
  <2> QED
    BY <2>1, <2>2
<1>10. {R.clock} \in SUBSET Months
  BY <1>3
<1>11. \A x \in Periods(R) : x \in {R.clock}
  BY <1>2, <1>3 DEF Periods
<1> HIDE DEF L, B, R2
<1> QED
  BY <1>4, <1>6, <1>7, <1>8, <1>9, <1>10, <1>11, StoreGood DEF L, B, R2

(* The clock is asked again: no live statement follows that depends on it. *)
LEMMA ClockGood ==
    ASSUME NEW R, GoodReport(R), R.todo # <<>>, Head(R.todo) = "clock", now \in Months
    PROVE  GoodReport([R EXCEPT !.clock = now, !.todo = Tail(@)])
<1> DEFINE R2 == [R EXCEPT !.clock = now, !.todo = Tail(@)]
<1>1. /\ R \in Report /\ LeavesAfter(R.kind, R.todo, "clock", Tail(R.todo))
      /\ \A s : Left(Tail(R.todo), s) => Left(R.todo, s)
  BY AtStatement
<1>2. R.kind = "profit_loss" /\ Tail(R.todo) = <<"previous">>
  BY <1>1 DEF LeavesAfter
<1>3. \A s : Left(Tail(R.todo), s) <=> s = "previous"
  BY <1>2, LeftOfRest
<1>4. /\ R2.kind = R.kind /\ R2.month = R.month /\ R2.clock = now
      /\ R2.todo = Tail(R.todo) /\ R2.rows = R.rows /\ R2.before = R.before
      /\ R2.fresh = R.fresh /\ R2.due = R.due /\ R2.seek = R.seek /\ R2.missed = R.missed
  BY <1>1 DEF Report
<1>5. R2 \in Report /\ R2.todo \in Todos(R2.kind)
  <2>1. Tail(R.todo) \in Todos(R.kind) /\ R.kind \in DOMAIN Statements
    BY <1>1, ReportParts DEF LeavesAfter
  <2>2. Tail(R.todo) \in Suffixes
    BY <2>1, TodosAreSuffixes
  <2>3. R2 \in Report
    BY <1>1, <2>2 DEF Report
  <2> QED
    BY <1>4, <2>1, <2>3
<1> HIDE DEF R2
<1>6. Unread(R2)
  BY <1>1, <1>4 DEF GoodReport, Unread
<1>7. Apart(R2)
  <2>1. ~Left(R.todo, "live")
    BY <1>1, <1>2, <1>3 DEF LeavesAfter
  <2> QED
    BY <1>2, <1>4, <2>1 DEF GoodReport, Apart
<1>8. Due(R2) /\ Sourced(R2)
  BY <1>4 DEF GoodReport, Due, Sourced
<1>9. Covered(R2)
  <2>1. \A n : ToRead(R, n) => ToRead(R2, n)
    BY <1>1, <1>3, <1>4 DEF ToRead, Covers, LeavesAfter
  <2> QED
    BY <1>4, <2>1 DEF GoodReport, Covered, Excused
<1>10. Sought(R2)
  BY <1>4 DEF GoodReport, Sought
<1>11. Whole(R2)
  <2>1. \A n : ToRead(R, n) => ToRead(R2, n)
    BY <1>1, <1>3, <1>4 DEF ToRead, Covers, LeavesAfter
  <2> QED
    BY <1>4, <2>1 DEF GoodReport, Whole, Periods
<1> QED
  BY <1>5, <1>6, <1>7, <1>8, <1>9, <1>10, <1>11 DEF GoodReport, R2

(* A new request: what it should show is what its statements cover.        *)
LEMMA RequestGood ==
    ASSUME MatchInv, now \in Months,
           NEW kind \in DOMAIN Statements, NEW m \in Months, kind = "summaries" => m = now,
           NEW R, R = [kind |-> kind, month |-> m, clock |-> now, todo |-> Statements[kind],
                       rows |-> {}, before |-> {}, fresh |-> {}, seek |-> FALSE, missed |-> {},
                       due |-> {e \in Archived \cup live : e.month \in Shown(kind, m)}]
    PROVE  GoodReport(R)
<1>0. TypeOK /\ KnownInv
  BY DEF MatchInv, IInv
<1>1. /\ R.kind = kind /\ R.month = m /\ R.clock = now /\ R.todo = Statements[kind]
      /\ R.rows = {} /\ R.before = {} /\ R.fresh = {} /\ R.seek = FALSE /\ R.missed = {}
      /\ R.due = {e \in Archived \cup live : e.month \in Shown(kind, m)}
  OBVIOUS
<1>2. R.due \in SUBSET Entry /\ \A e \in R.due : Known(e)
  <2>1. \A e \in Archived : e \in Entry /\ Known(e)
    BY <1>0, ArchivedFiled DEF KnownInv, Archived
  <2>2. \A e \in live : e \in Entry /\ Known(e)
    BY <1>0 DEF KnownInv, TypeOK
  <2> QED
    BY <1>1, <2>1, <2>2
<1>3. Statements[kind] \in Todos(kind)
  BY DEF Statements, Todos
<1>4. R \in Report
  BY <1>2, <1>3, TodosAreSuffixes DEF Report
<1>5. \A e \in R.due : e.month \in Shown(kind, m) /\ e.month \in Months
  BY <1>1, <1>2 DEF Entry
<1>6. Unread(R) /\ Apart(R) /\ Sourced(R)
  BY <1>1 DEF Unread, Apart, Sourced
<1>7. ASSUME NEW e \in R.due
      PROVE  /\ \/ e.month = m
                \/ kind = "profit_loss" /\ e.month = m - 1
                \/ kind = "summaries" /\ Closed(e.month)
                \/ kind \in {"cashflow", "operation"} /\ e.month < m /\ Closed(e.month)
             /\ ToRead(R, e.month)
  <2>1. CASE kind = "summaries"
    <3>1. e.month = m \/ Closed(e.month)
      BY <1>5, <2>1 DEF Shown
    <3>2. Left(R.todo, "finalized")
      BY <1>1, <2>1, EachKind, LeftOf
    <3> QED
      BY <2>1, <3>1, <3>2 DEF ToRead, Covers
  <2>2. CASE kind = "financial"
    <3>1. e.month = m
      BY <1>5, <2>2 DEF Shown
    <3>2. Left(R.todo, "period")
      BY <1>1, <2>2, EachKind, LeftOf
    <3> QED
      BY <1>1, <3>1, <3>2 DEF ToRead, Covers
  <2>3. CASE kind = "profit_loss"
    <3>1. e.month = m \/ e.month = m - 1
      BY <1>5, <2>3 DEF Shown
    <3>2. Left(R.todo, "period") /\ Left(R.todo, "previous")
      BY <1>1, <2>3, EachKind, LeftOf
    <3> QED
      BY <1>1, <2>3, <3>1, <3>2 DEF ToRead, Covers
  <2>4. CASE kind \in {"cashflow", "operation"}
    <3>1. e.month = m \/ (e.month < m /\ Closed(e.month))
      BY <1>5, <2>4 DEF Shown
    <3>2. Left(R.todo, "period") /\ Left(R.todo, "opening")
      <4>1. R.todo = <<"period", "opening">> \/ R.todo = <<"opening", "period">>
        BY <1>1, <2>4, EachKind
      <4> QED
        BY <4>1, LeftOf
    <3> QED
      BY <1>1, <2>4, <3>1, <3>2 DEF ToRead, Covers
  <2> QED
    BY <2>1, <2>2, <2>3, <2>4, Kinds
<1>8. Due(R) /\ Covered(R)
  BY <1>1, <1>2, <1>7 DEF Due, Covered
<1>9. ASSUME NEW x \in Periods(R)
      PROVE  ToRead(R, x)
  <2>1. CASE kind = "summaries"
    <3>1. Left(R.todo, "finalized")
      BY <1>1, <2>1, EachKind, LeftOf
    <3> QED
      BY <3>1 DEF ToRead, Covers
  <2>2. CASE kind # "summaries"
    <3>1. /\ Left(R.todo, "period")
          /\ kind = "profit_loss" => Left(R.todo, "previous")
      <4>1. \/ R.todo = <<"period">> \/ R.todo = <<"period", "opening">>
            \/ R.todo = <<"opening", "period">>
            \/ R.todo = <<"period", "clock", "previous">>
        BY <1>1, <2>2, EachKind, Kinds
      <4>2. Left(R.todo, "period")
        BY <4>1, LeftOf
      <4>3. kind = "profit_loss" => Left(R.todo, "previous")
        BY <1>1, EachKind, LeftOf
      <4> QED
        BY <4>2, <4>3
    <3>2. x = R.month \/ (kind = "profit_loss" /\ x = R.month - 1)
      BY <1>1, <1>9 DEF Periods
    <3> QED
      BY <3>1, <3>2 DEF ToRead, Covers
  <2> QED
    BY <2>1, <2>2
<1>10. Sought(R) /\ Whole(R)
  BY <1>1, <1>9 DEF Sought, Whole
<1> QED
  BY <1>1, <1>3, <1>4, <1>6, <1>8, <1>10 DEF GoodReport

(* The steps that change the ledger.                                       *)
LEMMA LedgerChanges ==
    ASSUME [Next]_vars
    PROVE  \/ \E p \in Postings, m \in Months : InsertAccountingEntry(p, m)
           \/ \E q \in Reqs : SyncExpenseEntry(q) \/ DeleteEntries(q)
           \/ UNCHANGED <<journal, posting, live, snapshot, raced>>
BY DEF Next, vars, JournalNext, CreateJournal, UpdateJournal, DeleteJournal, Begin,
       CloseNext, InsertSnapshot, CopyEntries, Rollback

(* An entry that is known stays so.  It is not what its source says next   *)
(* unless it is now, because every change of a source makes a new one; and *)
(* while it is, it is not taken from a closed month.                       *)
Kept(e) ==
    /\ Known(e)' /\ (Says(e)' => Says(e))
    /\ e \in raced => e \in raced'
    /\ e \in live /\ Closed(e.month) /\ Says(e)' => e \in live'

LEMMA KeptPosting ==
    ASSUME IInv, TypeOK', NEW p \in Postings, NEW m \in Months, InsertAccountingEntry(p, m),
           NEW e \in Entry, Known(e)
    PROVE  Kept(e)
<1>1. /\ posting[p] = None /\ posting' = [posting EXCEPT ![p] = m] /\ UNCHANGED journal
      /\ live \subseteq live' /\ raced \subseteq raced' /\ m # None
  BY NoneAssumption DEF InsertAccountingEntry
<1>2. e.source # p
  BY <1>1 DEF Known
<1>3. e.source \in Postings => posting'[e.source] = posting[e.source]
  BY <1>1, <1>2 DEF IInv, TypeOK
<1>4. Known(e)'
  BY <1>1, <1>3 DEF Known
<1>5. Says(e)' => Says(e)
  BY <1>1, <1>3 DEF Says, EntryOf
<1> QED
  BY <1>1, <1>4, <1>5 DEF Kept

LEMMA KeptSync ==
    ASSUME IInv, TypeOK', NEW q \in Reqs, SyncExpenseEntry(q), NEW e \in Entry, Known(e)
    PROVE  Kept(e)
<1> DEFINE j == txn[q].journal
           row == txn[q].row
<1>0. TypeOK
  BY DEF IInv
<1>1. j \in Journals /\ row \in Journal /\ Open(q, "journal")
  BY <1>0, OpenType DEF SyncExpenseEntry, Command
<1>2. Follows(journal[j], row)
  BY <1>1 DEF IInv, RowFresh
<1>3. /\ journal' = [journal EXCEPT ![j] = row]
      /\ live' = {x \in live : x.source # j} \cup EntryOf(j, row)
      /\ raced \subseteq raced' /\ UNCHANGED posting
  BY DEF SyncExpenseEntry
<1>4. journal[j] \in Journal \cup {None}
  BY <1>0, <1>1 DEF TypeOK
<1> HIDE DEF j, row
<1>5. journal'[j] = row /\ \A x \in Journals \ {j} : journal'[x] = journal[x]
  BY <1>0, <1>1, <1>3 DEF TypeOK
<1>6. CASE e.source # j
  <2>1. Known(e)'
    BY <1>3, <1>5, <1>6 DEF Known
  <2>2. Says(e)' => Says(e)
    BY <1>3, <1>5, <1>6 DEF Says, EntryOf
  <2> QED
    BY <1>3, <1>6, <2>1, <2>2 DEF Kept
<1>7. CASE e.source = j
  <2>1. journal[j] # None /\ e.rev <= journal[j].rev /\ journal[j] \in Journal
    BY <1>1, <1>4, <1>7 DEF Known
  <2>2. journal[j].rev \in Nat /\ row.rev \in Nat /\ e.rev \in Nat
    BY <1>1, <2>1, RevAssumption DEF Journal, Entry
  <2>3. journal[j].rev <= row.rev
    BY <1>2, <2>1, <2>2 DEF Follows
  <2>4. Known(e)'
    <3>1. row # None
      BY <1>1, NoneAssumption
    <3> QED
      BY <1>1, <1>5, <1>7, <2>1, <2>2, <2>3, <3>1, SourceAssumption DEF Known
  <2>5. e \notin EntryOf(j, row)
    <3>1. ASSUME e \in EntryOf(j, row)
          PROVE  FALSE
      <4>1. e.rev = row.rev /\ ~row.deleted
        BY <1>1, <3>1, EntryOfType
      <4>2. row.rev = journal[j].rev + 1
        BY <1>2, <2>1, <4>1 DEF Follows
      <4> QED
        BY <2>1, <2>2, <4>1, <4>2
    <3> QED
      BY <3>1
  <2>6. ~Says(e)'
    BY <1>1, <1>5, <1>7, <2>5, SourceAssumption DEF Says, EntryOf
  <2> QED
    BY <1>3, <2>4, <2>6 DEF Kept
<1> QED
  BY <1>6, <1>7

LEMMA KeptDelete ==
    ASSUME ClosingInv, NEW q \in Reqs, DeleteEntries(q), NEW e \in Entry, Known(e)
    PROVE  Kept(e)
<1>1. /\ UNCHANGED <<journal, posting>> /\ raced \subseteq raced'
      /\ live' = {x \in live : x.month # txn[q].month}
      /\ snapshot[txn[q].month] = None
  BY DEF DeleteEntries, Cleared, ClosingInv
<1>2. Known(e)' /\ (Says(e)' <=> Says(e))
  BY <1>1 DEF Known, Says, EntryOf
<1> QED
  BY <1>1, <1>2 DEF Kept, Closed

LEMMA KeptStep ==
    ASSUME MatchInv, TypeOK', [Next]_vars, NEW e \in Entry, Known(e)
    PROVE  Kept(e)
<1>1. IInv /\ ClosingInv
  BY DEF MatchInv
<1>2. CASE UNCHANGED <<journal, posting, live, snapshot, raced>>
  BY <1>2 DEF Kept, Known, Says, EntryOf
<1> QED
  BY <1>1, <1>2, LedgerChanges, KeptPosting, KeptSync, KeptDelete

LEMMA RacedGrows == [Next]_vars => raced \subseteq raced'
BY LedgerChanges DEF InsertAccountingEntry, SyncExpenseEntry, DeleteEntries

(* While the ledger moves on, a report stays as good as it was.            *)
LEMMA LedgerGoodReport ==
    ASSUME MatchInv, TypeOK', [Next]_vars, NEW R, GoodReport(R)
    PROVE  GoodReport(R)'
<1>0. TypeOK /\ ClosingInv
  BY DEF MatchInv, IInv
<1>1. \A m \in Months : Closed(m) => Closed(m)' /\ snapshot'[m] = snapshot[m]
  BY <1>0, SnapshotStays DEF Closed
<1>2. /\ R \in Report /\ R.month \in Nat /\ R.due \in SUBSET Entry
      /\ R.rows \in SUBSET Entry /\ R.before \in SUBSET Entry
  BY ReportParts DEF GoodReport
<1>3. \A e \in R.due : e \in Entry /\ e.month \in Months /\ Kept(e)
  <2>1. ASSUME NEW e \in R.due
        PROVE  e \in Entry /\ e.month \in Months /\ Kept(e)
    <3>1. e \in Entry /\ Known(e)
      BY <1>2 DEF GoodReport, Due
    <3> QED
      BY <3>1, KeptStep DEF Entry
  <2> QED
    BY <2>1
<1>4. (R \in Report)' /\ (R.todo \in Todos(R.kind))' /\ Unread(R)' /\ Apart(R)'
  BY DEF GoodReport, Unread, Apart, Left, Todos, Report
<1>5. Due(R)'
  <2>1. ASSUME NEW e \in R.due
        PROVE  (/\ Known(e)
                /\ \/ e.month = R.month
                   \/ R.kind = "profit_loss" /\ e.month = R.month - 1
                   \/ R.kind = "summaries" /\ Closed(e.month)
                   \/ R.kind \in {"cashflow", "operation"} /\ e.month < R.month /\ Closed(e.month))'
    BY <1>1, <1>3 DEF GoodReport, Due, Kept
  <2> QED
    BY <2>1 DEF Due
<1>6. Sourced(R)'
  <2>1. ASSUME NEW e \in R.rows \cup R.before
        PROVE  (\/ e.month \in R.fresh
                \/ Closed(e.month) /\ e \in snapshot[e.month].total \cup snapshot[e.month].entries)'
    <3>1. e.month \in Months
      BY <1>2 DEF Entry
    <3> QED
      BY <1>1, <3>1 DEF GoodReport, Sourced
  <2> QED
    BY <2>1 DEF Sourced
<1>7. Covered(R)'
  <2>1. ASSUME NEW e \in R.due, Says(e)', ~Excused(R, e)'
        PROVE  (e \in R.rows \cup R.before \/ ToRead(R, e.month))'
    <3>1. e.month \in Months /\ Says(e)
      BY <1>3, <2>1 DEF Kept
    <3>2. ~Excused(R, e)
      BY <1>1, <1>3, <2>1, <3>1 DEF Excused, Kept
    <3>3. e \in R.rows \cup R.before \/ ToRead(R, e.month)
      BY <3>1, <3>2 DEF GoodReport, Covered
    <3> QED
      BY <3>3 DEF ToRead, Covers, Left
  <2> QED
    BY <2>1 DEF Covered
<1>8. Sought(R)'
  BY <1>1 DEF GoodReport, Sought, SoughtMonth
<1>9. Whole(R)'
  <2>1. ASSUME NEW m \in Periods(R) \ (R.fresh \cup R.missed)
        PROVE  (ToRead(R, m) \/ Has(R.rows \cup R.before, m))'
    <3>1. ToRead(R, m) \/ Has(R.rows \cup R.before, m)
      BY DEF GoodReport, Whole
    <3>2. ToRead(R, m) => ToRead(R, m)'
      BY DEF ToRead, Covers, Left
    <3>3. Has(R.rows \cup R.before, m) => Has(R.rows \cup R.before, m)'
      BY <1>1, RacedGrows DEF Has
    <3> QED
      BY <3>1, <3>2, <3>3
  <2> QED
    BY <2>1 DEF Whole, Periods
<1> QED
  BY <1>4, <1>5, <1>6, <1>7, <1>8, <1>9 DEF GoodReport

LEMMA StoreIsAfter ==
    ASSUME read \in [Readers -> Report \cup {None}], NEW r \in Readers, read[r] \in Report,
           ~read[r].seek,
           NEW rows \in SUBSET Entry, NEW before \in SUBSET Entry, NEW fresh \in SUBSET Months,
           Tail(read[r].todo) \in Suffixes, Store(r, rows, before, fresh)
    PROVE  read' = [read EXCEPT ![r] = After(read[r], rows, before, fresh)]
<1> DEFINE R == read[r]
           R2 == [R EXCEPT !.rows = rows, !.before = before, !.fresh = @ \cup fresh,
                           !.todo = Tail(@)]
<1>1. read' = [read EXCEPT ![r] = R2]
  BY DEF Store
<1>2. R2 \in Report
  BY DEF Report
<1>3. /\ R2.kind = R.kind /\ R2.month = R.month /\ R2.clock = R.clock
      /\ R2.todo = Tail(R.todo) /\ R2.rows = rows /\ R2.before = before
      /\ R2.fresh = R.fresh \cup fresh /\ R2.due = R.due
      /\ R2.seek = FALSE /\ R2.missed = R.missed
  BY DEF Report
<1> HIDE DEF R2
<1>4. R2 = After(R, rows, before, fresh)
  BY <1>2, <1>3 DEF After, Report
<1> QED
  BY <1>1, <1>4

(* A statement of a report makes it a good one again, or gives it up.      *)
LEMMA ReaderStep ==
    ASSUME MatchInv, ReportInv, NEW r \in Readers, ReadNext(r)
    PROVE  \E R2 \in Report \cup {None} :
               read' = [read EXCEPT ![r] = R2] /\ (R2 # None => GoodReport(R2))
<1> DEFINE Goal == \E R2 \in Report \cup {None} :
                       read' = [read EXCEPT ![r] = R2] /\ (R2 # None => GoodReport(R2))
<1>1. now \in Months /\ read \in [Readers -> Report \cup {None}]
  BY DEF ReportInv
<1>2. ASSUME NEW R2, GoodReport(R2), read' = [read EXCEPT ![r] = R2]
      PROVE  Goal
  BY <1>2 DEF GoodReport
<1>3. ASSUME NotFound(r)
      PROVE  Goal
  BY <1>3 DEF NotFound
<1>4. ASSUME Busy(r)
      PROVE  read[r] \in Report /\ GoodReport(read[r]) /\ read[r].todo # <<>>
  BY <1>4 DEF Busy, ReportInv, GoodReport
<1>5. ASSUME NEW rows, NEW before, NEW fresh, Busy(r), ~read[r].seek,
             Store(r, rows, before, fresh),
             GoodReport(After(read[r], rows, before, fresh))
      PROVE  Goal
  <2> DEFINE R2 == After(read[r], rows, before, fresh)
  <2>1. /\ R2.rows = rows /\ R2.before = before /\ R2.todo = Tail(read[r].todo)
        /\ R2.fresh = read[r].fresh \cup fresh
    BY DEF After
  <2>2. R2 \in Report
    BY <1>5 DEF GoodReport
  <2> HIDE DEF R2
  <2>3. /\ rows \in SUBSET Entry /\ before \in SUBSET Entry /\ fresh \in SUBSET Months
        /\ Tail(read[r].todo) \in Suffixes
    BY <2>1, <2>2, ReportParts
  <2>4. read' = [read EXCEPT ![r] = R2]
    BY <1>1, <1>4, <1>5, <2>3, StoreIsAfter DEF R2
  <2> QED
    BY <1>2, <1>5, <2>4 DEF R2
<1>6. ASSUME NEW m, Busy(r), Head(read[r].todo) \in {"period", "previous"},
              m = SoughtMonth(read[r]), NoRows(r, m), Seek(r, m)
       PROVE  Goal
  <2> DEFINE R2 == [read[r] EXCEPT !.seek = TRUE,
                                   !.missed = IF Closed(m) THEN @ ELSE @ \cup {m}]
  <2>1. /\ m \in Months /\ read[r].kind = "profit_loss"
        /\ Closed(m) => snapshot[m].entries = {}
    BY <1>6 DEF NoRows, FinalizedProfitLossPeriod
  <2>2. GoodReport(R2)
    BY <1>4, <1>6, <2>1, SeekGood
  <2>3. read' = [read EXCEPT ![r] = R2]
    BY <1>1, <1>4, <1>6 DEF Seek, Report
  <2> HIDE DEF R2
  <2> QED
    BY <1>2, <2>2, <2>3
<1>7. ASSUME FindHeader(r)
       PROVE  Goal
  <2> DEFINE R == read[r]
             R2 == After(R, R.rows, R.before, {})
  <2>1. Busy(r) /\ R.seek /\ R \in Report /\ GoodReport(R)
    BY <1>4, <1>7 DEF FindHeader
  <2>2. CASE Closed(SoughtMonth(R))
    <3>1. GoodReport(R2)
      BY <2>1, <2>2, HeaderGood
    <3>2. read' = [read EXCEPT ![r] = [R EXCEPT !.seek = FALSE, !.todo = Tail(@)]]
      BY <1>1, <1>7, <2>1, <2>2 DEF FindHeader, Report
    <3>3. [R EXCEPT !.seek = FALSE, !.todo = Tail(@)] = R2
      <4> DEFINE R3 == [R EXCEPT !.seek = FALSE, !.todo = Tail(@)]
      <4>1. R.fresh \cup {} = R.fresh
        OBVIOUS
      <4>2. /\ R3.kind = R.kind /\ R3.month = R.month /\ R3.clock = R.clock
            /\ R3.todo = Tail(R.todo) /\ R3.rows = R.rows /\ R3.before = R.before
            /\ R3.fresh = R.fresh /\ R3.seek = FALSE /\ R3.missed = R.missed
            /\ R3.due = R.due
        BY <2>1 DEF Report
      <4>3. R3 \in Report
        <5>1. R2.todo = Tail(R.todo)
          BY DEF After
        <5> HIDE DEF R2
        <5>2. Tail(R.todo) \in Suffixes
          BY <3>1, <5>1, ReportParts DEF GoodReport
        <5> QED
          BY <2>1, <5>2 DEF Report
      <4> HIDE DEF R3
      <4>4. R3 = R2
        BY <4>1, <4>2, <4>3 DEF After, Report
      <4> QED
        BY <4>4 DEF R3
    <3> HIDE DEF R2
    <3> QED
      BY <1>2, <3>1, <3>2, <3>3
  <2>3. CASE ~Closed(SoughtMonth(R))
    BY <1>3, <1>7, <2>3 DEF FindHeader
  <2> QED
    BY <2>2, <2>3
<1> HIDE DEF Goal
<1>8. ASSUME NEW kind \in DOMAIN Statements, NEW m \in Months, Request(r, kind, m)
      PROVE  Goal
  <2> DEFINE R2 == [kind |-> kind, month |-> m, clock |-> now, todo |-> Statements[kind],
                    rows |-> {}, before |-> {}, fresh |-> {}, seek |-> FALSE, missed |-> {},
                    due |-> {e \in Archived \cup live : e.month \in Shown(kind, m)}]
  <2>1. GoodReport(R2)
    BY <1>1, <1>8, RequestGood DEF Request
  <2>2. read' = [read EXCEPT ![r] = R2]
    BY <1>8 DEF Request
  <2> HIDE DEF R2
  <2> QED
    BY <1>2, <2>1, <2>2
<1>9. ASSUME ReadPeriod(r)
      PROVE  Goal
  <2> DEFINE R == read[r]
             P == PeriodOf(r, R.month)
  <2>1. Busy(r) /\ ~R.seek /\ Head(R.todo) = "period"
    BY <1>9 DEF ReadPeriod, NextIs
  <2>2. CASE NoRows(r, R.month)
    BY <1>9, <1>6, <2>1, <2>2 DEF ReadPeriod, SoughtMonth
  <2>3. CASE ~NoRows(r, R.month) /\ Exists(r, R.month)
    <3>1. R.month = R.clock \/ Closed(R.month)
      BY <2>3 DEF Exists
    <3>2. P = ReadAs(R.kind, R.clock, R.month)
      BY DEF PeriodOf, ReadAs
    <3>3. Store(r, P, R.before, {R.month} \cap {R.clock})
      BY <1>9, <2>3 DEF ReadPeriod
    <3>4. GoodReport(After(R, P, R.before, {R.month} \cap {R.clock}))
      BY <1>4, <2>1, <3>1, <3>2, PeriodGood
    <3> QED
      BY <1>5, <2>1, <3>3, <3>4
  <2>4. CASE ~NoRows(r, R.month) /\ ~Exists(r, R.month)
    BY <1>3, <1>9, <2>4 DEF ReadPeriod
  <2> QED
    BY <2>2, <2>3, <2>4
<1>10. ASSUME ReadOpening(r)
      PROVE  Goal
  <2> DEFINE R == read[r]
  <2>1. Busy(r) /\ ~R.seek /\ Head(R.todo) = "opening" /\ Store(r, R.rows, Opening(R.month), {})
    BY <1>10 DEF ReadOpening, NextIs
  <2>2. GoodReport(After(R, R.rows, Opening(R.month), {}))
    BY <1>4, <2>1, OpeningGood
  <2> QED
    BY <1>5, <2>1, <2>2
<1>11. ASSUME ReadClock(r)
      PROVE  Goal
  <2> DEFINE R == read[r]
             R2 == [R EXCEPT !.clock = now, !.todo = Tail(@)]
  <2>1. Busy(r) /\ Head(R.todo) = "clock"
    BY <1>11 DEF ReadClock, NextIs
  <2>2. GoodReport(R2)
    BY <1>1, <1>4, <2>1, ClockGood
  <2>3. read' = [read EXCEPT ![r] = R2]
    BY <1>1, <1>4, <1>11, <2>1 DEF ReadClock, Report
  <2> HIDE DEF R2
  <2> QED
    BY <1>2, <2>2, <2>3
<1>12. ASSUME ReadPrevious(r)
      PROVE  Goal
  <2> DEFINE R == read[r]
             m == R.month - 1
             P == PeriodOf(r, m)
  <2>1. Busy(r) /\ ~R.seek /\ Head(R.todo) = "previous"
    BY <1>12 DEF ReadPrevious, NextIs
  <2>2. CASE NoRows(r, m)
    BY <1>12, <1>6, <2>1, <2>2 DEF ReadPrevious, SoughtMonth
  <2>3. CASE ~NoRows(r, m) /\ Exists(r, m)
    <3>1. m \in Months /\ (m = R.clock \/ Closed(m))
      BY <2>3 DEF Exists
    <3>2. P = ReadAs(R.kind, R.clock, m)
      BY DEF PeriodOf, ReadAs
    <3>3. Store(r, R.rows, P, {m} \cap {R.clock})
      BY <1>12, <2>3 DEF ReadPrevious
    <3>4. GoodReport(After(R, R.rows, P, {m} \cap {R.clock}))
      BY <1>4, <2>1, <3>1, <3>2, PreviousGood
    <3> QED
      BY <1>5, <2>1, <3>3, <3>4
  <2>4. CASE ~NoRows(r, m) /\ ~Exists(r, m)
    BY <1>3, <1>12, <2>4 DEF ReadPrevious
  <2> QED
    BY <2>2, <2>3, <2>4
<1>13. ASSUME ListFinalized(r)
      PROVE  Goal
  <2> DEFINE R == read[r]
             B == SumOf({n \in Months : Closed(n)})
  <2>1. Busy(r) /\ ~R.seek /\ Head(R.todo) = "finalized" /\ Store(r, {}, B, {})
    BY <1>13 DEF ListFinalized, NextIs
  <2>2. GoodReport(After(R, {}, B, {}))
    BY <1>4, <2>1, FinalizedGood
  <2> QED
    BY <1>5, <2>1, <2>2
<1>14. ASSUME ListLive(r)
      PROVE  Goal
  <2> DEFINE R == read[r]
             B == {e \in R.before : e.month # R.clock}
  <2>1. Busy(r) /\ ~R.seek /\ Head(R.todo) = "live" /\ Store(r, Live(R.clock), B, {R.clock})
    BY <1>14 DEF ListLive, NextIs
  <2>2. GoodReport(After(R, Live(R.clock), B, {R.clock}))
    BY <1>4, <2>1, LiveGood
  <2> QED
    BY <1>5, <2>1, <2>2
<1> QED
  BY <1>7, <1>8, <1>9, <1>10, <1>11, <1>12, <1>13, <1>14 DEF ReadNext, Goal

LEMMA GoodStays ==
    ASSUME UNCHANGED vars, NEW R, GoodReport(R)
    PROVE  GoodReport(R)'
<1>1. (R \in Report)' /\ (R.todo \in Todos(R.kind))' /\ Unread(R)' /\ Apart(R)'
  BY DEF GoodReport, Unread, Apart, Left, Todos, Report
<1>2. Due(R)' /\ Sourced(R)'
  BY DEF vars, GoodReport, Due, Sourced, Known, Closed
<1>3. Covered(R)'
  BY DEF vars, GoodReport, Covered, Excused, Says, EntryOf, Closed, ToRead, Covers, Left
<1>4. Sought(R)' /\ Whole(R)'
  BY DEF vars, GoodReport, Sought, SoughtMonth, Whole, Periods, Has, Closed, ToRead, Covers, Left
<1> QED
  BY <1>1, <1>2, <1>3, <1>4 DEF GoodReport

LEMMA ReportInvStep ==
    ASSUME MatchInv, TypeOK', ReportInv, [ReportNext]_reportVars
    PROVE  ReportInv'
<1>1. CASE Next /\ UNCHANGED <<now, read>>
  <2>1. ASSUME NEW r \in Readers, read[r] # None
        PROVE  GoodReport(read[r])'
    <3>1. PICK R : R = read[r] /\ GoodReport(R)
      BY <2>1 DEF ReportInv
    <3>2. GoodReport(R)'
      BY <1>1, <3>1, LedgerGoodReport
    <3> QED
      BY <1>1, <3>1, <3>2
  <2> QED
    BY <1>1, <2>1 DEF ReportInv
<1>2. ASSUME NEW r \in Readers, ReadNext(r)
      PROVE  ReportInv'
  <2>1. UNCHANGED <<vars, now>>
    BY <1>2 DEF ReadNext, Request, ReadPeriod, ReadOpening, ReadClock, ReadPrevious, FindHeader,
                ListFinalized, ListLive
  <2>2. PICK R2 \in Report \cup {None} :
            read' = [read EXCEPT ![r] = R2] /\ (R2 # None => GoodReport(R2))
    BY <1>2, ReaderStep
  <2>3. ASSUME NEW x \in Readers, read'[x] # None
        PROVE  GoodReport(read[x])'
    <3>1. PICK R : R = read'[x] /\ GoodReport(R)
      BY <2>2, <2>3 DEF ReportInv
    <3>2. GoodReport(R)'
      BY <2>1, <3>1, GoodStays
    <3> QED
      BY <3>1, <3>2
  <2> QED
    BY <2>1, <2>2, <2>3 DEF ReportInv
<1>3. CASE Rollover \/ UNCHANGED reportVars
  <2>1. UNCHANGED vars /\ read' = read /\ now' \in Months
    BY <1>3 DEF Rollover, reportVars, ReportInv
  <2>2. ASSUME NEW r \in Readers, read[r] # None
        PROVE  GoodReport(read[r])'
    <3>1. PICK R : R = read[r] /\ GoodReport(R)
      BY <2>2 DEF ReportInv
    <3>2. GoodReport(R)'
      BY <2>1, <3>1, GoodStays
    <3> QED
      BY <2>1, <3>1, <3>2
  <2> QED
    BY <2>1, <2>2 DEF ReportInv
<1> QED
  BY <1>1, <1>2, <1>3 DEF ReportNext

LEMMA ReportsGood ==
    ASSUME MatchInv, ReportInv
    PROVE  ReportsTrue
<1>0. TypeOK
  BY DEF MatchInv, IInv
<1>1. ReadersTypeOK
  <2>1. ASSUME NEW r \in Readers, read[r] # None
        PROVE  read[r].rows \cap read[r].before = {}
    BY <2>1 DEF ReportInv, GoodReport, Apart, Unread
  <2> QED
    BY <2>1 DEF ReportInv, ReadersTypeOK
<1>2. ASSUME NEW r \in Readers, Finished(r)
      PROVE  /\ GoodReport(read[r]) /\ \A n : ~ToRead(read[r], n)
             /\ read[r].rows \in SUBSET Entry /\ read[r].before \in SUBSET Entry
             /\ read[r].due \in SUBSET Entry
  BY <1>2, LeftOf, ReportParts DEF Finished, ReportInv, GoodReport, ToRead
<1>3. ReportComplete
  <2>1. ASSUME NEW r \in Readers, Finished(r),
               NEW e \in (read[r].due \cap Owed)
                            \ (raced \cup Late \cup ClosedWhileRead(r) \cup ClosedBetween(r))
        PROVE  e \in read[r].rows \cup read[r].before
    <3>1. e \in Entry /\ Says(e)
      BY <1>0, OwedSays
    <3>2. ~Excused(read[r], e)
      BY <3>1 DEF Excused, Late, ClosedWhileRead, ClosedBetween
    <3> QED
      BY <1>2, <2>1, <3>1, <3>2 DEF GoodReport, Covered
  <2> QED
    BY <2>1 DEF ReportComplete
<1>4. ClosedFiguresStayTrue
  <2>1. ASSUME NEW r \in Readers, Finished(r),
               NEW e \in (read[r].rows \cup read[r].before) \ raced, e.month \notin read[r].fresh
        PROVE  e \in Owed
    <3>1. /\ e \in Entry /\ e.month \in Months /\ Closed(e.month)
          /\ e \in snapshot[e.month].total \cup snapshot[e.month].entries
      BY <1>2, <2>1 DEF GoodReport, Sourced, Entry
    <3>2. snapshot[e.month].total \ raced = snapshot[e.month].entries \ raced
      BY <3>1 DEF MatchInv, LedgerGood, SnapshotAddsUp, Closed
    <3>3. Filed(e)
      BY <3>1, <3>2 DEF Filed, Closed
    <3>4. Says(e)
      BY <3>1, <3>3 DEF MatchInv, LedgerGood, Matches
    <3> QED
      BY <1>0, <3>1, <3>4, OwedSays
  <2> QED
    BY <2>1 DEF ClosedFiguresStayTrue
<1>5. ClosedMonthsWhole
  BY <1>2 DEF ClosedMonthsWhole, GoodReport, Whole, Has
<1> QED
  BY <1>1, <1>3, <1>4, <1>5 DEF ReportsTrue

(* A finished report has every entry it owed its reader, none of them both *)
(* in its period and beside it, has all of the months it shows as closed   *)
(* but for one closed between the two looks for it, and its figures of     *)
(* closed months stay true: for any months, sources, readers and           *)
(* concurrent requests.                                                    *)
THEOREM ReportsAreTrue == ReportSpec => []ReportsTrue
<1>1. ReportInit => MatchInv /\ ReportInv
  BY MatchInvInit DEF ReportInit, ReportInv
<1>2. MatchInv /\ ReportInv /\ [ReportNext]_reportVars => MatchInv' /\ ReportInv'
  <2> SUFFICES ASSUME MatchInv, ReportInv, [ReportNext]_reportVars
               PROVE  MatchInv' /\ ReportInv'
    OBVIOUS
  <2>1. MatchInv' /\ TypeOK'
    BY ReportStep, MatchInvStep DEF MatchInv, IInv
  <2> QED
    BY <2>1, ReportInvStep
<1>3. MatchInv /\ ReportInv => ReportsTrue
  BY ReportsGood
<1> QED
  BY <1>1, <1>2, <1>3, PTL DEF ReportSpec

=============================================================================
