------------------------ MODULE SchedulerRuns_proofs ------------------------
(* Proofs about SchedulerRuns and LeaseJobs, for every choice of their     *)
(* constants.                                                              *)
EXTENDS LeaseJobs, FiniteSetTheorems, TLAPS

LEMMA CallType ==
    ASSUME NEW k \in Call
    PROVE  /\ k # None /\ k.window \in Windows /\ k.todo \in SUBSET Candidate
           /\ k.phase \in {"listing", "items", "counted", "sent"}
           /\ k.phase \in {"counted", "sent"} => k.item \in Candidate /\ k.window \in Reminders
BY NoneAssumption DEF Call, FreeCall, LockingCall, Windows

LEMMA FreeType ==
    ASSUME NEW p \in {"listing", "items"}, NEW w \in Windows, NEW T \in SUBSET Candidate
    PROVE  /\ Free(p, w, T) \in Call
           /\ Free(p, w, T).phase = p /\ Free(p, w, T).window = w /\ Free(p, w, T).todo = T
BY DEF Free, Call, FreeCall

LEMMA LockingType ==
    ASSUME NEW p \in {"counted", "sent"}, NEW w \in Reminders, NEW T \in SUBSET Candidate,
           NEW i \in Candidate
    PROVE  /\ Locking(p, w, T, i) \in Call
           /\ Locking(p, w, T, i).phase = p /\ Locking(p, w, T, i).window = w
           /\ Locking(p, w, T, i).todo = T /\ Locking(p, w, T, i).item = i
BY DEF Locking, Call, LockingCall

LEMMA CandidatesType ==
    ASSUME TypeOK, NEW w \in Windows
    PROVE  /\ Candidates(w) \in SUBSET Candidate
           /\ \A i, j \in Candidates(w) : i.bill = j.bill => i = j
BY DEF TypeOK, Candidates, Candidate, Bill

LEMMA InType ==
    ASSUME TypeOK, NEW c \in Calls, call[c] # None
    PROVE  call[c] \in Call
BY DEF TypeOK

(* The last update of a run.                                               *)
LEMMA FinishedType ==
    ASSUME TypeOK, NEW c \in Calls, call[c] # None, run[call[c].window] # None,
           NEW s \in {"completed", "failed"}
    PROVE  \E r \in Run : r.status = s /\ Finished(c, s) = [run EXCEPT ![call[c].window] = r]
<1>1. PICK w \in Windows : w = call[c].window
  BY InType, CallType
<1>2. run[w] \in Run
  BY <1>1 DEF TypeOK
<1>3. [run[w] EXCEPT !.status = s] \in Run /\ [run[w] EXCEPT !.status = s].status = s
  BY <1>2 DEF Run
<1> QED
  BY <1>1, <1>3 DEF Finished

(***************************************************************************)
(* A window is run by one call at a time, and mails a bill at most once.   *)
(* Neither is inductive.  What makes them so is that a call holds a row    *)
(* that says started, which no other call takes over, and that a row says  *)
(* failed only when its call has not mailed anything yet.                  *)
(***************************************************************************)

(* What a call k may rely on: its row r, and what its window has mailed.   *)
Good(k, r, m) ==
    /\ r # None /\ r.status = "started"
    /\ \A i, j \in k.todo : i.bill = j.bill => i = j
    /\ k.phase \in {"counted", "sent"} => \A i \in k.todo : i.bill # k.item.bill
    /\ k.window \in Reminders =>
           /\ k.phase = "listing" => \A b \in Bills : m[k.window][b] = 0
           /\ \A i \in k.todo : m[k.window][i.bill] = 0
           /\ k.phase = "counted" => m[k.window][k.item.bill] = 0

CallsGood == \A c \in Calls : call[c] # None => Good(call[c], run[call[c].window], mailed)

(* A window that may still be run has not mailed anything.                 *)
FreshWindows ==
    \A w \in Reminders : run[w] = None \/ run[w].status = "failed" =>
        \A b \in Bills : mailed[w][b] = 0

(* A bill whose notice is being counted is locked by one call, overdue,    *)
(* and has a notice left.                                                  *)
Holds(c) == In(c, {"counted", "sent"})

LocksGood ==
    /\ \A c \in Calls : Holds(c) =>
           bill[call[c].item.bill].status = "overdue" /\ bill[call[c].item.bill].notices < MaxNotices
    /\ \A c, d \in Calls :
           Holds(c) /\ Holds(d) /\ call[c].item.bill = call[d].item.bill => c = d

IInv ==
    TypeOK /\ CallsGood /\ FreshWindows /\ LocksGood /\ OneCallPerWindow /\ MailedOncePerWindow

LEMMA GoodSame ==
    ASSUME NEW k, NEW r, NEW m, NEW n, Good(k, r, m), n[k.window] = m[k.window]
    PROVE  Good(k, r, n)
BY DEF Good

(* The call in slot c goes on as k; it may mail, and write the bills that  *)
(* no other call has locked.                                               *)
LEMMA MovesStep ==
    ASSUME IInv, NEW c \in Calls, NEW k \in Call,
           call[c] # None, k.window = call[c].window,
           call' = [call EXCEPT ![c] = k], run' = run,
           bill' \in [Bills -> Bill], mailed' \in [Reminders -> [Bills -> Nat]],
           Good(k, run[k.window], mailed'),
           \A w \in Reminders : w # k.window => mailed'[w] = mailed[w],
           k.window \in Reminders => \A b \in Bills : mailed'[k.window][b] <= 1,
           \A d \in Calls : d # c /\ Holds(d) => bill'[call[d].item.bill] = bill[call[d].item.bill],
           k.phase \in {"counted", "sent"} =>
               /\ bill'[k.item.bill].status = "overdue" /\ bill'[k.item.bill].notices < MaxNotices
               /\ \A d \in Calls : d # c /\ Holds(d) => call[d].item.bill # k.item.bill
    PROVE  IInv'
<1>1. \A d \in Calls : call'[d] = IF d = c THEN k ELSE call[d]
  BY DEF IInv, TypeOK
<1>2. TypeOK'
  BY DEF IInv, TypeOK
<1>3. k # None /\ k.window \in Windows
  BY CallType
<1>4. CallsGood'
  <2>1. ASSUME NEW d \in Calls, d # c, call[d] # None
        PROVE  Good(call[d], run[call[d].window], mailed')
    <3>1. call[d].window # k.window /\ Good(call[d], run[call[d].window], mailed)
      BY <2>1 DEF IInv, OneCallPerWindow, CallsGood
    <3>2. CASE call[d].window \in Reminders
      BY <3>1, <3>2, GoodSame
    <3>3. CASE call[d].window \notin Reminders
      BY <3>1, <3>3 DEF Good
    <3> QED
      BY <3>2, <3>3
  <2> QED
    BY <1>1, <2>1 DEF CallsGood
<1>5. FreshWindows'
  <2>1. run[k.window] # None /\ run[k.window].status = "started"
    BY DEF Good
  <2> QED
    BY <2>1 DEF IInv, FreshWindows
<1>6. LocksGood'
  <2>1. \A d \in Calls : Holds(d)' <=>
            IF d = c THEN k.phase \in {"counted", "sent"} ELSE Holds(d)
    BY <1>1, <1>3 DEF Holds, In
  <2> QED
    BY <1>1, <2>1 DEF IInv, LocksGood
<1>7. OneCallPerWindow'
  BY <1>1 DEF IInv, OneCallPerWindow
<1>8. MailedOncePerWindow'
  BY DEF IInv, MailedOncePerWindow
<1> QED
  BY <1>2, <1>4, <1>5, <1>6, <1>7, <1>8 DEF IInv

(* The call in slot c ends; the row of its window becomes r.               *)
LEMMA EndsStep ==
    ASSUME IInv, NEW c \in Calls, call[c] # None, NEW r \in Run,
           call' = [call EXCEPT ![c] = None],
           run' = [run EXCEPT ![call[c].window] = r],
           UNCHANGED <<bill, mailed>>,
           r.status = "failed" /\ call[c].window \in Reminders =>
               \A b \in Bills : mailed[call[c].window][b] = 0
    PROVE  IInv'
<1>1. \A d \in Calls : call'[d] = IF d = c THEN None ELSE call[d]
  BY DEF IInv, TypeOK
<1>2. PICK w \in Windows : w = call[c].window
  BY InType, CallType DEF IInv
<1>3. \A v \in Windows : run'[v] = IF v = w THEN r ELSE run[v]
  BY <1>2 DEF IInv, TypeOK
<1>4. TypeOK'
  BY <1>2 DEF IInv, TypeOK
<1>5. CallsGood'
  <2>1. ASSUME NEW d \in Calls, call'[d] # None
        PROVE  d # c /\ call'[d] = call[d] /\ run'[call[d].window] = run[call[d].window]
    <3>1. d # c /\ call'[d] = call[d]
      BY <1>1, <2>1
    <3>2. call[d].window \in Windows /\ call[d].window # w
      BY <1>2, <2>1, <3>1, InType, CallType DEF IInv, OneCallPerWindow
    <3> QED
      BY <1>3, <3>1, <3>2
  <2> QED
    BY <2>1 DEF IInv, CallsGood
<1>6. FreshWindows'
  BY <1>2, <1>3, NoneAssumption DEF IInv, FreshWindows, Windows
<1>7. LocksGood'
  BY <1>1 DEF IInv, LocksGood, Holds, In
<1>8. OneCallPerWindow' /\ MailedOncePerWindow'
  BY <1>1 DEF IInv, OneCallPerWindow, MailedOncePerWindow
<1> QED
  BY <1>4, <1>5, <1>6, <1>7, <1>8 DEF IInv

(* A call takes a window that nobody runs.                                 *)
(* The row of a window that is being run again, or for the first time.     *)
LEMMA StartedRow ==
    ASSUME TypeOK, NEW c \in Calls, NEW w \in Windows, Start(c, w)
    PROVE  \E r \in Run : r.status = "started" /\ run' = [run EXCEPT ![w] = r]
<1>1. CASE run[w] = None
  <2>1. [status |-> "started", retries |-> 0] \in Run
    BY BoundAssumption DEF Run
  <2> QED
    BY <1>1, <2>1 DEF Start
<1>2. CASE run[w] # None
  <2>1. run[w] \in Run /\ run[w].retries < MaxRetries
    BY <1>2 DEF Start, Retryable, TypeOK
  <2>2. [status |-> "started", retries |-> run[w].retries + 1] \in Run
    BY <2>1, BoundAssumption DEF Run
  <2> QED
    BY <1>2, <2>2 DEF Start
<1> QED
  BY <1>1, <1>2

LEMMA StartStep ==
    ASSUME IInv, NEW c \in Calls, NEW w \in Windows, Start(c, w)
    PROVE  IInv'
<1>1. PICK r \in Run : r.status = "started" /\ run' = [run EXCEPT ![w] = r]
  BY StartedRow DEF IInv
<1>2. run[w] = None \/ run[w].status = "failed"
  BY DEF Start, Retryable
<1>3. \A d \in Calls : call[d] # None => call[d].window # w
  BY <1>2 DEF IInv, CallsGood, Good
<1> DEFINE k == Free("listing", w, {})
<1>4. /\ k \in Call /\ k # None
      /\ k.phase = "listing" /\ k.window = w /\ k.todo = {}
  BY FreeType, CallType
<1>5. call' = [call EXCEPT ![c] = k] /\ call[c] = None /\ UNCHANGED <<bill, mailed>>
  BY DEF Start
<1> HIDE DEF k
<1>6. \A d \in Calls : call'[d] = IF d = c THEN k ELSE call[d]
  BY <1>5 DEF IInv, TypeOK
<1>7. \A v \in Windows : run'[v] = IF v = w THEN r ELSE run[v]
  BY <1>1 DEF IInv, TypeOK
<1>8. TypeOK'
  BY <1>1, <1>4, <1>5 DEF IInv, TypeOK
<1>9. CallsGood'
  <2>1. Good(k, r, mailed)
    BY <1>1, <1>2, <1>4, NoneAssumption DEF Good, IInv, FreshWindows
  <2>2. ASSUME NEW d \in Calls, d # c, call[d] # None
        PROVE  run'[call[d].window] = run[call[d].window]
    <3>1. call[d].window \in Windows
      BY <2>2, InType, CallType DEF IInv
    <3> QED
      BY <1>3, <1>7, <2>2, <3>1
  <2> QED
    BY <1>4, <1>5, <1>6, <1>7, <2>1, <2>2 DEF IInv, CallsGood
<1>10. FreshWindows'
  BY <1>1, <1>5, <1>7, NoneAssumption DEF IInv, FreshWindows, Windows
<1>11. LocksGood'
  BY <1>4, <1>5, <1>6 DEF IInv, LocksGood, Holds, In
<1>12. OneCallPerWindow' /\ MailedOncePerWindow'
  BY <1>3, <1>4, <1>5, <1>6 DEF IInv, OneCallPerWindow, MailedOncePerWindow
<1> QED
  BY <1>8, <1>9, <1>10, <1>11, <1>12 DEF IInv

(* A call that works through its candidates goes on without a lock.        *)
LEMMA FreeStep ==
    ASSUME IInv, NEW c \in Calls, call[c] # None, NEW T \in SUBSET Candidate,
           call' = [call EXCEPT ![c] = Free("items", call[c].window, T)],
           UNCHANGED <<run, mailed>>, bill' \in [Bills -> Bill],
           \/ call[c].phase = "listing" /\ T = Candidates(call[c].window)
           \/ T \subseteq call[c].todo,
           \A d \in Calls : d # c /\ Holds(d) => bill'[call[d].item.bill] = bill[call[d].item.bill]
    PROVE  IInv'
<1>1. call[c] \in Call /\ Good(call[c], run[call[c].window], mailed)
  BY InType DEF IInv, CallsGood
<1>2. PICK k \in Call : /\ k = Free("items", call[c].window, T)
                        /\ k.phase = "items" /\ k.window = call[c].window /\ k.todo = T
  BY <1>1, CallType, FreeType
<1>3. \A i, j \in T : i.bill = j.bill => i = j
  BY <1>1, CallType, CandidatesType DEF Good, IInv
<1>4. k.window \in Reminders => \A i \in T : mailed[k.window][i.bill] = 0
  BY <1>1, <1>2 DEF Good, Candidate
<1>5. Good(k, run[k.window], mailed')
  BY <1>1, <1>2, <1>3, <1>4 DEF Good
<1>6. mailed' \in [Reminders -> [Bills -> Nat]] /\ mailed' = mailed
  BY DEF IInv, TypeOK
<1>7. k.window \in Reminders => \A b \in Bills : mailed'[k.window][b] <= 1
  BY <1>6 DEF IInv, MailedOncePerWindow
<1>8. k.phase \notin {"counted", "sent"}
  BY <1>2
<1> QED
  BY <1>2, <1>5, <1>6, <1>7, <1>8, MovesStep

LEMMA MarkStep ==
    ASSUME IInv, NEW c \in Calls, NEW item \in Candidate, MarkBillOverdue(c, item)
    PROVE  IInv'
<1>1. call[c] # None /\ call[c] \in Call
  BY InType DEF MarkBillOverdue, In, IInv
<1>2. bill' \in [Bills -> Bill]
  <2>1. item.bill \in Bills /\ bill[item.bill] \in Bill
    BY DEF IInv, TypeOK, Candidate
  <2>2. Row("overdue", bill[item.bill].notices, bill[item.bill].version + 1) \in Bill
    BY <2>1 DEF Bill, Row
  <2> QED
    BY <2>1, <2>2 DEF MarkBillOverdue, IInv, TypeOK
<1>3. \A d \in Calls : d # c /\ Holds(d) => bill'[call[d].item.bill] = bill[call[d].item.bill]
  <2>1. ASSUME NEW d \in Calls, Holds(d)
        PROVE  call[d].item.bill \in Bills /\ call[d].item.bill # item.bill
    BY <2>1, InType, CallType DEF MarkBillOverdue, Locked, Holds, In, IInv, Candidate
  <2> QED
    BY <2>1 DEF MarkBillOverdue, IInv, TypeOK
<1>4. /\ call' = [call EXCEPT ![c] = Free("items", call[c].window, call[c].todo \ {item})]
      /\ UNCHANGED <<run, mailed>>
  BY DEF MarkBillOverdue
<1>5. call[c].todo \ {item} \in SUBSET Candidate /\ call[c].todo \ {item} \subseteq call[c].todo
  BY <1>1, CallType
<1> QED
  BY <1>1, <1>2, <1>3, <1>4, <1>5, FreeStep

LEMMA CountStep ==
    ASSUME IInv, NEW c \in Calls, NEW item \in Candidate, IncrementOverdueNoticeCount(c, item)
    PROVE  IInv'
<1>1. /\ call[c] # None /\ call[c] \in Call /\ call[c].phase = "items"
      /\ call[c].window \in Reminders /\ item \in call[c].todo
      /\ call[c].todo \ {item} \in SUBSET Candidate
  BY InType, CallType DEF IncrementOverdueNoticeCount, In, IInv
<1>2. Good(call[c], run[call[c].window], mailed)
  BY <1>1 DEF IInv, CallsGood
<1>3. PICK k \in Call : /\ k = Locking("counted", call[c].window, call[c].todo \ {item}, item)
                        /\ k.phase = "counted" /\ k.window = call[c].window
                        /\ k.todo = call[c].todo \ {item} /\ k.item = item
  BY <1>1, LockingType
<1>4. UNCHANGED <<run, bill, mailed>> /\ call' = [call EXCEPT ![c] = k]
  BY <1>3 DEF IncrementOverdueNoticeCount
<1>5. Good(k, run[k.window], mailed')
  BY <1>1, <1>2, <1>3, <1>4 DEF Good
<1>6. bill' \in [Bills -> Bill] /\ mailed' \in [Reminders -> [Bills -> Nat]] /\ mailed' = mailed
  BY <1>4 DEF IInv, TypeOK
<1>7. \A b \in Bills : mailed'[k.window][b] <= 1
  BY <1>1, <1>3, <1>6 DEF IInv, MailedOncePerWindow
<1>8. /\ bill'[k.item.bill].status = "overdue" /\ bill'[k.item.bill].notices < MaxNotices
      /\ \A d \in Calls : d # c /\ Holds(d) => call[d].item.bill # k.item.bill
  BY <1>1, <1>3, <1>4, WindowAssumption
     DEF IncrementOverdueNoticeCount, Current, Due, Locked, Holds
<1> QED
  BY <1>1, <1>3, <1>4, <1>5, <1>6, <1>7, <1>8, MovesStep

LEMMA SendStep ==
    ASSUME IInv, NEW c \in Calls, SendOverdueBillReminder(c)
    PROVE  IInv'
<1>1. /\ call[c] # None /\ call[c] \in Call /\ call[c].phase = "counted" /\ Holds(c)
      /\ call[c].window \in Reminders /\ call[c].item \in Candidate
      /\ call[c].todo \in SUBSET Candidate
  BY InType, CallType DEF SendOverdueBillReminder, In, Holds, IInv
<1>2. Good(call[c], run[call[c].window], mailed)
  BY <1>1 DEF IInv, CallsGood
<1>3. PICK k \in Call : /\ k = Locking("sent", call[c].window, call[c].todo, call[c].item)
                        /\ k.phase = "sent" /\ k.window = call[c].window
                        /\ k.todo = call[c].todo /\ k.item = call[c].item
  BY <1>1, LockingType
<1>4. PICK w \in Reminders, b \in Bills : w = call[c].window /\ b = call[c].item.bill
  BY <1>1 DEF Candidate
<1>5. /\ UNCHANGED <<run, bill>> /\ call' = [call EXCEPT ![c] = k]
      /\ mailed' = [mailed EXCEPT ![w][b] = @ + 1]
  BY <1>3, <1>4 DEF SendOverdueBillReminder
<1>6. mailed' \in [Reminders -> [Bills -> Nat]]
  BY <1>5 DEF IInv, TypeOK
<1>7. /\ \A v \in Reminders : v # w => mailed'[v] = mailed[v]
      /\ \A x \in Bills : mailed'[w][x] = IF x = b THEN mailed[w][b] + 1 ELSE mailed[w][x]
  BY <1>4, <1>5 DEF IInv, TypeOK
<1>8. mailed[w][b] = 0
  BY <1>1, <1>2, <1>4 DEF Good
<1>9. \A x \in Bills : mailed'[w][x] <= 1
  BY <1>7, <1>8 DEF IInv, MailedOncePerWindow
<1>10. \A i \in k.todo : i.bill \in Bills /\ i.bill # b /\ mailed[w][i.bill] = 0
  BY <1>1, <1>2, <1>3, <1>4 DEF Good, Candidate
<1>11. Good(k, run[k.window], mailed')
  BY <1>1, <1>2, <1>3, <1>4, <1>7, <1>10 DEF Good
<1>12. bill' \in [Bills -> Bill]
  BY <1>5 DEF IInv, TypeOK
<1>13. /\ bill'[k.item.bill].status = "overdue" /\ bill'[k.item.bill].notices < MaxNotices
       /\ \A d \in Calls : d # c /\ Holds(d) => call[d].item.bill # k.item.bill
  BY <1>1, <1>3, <1>5 DEF IInv, LocksGood
<1>14. /\ \A v \in Reminders : v # k.window => mailed'[v] = mailed[v]
       /\ \A x \in Bills : mailed'[k.window][x] <= 1
       /\ \A d \in Calls : d # c /\ Holds(d) => bill'[call[d].item.bill] = bill[call[d].item.bill]
  BY <1>3, <1>4, <1>5, <1>7, <1>9
<1> QED
  BY <1>1, <1>3, <1>5, <1>6, <1>11, <1>12, <1>13, <1>14, MovesStep

LEMMA CommitStep ==
    ASSUME IInv, NEW c \in Calls, Commit(c)
    PROVE  IInv'
<1>1. /\ call[c] # None /\ call[c] \in Call /\ Holds(c)
      /\ call[c].item \in Candidate /\ call[c].todo \in SUBSET Candidate
  BY InType, CallType DEF Commit, Sent, In, Holds, IInv
<1>2. PICK b \in Bills : b = call[c].item.bill
  BY <1>1 DEF Candidate
<1>3. bill[b] \in Bill /\ bill[b].notices < MaxNotices
  BY <1>1, <1>2 DEF IInv, TypeOK, LocksGood
<1>4. Row(bill[b].status, bill[b].notices + 1, bill[b].version + 1) \in Bill
  BY <1>3, BoundAssumption DEF Bill, Row
<1>5. bill' \in [Bills -> Bill] /\ \A x \in Bills : x # b => bill'[x] = bill[x]
  BY <1>2, <1>4 DEF Commit, IInv, TypeOK
<1>6. \A d \in Calls : d # c /\ Holds(d) => bill'[call[d].item.bill] = bill[call[d].item.bill]
  <2>1. ASSUME NEW d \in Calls, d # c, Holds(d)
        PROVE  call[d].item.bill \in Bills /\ call[d].item.bill # b
    BY <1>1, <1>2, <2>1, InType, CallType DEF IInv, LocksGood, Holds, In, Candidate
  <2> QED
    BY <1>5, <2>1
<1>7. /\ call' = [call EXCEPT ![c] = Free("items", call[c].window, call[c].todo)]
      /\ UNCHANGED <<run, mailed>>
  BY DEF Commit, Remaining
<1> QED
  BY <1>1, <1>5, <1>6, <1>7, FreeStep

LEMMA PaymentStep ==
    ASSUME IInv, NEW b \in Bills, RecordPayment(b)
    PROVE  IInv'
<1>1. UNCHANGED <<run, call, mailed>>
  BY DEF RecordPayment
<1>2. bill' \in [Bills -> Bill] /\ \A x \in Bills : x # b => bill'[x] = bill[x]
  <2>1. Row("paid", bill[b].notices, bill[b].version + 1) \in Bill
    BY DEF IInv, TypeOK, Bill, Row
  <2> QED
    BY <2>1 DEF RecordPayment, IInv, TypeOK
<1>3. ASSUME NEW d \in Calls, Holds(d)
      PROVE  bill'[call[d].item.bill] = bill[call[d].item.bill]
  <2>1. call[d].item.bill \in Bills /\ call[d].item.bill # b
    BY <1>3, InType, CallType DEF RecordPayment, Locked, Holds, In, IInv, Candidate
  <2> QED
    BY <1>2, <2>1
<1>4. LocksGood'
  BY <1>1, <1>3 DEF IInv, LocksGood, Holds, In
<1> QED
  BY <1>1, <1>2, <1>4 DEF IInv, TypeOK, CallsGood, FreshWindows, OneCallPerWindow,
                          MailedOncePerWindow

LEMMA WriteOffStep ==
    ASSUME IInv, NEW B \in SUBSET Bills, WriteOffBills(B)
    PROVE  IInv'
<1>1. UNCHANGED <<run, call, mailed>>
  BY DEF WriteOffBills
<1>2. ASSUME NEW b \in Bills
      PROVE  bill'[b] \in Bill /\ (b \notin B => bill'[b] = bill[b])
  <2>1. bill[b] \in Bill /\ Row("written_off", bill[b].notices, bill[b].version + 1) \in Bill
    BY DEF IInv, TypeOK, Bill, Row
  <2>2. bill'[b] = IF b \in B /\ bill[b].status # "paid"
                   THEN Row("written_off", bill[b].notices, bill[b].version + 1) ELSE bill[b]
    BY DEF WriteOffBills, WrittenOff
  <2> QED
    BY <2>1, <2>2
<1>3. bill' \in [Bills -> Bill]
  <2>1. bill' = [b \in Bills |-> bill'[b]]
    BY DEF WriteOffBills
  <2> QED
    BY <1>2, <2>1
<1>4. ASSUME NEW d \in Calls, Holds(d)
      PROVE  bill'[call[d].item.bill] = bill[call[d].item.bill]
  <2>1. call[d].item.bill \in Bills /\ call[d].item.bill \notin B
    BY <1>4, InType, CallType DEF WriteOffBills, Locked, Holds, In, IInv, Candidate
  <2> QED
    BY <1>2, <2>1
<1>5. LocksGood'
  BY <1>1, <1>4 DEF IInv, LocksGood, Holds, In
<1> QED
  BY <1>1, <1>3, <1>5 DEF IInv, TypeOK, CallsGood, FreshWindows, OneCallPerWindow,
                          MailedOncePerWindow

LEMMA IInvStep == IInv /\ [Next]_vars => IInv'
<1> SUFFICES ASSUME IInv, [Next]_vars PROVE IInv'
  OBVIOUS
<1>0. ASSUME NEW c \in Calls, call[c] # None
      PROVE  /\ call[c] \in Call /\ call[c].window \in Windows /\ call[c].todo \in SUBSET Candidate
             /\ Good(call[c], run[call[c].window], mailed)
             /\ run[call[c].window] \in Run
  BY <1>0, InType, CallType DEF IInv, TypeOK, CallsGood, Good
<1>1. ASSUME NEW c \in Calls, List(c)
      PROVE  IInv'
  <2>1. call[c] # None /\ call[c].phase = "listing"
    BY <1>1 DEF List, In
  <2>2. /\ call' = [call EXCEPT ![c] = Free("items", call[c].window, Candidates(call[c].window))]
        /\ UNCHANGED <<run, bill, mailed>>
    BY <1>1 DEF List
  <2>3. Candidates(call[c].window) \in SUBSET Candidate /\ bill' \in [Bills -> Bill]
    BY <1>0, <2>1, <2>2, CandidatesType DEF IInv, TypeOK
  <2> QED
    BY <2>1, <2>2, <2>3, FreeStep
<1>2. ASSUME NEW c \in Calls, ListFails(c)
      PROVE  IInv'
  <2>1. call[c] # None /\ call[c].phase = "listing"
    BY <1>2 DEF ListFails, In
  <2>2. PICK r \in Run : r.status = "failed" /\ run' = [run EXCEPT ![call[c].window] = r]
    BY <1>0, <1>2, <2>1, NoneAssumption, FinishedType DEF ListFails, IInv
  <2>3. call[c].window \in Reminders => \A b \in Bills : mailed[call[c].window][b] = 0
    BY <1>0, <2>1 DEF Good
  <2>4. call' = [call EXCEPT ![c] = None] /\ UNCHANGED <<bill, mailed>>
    BY <1>2 DEF ListFails
  <2> QED
    BY <2>1, <2>2, <2>3, <2>4, EndsStep
<1>3. ASSUME NEW c \in Calls, Complete(c)
      PROVE  IInv'
  <2>1. call[c] # None
    BY <1>3 DEF Complete, In
  <2>2. PICK r \in Run : r.status = "completed" /\ run' = [run EXCEPT ![call[c].window] = r]
    BY <1>0, <1>3, <2>1, NoneAssumption, FinishedType DEF Complete, IInv
  <2>3. call' = [call EXCEPT ![c] = None] /\ UNCHANGED <<bill, mailed>>
    BY <1>3 DEF Complete
  <2> QED
    BY <2>1, <2>2, <2>3, EndsStep
<1>4. ASSUME NEW c \in Calls, Crash(c)
      PROVE  IInv'
  <2>1. call[c] # None /\ call' = [call EXCEPT ![c] = None] /\ UNCHANGED <<run, bill, mailed>>
    BY <1>4 DEF Crash
  <2>2. PICK r \in Run : r = run[call[c].window] /\ r.status = "started"
    BY <1>0, <2>1 DEF Good
  <2>3. run' = [run EXCEPT ![call[c].window] = r]
    BY <2>1, <2>2 DEF IInv, TypeOK
  <2> QED
    BY <2>1, <2>2, <2>3, EndsStep
<1>5. ASSUME NEW c \in Calls, Rollback(c)
      PROVE  IInv'
  <2>1. /\ call[c] # None /\ UNCHANGED <<run, bill, mailed>>
        /\ call' = [call EXCEPT ![c] = Free("items", call[c].window, call[c].todo)]
    BY <1>5 DEF Rollback, In, Remaining
  <2>2. bill' \in [Bills -> Bill]
    BY <2>1 DEF IInv, TypeOK
  <2> QED
    BY <1>0, <2>1, <2>2, FreeStep
<1>6. ASSUME NEW c \in Calls, NEW item \in call[c].todo, In(c, {"items"}), ItemStep(c, item)
      PROVE  IInv'
  <2>1. call[c] # None /\ item \in Candidate
    BY <1>0, <1>6 DEF In
  <2>2. CASE SkipItem(c, item)
    <3>1. /\ UNCHANGED <<run, bill, mailed>>
          /\ call' = [call EXCEPT ![c] = Free("items", call[c].window, call[c].todo \ {item})]
      BY <2>2 DEF SkipItem
    <3>2. bill' \in [Bills -> Bill] /\ call[c].todo \ {item} \in SUBSET Candidate
      BY <1>0, <2>1, <3>1 DEF IInv, TypeOK
    <3> QED
      BY <2>1, <3>1, <3>2, FreeStep
  <2> QED
    BY <1>6, <2>1, <2>2, MarkStep, CountStep DEF ItemStep
<1>7. CASE UNCHANGED vars
  BY <1>7 DEF vars, IInv, TypeOK, CallsGood, FreshWindows, LocksGood, Holds, In,
              OneCallPerWindow, MailedOncePerWindow
<1> QED
  BY <1>1, <1>2, <1>3, <1>4, <1>5, <1>6, <1>7, SendStep, CommitStep, StartStep, PaymentStep,
     WriteOffStep DEF Next, CallStep

LEMMA InitIInv == Init => IInv
<1>1. Row("pending_payment", 0, 0) \in Bill
  BY BoundAssumption DEF Bill, Row
<1>2. [status |-> "failed", retries |-> MaxRetries] \in Run
  BY BoundAssumption DEF Run
<1> QED
  BY <1>1, <1>2 DEF Init, IInv, TypeOK, CallsGood, FreshWindows, LocksGood, Holds, In,
                    OneCallPerWindow, MailedOncePerWindow, Windows

LEMMA IInvHolds == Spec => []IInv
  BY InitIInv, IInvStep, PTL DEF Spec

(* Rows of windows, calls and bills keep their shapes, and the counters of *)
(* retries and notices stay within their limits.                           *)
THEOREM WindowsTyped == Spec => []TypeOK
<1>1. IInv => TypeOK
  BY DEF IInv
<1> QED
  BY <1>1, IInvHolds, PTL

(* No two calls ever run the same window at once.                          *)
THEOREM WindowsExclusive == Spec => []OneCallPerWindow
<1>1. IInv => OneCallPerWindow
  BY DEF IInv
<1> QED
  BY <1>1, IInvHolds, PTL

(* Whatever is retried, crashes or gets lost, no window mails a bill twice.*)
THEOREM MailIdempotent == Spec => []MailedOncePerWindow
<1>1. IInv => MailedOncePerWindow
  BY DEF IInv
<1> QED
  BY <1>1, IInvHolds, PTL

(* The lock is held from the check of the bill to the mail.                *)
THEOREM NoMailAfterPayment == Spec => MailOnlyOverdue
<1> DEFINE A == \A w \in Reminders, b \in Bills : mailed'[w][b] # mailed[w][b] =>
                   bill[b].status = "overdue" /\ bill[b].notices < MaxNotices
<1>1. IInv /\ [Next]_vars => [A]_vars
  <2> SUFFICES ASSUME IInv, Next, NEW w \in Reminders, NEW b \in Bills,
                      mailed'[w][b] # mailed[w][b]
               PROVE  bill[b].status = "overdue" /\ bill[b].notices < MaxNotices
    OBVIOUS
  <2>1. PICK c \in Calls : SendOverdueBillReminder(c)
    BY DEF Next, CallStep, ItemStep, List, ListFails, Complete, Commit, Rollback,
           MarkBillOverdue, IncrementOverdueNoticeCount, SkipItem, Crash, Start, RecordPayment,
           WriteOffBills
  <2>2. Holds(c) /\ call[c].item.bill = b
    BY <2>1 DEF SendOverdueBillReminder, In, Holds, IInv, TypeOK
  <2> QED
    BY <2>2 DEF IInv, LocksGood
<1> QED
  BY <1>1, IInvHolds, PTL DEF Spec, MailOnlyOverdue

(***************************************************************************)
(* LeaseJobs.                                                              *)
(***************************************************************************)

(* What a call is doing, seen from the records of SchedulerRuns.           *)
LEMMA RunsType ==
    ASSUME TypeOK, NEW c \in Calls, NEW W \in SUBSET Windows, Runs(c, W)
    PROVE  call[c] # None /\ call[c] \in Call /\ call[c].phase = "items" /\ call[c].window \in W
BY InType DEF Runs, In

LEMMA OthersType == Notices \subseteq Windows /\ Compensations \subseteq Windows
BY OthersAssumption DEF Windows

(* A step that leaves the calls alone, but for their work, changes none of *)
(* the phases.                                                             *)
LEMMA RunsSame ==
    ASSUME UNCHANGED vars
    PROVE  \A c \in Calls : \A W : Runs(c, W)' <=> Runs(c, W)
BY DEF vars, Runs, In

(* A step of a call that runs neither of the two jobs.                     *)
LEMMA SchedulerSame ==
    ASSUME TypeOK, LeaseJobsTypeOK, NEW c \in Calls, SchedulerStep(c)
    PROVE  /\ UNCHANGED <<others, work, noticed, missed>>
           /\ \A d \in Calls : d # c => call'[d] = call[d]
           /\ ~Runs(c, Others) /\ ~Runs(c, Others)'
<1>1. UNCHANGED <<others, work, noticed, missed>>
  BY DEF SchedulerStep
<1>2. CASE \E w \in Windows : Start(c, w)
  <2>1. PICK w \in Windows : call[c] = None /\ call' = [call EXCEPT ![c] = Free("listing", w, {})]
    BY <1>2 DEF Start
  <2>2. Free("listing", w, {}).phase = "listing"
    BY FreeType
  <2> QED
    BY <1>1, <2>1, <2>2 DEF Runs, In, TypeOK
<1>3. CASE List(c) /\ call[c].window \notin Others
  <2>1. /\ call[c] # None /\ call[c].phase = "listing" /\ call[c] \in Call
        /\ call' = [call EXCEPT ![c] = Free("items", call[c].window, Candidates(call[c].window))]
    BY <1>3, InType DEF List, In
  <2>2. Free("items", call[c].window, Candidates(call[c].window)).window = call[c].window
    BY DEF Free
  <2> QED
    BY <1>1, <1>3, <2>1, <2>2 DEF Runs, In, TypeOK
<1>4. CASE SendOverdueBillReminder(c) \/ Commit(c) \/ Rollback(c)
  <2>1. /\ call[c] # None /\ call[c] \in Call /\ call[c].phase \in {"counted", "sent"}
        /\ call[c].window \in Reminders
    BY <1>4, InType, CallType DEF SendOverdueBillReminder, Commit, Sent, Rollback, In
  <2>2. \A d \in Calls : d # c => call'[d] = call[d]
    BY <1>4 DEF SendOverdueBillReminder, Commit, Rollback, TypeOK
  <2>3. call'[c].window = call[c].window
    BY <1>4, <2>1 DEF SendOverdueBillReminder, Commit, Rollback, Remaining, Free, Locking, TypeOK
  <2>4. call[c].window \notin Others
    BY <2>1, WindowAssumption
  <2> QED
    BY <1>1, <2>1, <2>2, <2>3, <2>4 DEF Runs, In
<1>5. CASE call[c].window \notin Others /\ In(c, {"items"}) /\ \E item \in call[c].todo : ItemStep(c, item)
  <2>1. PICK item \in call[c].todo : ItemStep(c, item)
    BY <1>5
  <2>2. call[c] # None /\ call[c] \in Call
    BY <1>5, InType DEF In
  <2>3. \A d \in Calls : d # c => call'[d] = call[d]
    BY <2>1 DEF ItemStep, MarkBillOverdue, IncrementOverdueNoticeCount, SkipItem, TypeOK
  <2>4. call'[c].window = call[c].window
    BY <2>1, <2>2 DEF ItemStep, MarkBillOverdue, IncrementOverdueNoticeCount, SkipItem,
                      Free, Locking, TypeOK
  <2> QED
    BY <1>1, <1>5, <2>2, <2>3, <2>4 DEF Runs, In
<1> QED
  BY <1>2, <1>3, <1>4, <1>5 DEF SchedulerStep

(* Every step of LeaseJobs keeps its types.                                *)
LEMMA SchedulerTypes ==
    ASSUME TypeOK, LeaseJobsTypeOK, NEW c \in Calls, SchedulerStep(c)
    PROVE  LeaseJobsTypeOK'
<1>1. /\ UNCHANGED <<others, work, noticed, missed>>
      /\ \A d \in Calls : d # c => call'[d] = call[d]
      /\ ~Runs(c, Others) /\ ~Runs(c, Others)'
  BY SchedulerSame
<1>2. work[c] = None
  BY <1>1 DEF LeaseJobsTypeOK
<1>3. \A d \in Calls : /\ Runs(d, Others)' <=> Runs(d, Others)
                       /\ Runs(d, Notices)' <=> Runs(d, Notices)
                       /\ Runs(d, Compensations)' <=> Runs(d, Compensations)
  BY <1>1, OthersAssumption DEF Runs, In
<1> QED
  BY <1>1, <1>3 DEF LeaseJobsTypeOK, others

(* What a call does next, but for its last step.                           *)
LEMMA WorkStep ==
    ASSUME TypeOK, LeaseJobsTypeOK, NEW c \in Calls, NEW v,
           work' = [work EXCEPT ![c] = v],
           \A d \in Calls : d # c => call'[d] = call[d],
           \/ Runs(c, Notices)' /\ v \in Noticing
           \/ Runs(c, Compensations)' /\ v \in Compensating
    PROVE  /\ work' \in [Calls -> Noticing \cup Compensating \cup {None}]
           /\ \A d \in Calls :
                  /\ Runs(d, Notices)' => work'[d] \in Noticing
                  /\ Runs(d, Compensations)' => work'[d] \in Compensating
                  /\ work'[d] # None => Runs(d, Others)'
<1>1. \A d \in Calls : work'[d] = IF d = c THEN v ELSE work[d]
  BY DEF LeaseJobsTypeOK
<1>2. work' \in [Calls -> Noticing \cup Compensating \cup {None}]
  BY DEF LeaseJobsTypeOK
<1>3. Runs(c, Others)' /\ ~(Runs(c, Notices)' /\ Runs(c, Compensations)')
  BY OthersAssumption DEF Runs, In
<1>4. \A d \in Calls : d # c =>
          /\ Runs(d, Others)' <=> Runs(d, Others)
          /\ Runs(d, Notices)' <=> Runs(d, Notices)
          /\ Runs(d, Compensations)' <=> Runs(d, Compensations)
  BY DEF Runs, In
<1> QED
  BY <1>1, <1>2, <1>3, <1>4 DEF LeaseJobsTypeOK

(* A call has listed what it is going to do.                               *)
LEMMA ListedRuns ==
    ASSUME TypeOK, NEW c \in Calls, List(c), NEW W \in SUBSET Windows
    PROVE  /\ \A d \in Calls : d # c => call'[d] = call[d]
           /\ call[c].window \in W => Runs(c, W)'
           /\ call'[c].window = call[c].window /\ ~Runs(c, Windows)
<1>1. /\ call[c] # None /\ call[c].phase = "listing" /\ call[c] \in Call
      /\ call' = [call EXCEPT ![c] = Free("items", call[c].window, Candidates(call[c].window))]
  BY InType DEF List, In
<1>2. /\ Free("items", call[c].window, Candidates(call[c].window)) # None
      /\ Free("items", call[c].window, Candidates(call[c].window)).phase = "items"
      /\ Free("items", call[c].window, Candidates(call[c].window)).window = call[c].window
  BY <1>1, CallType, CandidatesType, FreeType
<1> QED
  BY <1>1, <1>2 DEF Runs, In, TypeOK

(* A step in which a call only goes on with its work.                      *)
LEMMA GoType ==
    ASSUME TypeOK, LeaseJobsTypeOK, NEW c \in Calls, NEW v, Go(c, v),
           \/ Runs(c, Notices) /\ v \in Noticing
           \/ Runs(c, Compensations) /\ v \in Compensating
    PROVE  /\ work' \in [Calls -> Noticing \cup Compensating \cup {None}]
           /\ \A d \in Calls :
                  /\ Runs(d, Notices)' => work'[d] \in Noticing
                  /\ Runs(d, Compensations)' => work'[d] \in Compensating
                  /\ work'[d] # None => Runs(d, Others)'
<1>1. call' = call /\ work' = [work EXCEPT ![c] = v] /\ (Runs(c, Notices)' <=> Runs(c, Notices))
      /\ (Runs(c, Compensations)' <=> Runs(c, Compensations))
  BY DEF Go, vars, Runs, In
<1> QED
  BY <1>1, WorkStep

LEMMA NoticeTypes ==
    ASSUME TypeOK, LeaseJobsTypeOK, NEW c \in Calls,
           \/ ListLeaseExpiringSoonCandidates(c)
           \/ \E l \in Leases : ListLeaseExpiringSoonRecipients(c, l) \/ RecipientsFail(c, l)
           \/ \E p \in People : SendLeaseExpiringSoon(c, p)
    PROVE  LeaseJobsTypeOK'
<1>1. CASE ListLeaseExpiringSoonCandidates(c)
  <2>1. Notice(active, None, {}) \in Noticing /\ None \notin active
    BY NoneIsNoWork DEF Notice, Noticing, LeaseJobsTypeOK
  <2>2. Runs(c, Notices)' /\ \A d \in Calls : d # c => call'[d] = call[d]
    BY <1>1, ListedRuns, OthersType DEF ListLeaseExpiringSoonCandidates
  <2> QED
    BY <1>1, <2>1, <2>2, WorkStep DEF ListLeaseExpiringSoonCandidates, LeaseJobsTypeOK, others
<1>2. ASSUME NEW l \in Leases, ListLeaseExpiringSoonRecipients(c, l) \/ RecipientsFail(c, l)
      PROVE  LeaseJobsTypeOK'
  <2>1. Runs(c, Notices) /\ work[c] \in Noticing
    BY <1>2 DEF ListLeaseExpiringSoonRecipients, RecipientsFail, LeaseJobsTypeOK
  <2>2. PICK to \in SUBSET People : Go(c, Notice(work[c].left \ {l}, l, to))
    BY <1>2 DEF ListLeaseExpiringSoonRecipients, RecipientsFail, OtherLeases, LeaseJobsTypeOK
  <2> DEFINE v == Notice(work[c].left \ {l}, l, to)
  <2>3. v \in Noticing
    BY <2>1, NoneIsNoWork DEF Notice, Noticing
  <2>4. call[c].window \in Notices
    BY <2>1 DEF Runs
  <2>5. missed' \in [Notices -> SUBSET Leases] /\ UNCHANGED <<others, noticed>>
    BY <1>2, <2>4 DEF ListLeaseExpiringSoonRecipients, RecipientsFail, LeaseJobsTypeOK
  <2> HIDE DEF v
  <2> QED
    BY <2>1, <2>2, <2>3, <2>5, GoType DEF v, LeaseJobsTypeOK, others
<1>3. ASSUME NEW p \in People, SendLeaseExpiringSoon(c, p)
      PROVE  LeaseJobsTypeOK'
  <2> DEFINE v == Notice(work[c].left, work[c].lease, work[c].to \ {p})
  <2>1. Runs(c, Notices) /\ work[c] \in Noticing /\ Go(c, v)
    BY <1>3 DEF SendLeaseExpiringSoon, LeaseJobsTypeOK
  <2>2. v \in Noticing
    BY <2>1 DEF Notice, Noticing
  <2>3. PICK w \in Notices, l \in Leases : w = call[c].window /\ l = work[c].lease
    BY <1>3, <2>1 DEF SendLeaseExpiringSoon, Runs, Noticing
  <2>4. noticed' \in [Notices -> [Leases -> [People -> Nat]]]
    <3>1. noticed' = noticed \/ noticed' = [noticed EXCEPT ![w][l][p] = @ + 1]
      BY <1>3, <2>3 DEF SendLeaseExpiringSoon
    <3>2. noticed[w][l] \in [People -> Nat] /\ noticed[w] \in [Leases -> [People -> Nat]]
      BY DEF LeaseJobsTypeOK
    <3>3. [noticed[w][l] EXCEPT ![p] = @ + 1] \in [People -> Nat]
      BY <3>2
    <3>4. [noticed[w] EXCEPT ![l][p] = @ + 1] \in [Leases -> [People -> Nat]]
      BY <3>2, <3>3
    <3> QED
      BY <3>1, <3>4 DEF LeaseJobsTypeOK
  <2>5. missed' \in [Notices -> SUBSET Leases]
    <3>1. missed' = missed \/ missed' = [missed EXCEPT ![w] = @ \cup {l}]
      BY <1>3, <2>3 DEF SendLeaseExpiringSoon
    <3>2. missed \in [Notices -> SUBSET Leases]
      BY DEF LeaseJobsTypeOK
    <3>3. missed[w] \cup {l} \in SUBSET Leases
      BY <3>2
    <3> QED
      BY <3>1, <3>2, <3>3
  <2> HIDE DEF v
  <2> QED
    BY <1>3, <2>1, <2>2, <2>4, <2>5, GoType DEF SendLeaseExpiringSoon, LeaseJobsTypeOK, others
<1> QED
  BY <1>1, <1>2, <1>3

LEMMA CompensationTypes ==
    ASSUME TypeOK, LeaseJobsTypeOK, NEW c \in Calls,
           \/ ListInProgressForceTerminations(c)
           \/ \E f \in Terminations : ListPendingForceTerminationBillIDs(c, f)
           \/ CompleteForceTermination(c) \/ CompensationFails(c)
    PROVE  LeaseJobsTypeOK'
<1>1. CASE ListInProgressForceTerminations(c)
  <2> DEFINE v == Compensation({f \in Terminations : ~forced[f].completed}, None, {})
  <2>1. v \in Compensating
    BY NoneIsNoWork DEF Compensation, Compensating
  <2>2. Runs(c, Compensations)' /\ \A d \in Calls : d # c => call'[d] = call[d]
    BY <1>1, ListedRuns, OthersType DEF ListInProgressForceTerminations
  <2> HIDE DEF v
  <2> QED
    BY <1>1, <2>1, <2>2, WorkStep DEF v, ListInProgressForceTerminations, LeaseJobsTypeOK, others
<1>2. ASSUME NEW f \in Terminations, ListPendingForceTerminationBillIDs(c, f)
      PROVE  LeaseJobsTypeOK'
  <2> DEFINE v == Compensation(work[c].left \ {f}, f, forced[f].pending)
  <2>1. Runs(c, Compensations) /\ work[c] \in Compensating /\ Go(c, v)
    BY <1>2 DEF ListPendingForceTerminationBillIDs, LeaseJobsTypeOK
  <2>2. v \in Compensating
    BY <2>1 DEF Compensation, Compensating, LeaseJobsTypeOK, Termination
  <2> HIDE DEF v
  <2> QED
    BY <1>2, <2>1, <2>2, GoType DEF ListPendingForceTerminationBillIDs, LeaseJobsTypeOK, others
<1>3. CASE CompleteForceTermination(c)
  <2> DEFINE v == Compensation(work[c].left, None, {})
  <2>1. /\ Runs(c, Compensations) /\ work[c] \in Compensating /\ work[c].item \in Terminations
        /\ call' = call
    BY <1>3 DEF CompleteForceTermination, WriteOffBills, LeaseJobsTypeOK, Compensating
  <2>2. v \in Compensating
    BY <2>1, NoneIsNoWork DEF Compensation, Compensating
  <2>3. Runs(c, Compensations)' /\ work' = [work EXCEPT ![c] = v]
    BY <1>3, <2>1 DEF Runs, In, CompleteForceTermination
  <2>4. forced' \in [Terminations -> Termination]
    <3>1. [completed |-> TRUE, pending |-> forced[work[c].item].pending \ work[c].bills] \in Termination
      BY <2>1 DEF LeaseJobsTypeOK, Termination
    <3> QED
      BY <1>3, <2>1, <3>1 DEF CompleteForceTermination, LeaseJobsTypeOK
  <2> HIDE DEF v
  <2> QED
    BY <1>3, <2>1, <2>2, <2>3, <2>4, WorkStep DEF CompleteForceTermination, LeaseJobsTypeOK
<1>4. CASE CompensationFails(c)
  <2>1. Runs(c, Compensations) /\ work[c] \in Compensating
    BY <1>4 DEF CompensationFails, LeaseJobsTypeOK
  <2>2. PICK left \in SUBSET Terminations : Go(c, Compensation(left, None, {}))
    BY <1>4, <2>1 DEF CompensationFails, Compensating
  <2>3. Compensation(left, None, {}) \in Compensating
    BY NoneIsNoWork DEF Compensation, Compensating
  <2> QED
    BY <1>4, <2>1, <2>2, <2>3, GoType DEF CompensationFails, LeaseJobsTypeOK, others
<1> QED
  BY <1>1, <1>2, <1>3, <1>4

(* A call that ends leaves no work.                                        *)
LEMMA EndTypes ==
    ASSUME TypeOK, LeaseJobsTypeOK, NEW c \in Calls, Return(c) \/ CrashJob(c)
    PROVE  /\ LeaseJobsTypeOK'
           /\ call' = [call EXCEPT ![c] = None] /\ work' = [work EXCEPT ![c] = None]
           /\ call[c] # None /\ UNCHANGED <<bill, mailed, others, noticed, missed>>
<1>1. /\ call' = [call EXCEPT ![c] = None] /\ work' = [work EXCEPT ![c] = None]
      /\ call[c] # None /\ UNCHANGED <<bill, mailed, others, noticed, missed>>
  BY DEF Return, CrashJob, Ended, ListFails, Complete, Crash, In
<1>2. \A d \in Calls : /\ call'[d] = (IF d = c THEN None ELSE call[d])
                       /\ work'[d] = (IF d = c THEN None ELSE work[d])
  BY <1>1 DEF TypeOK, LeaseJobsTypeOK
<1>3. /\ ~Runs(c, Others)' /\ ~Runs(c, Notices)' /\ ~Runs(c, Compensations)'
      /\ \A d \in Calls : d # c => /\ Runs(d, Others)' <=> Runs(d, Others)
                                   /\ Runs(d, Notices)' <=> Runs(d, Notices)
                                   /\ Runs(d, Compensations)' <=> Runs(d, Compensations)
  BY <1>2 DEF Runs, In
<1>4. work' \in [Calls -> Noticing \cup Compensating \cup {None}]
  BY <1>1 DEF LeaseJobsTypeOK
<1> QED
  BY <1>1, <1>2, <1>3, <1>4 DEF LeaseJobsTypeOK, others

LEMMA JobsTypes == TypeOK /\ LeaseJobsTypeOK /\ [JobsNext]_jobVars => LeaseJobsTypeOK'
<1> SUFFICES ASSUME TypeOK, LeaseJobsTypeOK, [JobsNext]_jobVars PROVE LeaseJobsTypeOK'
  OBVIOUS
<1>1. ASSUME call' = call, work' = work
      PROVE  \A d \in Calls : /\ Runs(d, Others)' <=> Runs(d, Others)
                              /\ Runs(d, Notices)' <=> Runs(d, Notices)
                              /\ Runs(d, Compensations)' <=> Runs(d, Compensations)
  BY <1>1 DEF Runs, In
<1>2. CASE UNCHANGED jobVars
  BY <1>1, <1>2 DEF jobVars, vars, others, LeaseJobsTypeOK
<1>3. ASSUME NEW l \in Leases, EndLease(l)
      PROVE  LeaseJobsTypeOK'
  BY <1>1, <1>3 DEF EndLease, vars, LeaseJobsTypeOK
<1>4. ASSUME NEW p \in People, Reassign(p)
      PROVE  LeaseJobsTypeOK'
  BY <1>1, <1>4 DEF Reassign, vars, LeaseJobsTypeOK
<1>5. ASSUME NEW b \in Bills, RecordPayment(b), UNCHANGED <<others, work, noticed, missed>>
      PROVE  LeaseJobsTypeOK'
  BY <1>1, <1>5 DEF RecordPayment, others, LeaseJobsTypeOK
<1> QED
  BY <1>2, <1>3, <1>4, <1>5, SchedulerTypes, NoticeTypes, CompensationTypes, EndTypes
     DEF JobsNext, LeaseJobStep

(* Whatever the jobs on leases do, their calls are calls of SchedulerRuns, *)
(* so that all that is proved of those holds of them too.                  *)
LEMMA JobsStep == LeaseJobsTypeOK /\ [JobsNext]_jobVars => [Next]_vars
<1> SUFFICES ASSUME LeaseJobsTypeOK, [JobsNext]_jobVars PROVE [Next]_vars
  OBVIOUS
<1>1. CASE UNCHANGED jobVars
  BY <1>1 DEF jobVars
<1>2. ASSUME NEW c \in Calls, SchedulerStep(c) PROVE Next
  BY <1>2 DEF SchedulerStep, Next, CallStep
<1>3. ASSUME NEW c \in Calls, LeaseJobStep(c) PROVE Next \/ UNCHANGED vars
  <2>1. CASE CompleteForceTermination(c)
    <3>1. work[c].bills \in SUBSET Bills
      BY <2>1 DEF CompleteForceTermination, LeaseJobsTypeOK, Compensating
    <3> QED
      BY <2>1, <3>1 DEF CompleteForceTermination, Next
  <2>2. CASE ListLeaseExpiringSoonCandidates(c) \/ ListInProgressForceTerminations(c)
    BY <2>2 DEF ListLeaseExpiringSoonCandidates, ListInProgressForceTerminations, Next, CallStep
  <2> QED
    BY <1>3, <2>1, <2>2 DEF LeaseJobStep, ListLeaseExpiringSoonRecipients, RecipientsFail,
       SendLeaseExpiringSoon, ListPendingForceTerminationBillIDs, CompensationFails, Go
<1>4. ASSUME NEW c \in Calls, Return(c) \/ CrashJob(c) PROVE Next
  BY <1>4 DEF Return, CrashJob, Next, CallStep
<1> QED
  BY <1>1, <1>2, <1>3, <1>4 DEF JobsNext, EndLease, Reassign, Next

LEMMA JobsTyped == JobsSpec => []LeaseJobsTypeOK /\ [][Next]_vars /\ []IInv
<1>1. JobsInit => LeaseJobsTypeOK /\ Init
  BY NoneIsNoWork DEF JobsInit, LeaseJobsTypeOK, Termination, Init, Runs, In
<1>2. TypeOK /\ LeaseJobsTypeOK /\ [JobsNext]_jobVars => LeaseJobsTypeOK' /\ [Next]_vars
  BY JobsTypes, JobsStep
<1>3. IInv => TypeOK
  BY DEF IInv
<1>4. Init => IInv
  BY InitIInv
<1> QED
  BY <1>1, <1>2, <1>3, <1>4, IInvStep, PTL DEF JobsSpec

(* The scheduler's jobs on leases run by the rules of SchedulerRuns.       *)
THEOREM JobsAreScheduled == JobsSpec => Spec
<1>1. JobsInit => Init
  BY DEF JobsInit
<1> QED
  BY <1>1, JobsTyped, PTL DEF Spec, JobsSpec

(* A call does lease or compensation work only in a window of that job.    *)
THEOREM LeaseJobsTyped == JobsSpec => []LeaseJobsTypeOK
BY JobsTyped, PTL

(* A bill that is paid or written off is that for good: the status is      *)
(* compared again where a job writes a bill it has listed before.          *)
LEMMA SettledStays ==
    ASSUME IInv, [Next]_vars, NEW b \in Bills, bill[b].status \in {"paid", "written_off"}
    PROVE  \/ bill'[b].status = bill[b].status
           \/ bill[b].status # "paid" /\ bill'[b].status = "written_off"
<1>1. CASE UNCHANGED vars
  BY <1>1 DEF vars
<1>2. ASSUME NEW c \in Calls, Commit(c)
      PROVE  bill'[b] = bill[b]
  <2>1. Holds(c)
    BY <1>2 DEF Commit, Sent, Holds, In
  <2>2. call[c].item.bill # b
    BY <2>1 DEF IInv, LocksGood
  <2> QED
    BY <1>2, <2>2 DEF Commit, IInv, TypeOK
<1>3. ASSUME NEW c \in Calls, NEW item \in Candidate, MarkBillOverdue(c, item)
      PROVE  bill'[b] = bill[b]
  <2>1. item.bill # b
    BY <1>3 DEF MarkBillOverdue, Current, Due
  <2> QED
    BY <1>3, <2>1 DEF MarkBillOverdue, IInv, TypeOK
<1>4. ASSUME NEW c \in Calls, In(c, {"items"}), NEW item \in call[c].todo, ItemStep(c, item)
      PROVE  bill'[b] = bill[b]
  <2>1. item \in Candidate
    BY <1>4, InType, CallType DEF In, IInv
  <2> QED
    BY <1>3, <1>4, <2>1 DEF ItemStep, IncrementOverdueNoticeCount, SkipItem
<1>5. ASSUME NEW a \in Bills, RecordPayment(a)
      PROVE  bill'[b] = bill[b]
  BY <1>5 DEF RecordPayment, IInv, TypeOK
<1>6. ASSUME NEW B \in SUBSET Bills, WriteOffBills(B)
      PROVE  \/ bill'[b] = bill[b]
             \/ bill[b].status # "paid" /\ bill'[b].status = "written_off"
  <2>1. bill'[b] = IF b \in B /\ bill[b].status # "paid"
                   THEN Row("written_off", bill[b].notices, bill[b].version + 1) ELSE bill[b]
    BY <1>6 DEF WriteOffBills, WrittenOff
  <2> QED
    BY <2>1 DEF Row
<1> QED
  BY <1>1, <1>2, <1>4, <1>5, <1>6
     DEF Next, CallStep, List, ListFails, Complete, SendOverdueBillReminder, Rollback, Crash, Start

(* No job undoes a payment.                                                *)
THEOREM PaymentsStand == JobsSpec => PaidStaysPaid
<1> DEFINE A == \A b \in Bills : bill[b].status = "paid" => bill'[b].status = "paid"
<1>1. IInv /\ [Next]_vars => [A]_vars
  BY SettledStays
<1> QED
  BY <1>1, JobsTyped, PTL DEF PaidStaysPaid

(***************************************************************************)
(* A forced termination is completed together with its bills: the call     *)
(* that has it holds the list of its pending bills, and is the only one.   *)
(***************************************************************************)
Has(c, f) == Runs(c, Compensations) /\ work[c].item = f

ListsHeld ==
    /\ \A c \in Calls, f \in Terminations : Has(c, f) => work[c].bills = forced[f].pending
    /\ \A c, d \in Calls, f \in Terminations : Has(c, f) /\ Has(d, f) => c = d

CInv == LeaseJobsTypeOK /\ ListsHeld /\ CompletedWhenWrittenOff

(* A step that takes up no termination keeps the lists.                    *)
LEMMA ListsKept ==
    ASSUME ListsHeld, forced' = forced,
           \A c \in Calls, f \in Terminations : Has(c, f)' => Has(c, f) /\ work'[c] = work[c]
    PROVE  ListsHeld'
BY DEF ListsHeld

(* Bills only ever become written off for good.                            *)
LEMMA CompletedKept ==
    ASSUME IInv, [Next]_vars, CompletedWhenWrittenOff, forced' = forced
    PROVE  CompletedWhenWrittenOff'
BY SettledStays DEF CompletedWhenWrittenOff

LEMMA CompensationStep ==
    ASSUME IInv, CInv, NEW c \in Calls, CompleteForceTermination(c)
    PROVE  ListsHeld' /\ CompletedWhenWrittenOff'
<1>1. PICK f \in Terminations : f = work[c].item /\ Has(c, f) /\ f # None
  BY DEF CompleteForceTermination, CInv, LeaseJobsTypeOK, Compensating, Has
<1>2. work[c].bills = forced[f].pending
  BY <1>1 DEF CInv, ListsHeld
<1>3. /\ call' = call
      /\ \A d \in Calls : work'[d] = IF d = c THEN Compensation(work[c].left, None, {}) ELSE work[d]
  BY DEF CompleteForceTermination, WriteOffBills, CInv, LeaseJobsTypeOK
<1>4. \A g \in Terminations : forced'[g] =
          IF g = f THEN [completed |-> TRUE, pending |-> {}] ELSE forced[g]
  <2>1. forced' = [forced EXCEPT ![f] = [completed |-> TRUE, pending |-> @.pending \ work[c].bills]]
    BY <1>1 DEF CompleteForceTermination
  <2> QED
    BY <1>2, <2>1 DEF CInv, LeaseJobsTypeOK
<1>5. \A d \in Calls, g \in Terminations : Has(d, g)' => d # c /\ Has(d, g) /\ work'[d] = work[d] /\ g # f
  <2>1. ~ \E g \in Terminations : Has(c, g)'
    BY <1>3, NoneIsNoWork DEF Has, Compensation
  <2>2. \A d \in Calls, g \in Terminations : Has(d, g)' => d # c /\ Has(d, g)
    BY <1>3, <2>1 DEF Has, Runs, In
  <2> QED
    BY <1>1, <1>3, <2>2 DEF CInv, ListsHeld
<1>6. ListsHeld'
  BY <1>4, <1>5 DEF CInv, ListsHeld
<1>7. \A b \in Bills : bill[b].status = "written_off" => bill'[b].status = "written_off"
  BY SettledStays, JobsStep DEF CInv, JobsNext, LeaseJobStep
<1>8. \A b \in forced[f].pending : bill'[b].status = "written_off"
  <2>1. \A b \in work[c].bills : bill[b].status # "paid" /\ b \in Bills
    BY <1>1, <1>2 DEF CompleteForceTermination, AllUpdated, WrittenOff, CInv, LeaseJobsTypeOK,
                      Termination
  <2>2. \A b \in work[c].bills :
            bill'[b] = Row("written_off", bill[b].notices, bill[b].version + 1)
    BY <2>1 DEF CompleteForceTermination, WriteOffBills, WrittenOff
  <2>3. ASSUME NEW b \in work[c].bills
        PROVE  bill'[b].status = "written_off"
    <3>1. bill'[b] = Row("written_off", bill[b].notices, bill[b].version + 1)
      BY <2>2
    <3>2. Row("written_off", bill[b].notices, bill[b].version + 1).status = "written_off"
      BY DEF Row
    <3> QED
      BY <3>1, <3>2
  <2> QED
    BY <1>2, <2>3
<1>9. \A b \in Bills : bill'[b].status = "written_off"
  BY <1>7, <1>8 DEF CInv, CompletedWhenWrittenOff
<1> QED
  BY <1>4, <1>6, <1>9 DEF CInv, CompletedWhenWrittenOff

LEMMA CInvStep ==
    ASSUME IInv, CInv, [JobsNext]_jobVars
    PROVE  CInv'
<1>1. LeaseJobsTypeOK' /\ [Next]_vars
  BY JobsTypes, JobsStep DEF CInv, IInv
<1>2. ASSUME forced' = forced, ListsHeld'
      PROVE  CInv'
  BY <1>1, <1>2, CompletedKept DEF CInv
<1>3. ASSUME forced' = forced, call' = call, work' = work
      PROVE  CInv'
  <2>1. \A c \in Calls, f \in Terminations : Has(c, f)' => Has(c, f) /\ work'[c] = work[c]
    BY <1>3 DEF Has, Runs, In
  <2> QED
    BY <1>2, <1>3, <2>1, ListsKept DEF CInv
<1>4. ASSUME NEW c \in Calls, SchedulerStep(c)
      PROVE  CInv'
  <2>1. /\ forced' = forced /\ work' = work /\ \A d \in Calls : d # c => call'[d] = call[d]
        /\ ~Runs(c, Others)'
    BY <1>4, SchedulerSame DEF CInv, IInv, others
  <2>2. \A d \in Calls, f \in Terminations : Has(d, f)' => Has(d, f) /\ work'[d] = work[d]
    BY <2>1, OthersAssumption DEF Has, Runs, In
  <2> QED
    BY <1>2, <2>1, <2>2, ListsKept DEF CInv
<1>5. ASSUME NEW c \in Calls, Return(c) \/ CrashJob(c)
      PROVE  CInv'
  <2>1. forced' = forced /\ call' = [call EXCEPT ![c] = None] /\ work' = [work EXCEPT ![c] = None]
    BY <1>5, EndTypes DEF CInv, IInv, others
  <2>2. \A d \in Calls, f \in Terminations : Has(d, f)' => Has(d, f) /\ work'[d] = work[d]
    BY <2>1 DEF Has, Runs, In, CInv, LeaseJobsTypeOK, IInv, TypeOK
  <2> QED
    BY <1>2, <2>1, <2>2, ListsKept DEF CInv
<1>6. ASSUME NEW c \in Calls, LeaseJobStep(c)
      PROVE  CInv'
  <2>1. CASE ListLeaseExpiringSoonCandidates(c) \/ ListInProgressForceTerminations(c)
    <3>1. List(c) /\ forced' = forced /\ \E v : work' = [work EXCEPT ![c] = v]
                                                /\ (v.item = None \/ call[c].window \in Notices)
      <4>1. CASE ListLeaseExpiringSoonCandidates(c)
        BY <4>1 DEF ListLeaseExpiringSoonCandidates, others
      <4>2. CASE ListInProgressForceTerminations(c)
        <5> DEFINE v == Compensation({f \in Terminations : ~forced[f].completed}, None, {})
        <5>1. v.item = None
          BY DEF Compensation
        <5>2. List(c) /\ forced' = forced /\ work' = [work EXCEPT ![c] = v]
          BY <4>2 DEF ListInProgressForceTerminations, others
        <5> HIDE DEF v
        <5> QED
          BY <5>1, <5>2
      <4> QED
        BY <2>1, <4>1, <4>2
    <3>2. /\ \A d \in Calls : d # c => call'[d] = call[d] /\ work'[d] = work[d]
          /\ call'[c].window = call[c].window
      BY <3>1, ListedRuns DEF IInv, CInv, LeaseJobsTypeOK
    <3>3. \A f \in Terminations : ~Has(c, f)'
      BY <3>1, <3>2, OthersAssumption, NoneIsNoWork DEF Has, Runs, CInv, LeaseJobsTypeOK
    <3>4. \A d \in Calls, f \in Terminations : Has(d, f)' => Has(d, f) /\ work'[d] = work[d]
      BY <3>2, <3>3 DEF Has, Runs, In
    <3> QED
      BY <1>2, <3>1, <3>4, ListsKept DEF CInv
  <2>2. CASE \/ \E l \in Leases : ListLeaseExpiringSoonRecipients(c, l) \/ RecipientsFail(c, l)
             \/ \E p \in People : SendLeaseExpiringSoon(c, p)
    <3>1. /\ call' = call /\ forced' = forced /\ Runs(c, Notices)
          /\ \A d \in Calls : d # c => work'[d] = work[d]
      BY <2>2 DEF ListLeaseExpiringSoonRecipients, RecipientsFail, SendLeaseExpiringSoon,
                  Go, vars, others, CInv, LeaseJobsTypeOK
    <3>2. ~Runs(c, Compensations)
      BY <3>1, OthersAssumption DEF Runs
    <3>3. \A d \in Calls, f \in Terminations : Has(d, f)' => Has(d, f) /\ work'[d] = work[d]
      BY <3>1, <3>2 DEF Has, Runs, In
    <3> QED
      BY <1>2, <3>1, <3>3, ListsKept DEF CInv
  <2>3. ASSUME NEW f \in Terminations, ListPendingForceTerminationBillIDs(c, f)
        PROVE  CInv'
    <3>1. /\ call' = call /\ forced' = forced /\ LockedBy(f) = {}
          /\ \A d \in Calls : work'[d] = IF d = c THEN Compensation(work[c].left \ {f}, f, forced[f].pending)
                                                  ELSE work[d]
      BY <2>3 DEF ListPendingForceTerminationBillIDs, Go, vars, others, CInv, LeaseJobsTypeOK
    <3>2. /\ \A g \in Terminations : Has(c, g)' => g = f /\ work'[c].bills = forced[f].pending
          /\ \A d \in Calls, g \in Terminations : d # c => (Has(d, g)' <=> Has(d, g))
          /\ \A d \in Calls : ~Has(d, f)
      BY <3>1 DEF Has, Runs, In, LockedBy, Compensation
    <3>3. ListsHeld'
      BY <3>1, <3>2 DEF CInv, ListsHeld
    <3> QED
      BY <1>2, <3>1, <3>3
  <2>4. CASE CompensationFails(c)
    <3>1. PICK left : Go(c, Compensation(left, None, {}))
      BY <2>4 DEF CompensationFails
    <3>2. /\ call' = call /\ forced' = forced
          /\ \A d \in Calls : work'[d] = IF d = c THEN Compensation(left, None, {}) ELSE work[d]
      BY <2>4, <3>1 DEF CompensationFails, Go, vars, others, CInv, LeaseJobsTypeOK
    <3>3. \A d \in Calls, f \in Terminations : Has(d, f)' => Has(d, f) /\ work'[d] = work[d]
      BY <3>2, NoneIsNoWork DEF Has, Runs, In, Compensation
    <3> QED
      BY <1>2, <3>2, <3>3, ListsKept DEF CInv
  <2>5. CASE CompleteForceTermination(c)
    BY <1>1, <2>5, CompensationStep DEF CInv
  <2> QED
    BY <1>6, <2>1, <2>2, <2>3, <2>4, <2>5 DEF LeaseJobStep
<1>7. CASE UNCHANGED jobVars
  BY <1>3, <1>7 DEF jobVars, vars, others
<1> QED
  BY <1>3, <1>4, <1>5, <1>6, <1>7 DEF JobsNext, EndLease, Reassign, RecordPayment, vars, others

(* A forced termination is completed with all of its bills or with none.   *)
THEOREM ForcedWithBills == JobsSpec => []CompletedWhenWrittenOff
<1>1. JobsInit => CInv
  BY NoneIsNoWork DEF JobsInit, CInv, LeaseJobsTypeOK, Termination, Init, Runs, In, ListsHeld,
                      Has, CompletedWhenWrittenOff
<1>2. CInv => CompletedWhenWrittenOff
  BY DEF CInv
<1> QED
  BY <1>1, <1>2, CInvStep, JobsTyped, PTL DEF JobsSpec
(***************************************************************************)
(* What the rows say of mails was mailed.  A notice is counted on a bill   *)
(* only when its mail is out, so that one mailed and not counted yet is    *)
(* one to spare.                                                           *)
(***************************************************************************)
Mailers(b) == {w \in Reminders : mailed[w][b] > 0}
Sending(c, b) == In(c, {"sent"}) /\ call[c].item.bill = b

Counted(b) ==
    /\ IsFiniteSet(Mailers(b))
    /\ bill[b].notices <= Cardinality(Mailers(b))
    /\ (\E c \in Calls : Sending(c, b)) => bill[b].notices < Cardinality(Mailers(b))

NoticesCounted == \A b \in Bills : Counted(b)

(* A step that mails nothing and counts nothing on b.                      *)
LEMMA CountedKept ==
    ASSUME NEW b \in Bills, Counted(b), mailed' = mailed, bill'[b].notices = bill[b].notices,
           \A c \in Calls : Sending(c, b)' => Sending(c, b)
    PROVE  Counted(b)'
BY DEF Counted, Mailers

LEMMA SendCounted ==
    ASSUME IInv, NoticesCounted, NEW c \in Calls, SendOverdueBillReminder(c)
    PROVE  NoticesCounted'
<1>1. /\ call[c] # None /\ call[c] \in Call /\ call[c].phase = "counted" /\ Holds(c)
      /\ call[c].window \in Reminders /\ call[c].item \in Candidate
  BY InType, CallType DEF SendOverdueBillReminder, In, Holds, IInv
<1>2. PICK w \in Reminders, b \in Bills : w = call[c].window /\ b = call[c].item.bill
  BY <1>1 DEF Candidate
<1>3. /\ \A v \in Reminders, x \in Bills :
             mailed'[v][x] = IF v = w /\ x = b THEN mailed[w][b] + 1 ELSE mailed[v][x]
      /\ mailed[w][b] = 0 /\ bill' = bill
  BY <1>1, <1>2 DEF SendOverdueBillReminder, IInv, TypeOK, CallsGood, Good
<1>4. /\ \A d \in Calls : d # c => call'[d] = call[d]
      /\ call'[c] = Locking("sent", call[c].window, call[c].todo, call[c].item)
  BY DEF SendOverdueBillReminder, IInv, TypeOK
<1>5. call'[c].item = call[c].item
  BY <1>4 DEF Locking
<1>6. ASSUME NEW x \in Bills, x # b
      PROVE  Counted(x)'
  <2>1. Mailers(x)' = Mailers(x)
    BY <1>3, <1>6 DEF Mailers
  <2>2. \A d \in Calls : Sending(d, x)' => Sending(d, x)
    BY <1>2, <1>4, <1>5, <1>6 DEF Sending, In
  <2> QED
    BY <1>3, <2>1, <2>2 DEF NoticesCounted, Counted
<1>7. Counted(b)'
  <2>1. Mailers(b)' = Mailers(b) \cup {w} /\ w \notin Mailers(b)
    BY <1>3 DEF Mailers, IInv, TypeOK
  <2>2. IsFiniteSet(Mailers(b)) /\ bill[b].notices <= Cardinality(Mailers(b))
    BY DEF NoticesCounted, Counted
  <2>3. /\ IsFiniteSet(Mailers(b)') /\ Cardinality(Mailers(b)') = Cardinality(Mailers(b)) + 1
        /\ Cardinality(Mailers(b)) \in Nat
    BY <2>1, <2>2, FS_AddElement, FS_CardinalityType
  <2>4. bill[b].notices \in Nat
    BY BoundAssumption DEF IInv, TypeOK, Bill
  <2> QED
    BY <1>3, <2>2, <2>3, <2>4 DEF Counted
<1> QED
  BY <1>6, <1>7 DEF NoticesCounted

LEMMA CommitCounted ==
    ASSUME IInv, NoticesCounted, NEW c \in Calls, Commit(c)
    PROVE  NoticesCounted'
<1>1. /\ call[c] # None /\ call[c] \in Call /\ Holds(c)
      /\ call[c].item \in Candidate /\ call[c].todo \in SUBSET Candidate
  BY InType, CallType DEF Commit, Sent, In, Holds, IInv
<1>2. PICK b \in Bills : b = call[c].item.bill
  BY <1>1 DEF Candidate
<1>3. /\ mailed' = mailed /\ \A d \in Calls : d # c => call'[d] = call[d]
      /\ \A x \in Bills : x # b => bill'[x] = bill[x]
      /\ bill'[b].notices = bill[b].notices + 1
  BY <1>2 DEF Commit, IInv, TypeOK, Row
<1>4. ~In(c, {"sent"})'
  <2>1. call'[c] = Free("items", call[c].window, call[c].todo)
    BY DEF Commit, Remaining, IInv, TypeOK
  <2> QED
    BY <1>1, <2>1, CallType, FreeType DEF In
<1>5. \A d \in Calls, x \in Bills : Sending(d, x)' => d # c /\ Sending(d, x)
  BY <1>3, <1>4 DEF Sending, In
<1>6. ~\E d \in Calls : Sending(d, b)'
  BY <1>1, <1>2, <1>5 DEF IInv, LocksGood, Holds, Sending, In
<1>7. Counted(b)'
  <2>1. Sending(c, b)
    BY <1>2 DEF Commit, Sent, Sending
  <2>2. IsFiniteSet(Mailers(b)) /\ bill[b].notices < Cardinality(Mailers(b))
    BY <2>1 DEF NoticesCounted, Counted
  <2>3. bill[b].notices \in Nat /\ Cardinality(Mailers(b)) \in Nat
    BY <2>2, FS_CardinalityType, BoundAssumption DEF IInv, TypeOK, Bill
  <2>4. Mailers(b)' = Mailers(b)
    BY <1>3 DEF Mailers
  <2> QED
    BY <1>3, <1>6, <2>2, <2>3, <2>4 DEF Counted
<1>8. ASSUME NEW x \in Bills, x # b
      PROVE  Counted(x)'
  BY <1>3, <1>5, <1>8, CountedKept DEF NoticesCounted
<1> QED
  BY <1>7, <1>8 DEF NoticesCounted

LEMMA NoticesCountedStep == IInv /\ NoticesCounted /\ [Next]_vars => NoticesCounted'
<1> SUFFICES ASSUME IInv, NoticesCounted, [Next]_vars PROVE NoticesCounted'
  OBVIOUS
<1>1. ASSUME NEW c \in Calls, mailed' = mailed, \A b \in Bills : bill'[b].notices = bill[b].notices,
             \A d \in Calls : d # c => call'[d] = call[d], ~In(c, {"sent"})'
      PROVE  NoticesCounted'
  <2>1. \A b \in Bills, d \in Calls : Sending(d, b)' => Sending(d, b)
    BY <1>1 DEF Sending, In
  <2> QED
    BY <1>1, <2>1, CountedKept DEF NoticesCounted
<1>2. ASSUME mailed' = mailed, call' = call, \A b \in Bills : bill'[b].notices = bill[b].notices
      PROVE  NoticesCounted'
  BY <1>2, CountedKept DEF NoticesCounted, Sending, In
<1>3. ASSUME NEW c \in Calls, NEW p \in {"listing", "items"}, NEW w \in Windows,
             NEW T \in SUBSET Candidate, call' = [call EXCEPT ![c] = Free(p, w, T)],
             mailed' = mailed, \A b \in Bills : bill'[b].notices = bill[b].notices
      PROVE  NoticesCounted'
  <2>1. call'[c] = Free(p, w, T) /\ \A d \in Calls : d # c => call'[d] = call[d]
    BY <1>3 DEF IInv, TypeOK
  <2> QED
    BY <1>1, <1>3, <2>1, FreeType DEF In
<1>4. ASSUME NEW c \in Calls, call' = [call EXCEPT ![c] = None], UNCHANGED <<mailed, bill>>
      PROVE  NoticesCounted'
  <2>1. call'[c] = None /\ \A d \in Calls : d # c => call'[d] = call[d]
    BY <1>4 DEF IInv, TypeOK
  <2> QED
    BY <1>1, <1>4, <2>1 DEF In
<1>5. ASSUME NEW c \in Calls, List(c) \/ Rollback(c) \/ \E w \in Windows : Start(c, w)
      PROVE  NoticesCounted'
  <2>1. CASE List(c)
    <3>1. call[c] \in Call /\ Candidates(call[c].window) \in SUBSET Candidate
      BY <2>1, InType, CallType, CandidatesType DEF List, In, IInv
    <3> QED
      BY <1>3, <2>1, <3>1, CallType DEF List
  <2>2. CASE Rollback(c)
    <3>1. call[c] \in Call
      BY <2>2, InType DEF Rollback, In, IInv
    <3> QED
      BY <1>3, <2>2, <3>1, CallType DEF Rollback, Remaining
  <2>3. ASSUME NEW w \in Windows, Start(c, w)
        PROVE  NoticesCounted'
    <3>1. /\ call' = [call EXCEPT ![c] = Free("listing", w, {})] /\ {} \in SUBSET Candidate
          /\ UNCHANGED <<bill, mailed>>
      BY <2>3 DEF Start
    <3> QED
      BY <1>3, <3>1
  <2> QED
    BY <1>5, <2>1, <2>2, <2>3
<1>6. ASSUME NEW c \in Calls, In(c, {"items"}), NEW item \in call[c].todo, ItemStep(c, item)
      PROVE  NoticesCounted'
  <2>1. /\ call[c] \in Call /\ item \in Candidate /\ item.bill \in Bills
        /\ call[c].window \in Windows /\ call[c].todo \ {item} \in SUBSET Candidate
    BY <1>6, InType, CallType DEF In, IInv, Candidate
  <2>2. CASE MarkBillOverdue(c, item)
    <3>1. \A b \in Bills : bill'[b].notices = bill[b].notices
      BY <2>1, <2>2 DEF MarkBillOverdue, Row, IInv, TypeOK
    <3> QED
      BY <1>3, <2>1, <2>2, <3>1 DEF MarkBillOverdue
  <2>3. CASE IncrementOverdueNoticeCount(c, item)
    <3>1. /\ call'[c] = Locking("counted", call[c].window, call[c].todo \ {item}, item)
          /\ \A d \in Calls : d # c => call'[d] = call[d]
      BY <2>3 DEF IncrementOverdueNoticeCount, IInv, TypeOK
    <3>2. ~In(c, {"sent"})'
      BY <3>1 DEF Locking, In
    <3> QED
      BY <1>1, <2>3, <3>1, <3>2 DEF IncrementOverdueNoticeCount
  <2>4. CASE SkipItem(c, item)
    BY <1>3, <2>1, <2>4 DEF SkipItem
  <2> QED
    BY <1>6, <2>2, <2>3, <2>4 DEF ItemStep
<1>7. ASSUME NEW b \in Bills, RecordPayment(b)
      PROVE  NoticesCounted'
  BY <1>2, <1>7 DEF RecordPayment, Row, IInv, TypeOK
<1>8. ASSUME NEW B \in SUBSET Bills, WriteOffBills(B)
      PROVE  NoticesCounted'
  <2>1. \A b \in Bills : bill'[b].notices = bill[b].notices
    BY <1>8 DEF WriteOffBills, WrittenOff, Row
  <2> QED
    BY <1>2, <1>8, <2>1 DEF WriteOffBills
<1>9. CASE UNCHANGED vars
  BY <1>2, <1>9 DEF vars
<1> QED
  BY <1>4, <1>5, <1>6, <1>7, <1>8, <1>9, SendCounted, CommitCounted
     DEF Next, CallStep, ListFails, Complete, Crash
(***************************************************************************)
(* The notices about leases, of which nothing is on record: a window that  *)
(* may still be run has sent none, and the call that runs it knows whom it *)
(* has not told yet.                                                       *)
(***************************************************************************)
Untold(w, L) == \A l \in L, p \in People : noticed[w][l][p] = 0
Told(w, L) == \A l \in L \ missed[w], p \in staff \ moved : noticed[w][l][p] = 1

RowsTold(w) ==
    /\ \A l \in Leases, p \in People : noticed[w][l][p] <= 1
    /\ run[w] = None \/ run[w].status = "failed" => Untold(w, Leases)
    /\ run[w] # None /\ run[w].status = "completed" => Told(w, active)

(* Work k of window w: who is left, and whom it has told.                  *)
WorkTold(w, k) ==
    /\ Untold(w, k.left)
    /\ \A p \in k.to : noticed[w][k.lease][p] = 0
    /\ Told(w, active \ (k.left \cup {k.lease}))
    /\ k.lease \in active \ missed[w] =>
           \A p \in staff \ (moved \cup k.to) : noticed[w][k.lease][p] = 1

CallTold(c) ==
    /\ In(c, {"listing"}) => Untold(call[c].window, Leases)
    /\ In(c, {"items"}) => WorkTold(call[c].window, work[c])

NInv ==
    /\ LeaseJobsTypeOK
    /\ \A w \in Notices : RowsTold(w)
    /\ \A c \in Calls : call[c] # None /\ call[c].window \in Notices => CallTold(c)

(* Leases end and people move away: fewer are to be told.                  *)
LEMMA FewerToTell ==
    ASSUME NEW w, UNCHANGED noticed, active' \subseteq active, staff' \ moved' \subseteq staff \ moved,
           missed[w] \subseteq missed'[w]
    PROVE  /\ \A L, M : Told(w, L) /\ M \subseteq L => Told(w, M)'
           /\ \A k : WorkTold(w, k) => WorkTold(w, k)'
           /\ RowsTold(w) /\ run'[w] = run[w] => RowsTold(w)'
<1>1. ASSUME NEW L, NEW M, Told(w, L), M \subseteq L
      PROVE  \A l \in M \ missed'[w], p \in staff' \ moved' : noticed'[w][l][p] = 1
  BY <1>1 DEF Told
<1> QED
  BY <1>1 DEF Told, WorkTold, RowsTold, Untold

(* A step after which only calls that were there run these windows, with   *)
(* the work they had, and the rows say what they said.                     *)
LEMMA NInvKept ==
    ASSUME NInv, LeaseJobsTypeOK', UNCHANGED <<noticed, missed>>,
           active' \subseteq active, staff' \ moved' \subseteq staff \ moved,
           \A w \in Notices : run'[w] = run[w],
           \A c \in Calls : call'[c] # None /\ call'[c].window \in Notices =>
                                call'[c] = call[c] /\ work'[c] = work[c]
    PROVE  NInv'
<1>1. \A w \in Notices : RowsTold(w)'
  BY FewerToTell DEF NInv
<1>2. ASSUME NEW c \in Calls, call'[c] # None, call'[c].window \in Notices
      PROVE  CallTold(c)'
  <2>1. call'[c] = call[c] /\ work'[c] = work[c] /\ CallTold(c)
    BY <1>2 DEF NInv
  <2>2. PICK w, k : w = call[c].window /\ k = work[c]
    OBVIOUS
  <2>3. WorkTold(w, k) => WorkTold(w, k)'
    BY FewerToTell
  <2> QED
    BY <2>1, <2>2, <2>3 DEF CallTold, In, Untold, WorkTold, Told
<1> QED
  BY <1>1, <1>2 DEF NInv

(* A window that some call begins to run has told nobody.                  *)
LEMMA StartTold ==
    ASSUME IInv, NInv, LeaseJobsTypeOK', NEW c \in Calls, NEW w \in Windows, Start(c, w),
           UNCHANGED <<others, work, noticed, missed>>
    PROVE  NInv'
<1>1. /\ call'[c] = Free("listing", w, {}) /\ \A d \in Calls : d # c => call'[d] = call[d]
      /\ run[w] = None \/ run[w].status = "failed"
      /\ \A v \in Windows : v # w => run'[v] = run[v]
      /\ run'[w].status = "started" /\ run'[w] # None
  <2>1. PICK r \in Run : r.status = "started" /\ run' = [run EXCEPT ![w] = r]
    BY StartedRow DEF IInv
  <2>2. r # None
    BY NoneAssumption
  <2> QED
    BY <2>1, <2>2 DEF Start, Retryable, IInv, TypeOK
<1>2. /\ call'[c].window = w /\ call'[c].phase = "listing"
  BY <1>1, FreeType DEF Free
<1>3. ASSUME NEW v \in Notices
      PROVE  RowsTold(v)'
  <2>1. RowsTold(v) /\ v \in Windows
    BY OthersType DEF NInv
  <2> QED
    BY <1>1, <2>1 DEF RowsTold, Untold, Told, others
<1>4. ASSUME NEW d \in Calls, call'[d] # None, call'[d].window \in Notices
      PROVE  CallTold(d)'
  <2>1. CASE d = c
    <3>1. RowsTold(w)
      BY <1>2, <1>4, <2>1 DEF NInv
    <3> QED
      BY <1>1, <1>2, <2>1, <3>1 DEF CallTold, In, RowsTold, Untold
  <2>2. CASE d # c
    <3>1. call'[d] = call[d] /\ CallTold(d)
      BY <1>1, <1>4, <2>2 DEF NInv
    <3> QED
      BY <3>1 DEF CallTold, In, WorkTold, Untold, Told, others
  <2> QED
    BY <2>1, <2>2
<1> QED
  BY <1>3, <1>4 DEF NInv
(* The call in slot c, which runs window w, goes on with work k.           *)
LEMMA WorkMoves ==
    ASSUME IInv, NInv, LeaseJobsTypeOK', NEW c \in Calls, NEW w \in Notices, NEW k,
           call[c] # None, call[c].window = w, UNCHANGED <<run, others>>,
           \A d \in Calls : d # c => call'[d] = call[d] /\ work'[d] = work[d],
           call'[c].window = w, call'[c].phase = "items", work'[c] = k, WorkTold(w, k)',
           \A v \in Notices : v # w => noticed'[v] = noticed[v] /\ missed'[v] = missed[v],
           \A l \in Leases, p \in People : noticed'[w][l][p] <= 1
    PROVE  NInv'
<1>1. ASSUME NEW v \in Notices
      PROVE  RowsTold(v)'
  <2>1. CASE v = w
    <3>1. run[w] # None /\ run[w].status = "started"
      BY DEF IInv, CallsGood, Good
    <3> QED
      BY <2>1, <3>1 DEF RowsTold
  <2>2. CASE v # w
    BY <2>2 DEF NInv, RowsTold, Untold, Told, others
  <2> QED
    BY <2>1, <2>2
<1>2. CallTold(c)'
  BY DEF CallTold, In
<1>3. ASSUME NEW d \in Calls, d # c, call'[d] # None, call'[d].window \in Notices
      PROVE  CallTold(d)'
  <2>1. call'[d] = call[d] /\ work'[d] = work[d] /\ CallTold(d) /\ call[d].window # w
    BY <1>3 DEF NInv, IInv, OneCallPerWindow
  <2>2. PICK v, m : v \in Notices /\ v = call[d].window /\ m = work[d] /\ v # w
    BY <1>3, <2>1
  <2>3. WorkTold(v, m) => WorkTold(v, m)'
    BY <2>2 DEF WorkTold, Untold, Told, others
  <2>4. Untold(v, Leases) => Untold(v, Leases)'
    BY <2>2 DEF Untold
  <2> QED
    BY <2>1, <2>2, <2>3, <2>4 DEF CallTold, In
<1> QED
  BY <1>1, <1>2, <1>3 DEF NInv

LEMMA ListTold ==
    ASSUME IInv, NInv, LeaseJobsTypeOK', NEW c \in Calls, ListLeaseExpiringSoonCandidates(c)
    PROVE  NInv'
<1>1. PICK w \in Notices : w = call[c].window
  BY DEF ListLeaseExpiringSoonCandidates
<1>2. /\ call[c] # None /\ In(c, {"listing"}) /\ UNCHANGED <<run, others, noticed, missed>>
      /\ \A d \in Calls : d # c => call'[d] = call[d] /\ work'[d] = work[d]
      /\ work'[c] = Notice(active, None, {})
  BY DEF ListLeaseExpiringSoonCandidates, List, In, IInv, TypeOK, NInv, LeaseJobsTypeOK
<1>3. call'[c].window = w /\ call'[c].phase = "items"
  BY <1>1, ListedRuns, OthersType DEF ListLeaseExpiringSoonCandidates, IInv, Runs, In
<1>4. Untold(w, Leases) /\ \A l \in Leases, p \in People : noticed[w][l][p] <= 1
  BY <1>1, <1>2 DEF NInv, CallTold, RowsTold
<1>5. PICK k : k = work'[c]
  OBVIOUS
<1>6. WorkTold(w, k)'
  <2>1. active \subseteq Leases /\ None \notin active
    BY NoneIsNoWork DEF NInv, LeaseJobsTypeOK
  <2> QED
    BY <1>2, <1>4, <1>5, <2>1 DEF WorkTold, Untold, Told, Notice, others
<1> QED
  BY <1>1, <1>2, <1>3, <1>4, <1>5, <1>6, WorkMoves

(* A call that works on notices, and what it goes on with.                 *)
LEMMA GoTold ==
    ASSUME IInv, NInv, LeaseJobsTypeOK', NEW c \in Calls, NEW w \in Notices, NEW k,
           Runs(c, Notices), w = call[c].window, Go(c, k), UNCHANGED others, WorkTold(w, k)',
           \A v \in Notices : v # w => noticed'[v] = noticed[v] /\ missed'[v] = missed[v],
           \A l \in Leases, p \in People : noticed'[w][l][p] <= 1
    PROVE  NInv'
<1>1. /\ call[c] # None /\ call[c] \in Call /\ call[c].phase = "items"
  BY RunsType, OthersType DEF IInv
<1>2. /\ call' = call /\ run' = run /\ work'[c] = k
      /\ \A d \in Calls : d # c => work'[d] = work[d]
  BY DEF Go, vars, NInv, LeaseJobsTypeOK
<1> QED
  BY <1>1, <1>2, WorkMoves

LEMMA RecipientsTold ==
    ASSUME IInv, NInv, LeaseJobsTypeOK', NEW c \in Calls, NEW l \in Leases,
           ListLeaseExpiringSoonRecipients(c, l) \/ RecipientsFail(c, l)
    PROVE  NInv'
<1>1. Runs(c, Notices) /\ work[c] \in Noticing /\ work[c].to = {} /\ l \in work[c].left
  BY DEF ListLeaseExpiringSoonRecipients, RecipientsFail, NInv, LeaseJobsTypeOK
<1>2. PICK w \in Notices, m \in Noticing : w = call[c].window /\ m = work[c]
  BY <1>1 DEF Runs
<1>3. /\ RowsTold(w) /\ WorkTold(w, m) /\ m.to = {} /\ l \in m.left /\ m.lease \notin m.left
  BY <1>1, <1>2 DEF NInv, CallTold, Runs, In, Noticing
<1>4. /\ UNCHANGED <<others, noticed>> /\ \A v \in Notices : v # w => missed'[v] = missed[v]
      /\ missed[w] \subseteq missed'[w]
  BY <1>2 DEF ListLeaseExpiringSoonRecipients, RecipientsFail, NInv, LeaseJobsTypeOK
<1>5. PICK to \in SUBSET People : Go(c, Notice(m.left \ {l}, l, to))
                                  /\ (to = staff \/ l \in missed'[w])
  <2>1. CASE ListLeaseExpiringSoonRecipients(c, l)
    BY <1>2, <2>1 DEF ListLeaseExpiringSoonRecipients, OtherLeases, NInv, LeaseJobsTypeOK
  <2>2. CASE RecipientsFail(c, l)
    BY <1>2, <2>2 DEF RecipientsFail, NInv, LeaseJobsTypeOK
  <2> QED
    BY <2>1, <2>2
<1> DEFINE k == Notice(m.left \ {l}, l, to)
<1>6. k.left = m.left \ {l} /\ k.lease = l /\ k.to = to
  BY DEF Notice
<1> HIDE DEF k
<1>7. WorkTold(w, k)'
  <2>1. Untold(w, k.left)' /\ \A p \in k.to : noticed'[w][k.lease][p] = 0
    BY <1>3, <1>4, <1>6 DEF WorkTold, Untold
  <2>2. Told(w, active \ (k.left \cup {k.lease}))'
    <3>1. ASSUME NEW x \in active \ missed[w], x \notin m.left, NEW p \in staff \ moved
          PROVE  noticed[w][x][p] = 1
      BY <1>3, <3>1 DEF WorkTold, Told
    <3> QED
      BY <1>4, <1>6, <3>1 DEF Told, others
  <2>3. k.lease \in active' \ missed'[w] => \A p \in staff' \ (moved' \cup k.to) : noticed'[w][k.lease][p] = 1
    BY <1>4, <1>5, <1>6 DEF others
  <2> QED
    BY <2>1, <2>2, <2>3 DEF WorkTold
<1>8. \A x \in Leases, p \in People : noticed'[w][x][p] <= 1
  BY <1>3, <1>4 DEF RowsTold
<1>9. Go(c, k)
  BY <1>5 DEF k
<1> QED
  BY <1>1, <1>2, <1>4, <1>7, <1>8, <1>9, GoTold

LEMMA MailTold ==
    ASSUME IInv, NInv, LeaseJobsTypeOK', NEW c \in Calls, NEW p \in People,
           SendLeaseExpiringSoon(c, p)
    PROVE  NInv'
<1>1. Runs(c, Notices) /\ work[c] \in Noticing /\ p \in work[c].to
  BY DEF SendLeaseExpiringSoon, NInv, LeaseJobsTypeOK
<1>2. PICK w \in Notices, m \in Noticing, l \in Leases :
          w = call[c].window /\ m = work[c] /\ l = work[c].lease
  BY <1>1 DEF Runs, Noticing
<1>3. /\ RowsTold(w) /\ WorkTold(w, m) /\ p \in m.to /\ l = m.lease /\ l \notin m.left
      /\ noticed[w][l][p] = 0
  BY <1>1, <1>2 DEF NInv, CallTold, Runs, In, Noticing, WorkTold
<1>4. /\ UNCHANGED others /\ \A v \in Notices : v # w => missed'[v] = missed[v] /\ noticed'[v] = noticed[v]
      /\ missed[w] \subseteq missed'[w]
      /\ \A x \in Leases, u \in People : x # l \/ u # p => noticed'[w][x][u] = noticed[w][x][u]
      /\ noticed'[w][l][p] = 1 \/ (noticed'[w][l][p] = 0 /\ l \in missed'[w])
  <2>1. /\ noticed \in [Notices -> [Leases -> [People -> Nat]]]
        /\ missed \in [Notices -> SUBSET Leases]
    BY DEF NInv, LeaseJobsTypeOK
  <2>2. \/ noticed' = [noticed EXCEPT ![w][l][p] = @ + 1]
        \/ noticed' = noticed /\ missed' = [missed EXCEPT ![w] = @ \cup {l}]
    BY <1>2 DEF SendLeaseExpiringSoon
  <2>3. missed' = missed \/ missed' = [missed EXCEPT ![w] = @ \cup {l}]
    BY <1>2 DEF SendLeaseExpiringSoon
  <2>4. UNCHANGED others
    BY DEF SendLeaseExpiringSoon
  <2> QED
    BY <1>3, <2>1, <2>2, <2>3, <2>4
<1> DEFINE k == Notice(m.left, l, m.to \ {p})
<1>5. k.left = m.left /\ k.lease = l /\ k.to = m.to \ {p}
  BY DEF Notice
<1>6. Go(c, k)
  BY <1>2 DEF SendLeaseExpiringSoon
<1> HIDE DEF k
<1>7. m.left \subseteq Leases /\ m.to \subseteq People /\ staff \subseteq People /\ active \subseteq Leases
  BY DEF Noticing, NInv, LeaseJobsTypeOK
<1>8. WorkTold(w, k)'
  <2>1. Untold(w, k.left)'
    BY <1>3, <1>4, <1>5, <1>7 DEF WorkTold, Untold
  <2>2. \A u \in k.to : noticed'[w][k.lease][u] = 0
    BY <1>3, <1>4, <1>5, <1>7 DEF WorkTold
  <2>3. Told(w, active \ (k.left \cup {k.lease}))'
    <3>1. ASSUME NEW x \in active \ (k.left \cup {k.lease}), x \notin missed'[w], NEW u \in staff \ moved
          PROVE  noticed'[w][x][u] = 1
      <4>1. noticed[w][x][u] = 1
        BY <1>3, <1>4, <1>5, <3>1 DEF WorkTold, Told
      <4> QED
        BY <1>4, <1>5, <1>7, <3>1, <4>1
    <3> QED
      BY <1>4, <3>1 DEF Told, others
  <2>4. ASSUME l \in active \ missed'[w], NEW u \in staff \ (moved \cup k.to)
        PROVE  noticed'[w][l][u] = 1
    <3>1. CASE u = p
      BY <1>4, <2>4, <3>1
    <3>2. CASE u # p
      <4>1. noticed[w][l][u] = 1
        BY <1>3, <1>4, <1>5, <2>4, <3>2 DEF WorkTold
      <4> QED
        BY <1>4, <1>7, <2>4, <3>2, <4>1
    <3> QED
      BY <3>1, <3>2
  <2> QED
    BY <1>4, <1>5, <2>1, <2>2, <2>3, <2>4 DEF WorkTold, others
<1>9. \A x \in Leases, u \in People : noticed'[w][x][u] <= 1
  <2>1. \A x \in Leases, u \in People : noticed[w][x][u] <= 1
    BY <1>3 DEF RowsTold
  <2>2. noticed'[w][l][p] <= 1
    BY <1>4
  <2> QED
    BY <1>4, <2>1, <2>2
<1> QED
  BY <1>1, <1>2, <1>4, <1>6, <1>8, <1>9, GoTold

(* A run is completed with nobody left, and one that fails has told nobody.*)
LEMMA ReturnTold ==
    ASSUME IInv, NInv, LeaseJobsTypeOK', NEW c \in Calls, Return(c) \/ CrashJob(c)
    PROVE  NInv'
<1>1. /\ call[c] # None /\ UNCHANGED <<others, noticed, missed>>
      /\ \A d \in Calls : /\ call'[d] = (IF d = c THEN None ELSE call[d])
                          /\ work'[d] = (IF d = c THEN None ELSE work[d])
  BY EndTypes DEF IInv, TypeOK, NInv, LeaseJobsTypeOK
<1>2. PICK w \in Windows : w = call[c].window /\ run[w] \in Run /\ run[w] # None
  BY <1>1, InType, CallType DEF IInv, CallsGood, Good, TypeOK
<1>3. CASE CrashJob(c)
  BY <1>1, <1>3, NInvKept DEF CrashJob, Crash, others
<1>4. ASSUME NEW s \in {"completed", "failed"}, run' = Finished(c, s),
             w \in Notices => (s = "failed" => Untold(w, Leases)) /\ (s = "completed" => Told(w, active))
      PROVE  NInv'
  <2>1. PICK r \in Run : r.status = s /\ run' = [run EXCEPT ![w] = r]
    BY <1>1, <1>2, <1>4, FinishedType DEF IInv
  <2>2. run'[w] = r /\ \A v \in Windows : v # w => run'[v] = run[v]
    BY <2>1 DEF IInv, TypeOK
  <2>3. ASSUME NEW v \in Notices
        PROVE  RowsTold(v)'
    <3>1. RowsTold(v) /\ v \in Windows
      BY OthersType DEF NInv
    <3>2. CASE v = w
      BY <1>1, <1>4, <2>1, <2>2, <3>1, <3>2, NoneAssumption DEF RowsTold, Untold, Told, others
    <3>3. CASE v # w
      BY <1>1, <2>2, <3>1, <3>3 DEF RowsTold, Untold, Told, others
    <3> QED
      BY <3>2, <3>3
  <2>4. ASSUME NEW d \in Calls, call'[d] # None, call'[d].window \in Notices
        PROVE  CallTold(d)'
    <3>1. d # c /\ call'[d] = call[d] /\ work'[d] = work[d] /\ CallTold(d)
      BY <1>1, <2>4 DEF NInv
    <3> QED
      BY <1>1, <3>1 DEF CallTold, In, WorkTold, Untold, Told, others
  <2> QED
    BY <2>3, <2>4 DEF NInv
<1>5. CASE ListFails(c)
  <2>1. In(c, {"listing"}) /\ run' = Finished(c, "failed")
    BY <1>5 DEF ListFails
  <2>2. w \in Notices => Untold(w, Leases)
    BY <1>1, <1>2, <2>1 DEF NInv, CallTold
  <2> QED
    BY <1>4, <2>1, <2>2
<1>6. CASE Complete(c) /\ Done(c)
  <2>1. In(c, {"items"}) /\ run' = Finished(c, "completed")
    BY <1>6 DEF Complete
  <2>2. ASSUME w \in Notices
        PROVE  Told(w, active)
    <3>1. Runs(c, Notices) /\ work[c] \in Noticing /\ WorkTold(w, work[c])
      BY <1>1, <1>2, <2>1, <2>2 DEF Runs, NInv, LeaseJobsTypeOK, CallTold
    <3>2. work[c].left = {} /\ work[c].to = {}
      BY <1>2, <1>6, <2>2, <3>1, NoneIsNoWork DEF Done
    <3> QED
      BY <3>1, <3>2 DEF WorkTold, Told
  <2> QED
    BY <1>4, <2>1, <2>2
<1> QED
  BY <1>3, <1>5, <1>6 DEF Return
LEMMA NInvStep ==
    ASSUME IInv, NInv, [JobsNext]_jobVars
    PROVE  NInv'
<1>1. LeaseJobsTypeOK'
  BY JobsTypes DEF NInv, IInv
<1>2. ASSUME UNCHANGED <<noticed, missed>>, active' \subseteq active,
             staff' \ moved' \subseteq staff \ moved, run' = run, call' = call, work' = work
      PROVE  NInv'
  BY <1>1, <1>2, NInvKept
<1>3. ASSUME NEW c \in Calls, SchedulerStep(c)
      PROVE  NInv'
  <2>1. UNCHANGED <<others, work, noticed, missed>>
    BY <1>3 DEF SchedulerStep
  <2>2. ASSUME NEW w \in Windows, Start(c, w)
        PROVE  NInv'
    BY <1>1, <2>1, <2>2, StartTold
  <2>3. CASE ~\E w \in Windows : Start(c, w)
    <3>1. run' = run
      BY <1>3, <2>3 DEF SchedulerStep, List, SendOverdueBillReminder, Commit, Rollback, ItemStep,
         MarkBillOverdue, IncrementOverdueNoticeCount, SkipItem
    <3>2. call[c] \in Call /\ call[c].window \notin Others
      BY <1>3, <2>3, InType DEF SchedulerStep, IInv
    <3>3. /\ \A d \in Calls : d # c => call'[d] = call[d]
          /\ call'[c].window = call[c].window
      BY <1>3, <2>3 DEF SchedulerStep, List, SendOverdueBillReminder, Commit, Rollback, Remaining,
         ItemStep, MarkBillOverdue, IncrementOverdueNoticeCount, SkipItem, Free, Locking, IInv, TypeOK
    <3>4. call[c].window \notin Notices
      BY <3>2, OthersAssumption
    <3> QED
      BY <1>1, <2>1, <3>1, <3>3, <3>4, NInvKept DEF others
  <2> QED
    BY <2>2, <2>3
<1>4. ASSUME NEW c \in Calls,
             \/ ListInProgressForceTerminations(c)
             \/ \E f \in Terminations : ListPendingForceTerminationBillIDs(c, f)
             \/ CompleteForceTermination(c) \/ CompensationFails(c)
      PROVE  NInv'
  <2>1. /\ UNCHANGED <<run, noticed, missed, active, staff, moved>>
        /\ call[c].window \in Compensations
        /\ \A d \in Calls : d # c => call'[d] = call[d] /\ work'[d] = work[d]
        /\ call'[c].window = call[c].window
    <3>1. CASE ListInProgressForceTerminations(c)
      BY <3>1, ListedRuns DEF ListInProgressForceTerminations, List, others, IInv, NInv, LeaseJobsTypeOK
    <3>2. CASE ~ListInProgressForceTerminations(c)
      BY <1>4, <3>2 DEF ListPendingForceTerminationBillIDs, CompleteForceTermination, WriteOffBills,
         CompensationFails, Go, vars, others, Runs, NInv, LeaseJobsTypeOK
    <3> QED
      BY <3>1, <3>2
  <2>2. call[c].window \notin Notices
    BY <2>1, OthersAssumption
  <2> QED
    BY <1>1, <2>1, <2>2, NInvKept
<1>5. ASSUME NEW c \in Calls, LeaseJobStep(c)
      PROVE  NInv'
  BY <1>1, <1>4, <1>5, ListTold, RecipientsTold, MailTold DEF LeaseJobStep
<1>6. CASE \/ \E l \in Leases : EndLease(l)
           \/ \E p \in People : Reassign(p)
           \/ \E b \in Bills : RecordPayment(b) /\ UNCHANGED <<others, work, noticed, missed>>
           \/ UNCHANGED jobVars
  BY <1>2, <1>6 DEF EndLease, Reassign, RecordPayment, jobVars, vars, others
<1> QED
  BY <1>1, <1>3, <1>5, <1>6, ReturnTold DEF JobsNext

(* Every notice counted on a bill was mailed, and a window whose run is    *)
(* completed has told everybody who is due a notice about a lease, once.   *)
THEOREM MailsAreTold == JobsSpec => []NoticesDelivered
<1>1. JobsInit => NoticesCounted /\ NInv
  <2> SUFFICES ASSUME JobsInit PROVE NoticesCounted /\ NInv
    OBVIOUS
  <2>1. LeaseJobsTypeOK
    BY NoneIsNoWork DEF JobsInit, LeaseJobsTypeOK, Termination, Init, Runs, In
  <2>2. NInv
    <3>1. \A w \in Notices, l \in Leases, p \in People : noticed[w][l][p] = 0
      BY DEF JobsInit
    <3>2. \A w \in Notices : run[w] = None \/ run[w].status = "failed"
      BY OthersType DEF JobsInit, Init
    <3>3. \A c \in Calls : call[c] = None
      BY DEF JobsInit, Init
    <3>4. \A w \in Notices : run[w] = None \/ run[w].status # "completed"
      BY <3>2
    <3> QED
      BY <2>1, <3>1, <3>2, <3>3, <3>4 DEF NInv, RowsTold, Untold
  <2>3. ASSUME NEW b \in Bills
        PROVE  Counted(b)
    <3>1. Mailers(b) = {} /\ bill[b].notices = 0 /\ \A c \in Calls : ~Sending(c, b)
      BY DEF JobsInit, Init, Mailers, Row, Sending, In
    <3> QED
      BY <3>1, FS_EmptySet DEF Counted
  <2> QED
    BY <2>2, <2>3 DEF NoticesCounted
<1>2. NoticesCounted => NoticesMailed
  BY DEF NoticesCounted, Counted, NoticesMailed, Mailers
<1>3. LeaseJobsTypeOK /\ NInv => ToldOnce
  <2> SUFFICES ASSUME NInv, NEW w \in Notices, NEW l \in Leases, NEW p \in People
               PROVE  /\ noticed[w][l][p] <= 1
                      /\ (/\ run[w] # None /\ run[w].status = "completed"
                          /\ l \in active \ missed[w] /\ p \in staff \ moved) => noticed[w][l][p] = 1
    BY DEF ToldOnce
  <2> QED
    BY DEF NInv, RowsTold, Told
<1> QED
  BY <1>1, <1>2, <1>3, NInvStep, NoticesCountedStep, JobsTyped, PTL DEF JobsSpec, NoticesDelivered
=============================================================================
