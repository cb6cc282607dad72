---------------------------- MODULE SchedulerRuns ----------------------------
(***************************************************************************)
(* The jobs an outside scheduler triggers over HTTP, at least once per     *)
(* window.  A row per job and window says whether it was started, failed   *)
(* or completed; a call that finds no row, or a failed one with retries    *)
(* left, runs the job, every other call is skipped.  Two jobs on bills are *)
(* told apart: the one that marks unpaid bills overdue, and the one that   *)
(* mails reminders.  Both list their bills first and then take each bill   *)
(* in a transaction of its own, while tenants pay and other calls run.     *)
(* What the jobs on leases do in between is left to LeaseJobs.             *)
(***************************************************************************)
EXTENDS Naturals, FiniteSets

CONSTANTS
    Scans,       \* windows of overdue_bills_scan
    Reminders,   \* windows of overdue_bill_reminders
    Others,      \* windows of the jobs on leases
    Bills,       \* unpaid bills past their due date (a bound)
    Calls,       \* slots of concurrent trigger calls
    MaxRetries,  \* retries of a failed window
    MaxNotices,  \* reminders of a bill: 3 in the code
    None

Windows == Scans \cup Reminders \cup Others

ASSUME WindowAssumption == Scans \cap Reminders = {} /\ Others \cap (Scans \cup Reminders) = {}
ASSUME BoundAssumption == MaxRetries \in Nat /\ MaxNotices \in Nat

VARIABLES
    run,    \* run[w]: the row of scheduler_job_runs
    call,   \* call[c]: the trigger call in slot c
    bill,   \* bill[b]: its committed row
    mailed  \* history: mailed[w][b], how often window w mailed a reminder of b

vars == <<run, call, bill, mailed>>

Run == [status : {"started", "completed", "failed"}, retries : 0..MaxRetries]
Bill == [status : {"pending_payment", "overdue", "paid", "written_off"}, notices : 0..MaxNotices, version : Nat]

Row(status, notices, version) == [status |-> status, notices |-> notices, version |-> version]

(* A bill as the job listed it.                                            *)
Candidate == [bill : Bills, version : Nat]

(* todo are the candidates left; the one whose notice is counted, but not  *)
(* yet committed, is item, and its row is locked.                          *)
FreeCall == [phase : {"listing", "items"}, window : Windows, todo : SUBSET Candidate]
LockingCall ==
    [phase : {"counted", "sent"}, window : Reminders, todo : SUBSET Candidate, item : Candidate]
Call == FreeCall \cup LockingCall

Free(phase, w, todo) == [phase |-> phase, window |-> w, todo |-> todo]
Locking(phase, w, todo, item) ==
    [phase |-> phase, window |-> w, todo |-> todo, item |-> item]

ASSUME NoneAssumption == None \notin Run \cup Call

TypeOK ==
    /\ run \in [Windows -> Run \cup {None}]
    /\ call \in [Calls -> Call \cup {None}]
    /\ bill \in [Bills -> Bill]
    /\ mailed \in [Reminders -> [Bills -> Nat]]

(* Some windows may have failed for good before.                           *)
Init ==
    /\ run \in [Windows -> {None, [status |-> "failed", retries |-> MaxRetries]}]
    /\ call = [c \in Calls |-> None]
    /\ bill = [b \in Bills |-> Row("pending_payment", 0, 0)]
    /\ mailed = [w \in Reminders |-> [b \in Bills |-> 0]]

-----------------------------------------------------------------------------
In(c, phases) == call[c] # None /\ call[c].phase \in phases

Locked(b) == \E c \in Calls : In(c, {"counted", "sent"}) /\ call[c].item.bill = b

(* The status of the run, committed at the end of the call.                *)
Finished(c, status) == [run EXCEPT ![call[c].window].status = status]

(* Mutation: a run that seems to hang is taken over.                       *)
RetryableStarted(w) == run[w].status # "completed" /\ run[w].retries < MaxRetries
Retryable(w) == run[w].status = "failed" /\ run[w].retries < MaxRetries

(* A call that does not get the window is skipped: it changes nothing.     *)
Start(c, w) ==
    /\ call[c] = None
    /\ \/ run[w] = None /\ run' = [run EXCEPT ![w] = [status |-> "started", retries |-> 0]]
       \/ /\ run[w] # None /\ Retryable(w)
          /\ run' = [run EXCEPT ![w] = [status |-> "started", retries |-> @.retries + 1]]
    /\ call' = [call EXCEPT ![c] = Free("listing", w, {})]
    /\ UNCHANGED <<bill, mailed>>

(* What the job of window w takes up.                                      *)
Due(w, b) ==
    \/ w \in Scans /\ bill[b].status = "pending_payment"
    \/ w \in Reminders /\ bill[b].status = "overdue" /\ bill[b].notices < MaxNotices

Candidates(w) == {[bill |-> b, version |-> bill[b].version] : b \in {x \in Bills : Due(w, x)}}

List(c) ==
    /\ In(c, {"listing"})
    /\ call' = [call EXCEPT ![c] = Free("items", @.window, Candidates(@.window))]
    /\ UNCHANGED <<run, bill, mailed>>

(* Only a job that could not list its candidates fails.                    *)
ListFails(c) ==
    /\ In(c, {"listing"})
    /\ run' = Finished(c, "failed")
    /\ call' = [call EXCEPT ![c] = None]
    /\ UNCHANGED <<bill, mailed>>

(* Mutation: the update compares neither version nor status.               *)
CurrentAlways(w, item) == TRUE
Current(w, item) == bill[item.bill].version = item.version /\ Due(w, item.bill)

MarkBillOverdue(c, item) ==
    /\ In(c, {"items"}) /\ call[c].window \in Scans /\ item \in call[c].todo
    /\ ~Locked(item.bill) /\ Current(call[c].window, item)
    /\ bill' = [bill EXCEPT ![item.bill] = Row("overdue", @.notices, @.version + 1)]
    /\ call' = [call EXCEPT ![c] = Free("items", @.window, @.todo \ {item})]
    /\ UNCHANGED <<run, mailed>>

(* The update is made, and locks the row, before the mail is sent.         *)
IncrementOverdueNoticeCount(c, item) ==
    /\ In(c, {"items"}) /\ call[c].window \in Reminders /\ item \in call[c].todo
    /\ ~Locked(item.bill) /\ Current(call[c].window, item)
    /\ call' = [call EXCEPT ![c] = Locking("counted", @.window, @.todo \ {item}, item)]
    /\ UNCHANGED <<run, bill, mailed>>

SendOverdueBillReminder(c) ==
    /\ In(c, {"counted"})
    /\ mailed' = [mailed EXCEPT ![call[c].window][call[c].item.bill] = @ + 1]
    /\ call' = [call EXCEPT ![c] = Locking("sent", @.window, @.todo, @.item)]
    /\ UNCHANGED <<run, bill>>

(* Mutation: the bill is put back.                                         *)
RemainingWithItem(c) ==
    Free("items", call[c].window, call[c].todo \cup {call[c].item})
Remaining(c) == Free("items", call[c].window, call[c].todo)

Sent(c) == In(c, {"sent"})

Commit(c) ==
    /\ Sent(c)
    /\ bill' = [bill EXCEPT ![call[c].item.bill] = Row(@.status, @.notices + 1, @.version + 1)]
    /\ call' = [call EXCEPT ![c] = Remaining(c)]
    /\ UNCHANGED <<run, mailed>>

(* The mail, or the answer to it, or the commit fails: the job goes on.    *)
Rollback(c) ==
    /\ In(c, {"counted", "sent"})
    /\ call' = [call EXCEPT ![c] = Remaining(c)]
    /\ UNCHANGED <<run, bill, mailed>>

(* Mutation: a conflict is tried again with the new version.               *)
SkipItemRetried(c, item) ==
    /\ In(c, {"items"}) /\ item \in call[c].todo
    /\ LET fresh == [bill |-> item.bill, version |-> bill[item.bill].version]
       IN  call' = [call EXCEPT ![c] = Free("items", @.window, (@.todo \ {item}) \cup {fresh})]
    /\ UNCHANGED <<run, bill, mailed>>
(* A candidate that has changed is skipped; one that fails is only counted *)
(* in the summary.                                                         *)
SkipItem(c, item) ==
    /\ In(c, {"items"}) /\ item \in call[c].todo
    /\ call' = [call EXCEPT ![c] = Free("items", @.window, @.todo \ {item})]
    /\ UNCHANGED <<run, bill, mailed>>

Complete(c) ==
    /\ In(c, {"items"}) /\ call[c].todo = {}
    /\ run' = Finished(c, "completed")
    /\ call' = [call EXCEPT ![c] = None]
    /\ UNCHANGED <<bill, mailed>>

(* The process stops, the caller goes away, or the run's last update is    *)
(* lost: the row stays as it is.                                           *)
Crash(c) ==
    /\ call[c] # None
    /\ call' = [call EXCEPT ![c] = None]
    /\ UNCHANGED <<run, bill, mailed>>

RecordPayment(b) ==
    /\ bill[b].status \in {"pending_payment", "overdue"} /\ ~Locked(b)
    /\ bill' = [bill EXCEPT ![b] = Row("paid", @.notices, @.version + 1)]
    /\ UNCHANGED <<run, call, mailed>>

(* Mutation: a paid bill is written off like any other.                    *)
WrittenOffAnyway(B) == [b \in B |-> Row("written_off", bill[b].notices, bill[b].version + 1)]
(* The rows that a write-off updates: paid bills are left as they are.     *)
WrittenOff(B) ==
    [b \in {x \in B : bill[x].status # "paid"} |->
        Row("written_off", bill[b].notices, bill[b].version + 1)]

(* Bills of a lease that was terminated by force.                          *)
WriteOffBills(B) ==
    /\ \A b \in B : ~Locked(b)
    /\ bill' = [b \in Bills |-> IF b \in DOMAIN WrittenOff(B) THEN WrittenOff(B)[b] ELSE bill[b]]
    /\ UNCHANGED <<run, call, mailed>>

-----------------------------------------------------------------------------
ItemStep(c, item) ==
    MarkBillOverdue(c, item) \/ IncrementOverdueNoticeCount(c, item) \/ SkipItem(c, item)

(* What the server does about a call once it has been started.             *)
CallStep(c) ==
    \/ List(c) \/ ListFails(c) \/ Complete(c)
    \/ SendOverdueBillReminder(c) \/ Commit(c) \/ Rollback(c)
    \/ (In(c, {"items"}) /\ \E item \in call[c].todo : ItemStep(c, item))

Next ==
    \/ \E c \in Calls :
           CallStep(c) \/ Crash(c) \/ \E w \in Windows : Start(c, w)
    \/ \E b \in Bills : RecordPayment(b)
    \/ \E B \in SUBSET Bills : WriteOffBills(B)

Spec == Init /\ [][Next]_vars

(* A call is worked on until it ends: its context has a deadline, and the  *)
(* database answers.  Nothing makes the scheduler call or tenants pay.     *)
Fairness == \A c \in Calls : WF_vars(CallStep(c))

FairSpec == Spec /\ Fairness

-----------------------------------------------------------------------------
(* Properties.                                                             *)

(* A window is run by one call at a time, through retries and crashes.     *)
OneCallPerWindow ==
    \A c, d \in Calls :
        call[c] # None /\ call[d] # None /\ call[c].window = call[d].window => c = d

(* Sending a window again has no second effect: it mails a bill at most    *)
(* once, whatever failed before.                                           *)
MailedOncePerWindow == \A w \in Reminders, b \in Bills : mailed[w][b] <= 1

(* A reminder is mailed only about a bill that is overdue at that moment:  *)
(* never about one that was paid since the job listed it.                  *)
MailOnlyOverdue ==
    [][\A w \in Reminders, b \in Bills : mailed'[w][b] # mailed[w][b] =>
           bill[b].status = "overdue" /\ bill[b].notices < MaxNotices]_vars

(* Every notice counted on a bill was mailed, each by a window of its own. *)
NoticesMailed ==
    \A b \in Bills :
        bill[b].notices <= Cardinality({w \in Reminders : mailed[w][b] > 0})

(* A paid bill is never made overdue again by a job that listed it before. *)
PaidStaysPaid ==
    [][\A b \in Bills : bill[b].status = "paid" => bill'[b].status = "paid"]_vars

(* Every call that was started ends: no two calls wait for each other.     *)
CallEnds == \A c \in Calls : call[c] # None ~> call[c] = None
=============================================================================
