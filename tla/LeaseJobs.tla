------------------------------ MODULE LeaseJobs ------------------------------
(***************************************************************************)
(* Two more jobs of the scheduler, run by the calls of SchedulerRuns: the  *)
(* one that mails the staff of a property about leases that end in thirty  *)
(* days, and the one that finishes forced terminations of earlier times,   *)
(* which may have left bills to write off.                                 *)
(*                                                                         *)
(* The notices are mailed one by one outside any transaction, and nothing  *)
(* records that they were.  A forced termination is finished in one        *)
(* transaction, which locks the list of its pending bills before it        *)
(* touches them.  work[c] is what call c has left to do.                   *)
(***************************************************************************)
EXTENDS SchedulerRuns

CONSTANTS
    Notices,        \* windows of lease_expiring_soon_reminder
    Compensations,  \* windows of force_termination_compensation
    Leases,         \* active leases of a property that end on the day asked for
    People,         \* organizers and staff
    Terminations    \* forced terminations left in progress

ASSUME OthersAssumption == Others = Notices \cup Compensations /\ Notices \cap Compensations = {}

VARIABLES
    active,   \* the leases that are still active
    staff,    \* who is to be told about the property
    forced,   \* forced[f]: the row of force_terminations, with its pending bills
    work,
    noticed,  \* history: noticed[w][l][p], the mails window w sent p about l
    missed,   \* history: missed[w], leases for which an item of window w failed
    moved     \* history: people who were assigned or withdrawn at some time

others == <<active, staff, forced, moved>>
jobVars == <<vars, others, work, noticed, missed>>

Termination == [completed : BOOLEAN, pending : SUBSET Bills]

(* The leases left, and those still to be mailed about the current one.    *)
Noticing ==
    {k \in [left : SUBSET Leases, lease : Leases \cup {None}, to : SUBSET People] :
         k.lease \notin k.left /\ (k.lease = None => k.to = {})}
(* The terminations left; the one whose pending bills are locked.          *)
Compensating ==
    {k \in [left : SUBSET Terminations, item : Terminations \cup {None}, bills : SUBSET Bills] :
         k.item \notin k.left}

ASSUME NoneIsNoWork == None \notin Leases \cup Terminations \cup Noticing \cup Compensating

(* Call c works through what it has listed.                                *)
Runs(c, windows) == In(c, {"items"}) /\ call[c].window \in windows

(* A call has work of its own only while it runs a window of these jobs.   *)
LeaseJobsTypeOK ==
    /\ active \subseteq Leases /\ staff \subseteq People /\ moved \subseteq People
    /\ forced \in [Terminations -> Termination]
    /\ work \in [Calls -> Noticing \cup Compensating \cup {None}]
    /\ \A c \in Calls :
           /\ Runs(c, Notices) => work[c] \in Noticing
           /\ Runs(c, Compensations) => work[c] \in Compensating
           /\ work[c] # None => Runs(c, Others)
    /\ noticed \in [Notices -> [Leases -> [People -> Nat]]]
    /\ missed \in [Notices -> SUBSET Leases]

JobsInit ==
    /\ Init
    /\ active \in SUBSET Leases
    /\ staff \in SUBSET People /\ moved \in SUBSET People
    /\ forced = [f \in Terminations |-> [completed |-> FALSE, pending |-> Bills]]
    /\ work = [c \in Calls |-> None]
    /\ noticed = [w \in Notices |-> [l \in Leases |-> [p \in People |-> 0]]]
    /\ missed = [w \in Notices |-> {}]

-----------------------------------------------------------------------------
Go(c, value) == work' = [work EXCEPT ![c] = value] /\ UNCHANGED vars

-----------------------------------------------------------------------------
(* The notices.                                                            *)

Notice(left, lease, to) == [left |-> left, lease |-> lease, to |-> to]

ListLeaseExpiringSoonCandidates(c) ==
    /\ List(c) /\ call[c].window \in Notices
    /\ work' = [work EXCEPT ![c] = Notice(active, None, {})]
    /\ UNCHANGED <<others, noticed, missed>>

OtherLeases(c, l) == work[c].left \ {l}

(* The lease itself is not read again: it may have ended by now.           *)
ListLeaseExpiringSoonRecipients(c, l) ==
    /\ Runs(c, Notices) /\ work[c].to = {} /\ l \in work[c].left
    /\ Go(c, Notice(OtherLeases(c, l), l, staff))
    /\ UNCHANGED <<others, noticed, missed>>

RecipientsFail(c, l) ==
    /\ Runs(c, Notices) /\ work[c].to = {} /\ l \in work[c].left
    /\ Go(c, Notice(work[c].left \ {l}, l, {}))
    /\ missed' = [missed EXCEPT ![call[c].window] = @ \cup {l}]
    /\ UNCHANGED <<others, noticed>>

(* A mail may be sent and still be reported as failed.                     *)
SendLeaseExpiringSoon(c, p) ==
    /\ Runs(c, Notices) /\ p \in work[c].to
    /\ Go(c, Notice(work[c].left, work[c].lease, work[c].to \ {p}))
    /\ \/ /\ noticed' = [noticed EXCEPT ![call[c].window][work[c].lease][p] = @ + 1]
          /\ UNCHANGED missed
       \/ /\ missed' = [missed EXCEPT ![call[c].window] = @ \cup {work[c].lease}]
          /\ noticed' = [noticed EXCEPT ![call[c].window][work[c].lease][p] = @ + 1]
             \/ UNCHANGED noticed
    /\ UNCHANGED others

-----------------------------------------------------------------------------
(* The compensation.                                                       *)

Compensation(left, item, bills) == [left |-> left, item |-> item, bills |-> bills]

ListInProgressForceTerminations(c) ==
    /\ List(c) /\ call[c].window \in Compensations
    /\ work' = [work EXCEPT ![c] =
           Compensation({f \in Terminations : ~forced[f].completed}, None, {})]
    /\ UNCHANGED <<others, noticed, missed>>

LockedBy(f) == {c \in Calls : Runs(c, Compensations) /\ work[c].item = f}

(* A second run waits for the first, and then finds no pending bill.       *)
ListPendingForceTerminationBillIDs(c, f) ==
    /\ Runs(c, Compensations) /\ work[c].item = None /\ f \in work[c].left
    /\ LockedBy(f) = {}
    /\ Go(c, Compensation(work[c].left \ {f}, f, forced[f].pending))
    /\ UNCHANGED <<others, noticed, missed>>

(* Mutation: the number of bills written off is not compared.              *)
SomeUpdated(c) == TRUE
AllUpdated(c) == DOMAIN WrittenOff(work[c].bills) = work[c].bills

(* The rest of the transaction; a bill paid meanwhile makes it fail.       *)
CompleteForceTermination(c) ==
    /\ Runs(c, Compensations) /\ work[c].item # None /\ AllUpdated(c)
    /\ WriteOffBills(work[c].bills)
    /\ forced' = [forced EXCEPT ![work[c].item] =
           [completed |-> TRUE, pending |-> @.pending \ work[c].bills]]
    /\ work' = [work EXCEPT ![c] = Compensation(@.left, None, {})]
    /\ UNCHANGED <<active, staff, moved, noticed, missed>>

(* A transaction that fails, or an item that never gets one.               *)
CompensationFails(c) ==
    /\ Runs(c, Compensations)
    /\ \/ /\ work[c].item # None
          /\ Go(c, Compensation(work[c].left, None, {}))
       \/ /\ work[c].item = None
          /\ \E f \in work[c].left : Go(c, Compensation(work[c].left \ {f}, None, {}))
    /\ UNCHANGED <<others, noticed, missed>>

-----------------------------------------------------------------------------
(* Mutation: a run is completed with mails left.                           *)
DoneEarly(c) == work[c] # None => work[c].left = {}
Done(c) ==
    work[c] # None =>
        /\ work[c].left = {}
        /\ IF call[c].window \in Notices THEN work[c].to = {} ELSE work[c].item = None

Ended(c) ==
    work' = [work EXCEPT ![c] = None] /\ UNCHANGED <<others, noticed, missed>>

Return(c) == (ListFails(c) \/ (Complete(c) /\ Done(c))) /\ Ended(c)

(* What SchedulerRuns says of a crash: the mails that were sent are sent.  *)
CrashJob(c) == Crash(c) /\ Ended(c)

(* What SchedulerRuns says of the calls, but for what is said above.       *)
SchedulerStep(c) ==
    /\ \/ \E w \in Windows : Start(c, w)
       \/ /\ call[c] # None /\ call[c].window \notin Others
          /\ \/ List(c) \/ SendOverdueBillReminder(c) \/ Commit(c) \/ Rollback(c)
             \/ In(c, {"items"}) /\ \E item \in call[c].todo : ItemStep(c, item)
    /\ UNCHANGED <<others, work, noticed, missed>>

(* Other components: leases end, people are assigned or withdrawn, bills   *)
(* are paid.                                                               *)
EndLease(l) ==
    /\ l \in active
    /\ active' = active \ {l}
    /\ UNCHANGED <<vars, staff, forced, moved, work, noticed, missed>>

(* Each person's assignment changes at most once (a bound).                *)
Reassign(p) ==
    /\ p \notin moved
    /\ staff' = IF p \in staff THEN staff \ {p} ELSE staff \cup {p}
    /\ moved' = moved \cup {p}
    /\ UNCHANGED <<vars, active, forced, work, noticed, missed>>

LeaseJobStep(c) ==
    \/ ListLeaseExpiringSoonCandidates(c)
    \/ \E l \in Leases : ListLeaseExpiringSoonRecipients(c, l) \/ RecipientsFail(c, l)
    \/ \E p \in People : SendLeaseExpiringSoon(c, p)
    \/ ListInProgressForceTerminations(c)
    \/ \E f \in Terminations : ListPendingForceTerminationBillIDs(c, f)
    \/ CompleteForceTermination(c) \/ CompensationFails(c)

(* What the server does about a call once it has been started.             *)
JobStep(c) ==
    \/ SchedulerStep(c) /\ call[c] # None
    \/ LeaseJobStep(c)
    \/ Return(c)

JobsNext ==
    \/ \E c \in Calls : SchedulerStep(c) \/ LeaseJobStep(c) \/ Return(c) \/ CrashJob(c)
    \/ \E l \in Leases : EndLease(l)
    \/ \E p \in People : Reassign(p)
    \/ \E b \in Bills : RecordPayment(b) /\ UNCHANGED <<others, work, noticed, missed>>

JobsSpec == JobsInit /\ [][JobsNext]_jobVars

JobsFairness == \A c \in Calls : WF_jobVars(JobStep(c))

FairJobsSpec == JobsSpec /\ JobsFairness

-----------------------------------------------------------------------------
(* Properties.                                                             *)

(* A window mails nobody twice about a lease, and once it is completed it  *)
(* has told everybody whose assignment has not changed about every lease   *)
(* that is still active, unless the item failed: no retry, crash or        *)
(* overlapping call loses or repeats a notice, though nothing records it.  *)
ToldOnce ==
    \A w \in Notices, l \in Leases, p \in People :
        /\ noticed[w][l][p] <= 1
        /\ (/\ run[w] # None /\ run[w].status = "completed"
            /\ l \in active \ missed[w] /\ p \in staff \ moved) => noticed[w][l][p] = 1

(* What the rows say of mails is what was sent, of both kinds: a notice    *)
(* counted on a bill was mailed, and nobody who is due one about a lease   *)
(* is left out or told twice.                                              *)
NoticesDelivered == NoticesMailed /\ ToldOnce

(* A forced termination is completed with all of its bills written off or  *)
(* with none: a bill that is paid meanwhile keeps it in progress, and runs *)
(* that overlap complete it once.                                          *)
CompletedWhenWrittenOff ==
    \A f \in Terminations :
        IF forced[f].completed
        THEN forced[f].pending = {} /\ \A b \in Bills : bill[b].status = "written_off"
        ELSE forced[f].pending = Bills
=============================================================================
