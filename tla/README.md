# Verification project for the STDS backend

The STDS backend manages rented rooms: properties and their rooms, tenants and
their leases, the bills a lease produces, deposits, repair requests, the ledger
of each property, and the daily and monthly jobs that move these along. It is a
Go HTTP service over PostgreSQL. This directory holds TLA+ models of its
stateful parts, the TLC configurations that check them on small instances, and
theorems about them that TLAPS has checked for every instance.

## 1. The system

### 1.1 Components

| Component | State | Operations | Interacts with |
|---|---|---|---|
| Rooms and properties (`application/property`, `domain/property`, `database/properties`) | `rooms.status` (vacant, occupied, maintenance), `deleted_at`; `properties.deleted_at`, `version`; descriptive fields | create, update, delete a property or a room; set a room to maintenance | leases set and clear `occupied`; repairs clear `maintenance` |
| Leases (`application/lease`, `domain/lease`, `database/leases`) | `leases.status` (active, expired, terminated, force_terminated), deposit status, amounts, settlement detail, version | create, update, settle deposit, terminate, force-terminate, preview / finalize checkout, replace; expiry job | locks the room; creates, voids and writes off bills; posts ledger entries; publishes events |
| Subscribers (`eventbus`, `txrunner`, `application/lease/subscribers.go`) | none: calls pending in the goroutine that committed | occupy / release room, activate / deactivate tenant | write rooms and tenants after the commit |
| Tenants (`application/tenant`) | `tenants.status`, personal data, version | create, update | activated and deactivated by subscribers |
| Repairs (`application/repair`) | `repair_requests.status` (submitted, assigned, in_progress, completed, cancelled), `deleted_at` | create, assign, progress, complete, cancel, delete | restores the room |
| Billing commands (`application/billing`, `domain/billing`, `database/billing`) | `bills.status`, amounts, meter readings, payment fields, version | record meter, record payment | post ledger entries |
| Ledger (`database/billing`) | `property_accounting_entries`, monthly snapshots | post an entry, close a month | payments, deposits, checkout, journal expenses |
| Scheduler (`application/jobs`, `database/jobruns`) | `scheduler_job_runs`: one row per (job, window) | start, complete, fail; six runners | bills, leases, forced terminations, snapshots, e-mail |
| Billing periods (`domain/lease/billing.go`) | none: functions on dates | build the rent and electricity periods of a lease, find the next payment date, recognise a boundary at which a lease may be replaced | bills of a lease, rent changes, replacement |
| Journal (`application/journal`) | `journal_logs`, its expense entry | create, edit, delete | the ledger and its closed months |
| Users and assignments (`application/iam`) | `users`, `user_property_assignments`; identities and claims at the identity provider | create with an invitation mail, edit a role, assign properties, synchronise claims, sign in | every route's authorization |
| Attachments (`application/attachment`) | `attachment_upload_tokens`, `attachments`; objects in a store | sign an upload, register, list, sign a download, delete | the resource's access rules; the store |
| Descriptive fields (property, room, tenant, repair, brand profile, FAQ) | the editable columns, `version`, `deleted_at` | edit, remove, change of status by other components | optimistic or row locking, by kind |
| Lists (`*query`, `List*` repositories) | none: paged reads | nine paged lists and the single reads beside them | roles, assignments, deleted properties |
| Reports (`application/billing/reports.go`) | none: several statements each | summaries, financial, cashflow, operation, profit and loss | ledger, snapshots, the clock |
| Legacy import (`migration/legacy`) | mapping tables, stage reports | a command per stage, validation, cutover | writes the tables above before, and beside, the application |
| Notifications, HTTP layer, start-up, schema migrations, development seeds | see `PROJECT.json` | | |

### 1.2 What is hard about it

* A request runs in one PostgreSQL transaction at READ COMMITTED. Some of what
  it reads is locked (`FOR UPDATE`), some is not: a decision taken on an
  unlocked read may be out of date when its consequence is written.
* Consequences that span aggregates run after the commit:
  `txrunner.WithinTransaction` commits, then publishes each recorded event, and
  `eventbus.Publish` calls the subscribers one by one, each in a transaction of
  its own. It stops at the first error, and nothing retries. Between the commit
  and the last subscriber other requests see the intermediate state.
* The same rows are written by users and by jobs that work from a list of
  candidates read earlier, guarded by `version` columns on some paths only.
* Several stores have no transaction in common with the database: the identity
  provider, the object store, the mail server. Commands write one after the
  other and undo by hand.
* Reports and lists read in several statements without a transaction, each of
  which sees other commits.
* Money is represented twice: in the state of the lease and its bills, and in
  the ledger entries of the property.

`PROJECT.json` lists the individual hazards at the lines where they arise, with
the properties that cover them.

### 1.3 What makes each component correct

* **Rooms and leases.** A room has at most one open (active or expired) lease;
  once the publications of a request have run, the room is occupied exactly
  when it has one; an open lease's room and property are not deleted; a tenant
  with an open lease is active.
* **Repairs.** A room in maintenance has an unfinished repair request, and some
  request can still bring it back.
* **Lease money.** A bill is paid at most once and for its amount; a lease that
  has ended normally has no unsettled bill; the held deposit is refunded,
  transferred or deducted exactly once; what was written to the ledger agrees
  with what the lease and its bills say; a checkout is finalized only with the
  figures its preview showed.
* **Ledger.** What the payments, settlements and journal logs say is recorded,
  and counted in exactly one of the live entries and one closed month; the total
  of a closed month is the sum of its entries.
* **Scheduler.** A window of a job is executed by one call at a time and retried
  only after a failure, as often as its retries allow; triggering it again has no
  second effect; a job acts on a bill as it is, not as it was listed; a call that
  was started ends.
* **Journal.** An expense journal has exactly the accounting entry its amount
  says, through edits and deletion.
* **Reports.** A report leaves out no entry and counts none twice although a
  closing moves entries between its statements, and what it says of a closed
  month stays true.
* **Periods and meters.** Every day of a lease is on one bill of each kind,
  whatever the start day and cadence; what the meter has counted is charged once.
* **Users.** Row and identity come and go together, the claims follow the row,
  and an administrator remains.
* **Attachments.** An upload token becomes one attachment, of an object that was
  checked, and who has lost the access gets nothing new.
* **Edits.** A saved change stands until somebody asks for another; a refusal is
  due to somebody else's change.
* **Lists.** A walk over all pages shows every row once, and what it shows can be
  opened.
* **Import.** Reruns repeat nothing, a pass in the planned order imports
  everything, and rooms agree with leases before the application opens.

## 2. Plan

In this order, the most important behaviour first.

| Module | Models | Composes / abstracts | Status |
|---|---|---|---|
| `Tenancy` | abstract: who holds each room | what `RoomLeasing` promises | done |
| `RoomLeasing` | rooms, properties, tenants, leases, repairs, subscribers | implements `Tenancy` | done |
| `RoomOverlaps` | `RoomLeasing` with a record of overlapping requests | extends `RoomLeasing` | done |
| `RoomLeasing_proofs` | theorems about both | | done |
| `LeaseSettlement` | a chain of leases: deposit, bills and entries through rent changes, payments, termination, checkout, forced termination and replacement | the statuses of a lease of `RoomLeasing`, with its money | done |
| `LeaseSettlementRaces` | `LeaseSettlement` with a record of what overtook a rent change | extends `LeaseSettlement` | done |
| `LeaseSettlement_proofs` | theorems about both | | done |
| `PropertyLedger` | live entries, journal expenses, the three statements of the month closing | the ledger `LeaseSettlement` posts to | done |
| `SchedulerRuns` | job windows, retries, failures, concurrent triggers, the two jobs on overdue bills | the overdue mark of `LeaseSettlement` in steps | done |
| `SchedulerRuns_proofs` | theorems about it | | done |
| `LeaseJobs` | the notices of expiring leases and the compensation of forced terminations, in the scheduler's calls | extends and implements `SchedulerRuns` | done, theorems in `SchedulerRuns_proofs` |
| `LedgerReports` | the statements of the five ledger reports, and the clock | extends and implements `PropertyLedger` | done |
| `LedgerReports_proofs` | theorems about it and `PropertyLedger` | | done |
| `BillingPeriods` | the periods of a lease, as functions on dates | used by `MeterReadings` | done |
| `MeterReadings` | readings, rent changes and the checkout of one lease, with their row locks and deadlocks | the periods and usage `LeaseSettlement` abstracts from | done |
| `MeterReadings_proofs` | theorems about it and `PagedListHistories` | | done |
| `UserAccounts`, `UserAccounts_proofs` | rows, identities and claims | | done |
| `AttachmentUpload` | tokens, objects and attachment rows | | done, theorems in `RecordEdits_proofs` |
| `RecordEdits` | the six ways an edit is guarded | | done |
| `RecordEditHistories`, `RecordEdits_proofs` | what was asked for and what was saved in between; theorems | extends `RecordEdits` | done |
| `PagedLists` | nine lists, page by page | | done |
| `PagedListHistories` | what happened to a list while it was walked | extends `PagedLists` | done, theorems in `MeterReadings_proofs` |
| `LegacyImport`, `LegacyImport_proofs` | the stages, the validation, and the application opened beside them | | done |

`MC…` modules give constants their values and add symmetry. Histories that a
theorem needs are in modules of their own (`RoomOverlaps`, `LeaseSettlementRaces`,
`RecordEditHistories`, `PagedListHistories`), which the `MC…` modules extend. Two
proof modules extend two components each: `MeterReadings_proofs`, whose lemmas about
sets and sums serve both of its own, and `RecordEdits_proofs`. The names of
`AttachmentUpload` and `PagedLists` (`UploadInit`, `WalkNext`, `Slots`, `Nil`,
`Absent`) keep them apart from `RecordEdits` and `MeterReadings`.

Two kinds of abstract specification are implemented. `Tenancy` is implemented by
`RoomLeasing` only while requests come one at a time and no call is lost, which
is what `ImplementsTenancy` checks on one request slot; what the code keeps of it
with concurrent requests and lost calls is said room by room
(`TenancyUnlessOverlapped`, checked and proved). The base modules are implemented
by their extensions, `SchedulerRuns` by `LeaseJobs` and `PropertyLedger` by
`LedgerReports` (proved: `JobsAreScheduled`, `ReportsImplementLedger`), so that
what is proved of the base module holds of the composition.

What would come next: the refinement of a one-shot deposit, the amounts of a bill,
and the leases' row locks of `MeterReadings` joined with the whole of
`LeaseSettlement`.

In every section below "proved" means: by TLAPS, for all values of the constants
under the named assumptions; "checked" means: by TLC, on the instance of the
`.cfg`. Out of the prover's reach are liveness under fairness and
`ENABLED`: `CallEnds`, `LetRoomBecomesOccupied` and `RequestsAnswered` stay with
TLC, and so does `ImplementsTenancy`, which is about one request slot. The double
lease (section 3) is a behaviour, which TLC exhibits. Every other property of the
runs, the invariants and the action properties, is stated by a theorem.

Out of reach too are the library's induction theorems, whose parameter is an
operator. Where a proof is about a recursive definition (the loops of
`BillingPeriods`, the folds behind `SumFunction`), it takes a smallest
counterexample instead: a set of naturals that is not empty has a least element, by
the library's theorem that `<` is well-founded on `Nat`. No module that is proved
about has a `RECURSIVE` operator.

Type invariants: those of the modules with proofs are proved (`TypeCorrect`,
`WindowsTyped`, `LeaseJobsTyped`, `AccountsTyped`, `UploadTypes`) and not run again;
the others are conjuncts of a checked invariant (`UsageAccounted`, `EditsHonoured`,
`WalkComplete`, `ReportsTrue`).

Each checked property has a mutation of the model, listed in `PROJECT.json` and
kept in the modules under the comment "Mutation", which stands for a plausible
bug of the code and under which the property fails.

## 3. RoomLeasing

### 3.1 State and actions

| TLA+ | Code |
|---|---|
| `room[r]` | `rooms.status`, `rooms.deleted_at` |
| `propertyDeleted[p]` | `properties.deleted_at` |
| `tenant[t]` | `tenants.status` (written only by the two tenant subscribers) |
| `lease[l]` | `leases.status`, `tenant_id`, `room_id`; `Absent` before the row exists |
| `repair[p]` | `repair_requests.status`, `room_id`, `deleted_at` |
| `txn[q]` | what the open transaction of request `q` has read and is about to write; `None` between transactions |
| `pub[q]` | the subscriber calls that request `q`, after its commit, has still to make |
| `lost` | history variable: the calls that will never be made |

`Rooms`, `Properties` and `Tenants` are the rows there are: creating one adds a
vacant room, a live property or a tenant, which is what `Init` starts from
(`tenant` either way). `Leases` and `Repairs` are pools of ids that creation
draws from.

A request is one atomic action where everything it decides on is read
`FOR UPDATE`: PostgreSQL then serialises such requests on the rows they share.
That holds for creating, ending, replacing and expiring a lease and for the
repair workflow. `RestoreRoomVacantIfNoActiveRepairs` is part of these actions:
it locks the room before the statement that looks for other unfinished
requests, so that two requests of one room finishing concurrently see each
other.

Five operations decide on something they have not locked and write later. Each
is a read action that fills `txn[q]` and a write action that commits, with any
steps of other requests in between:

| Operation | Unlocked read | Write |
|---|---|---|
| set a room to maintenance | `ReadRoomForMaintenance` | `SetRoomMaintenance` |
| delete a room | `ReadRoomForDeletion` | `DeleteRoom` |
| delete a property | `ReadOccupiedRooms` | `DeleteProperty` |
| create a repair request | `ReadRoomForRepair` | `CreateRepair` |
| deactivate a tenant (one `UPDATE` with a `NOT EXISTS` subquery) | `ReadOpenLeases` | `DeactivateTenant` |

`Rollback` ends the open transaction without writing: the write found no row,
or the connection failed.

After a commit `txrunner` publishes the recorded events one by one and
`eventbus` calls the subscribers in the order `server.go` registers them; each
call is an action on the head of `pub[q]`, in a transaction of its own.
`LosePublication`, of the requests in `Lossy`, drops the rest of the sequence: a subscriber's error, a
cancelled request context, or the end of the process. A request is in flight as
long as `pub[q]` is not empty; a crash of the process loses every `pub[q]`, which
is `LosePublication` for each slot in turn.

The conditions that terminating, checking out and replacing a lease put on
bills and deposit are not part of this module: the action may be taken
whenever the lease's status allows it, which covers the cases where the money
allows it too.

### 3.2 Runs

| Run | Instance | Checks |
|---|---|---|
| `room_concurrent` | two requests, losses; 1 room, 1 tenant, 2 leases, 2 repairs | `MaintenanceHasRepair`, `OccupancyUnlessOverlapped`, `TenancyUnlessOverlapped` |
| `room_reliable` | one request at a time, no loss; 2 rooms, 2 tenants, 2 leases, 1 repair | `ImplementsTenancy`, `LetRoomBecomesOccupied` |
| `room_double_lease` | two requests, no loss | violates `OneOpenLeasePerRoom` |

`MaintenanceHasRepair` holds under any interleaving and any loss. The occupancy
rules do not, so `RoomOverlaps` adds a history variable, `overlapped`: a
request has done something while another was in progress. As long as that has
not happened, and whatever calls were lost, tenants follow leases, rooms follow
leases, no room is let twice and no let room is deleted. Lost calls weaken the
rules themselves, and each says by how much: its escape clause names the one call
whose loss excuses it. `TenancyUnlessOverlapped` says the same of the changes: under
that condition each room passes from hand to hand as `Tenancy` allows, whatever
calls for other rooms and for tenants were lost. Its escape clause is the loss of the
room's own occupation, after which the room looks vacant under its lease.

Once requests overlap, four races of one shape break them: one request overtakes
another between a read and the write that follows from it.

* *Double lease.* `CreateLease` locks the room and finds it vacant; it commits
  the lease, releasing the lock; a second `CreateLease` locks the room, still
  vacant because the subscriber has not run, and commits as well.
  `docs/design/domain-rule.md:37` promises a recheck inside the lock that
  prevents exactly this, and `room_double_lease` shows that it does not.
* *Deleted while leased.* The deletion read the room as vacant, the lease is
  committed, the soft delete is written.
* *Tenant race.* The `NOT EXISTS` subquery ran before the new lease was
  committed, the `UPDATE` is written after its tenant was activated.
* *Occupied to maintenance.* The room was read as vacant, then let and
  occupied; the `UPDATE` does not compare the status.

A further disagreement needs no race: deleting the repair request that put a room
in maintenance leaves the room there for good (`repair/delete.go:38`), while
`docs/spec/tasks.md:350` says that an active request keeps it there.
`MaintenanceHasRepair` therefore counts deleted requests.

### 3.3 Bounds

Two leases let a room be let, ended and let again, or replaced, with stale calls
in between; two rooms let a step on one be seen to leave the other alone; one
property with two rooms covers a deletion that takes several rooms along. Two
repair requests are what `RestoreRoomVacantIfNoActiveRepairs` distinguishes:
another unfinished one, or none. Two concurrent requests suffice for every race
found, each of which is between one reader and one writer. A counterexample to
the rules for requests served one at a time with more rooms is excluded by the
proofs, which have no bounds.

Deadlock is not checked: an instance stops when its lease and repair ids are
used up.

### 3.4 Fairness

`Fairness` is weak fairness of `PublishNext(q)`, the loop of subscriber calls
after a commit: the goroutine that committed goes on running. Requests are
sent by users and nothing obliges them to, so no other action has fairness.
`LetRoomBecomesOccupied` is checked without losses; with them it is false, which
is what `LosePublication` stands for.

### 3.5 Proofs

`RoomLeasing_proofs`, for all values of the constants, any number of concurrent
requests, losses or not:

* `TypeCorrect`: `Spec => []TypeOK`.
* `MaintenanceRepaired`: `Spec => []MaintenanceHasRepair`. With `TypeOK` the
  property is inductive as it stands. The step that carries the proof is the
  end of a repair request: the room stays in maintenance only if another live
  request of it is unfinished, and that one is the witness.

* `OccupiedUnlessOverlapped`: `HistorySpec => []OccupancyUnlessOverlapped`. The
  occupancy rules are not inductive by themselves, because between the commit and
  the last subscriber the room's status is out of date. `SerialInv` therefore
  speaks of `Due(r)`, the status the room will have when the pending calls have
  run, and adds the two facts that make `Due` predictable: releases come first and
  activations last in a publication, and what an open transaction has read is
  still so. A lost call excuses the room or tenant that it was for, and nothing
  else (`Occupancy`). `OverlapInv` adds that, as long as none has overlapped, at
  most one request is in progress; each action is shown to keep `SerialInv` when
  its own request is the only one.

* `TenancyKept`: `HistorySpec => TenancyUnlessOverlapped`. While no requests have
  overlapped, `OverlapInv` makes the stepping request the only one in progress; each
  of its actions then maps the holder of a room to the step of `Tenancy` it is meant
  to be, or leaves it alone, unless the call that occupies the room was lost.

Only model-checked: `LetRoomBecomesOccupied` (liveness) and `ImplementsTenancy`. The
latter, like `LetRoomBecomesOccupied`, speaks of one request at a time and of calls
that are not lost. Neither is guaranteed by the server: it is what the rules come to
when nothing goes wrong.

## 4. LeaseSettlement

### 4.1 State and actions

| TLA+ | Code |
|---|---|
| `now` | today, as a billing period: 0 is before the first, `N + 1` after the last |
| `lease[l]` | `leases.status`, start and end date as periods, the number of rent changes, deposit status, refund and deduction; `replaced` is the termination reason of a replacement |
| `bill[l][b]` | `bills.status` of bill `b`: its kind, its period, and the rent change `gen` that generated it |
| `received[l][b]` | how many payment entries the ledger has for the bill |
| `posted[l]` | the sums of the refund, deduction, electricity and rent refund entries posted for the lease |
| `txn[q]` | the lease that request `q` has locked to change its rent, and the date from which it will regenerate |

Every operation on a lease first locks its row; all but `UpdateLease` then lock
every bill they read, and are one action. `UpdateLease` looks for locked bills
(`HasLockedRentBillsFromDueDate`) in a plain `SELECT`, then voids the pending
ones and creates new ones in later statements: `ReadLockedBills`, then
`UpdateLease`. A payment and the overdue job lock only the bill's row, so they
may come between.

The checkout's preview is not an action. It writes nothing, and finalizing
recomputes the token from the versions of the lease and every bill and from all
amounts, under the locks, and refuses a token that differs; a stale preview is
therefore a request that changes nothing. Meter values are abstracted to the
electricity charge `e` that a checkout takes from the deposit.

`MarkBillOverdue` is one step here because its `UPDATE` compares the status and
version that the scan read; `SchedulerRuns` models the scan itself.

### 4.2 Run, bounds, fairness

| Run | Instance | Checks |
|---|---|---|
| `settlement` | two requests at a time; a lease and its successor, 2 periods, 1 rent change, deposit 2 | `DepositAgreesWithLedger`, `BillAgreesWithLedger`, `EndedLeaseSettled`, `OpenLeaseFullyBilled`, `PeriodBilledOnceUnlessOvertaken`, `SettledBillsFinal` |

`LeaseSettlementRaces` adds the history variable `overtaken`: a payment or an
overdue mark has come between the two halves of a rent change of the same lease.
Only then is a period billed twice.

Two disagreements with the documents show in the exemptions of these properties:

* *Billed twice.* The rent change finds no locked bill, the tenant pays, the
  rent change voids what is still pending and bills the paid period again
  (`leases/repository.go:1184`), although `application/lease/errors.go:145` has an
  error for it: "Lease update has locked future bills." The weaker
  `OnePendingBillPerPeriod`, part of `SettlementInv`, holds under any
  interleaving.
* *Deposit twice* needs no race: a deposit may be settled while the lease is
  active, and forced termination with `write_off` confiscates the whole deposit
  whatever its status was (`terminate_lease.go:332`, and
  `docs/spec/src/paths/tenancy/leases_{id}_force-terminate.yaml:13`).
  `DepositAgreesWithLedger` allows for exactly that entry.

A replaced lease keeps its deposit held, beside its successor's, and it can still
be settled, because `UpdateDeposit` looks at the deposit and not at the lease.

Two leases are a lease and its successor, which is as far as one operation
reaches. Two periods give a rent change a period it leaves alone and one it
regenerates, and a replacement one on each side of its boundary. One rent change
is enough for a bill of each generation to meet every other operation. A deposit
of 2 can be split between refund and deduction. The theorems have none of these
bounds. No liveness is checked here: every step is a user's request or a job, and
no fairness is assumed. Deadlock is not checked because an instance ends when its
time and leases are used up.

### 4.3 Proofs

`LeaseSettlement_proofs`, for all values of the constants, any number of
concurrent requests:

* `TypeCorrect`: `Spec => []TypeOK`. That refund and deduction stay within the
  deposit needs the locks: a lease that a rent change has locked is active and
  has a rent change left when it is written (`TypeAndLocks`).
* `SettlementInvariant`: `Spec => []SettlementInv`. To the properties it adds
  `RowsMatchBills`, without which a new lease could find bills or entries of its
  own, or a rent change bills of its own generation, and `LocksHeld`. The
  properties hardly relate two leases, so the proof restates them per lease
  (`GoodLease`) and each lemma treats one kind of step on one lease.
* `DepositBooked`, `PaymentsBooked`, `EndedSettled`, `OpenBilled`: four of the
  run's properties, from it.
* `SettledFinal`: `Spec => SettledBillsFinal`, from the same invariant: no action
  selects a settled bill.

* `BilledOnce`: `HistorySpec => []PeriodBilledOnceUnlessOvertaken`. `RaceInv` adds
  to `SettlementInv` that what a rent change has seen is still so
  (`LooksAreCurrent`): every rent bill it is going to regenerate can still be
  voided. `overtaken` is exactly what falsifies this.

## 5. PropertyLedger

### 5.1 State and actions

| TLA+ | Code |
|---|---|
| `journal[j]` | a row of `journal_logs`: month of `created_at`, revision of its expense (0: no amount), `deleted_at` |
| `posting[p]` | a payment or settlement that has posted its entry, and the month it was posted to |
| `live` | `accounting_entries` of the property |
| `snapshot[m]` | the row of `monthly_snapshots`: the entries its total sums up, and its `monthly_snapshot_entries` |
| `txn[q]` | the open transaction of a journal command or of a closing |
| `raced` | history variable: entries whose writing overlapped a closing of their month |

`CreateMonthlySnapshot` is three statements in a READ COMMITTED transaction, each
of which sees what others have committed before it: `InsertSnapshot` sums the
entries, `CopyEntries` archives them, `DeleteEntries` deletes them and commits.
`MonthlySnapshotExists`, and the unique index on property and month, keep a second
closing of the month out: it would wait at the first `INSERT` and fail, which is
why `InsertSnapshot` requires that no other closing of the month is open.

A journal command reads, under the lock of its row, whether the month is closed
(`Begin`), and writes the row and its entry later (`SyncExpenseEntry`). The check
is made only if the command changes what the entry says, which `MonthOpen`
expresses by comparing `EntryOf` before and after. Payments and settlements insert
one entry and look at no snapshot.

An entry is identified by its source, month and revision; amounts are not needed
to tell whether it is recorded, archived or summed. `raced` does not influence any
action. An entry is added to it only when it is written while its month is being
closed, or when the closing commits between the two halves of the command that
changes it; every other entry must be accounted for.

### 5.2 Run, bounds, fairness

The run `ledger_concurrent` checks this module together with its readers, on
`MCLedgerReports` (section 6).

`LedgerMatchesSources` says that the live and archived entries are those the
sources have written, and that a snapshot's total is the sum of its entries.
Entries in `raced` are exempt, since the code loses them: a payment that commits
between the copy and the delete of a closing is in neither place afterwards
(`billing/repository.go:654`, against `docs/spec/tasks.md:483`). `CountedOnce` has
no exemption: entries may be lost or missing from a total, but they are never
counted twice.

Two months let a closing be seen to leave the other alone; two requests let the
closing of one month overlap with a command, a payment or the other month's
closing; two revisions let an expense be set and changed. No liveness is checked
and no fairness assumed.

### 5.3 Proofs

`LedgerReports_proofs`, for all values of the constants:

* `TypeCorrect`: `Spec => []TypeOK`, which includes that a closing takes only
  entries of its own month.
* `NoDoubleCount`: `Spec => []CountedOnce`. An entry archived and written again
  would be counted twice, so the invariant `IInv` has to exclude that a source
  writes the same entry a second time. `KnownInv` says that every entry, live,
  archived or taken by an open closing, is known to its source: the posting was
  made, or the journal log has reached the entry's revision. `RowLock` says
  that one command holds a journal row, and `RowFresh` that what it is going to
  write is a later revision of it or a deletion. A command that replaces an
  entry therefore writes one that no snapshot can hold.

* `LedgerIsTrue`: `Spec => []LedgerMatchesSources`. The property cannot
  see what an open transaction is about to do, so `LedgerGood` adds it: a closing has
  summed and copied all of its month but what races it (`ClosingFaithful`), and a
  command that has found its month open either leaves its entry as it was, or writes
  before the month is closed, or has its entries in `raced` (`CommandCovered`).

## 6. LedgerReports

### 6.1 State and actions

| TLA+ | Code |
|---|---|
| `now` | the current month on the server's clock |
| `read[r]` | a report being made: its kind, month, the clock it has read, the statements it still has to run (`todo`), the entries it has found for its period (`rows`) and for what it shows beside it (`before`), the months it has read as current (`fresh`) |
| `seek` in `read[r]` | the first statement of a closed month has returned no entries, the second has not run |
| `due`, `missed` in `read[r]` | history: what the ledger owed the reader when the report was asked for, and the months that had no snapshot when their entries were looked for |

`Statements` lists, for each of the five reports, the statements it runs in order:
summaries (finalized months, then the live one), financial (the period), cashflow
(period, then opening balance), operation (opening balance, then period), profit
and loss (period, clock, previous month). They run outside of a transaction, and
any commit of `PropertyLedger` may come between two of them. A month is read live
exactly when it is the clock's current month, and from its snapshot otherwise;
without one the report is "not found".

A month that is not current takes the profit and loss report up to two statements.
`getFinalizedProfitLossPeriod` (`billing/repository.go:2278`) joins the snapshot with
its entries; if that returns no row, it cannot tell an empty snapshot from a missing
one, and looks for the header with another statement (`NoRows`, `Seek`, then
`FindHeader`). A header that is there by then makes the month a closed one without
rows. The other reports select from the snapshot's header with an outer join, or
from its totals, and need one statement.

### 6.2 Run and bounds

| Run | Instance | Checks |
|---|---|---|
| `ledger_concurrent` | 2 months, 1 journal log, 1 posting, 2 revisions, 2 requests, 1 reader | `LedgerMatchesSources`, `CountedOnce`, `ReportsTrue`, `ClosedBalanceFixed` |

`ReportsTrue` joins the type of the readers, which says that no report counts an
entry both in its period and beside it, with three properties. `ReportComplete`: a
finished report shows every entry that was owed when it was asked for and still is.
`ClosedMonthsWhole`: a month it shows as closed is shown with all the entries of its
snapshot, also if it was closed after the request. `ClosedFiguresStayTrue`: what it
took from closed months is not edited afterwards.

Exempt are the entries that raced a closing, entries posted to a month already
closed (`Late`: they are in no report), a current month that was closed while the
report read it, and a month that was closed between the two looks for it. The third
is by schedule: the closing runs at 23:59 on the last day of the month
(`docs/spec/tasks.md:483`), and until midnight the live report then shows zeros and
says that it is not finalized. The fourth is a disagreement with the API's
description, by which the profit and loss export uses finalized snapshots for
historical months (`docs/spec/src/paths/billing/`
`properties_{id}_financial-report_{year}_{month}_profit-loss-export.yaml:8`): when a
month that has ended is closed late, by a retry of the job or by hand, and the
closing commits between the two statements, the report shows the month as finalized
and empty although its snapshot has entries. The exemption is exactly that: `missed`
holds the months that had no snapshot at the first look.

`ClosedBalanceFixed` needs all earlier months to be closed: an unclosed one is
silently missing from the opening balance.

One reader is enough, because readers write nothing; two months are a period and
what precedes it. The occupancy and the log lines of the operation report are not
modelled.

### 6.3 Proofs

`LedgerReports_proofs`: `ReportsImplementLedger` (`ReportSpec => Spec`), by which
`NoDoubleCount` holds under readers as well, and `ClosedBalances`
(`ReportSpec => ClosedBalanceFixed`), and
`ReportsAreTrue` (`ReportSpec => []ReportsTrue`). The invariant follows
each entry that was due when the report was asked for: the report holds it already,
or a statement that covers its month is still to be run (`Covered`), unless one of the
exemptions of `ReportsTrue` applies by then; and what the report holds was read live or
is in the snapshot of a closed month (`Sourced`). For the second look it adds that a
report that seeks a header has found no snapshot of that month, or one without entries
(`Sought`), and that every month it shows as closed is still to be read, was missed, or
is there in full (`Whole`). One lemma per kind of statement and one per commit of the
ledger carry it through the statements of each report.

## 7. SchedulerRuns and LeaseJobs

### 7.1 State and actions

| TLA+ | Code |
|---|---|
| `run[w]` | the row of `scheduler_job_runs` of a job and window: status, `retry_count`; `None` before the first trigger |
| `call[c]` | a trigger request being served: its window, the candidates left, and the one it is in a transaction for |
| `bill[b]` | committed `bills.status`, `overdue_notice_count`, `version` |
| `mailed[w][b]` | history variable: reminders of `b` sent by window `w` |

`Start` inserts the row, or takes a failed one over if retries are left; both
happen under the row's lock and commit before the job begins. A trigger that gets
neither is answered "skipped" and changes nothing. The job lists its candidates in
one statement (`List`) and takes each in a transaction of its own. Its update
compares the version it listed and the status (`Current`); one that no longer
matches is skipped, one that fails is only counted (`SkipItem`), so the only way
for a job to fail is the listing (`ListFails`).

The reminder job raises the notice counter, keeping the row locked, then sends the
mail, then commits: `IncrementOverdueNoticeCount`, `SendOverdueBillReminder`,
`Commit`. `Rollback` stands for every failure between, including that of a mail
that was in fact sent. While the lock is held (`Locked`) no payment and no other
update of the bill can be made. `Crash` ends a call at any point and leaves the
row as it is: the process stops, the client goes away and cancels the request's
context, or the update that completes or fails the row is lost. A row left
`started` is never run again.

`Scans` are windows of the overdue scan, `Reminders` windows of the reminder job.

`LeaseJobs` adds two jobs to the same calls and windows. `work[c]` is what call `c`
has listed and not yet taken.

* *Notices of leases that expire soon.* The job lists the leases and, for each,
  the people assigned to its property, and mails each of them, outside any
  transaction; nothing records that it did. `noticed` is a history variable that
  counts the mails, `missed` one that remembers the leases whose item failed.
  Leases end and people are reassigned while it runs.
* *Compensation of forced terminations.* Each termination that is in progress is
  finished in one transaction, which locks the pending bills it lists, writes
  them off, and completes the termination if all of them were still pending. A
  termination in progress is historical (`schema.sql:617`): today's forced
  termination completes in its own transaction. (`docs/spec/tasks.md:484`, not
  ticked off, has it publish a LeaseTerminated event; the code publishes none.)

### 7.2 Run, bounds, fairness

| Run | Instance | Checks |
|---|---|---|
| `scheduler_windows` | 2 calls, 2 bills, 2 leases, 2 people, 1 forced termination, 1 retry, 1 notice per bill; the windows of a behaviour are one of four sets: a scan and two reminders; a scan, a reminder and a compensation; two compensations; a notice window | `OneCallPerWindow`, `MailedOncePerWindow`, `NoticesDelivered`, `CompletedWhenWrittenOff`, `MailOnlyOverdue`, `PaidStaysPaid`, `CallEnds` |

`NoticesDelivered` says of both kinds of mail that what the rows say was sent: a
notice counted on a bill was mailed, and a completed window has told everybody
about every active lease exactly once, unless the item failed or the person was
reassigned meanwhile.

Two reminder windows can compete for one bill; two calls are two triggers of one
window or of two; one retry distinguishes a window that may be retried from one
that may not, and a window may have failed for good from the start; a limit of one
notice reaches the limit with the second window. The four sets of windows are
those whose jobs write the same rows; they are explored from different initial
states of one run. The code's limits (three notices, a configured number of
retries) are constants, and the theorems hold for all of them.

`Fairness` is weak fairness of what the server does about a call. The job runs
under a deadline, so each statement and each mail returns, with an error if need
be, and the loop goes on to the next candidate. No fairness is assumed for
triggers, payments or crashes. `CallEnds` says that calls which hold the lock of a
bill, or wait for it, all come to an end: a call locks one bill at a time, so no
two of them wait for each other, and a candidate is never put back.

Deadlock is not checked: when every window is used up and every bill paid, the
instance stops.

### 7.3 Proofs

`SchedulerRuns_proofs`, for all values of the constants:

* `WindowsExclusive`: `Spec => []OneCallPerWindow`.
* `MailIdempotent`: `Spec => []MailedOncePerWindow`.
* `NoMailAfterPayment`: `Spec => MailOnlyOverdue`.

`WindowsTyped` and these three follow from one invariant. `CallsGood` says that a call's window is
`started`, which is what keeps a second call out, and that none of the candidates
it has left has been mailed by its window; `FreshWindows` that a window which has
no row, or whose job failed, has mailed nothing: a job fails only before it has
sent anything, and this is why a retry cannot repeat a mail. `LocksGood` says
that the bill a call holds is overdue with a notice left, and locked by it alone.

For the composition: `JobsAreScheduled` (`JobsSpec => Spec`) carries these over;
`LeaseJobsTyped`; `PaymentsStand` (`JobsSpec => PaidStaysPaid`), because every
update of a bill compares what it listed under the row's lock; and
`ForcedWithBills` (`JobsSpec => []CompletedWhenWrittenOff`).

`MailsAreTold` (`JobsSpec => []NoticesDelivered`) has a half for each kind of mail.
For the reminders, the mails of a bill are at least the notices counted on it, and
one more while a call has sent one and not yet committed. For the notices of leases,
of which nothing is on record, `NInv` says what the windows and the calls imply: a
window that may still be run has told nobody (it can only have failed in its
listing), the call that runs it has told everybody but those in its list, and with
an empty list that is everybody.

Only model-checked: `CallEnds` (liveness).

## 8. BillingPeriods and MeterReadings

### 8.1 Definitions, state and actions

`BillingPeriods` has the loops of `domain/lease/billing.go` as recursive functions
on dates. A date is a month, counted from January 2024, and a day; leap years
follow the four-year rule, right until 2099. Rent periods are anchored on the day
of the lease's start, clamped to short months, with a cadence of 1, 3, 6 or 12
months; electricity is monthly on the same anchor or on pairs of calendar months.

`MeterReadings` is one lease: its dates, its bills (`rent`, `power`), the last
reading and who holds which row lock (`call[q]`). A request runs statement by
statement. `RecordMeter` locks its bill and then the lease, and takes the previous
reading from the snapshot that its statement took before it waited for the lease.
The checkout locks the lease and then its bills, and compares its preview's token.
Rent changes rebuild the periods from the next payment date. `DetectDeadlock` is
PostgreSQL ending one of two requests that wait for each other; nothing in the code
retries it. The preview is one step; unit prices and amounts are left out.

### 8.2 Run, bounds, fairness

| Run | Instance | Checks |
|---|---|---|
| `meter_readings` | 121 leases; two requests on one short metered lease | `PeriodsTileLease`, `UsageAccounted`, `SettledAsShown`, `RequestsAnswered` |

120 of the leases are the products of five start days, month ends and a leap day
among them, three ends, four rent cadences and two electricity cadences: their
rents change, which is where the periods are at stake. The meter is read of leases
with at most two electricity bills (`MaxMetered`), here the last one, from 31 January
to 30 March 2024: two requests record its readings, check it out, change its rent and
terminate it at once. Two requests are the two sides of the deadlock and of a stale
reading.

`UsageAccounted` exempts readings recorded out of turn (`mixed`), since the code
has no guard: two that overlap read the same previous reading, an earlier bill may
be read later, and a checkout before the end of a period already read looks up
the reading before it. In each case usage is charged twice. `MeterListsAgree`, part
of it, is about the three meter lists, which select bills by different columns.

`RequestsAnswered` assumes strong fairness of each request's next statement, and
weak fairness of `DetectDeadlock`: PostgreSQL grants a lock to its waiters in turn
and looks for deadlocks after a timeout.

What the
run shows beside its properties: an early checkout needs all later electricity
bills to be metered; the due date of the last bimonthly bill may lie behind the end
of the lease; a lease whose rent is anchored on a day other than the first shares no
boundary with bimonthly electricity and can never be replaced.

### 8.3 Proofs

`MeterReadings_proofs`, for any set of leases with real dates in the right order, of
every start day and cadence, any integers as readings, any days and rents, and any
number of requests: `PeriodsAlwaysTile`, `UsageAlwaysAccounted` and
`AlwaysSettledAsShown`. The assumptions are `LeasesAssumption` (what
`ErrInvalidDateRange` leaves), `ValuesAssumption` (readings are integers, days are
days of the calendar) and `NoneAssumption`. `MaxMetered` only bounds which leases the
meter is read of.

The periods. The loop of the builders ends from every day, because each next start is
in a later month: for each number of months to go there is a function that the
definition describes (`PeriodsExist`), so that the `CHOOSE` behind it picks one. What
it returns is a chain (`PeriodsAreChain`): the first period starts on the given day,
each one starts where the calendar puts it after the one before, and no other fits
behind the last. A chain may be cut before a day and continued with another that
starts there (`ChainSplice`), which is what a rent change does; the next payment date
is such a start, or lies behind the end (`PaymentOnStart`, `NextPaymentIs`). The
starts of an anchored chain are the lease's own boundaries (`ChainOnGrid`), also
after a short month, since each is clamped from the anchor and not from the start
before it. This is what `PeriodsTileLease` needs of `isCompleteBoundaryBill`, which
builds periods from the bill's start and not from the lease's.

The inductive invariant is `IInv`:

- `TypeInv`, with the bills as sequences and, for a bill with a reading, a previous
  one, without which no difference is a number;
- `PeriodsInv`: rent and electricity are chains up to the day the lease was made for,
  which is no longer its end once it was terminated;
- `CallsInv`: one request at most holds the lease's lock; the token a checkout carries
  is of the line it was shown; and what `RecordMeter` has looked up is still the
  previous reading, unless one was recorded since (`stale`). This last part is where
  the wait for the lease's lock comes in: the value is read before it and used after it;
- `StatusInv`: a running lease has nothing written off and no final line, an ended one
  no bill that waits for a reading;
- `UsageInv`: the usage charged is the last reading less the first one, or something
  was recorded out of turn (`mixed`). A recording in turn is of the bill after the
  last metered one, so that it adds one term to the sum, and the sum does not depend
  on the order in which `SumFunction` folds (`SumsExist`, `SumIs`, `SumOfMore`).

`SettledAsShown` is an action property: it follows from `CallsInv` and the checkout's
comparison of tokens. Only model-checked: `RequestsAnswered` (liveness).

## 9. UserAccounts

`users[e]`, `identity[u]` and `claims[u]` are the row, the identity at the provider
and its claims. No transaction spans them: creating a user makes the identity, then
the row, then sends the invitation, and undoes the earlier steps when a later one
fails; editing a role writes the row and then the claims. Every step may fail, lose
its answer, or be the last before a crash. The provider is external and modelled
from its calls. Histories: `lost` (a row's statement got no answer), `stranded`
(identities left by a crash or a failed clean-up), `unsynced` and `asked`,
`overruled` (an edit by somebody who is no administrator any more, or over a row
changed since it was read).

| Run | Instance | Checks |
|---|---|---|
| `account_commands` | 2 people, 2 ids, 1 property, roles admin and owner, 2 requests | `IdentitiesMatchRows`, `RolesAsAsked`, `AdminRemains` |

Two requests are an edit and what overtakes it, or two administrators who
downgrade each other; two ids let an id be given again. The exemptions are real
behaviours: a stranded identity blocks its e-mail address for good, since nothing
looks for it; overlapping edits leave a role nobody asked for, or claims of an older
row; and the middleware's copy of a role lets a former administrator's edit through.
The claims are read by nobody in the backend. No liveness is stated: every step is
part of a user's request, which may die.

`UserAccounts_proofs`, for any people, ids and number of requests: `AccountsTyped`,
`RowsCanSignIn` (half of `IdentitiesMatchRows`: no row that is known to be there
loses its identity), `StoresMatch` (all of it), `RolesHonoured` (`RolesAsAsked`) and
`AnAdministratorRemains`. The invariant behind the second says
what an unfinished creation owns: an identity nobody else is creating, which has no
row before the insert, and none but its own after it (`Owns`). For `StoresMatch` the
provider keeps e-mail addresses apart (`EmailsApart`), so that the row of an identity's
address is its own. For `RolesHonoured` an edit of a name carries the role it has read,
and a pending write of claims carries the row as it is, unless edits overlapped
(`PendingIsCurrent`).

## 10. AttachmentUpload

`token` is the table of upload tokens, `attachments` that of attachments; `url`,
`expired` and `object` are the signed upload URLs and the store behind them
(external), `linked` the signed downloads; `access` is what each user may do, changed
by a commit of `UserAccounts`, and `hosts` the resources that are not deleted. Registering an upload is three steps:
the token is found, the object's metadata are read from the store, then one
transaction deletes the token and inserts the row. `PutObject` and `Expire` are the
client's and the store's.

| Run | Instance | Checks |
|---|---|---|
| `attachment_uploads` | 2 users, 1 resource, 1 token, 2 requests | `TokenSpentOnce`, `RegisteredObjectChecked`, `WithdrawnGetsNothing` |

Two requests are two registrations of one upload, or one against a deletion; the
second user is the one whose access differs. `RegisteredObjectChecked` exempts
objects that were put again after the check, since the URL stays open until it
expires; a download URL, too, stays usable after a deletion. A client whose answer
was lost is told, on its second try, that its token does not exist.

The second part of `RecordEdits_proofs`, for any users, resources, tokens and
requests: the type invariant (`UploadTypes`; a token is bound to its resource) and the
three properties (`SpentOnce`, `ObjectsChecked`, `WithdrawnShutOut`), from one
invariant. It says what a request has established and may still rely on when it
commits: its token was issued, and no other request is about to issue the same one
(`SignedApart`); what it has checked is valid unless it was put again; and the right
it acts on is one its user had while the request was served (`held`).

## 11. RecordEdits

Six kinds of records are edited in four ways: property and tenant compare the
version they have read; the repair request is locked first; FAQ item and brand
profile compare the client's version under a lock; the room compares nothing. A row
has a required and a clearable field. An another edit in between. `RecordEditHistories`
remembers the latest change asked for of each field.

| Run | Instance | Checks |
|---|---|---|
| `record_edits` | 2 values, 2 requests, 3 versions, each kind in turn | `EditsHonoured`, `RemovedStays` |

Two requests are an edit and the one that overtakes it. The property names the
fields that may be set back, `undone`, and only a room has any: of two overlapping
edits the second writes back what it read, and `SetRoomMaintenance` passes only name
and status to an `UPDATE` that writes every column (`set_room_maintenance.go:103`,
`properties/repository.go:477`), so that ordering maintenance erases a room's size,
floor, type, facilities, rent, notes and zone. A refusal says "not found" for
property and tenant and "conflict" for FAQ and profile; the first save of a profile
by two people fails for one of them with an internal error.

`RecordEdits_proofs`, for any values, versions and number of requests, and every kind
of record: `EditsAreHonoured` (`HistorySpec => []EditsHonoured`) and `RemovedIsFinal`.
The invariant, `EditInv`, relates what a request holds to the row (`Knows`): a version
that still matches means that the columns are those it has read, so that what it is
going to write is its own change of them; for a room, which has no version, only the
columns that nobody changed behind it. `InTime` is the converse, for refusals: a
request that no other has overtaken will find its row as it left it.

## 12. PagedLists

A caller of some role walks one of nine lists page by page: leases, checkout reviews,
tenants, bills, journal logs, repair requests, users, rooms of a property, and the
roster. Each page is a count and a select, two statements without a transaction,
and other requests insert, move, remove and rename rows in between.
`PagedListHistories` remembers what stayed in place and what crossed the position.

| Run | Instance | Checks |
|---|---|---|
| `paged_lists` | 3 rows, 2 properties, 3 roles, one row to a page, 1 change | `ListedIsReachable`, `WalkComplete` |

Three rows of one to a page make two page boundaries; the change falls before, at or
after the position, between pages or between a page's count and its rows. `WalkComplete` exempts what an offset cannot do: rows that
leave or move across the position (`shrunk`, `grown`), and pages that end inside rows
the order leaves open (`cut`), which is so for leases, tenants, rooms and bills, whose
order has no id at its end. Deadlock is not checked because a walk ends.

`ListedIsReachable` compares the list's conditions with those of the single read
behind it. Observations: deleting a property leaves its rooms readable one by one,
and turns an empty page of its rooms into "not found".

The second part of `MeterReadings_proofs`, which shares the first one's lemmas about
sets and sums, proves for any number of rows, page size, keys, properties, roles and
commits `WalksAreComplete` (`HistorySpec => []WalkComplete`) and `ListsAreReachable`.
The assumption is `SizesAssumption`: the numbers are naturals, a page has at least
one row, and `Absent` is neither a property nor a row.

A page is rows `Read + 1` to `Read + Limit` of some order that the `ORDER BY` allows.
The place of a row in such an order lies after those surely before it (`Fore`) and
within those that may be (`Upto`; `Placed`): the two differ by one where the order has
an id at its end, and by the ties where it has not. The inductive invariant, `WalkInv`,
compares both with `Read`, the rows read so far: of the rows that stayed, one not yet
shown has at least `Read` rows before it (`SkipInv`), and one that was shown has its
place within `Read` (`TwiceInv`); as long as the list has not changed, the sum of what
was shown is `Read`, and the page's total the size of the list (`CountInv`). A commit
disturbs the first only if a row before the position leaves, and the second only if one
joins there (`ForeStays`, `UptoStays`), which is what `shrunk` and `grown` record; a
page keeps both, unless it ends inside a tie (`cut`, `NoTie`). A page adds as many rows
as the order has between its ends (`PageSize`), and an empty or short page is the last.

## 13. LegacyImport

### 13.1 State and actions

| TLA+ | Code |
|---|---|
| `mapped`, `copies` | the mapping tables (and users made for legacy uids), and how often a row was inserted for each record |
| `active`, `span`, `let`, `ended` | `leases.status` and dates as they are now; the room of each lease of the application; the leases it has ended |
| `status`, `deleted`, `priced` | `rooms.status`; `deleted_at` of rooms and properties; properties with an electricity price |
| `hung`, `rent` | the lease of each imported bill; the rent bills generated for a lease and period |
| `owed` | calls of the subscribers that set a room's status after a commit and have not run |
| `seen` | unlocked reads of a status that some request may still act on |
| `job[j]` | the command in slot `j`: what its transaction is going to write, or that it has committed |
| `reported`, `signed`, `opened` | report files, the result of the last validation, whether the application serves |
| `fresh`, `overlap`, `late` | history: stages that are up to date; rent bills planned by two runs at once; readings imported after the application let their room or ended a lease of it |

*The commands.* Each stage (properties, rooms, tenants, leases, room status, bills,
journal) is a command: it reads (`Begin`), commits (`Import…`), then writes its report
(`WriteReport`), and may fail anywhere (`Fail`). Two may run at once and in any order.
`ValidateMigration` signs the import off and `Cutover` opens the application; stages
may be run again after that. The room-status stage is one step, updates and
verification: an imported active lease is active for both of its updates.

The validation runs its queries one by one without a transaction and is one step
here, taken before the application is opened. Until then commands only add rows, so
that a query sees what an earlier one has seen and possibly more. It is not modelled
on a database that is being served.

*The application*, as far as it meets the import, beside any number of commands and
of its own requests:

* `CreateLease` commits a lease with dates under a lock on the room, and leaves the
  mark of the room to a call in `owed`. `EndLease` stands for termination, checkout
  and forced termination: it takes active and expired leases, imported ones too,
  moves the end date and owes the release. `ExpireLease` is the daily job.
* `MarkRoom` is the subscriber's statement, which looks at no lease; it may come at
  any time or, by `LoseMark`, never.
* Maintenance and deletion read the status of a room, or of a property's rooms,
  without a lock (`ReadRoom`, `ReadOccupiedRooms`) and write later whatever it has
  become. A read stays in `seen`, so any number of requests may act on it. Only the
  deletion of a property compares a version, which `SetUnitPrice` changes.

A replacement is left out: to the import it ends a lease, and the room of an ended
lease is exempt from then on.

`Applicable` chooses the lease of a reading as
`findApplicableLeaseForBillPeriod` does (`bills.go:683`): among all leases of the room
that nobody has deleted, those of the application included, by the dates they have
now.

### 13.2 Run and bounds

| Run | Instance | Checks |
|---|---|---|
| `import_stages` | 1 property, 2 rooms (one record invalid), an expired and a running lease of one room that share a tenant and overlap in the month of a reading, a schedule of the invalid room, 2 tenants, 2 commands at once; the application with one lease of its own and one date to give | `NothingRepeated`, `ImportFaithful`, `RoomsFollowLeases`, `SignOffSound` |

Two rooms make one good record and one bad that another depends on; two commands are a
rerun against the run it overlaps. The application's lease is one that the room must
not be let by, and one that a reading must not be hung on; the date it gives lies in the
month of the reading, after the start of both imported leases.

`MCBounds` keeps the product of commands and requests small. Before the application is
opened there is no bound beyond the instance. Afterwards commands run one at a time.
On rooms opened in order there is one unlocked read at a time, and only the two stages
run that meet the application (properties, rooms, tenants and leases have nothing left
to import there, by `Opening` of section 13.3, and the journal touches no room). On
rooms opened early the application has no leases,
unlocked reads or ends of its own: those say nothing of `RoomsFollowLeases`. The
theorems have none of these bounds.

What the properties exempt, because the code does it:

* `NothingRepeated`: rent bills planned by two overlapping runs of the bills stage
  are generated twice.
* `ImportFaithful`: a reading that is imported after the application has let its room
  or ended a lease of it (`late`). The query then finds the application's lease, or
  no longer finds the imported one, and the bill hangs on the wrong lease or the
  reading is skipped. Readings imported before stay where they are.
* `RoomsFollowLeases`: a room is held for its active imported lease until another
  lease of the room is ended (`Vacated`), and only if the room-status stage was up to
  date at the opening; a validation accepts an old report of it (`opened = "early"`).

`Vacated` disagrees with `docs/design/domain-rule.md:37` (DR-P02, one active lease per
room) and needs neither a race nor a lost call. The export may have an expired lease of
a room next to its running one, and the import takes both. Ending the expired one, a
legal request, marks the room vacant without looking for another lease
(`leases/repository.go:1312`), and the room can be let again. `RoomsFollowLeases` says
that this is the only way. That two leases of the application meet on one room is
`room_double_lease`.

The validation does not look at the completeness of the source.

### 13.3 Proofs

`LegacyImport_proofs`, for any export, number of commands, leases and dates of the
application: `TypeCorrect` and `NeverRepeated` (`Spec => []NothingRepeated`). The
invariant adds what a running command has planned from its reads and may rely on until
it commits (`Plan`): its leases' rooms are mapped, its readings have leases, and a rent
bill it generates is missing unless another run has made it.

`ImportIsFaithful`, `RoomsFollow` and `SignOffMeansSound` prove the other three
properties, from `FaithInv`. What is imported, or is planned to be, is valid and has
its parents in (`Genuine`); tenants, and the leases of one room, are imported together,
because a command reads them in one go; a stage that is up to date has everything it
depends on up to date (`FreshInOrder`); where the application has touched no lease of a
room, the leases there are the export's with the export's dates (`Contracts`), which is
why the query over all leases finds the latest of the export; and a room that was
reconciled with an active imported lease stays occupied (`RoomsKept`): no stale
vacancy of it is in `seen`, and none of the calls still owed vacates it, unless another
lease of it was ended. Rooms opened on a current report have nothing left to import
that could change them (`Opening`).

The export enters through `KindAssumption` (the kinds of records are disjoint) and
`SourceAssumption` (each names a parent of the right kind; of finitely many leases one
starts last); `TenantAssumption` makes tenants numbers, because the primary one is the
smallest, `ApplicationAssumption` keeps the application's lease ids apart from the
export's, and `NoneAssumption` keeps `None` apart from every value.

## 14. What is only documented

Hazards without a property, and behaviours left out of the modules above:

* A reminder whose mail was sent but whose commit failed is not counted, so over
  several windows a bill can be mailed more often than its limit of notices.
* A window whose process died stays `started` and is never run again, and the
  items that failed in a completed window are not retried by it.
* A payment made after its month was closed is posted to that month and stays
  live; and payments, journal logs and the closing derive the month of a moment
  in different ways. Months are abstract in `PropertyLedger`.
* A lease with voided bills, which every rent change leaves behind, can not be
  replaced past them (`replace_lease.go:307`).
* A lease that ends after the notice job has listed it is still announced
  (`batch.go:235`).
* The operation report dates the end of a lease by `updated_at`, which a later
  settlement of the deposit moves (`billing/repository.go:1612`).
* A user with assignments who becomes an owner keeps them, though assigning to an
  owner is refused.
* Expired upload tokens are never deleted (`DeleteExpiredUploadTokens` has no
  caller), and an attachment on a resource deleted meanwhile can be neither listed
  nor deleted.
* Imported repair requests do not put their rooms in maintenance, and the import's
  placeholder users can not be deleted through the API.

## 15. What is not modelled

`PROJECT.json` lists every component with its status. Left out: amounts computed
from unit prices, and rendering of reports, exports, rosters and checkout documents
(arithmetic and layout on rows the models already have); e-mail templates; request
decoding and response mapping, and the generated API types; schema migrations and
development seeds, which run once before the application; start-up, configuration
and logging, which keep no state. Creating a property, room, tenant, user-visible
FAQ item or journal source inserts a row that the modules start from.
